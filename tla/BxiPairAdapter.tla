-------------------------- MODULE BxiPairAdapter --------------------------
(***************************************************************************)
(* BxiPairAdapter (src/bxi_pair_adapter.cpp): the controller that commands *)
(* several G hardware groups at once.  A cycle writes the values of every  *)
(* group, reads them back, and only then writes the groups' generations;   *)
(* a cycle that fails tries to release the groups it has not committed.    *)
(* The hardware is the one of the tests, BxiPairMockSystem                 *)
(* (src/bxi_pair_mock_system.cpp), one for each group.                     *)
(*                                                                         *)
(* controller_manager calls update and write in one thread; between two    *)
(* calls it may deactivate the adapter.  One axis stands for the two or    *)
(* three of a group, whose checks are the same and are joined.  What the   *)
(* checks of a cycle find in a group is a free choice; so is every write   *)
(* of a command interface, which may be refused or not read back.          *)
(***************************************************************************)
EXTENDS Naturals, FiniteSets

CONSTANTS
    GroupCount,       \* group_count_, 1 .. 4
    MaxGeneration,    \* PairCommit::kMaxGeneration, 2^53 - 1 in the code
    DeviationCycles,  \* deviation_cycles of every joint
    RowCapacity       \* rows_.size()

ASSUME GroupAssumption == GroupCount \in Nat \ {0}
ASSUME GenerationAssumption == MaxGeneration \in Nat \ {0}
ASSUME DeviationAssumption == DeviationCycles \in Nat \ {0}
ASSUME CapacityAssumption == RowCapacity \in Nat

VARIABLES
    activatedOnce,  \* activated_once_
    active,         \* active_
    terminal,       \* terminal_
    pc,             \* where update_and_write_commands() is, or "write" when
                    \* the hardware's turn has come
    generation,     \* groups_[h].generation
    seen,           \* seen_reference_
    deviation,      \* deviation_count_
    row,            \* the row of the cycle, final_ after it
    cycle,          \* cycle_
    count,          \* count_
    dropped,        \* dropped_
    csv,            \* what save() has written: rows, and the cycle of the last
    saved,          \* saved_
    slots,          \* commands_ of each group: where its values come from
    commit,         \* generation_ of each group's hardware
    accepted,       \* accepted_ of each group's hardware
    admitted,       \* history: the slots it has last accepted
    claimed,        \* claimed_
    fault,          \* reject_at and write_error_at that have been reached
    result          \* the result of the hardware's last write()

recordVars == <<cycle, count, dropped, csv, saved>>
adapterVars == <<activatedOnce, active, terminal, generation, seen, deviation>>
hardwareVars == <<accepted, admitted, claimed, fault, result>>
vars == <<adapterVars, pc, row, recordVars, slots, commit, hardwareVars>>

Groups == 1 .. GroupCount

\* What a cycle finds in a group.  good: all is well; unset: the reference is
\* NaN; infinite: it is infinite; jump: it is out of bounds, or too far from
\* the last one; deviates: too far from the position; hot: the temperature;
\* lost: a state other than the position is unavailable; displaced: the
\* position is unavailable or out of bounds; unread: accepted_generation is
\* unavailable.
Findings == {"good", "unset", "infinite", "jump", "deviates", "hot", "lost",
             "displaced", "unread"}

Reasons == {"none", "State", "Period", "Accepted", "Reference", "Delta",
            "Deviation", "Temperature", "Write", "Exhausted"}

\* One writer's values in a group's command interfaces.
Batch(kind, g) == [kind |-> kind, g |-> g]
Batches == [kind : {"nan", "boot", "normal", "release"}, g : 0 .. MaxGeneration]

NoRow == [reason |-> "none", good |-> {}, touched |-> {}, missing |-> {},
          displaced |-> {}, returned |-> "OK"]

Init ==
    /\ activatedOnce = FALSE /\ active = FALSE /\ terminal = FALSE
    /\ pc = "update"
    /\ generation = [h \in Groups |-> 0]
    /\ seen = [h \in Groups |-> FALSE]
    /\ deviation = [h \in Groups |-> 0]
    /\ row = NoRow
    /\ cycle = 0 /\ count = 0 /\ dropped = 0
    /\ csv = [rows |-> 0, last |-> 0] /\ saved = FALSE
    /\ slots = [h \in Groups |-> {Batch("nan", 0)}]
    /\ commit = [h \in Groups |-> 0]
    /\ accepted = [h \in Groups |-> 0]
    /\ admitted = [h \in Groups |-> {}]
    /\ claimed = FALSE
    /\ fault = [h \in Groups |-> "none"]
    /\ result = [h \in Groups |-> 0]

---------------------------------------------------------------------------
(* Lifecycle *)

\* on_activate(), once only: bind(), accepted_generation = 0 and the first
\* states are tested; a success is preceded by the mode switch.
Activate ==
    /\ ~activatedOnce /\ pc = "update"
    /\ activatedOnce' = TRUE
    /\ \/ /\ \A h \in Groups : accepted[h] = 0
          /\ active' = TRUE /\ terminal' = FALSE /\ claimed' = TRUE
          /\ seen' = [h \in Groups |-> FALSE]
          /\ deviation' = [h \in Groups |-> 0]
          /\ generation' = [h \in Groups |-> 0]
          /\ cycle' = 0 /\ count' = 0 /\ dropped' = 0 /\ saved' = FALSE
       \/ UNCHANGED <<active, terminal, claimed, seen, deviation, generation,
                      cycle, count, dropped, saved>>
    /\ UNCHANGED <<pc, row, csv, slots, commit, accepted, admitted, fault, result>>

\* on_deactivate() and the hardware's perform_command_mode_switch(): at any
\* time between two calls, and so after an ERROR before or after a write().
Deactivate ==
    /\ active /\ pc \in {"update", "write"}
    /\ terminal' = TRUE /\ active' = FALSE /\ claimed' = FALSE
    /\ UNCHANGED <<activatedOnce, generation, seen, deviation, pc, row, recordVars,
                   slots, commit, accepted, admitted, fault, result>>

\* The final row is written after the recorded ones unless it is one of
\* them; the recorded rows are the first cycles'.
EmitsFinal == count = 0 \/ count # cycle

\* save(), from on_cleanup() or the destructor; a file may fail.
Save ==
    /\ ~active /\ pc = "update" /\ ~saved /\ cycle # 0
    /\ saved' = TRUE
    /\ csv' = IF EmitsFinal THEN [rows |-> count + 1, last |-> cycle]
                            ELSE [rows |-> count, last |-> count]
    /\ UNCHANGED <<adapterVars, pc, row, cycle, count, dropped, slots, commit,
                   hardwareVars>>

---------------------------------------------------------------------------
(* update_and_write_commands() *)

Candidate(h) == generation[h] + 1

\* boot: a group up to h has not committed its first batch.
Boot(h) == \E k \in 1 .. h : generation[k] = 0

\* The groups whose last batch is not the one their hardware has accepted.
Unaccepted(found) ==
    {h \in Groups : found[h] = "unread" \/ accepted[h] # generation[h]}

\* deviation_count_, which stops at the limit; in boot the target is the position.
Deviates(found, h) == found[h] = "deviates" /\ ~Boot(h)
NextDeviation(found, h) ==
    IF ~Deviates(found, h) THEN 0
    ELSE IF deviation[h] < DeviationCycles THEN deviation[h] + 1 ELSE deviation[h]

\* The last reason that the checks of group h assign.
GroupReason(found, h) ==
    CASE found[h] = "hot" -> "Temperature"
      [] NextDeviation(found, h) >= DeviationCycles -> "Deviation"
      [] found[h] = "jump" /\ ~Boot(h) -> "Delta"
      [] found[h] \in {"infinite", "displaced"} -> "Reference"
      [] found[h] = "unset" /\ seen[h] -> "Reference"
      [] OTHER -> IF Candidate(h) > MaxGeneration THEN "Exhausted"
                  ELSE IF h \in Unaccepted(found) THEN "Accepted" ELSE "none"

\* A later group's reason replaces an earlier one's, and that of the period
\* or of a state nobody else tests.
CycleReason(found, periodOk) ==
    LET bad == {h \in Groups : GroupReason(found, h) # "none"}
        last == CHOOSE h \in bad : \A k \in bad : k <= h
    IN IF bad # {} THEN GroupReason(found, last)
       ELSE IF ~periodOk THEN "Period"
       ELSE IF \E h \in Groups : found[h] = "lost" THEN "State"
       ELSE "none"

\* record(): the row is kept while there is room.
Record ==
    IF count < RowCapacity
    THEN count' = count + 1 /\ UNCHANGED dropped
    ELSE dropped' = dropped + 1 /\ UNCHANGED count

Returns(code) == row' = [row EXCEPT !.returned = code]

\* A terminal or inactive adapter does nothing.
UpdateNothing ==
    /\ pc = "update" /\ (terminal \/ ~active)
    /\ pc' = "write"
    /\ UNCHANGED <<adapterVars, row, recordVars, slots, commit, hardwareVars>>

\* The states are read and checked; an exhausted generation ends in silence.
Check ==
    /\ pc = "update" /\ active /\ ~terminal
    /\ \E found \in [Groups -> Findings], periodOk \in BOOLEAN :
          LET reason == CycleReason(found, periodOk)
          IN /\ row' = [reason |-> reason, good |-> {}, touched |-> {},
                        missing |-> Unaccepted(found),
                        displaced |-> {h \in Groups : found[h] = "displaced"},
                        returned |-> "OK"]
             /\ seen' = [h \in Groups |->
                           seen[h] \/ found[h] \notin {"unset", "infinite"}]
             /\ deviation' = [h \in Groups |-> NextDeviation(found, h)]
             /\ cycle' = cycle + 1
             /\ IF reason = "Exhausted"
                THEN terminal' = TRUE /\ Record /\ pc' = "write"
                ELSE /\ pc' = IF reason = "none" THEN "values" ELSE "release"
                     /\ UNCHANGED <<terminal, count, dropped>>
    /\ UNCHANGED <<activatedOnce, active, generation, csv, saved, slots, commit,
                   hardwareVars>>

\* writeValue() on the values of a group: all stored and read back, all stored
\* but not read back, some refused, all refused.
ValueOutcomes == {"ok", "unconfirmed", "partial", "refused"}
Stored(old, new, outcome) ==
    CASE outcome \in {"ok", "unconfirmed"} -> {new}
      [] outcome = "partial" -> old \cup {new}
      [] OTHER -> old

\* Mutant: the first batch carries gains.
KindWithoutBoot(h) == "normal"

\* The first batch has zero gains.
NormalKind(h) == IF generation[h] = 0 THEN "boot" ELSE "normal"

\* Mutant: one good group is enough to go on.
SomeGood(outcome) == \E h \in Groups : outcome[h] = "ok"

\* all: every value of every group was stored and read back.
AllGood(outcome) == \A h \in Groups : outcome[h] = "ok"

\* writeBatch(row, false), the values of every group.
WriteValues ==
    /\ pc = "values"
    /\ \E outcome \in [Groups -> ValueOutcomes] :
          /\ slots' = [h \in Groups |->
                         Stored(slots[h], Batch(NormalKind(h), Candidate(h)), outcome[h])]
          /\ IF AllGood(outcome)
             THEN pc' = "commits" /\ UNCHANGED row
             ELSE pc' = "release" /\ row' = [row EXCEPT !.reason = "Write"]
    /\ UNCHANGED <<adapterVars, recordVars, commit, hardwareVars>>

\* A commit that is refused, or stored and not read back.
CommitOutcomes == {"ok", "unconfirmed", "refused"}
Committed(h, outcome) == IF outcome = "refused" THEN commit[h] ELSE Candidate(h)

\* Mutant: a group counts as touched only when its commit has been read back.
TouchedIfConfirmed(outcome) == {h \in Groups : outcome[h] = "ok"}

\* commit_touched is set before the generation is written.
Touched(outcome) == Groups

\* writeBatch(row, false), the generations; the groups advance together.
WriteCommits ==
    /\ pc = "commits"
    /\ \E outcome \in [Groups -> CommitOutcomes] :
          /\ commit' = [h \in Groups |-> Committed(h, outcome[h])]
          /\ IF \A h \in Groups : outcome[h] = "ok"
             THEN /\ generation' = [h \in Groups |-> Candidate(h)]
                  /\ row' = [row EXCEPT !.touched = Touched(outcome)]
                  /\ Record /\ pc' = "write"
             ELSE /\ row' = [row EXCEPT !.touched = Touched(outcome),
                                        !.reason = "Write"]
                  /\ pc' = "release"
                  /\ UNCHANGED <<generation, count, dropped>>
    /\ UNCHANGED <<activatedOnce, active, terminal, seen, deviation, cycle, csv, saved,
                   slots, hardwareVars>>

\* The groups that a failed cycle may release.
Releasable ==
    {h \in Groups : h \notin row.touched \cup row.missing \cup row.displaced
                    /\ Candidate(h) <= MaxGeneration}

\* writeBatch(row, true), the values, under the same generation.
ReleaseValues ==
    /\ pc = "release"
    /\ terminal' = TRUE
    /\ \E outcome \in [Groups -> ValueOutcomes] :
          /\ slots' = [h \in Groups |->
                         IF h \in Releasable
                         THEN Stored(slots[h], Batch("release", Candidate(h)), outcome[h])
                         ELSE slots[h]]
          /\ row' = [row EXCEPT !.good = {h \in Releasable : outcome[h] = "ok"},
                                !.missing = Groups \ Releasable]
    /\ pc' = "releaseCommits"
    /\ UNCHANGED <<activatedOnce, active, generation, seen, deviation, recordVars, commit,
                   hardwareVars>>

\* writeBatch(row, true), the generations; the cycle returns ERROR.
ReleaseCommits ==
    /\ pc = "releaseCommits"
    /\ \E outcome \in [Groups -> CommitOutcomes] :
          commit' = [h \in Groups |-> IF h \in row.good
                                      THEN Committed(h, outcome[h]) ELSE commit[h]]
    /\ Returns("ERROR") /\ Record
    /\ pc' = "write"
    /\ UNCHANGED <<adapterVars, cycle, csv, saved, slots, hardwareVars>>

---------------------------------------------------------------------------
(* BxiPairMockSystem::write() *)

\* Values are finite and within bounds; the first batch has to be zero.
Acceptable(h) ==
    /\ \A b \in slots[h] : b.kind # "nan"
    /\ accepted[h] = 0 => \A b \in slots[h] : b.kind \in {"boot", "release"}

\* write() of group h's hardware, after the faults that begin with it.
WriteResult(h, f) ==
    IF f = "error" THEN 3
    ELSE IF ~claimed \/ commit[h] = accepted[h] THEN 0
    ELSE IF f = "reject" THEN 2
    ELSE IF commit[h] # accepted[h] + 1 THEN 4
    ELSE IF ~Acceptable(h) THEN 5
    ELSE 1

HardwareWrite ==
    /\ pc = "write" /\ pc' = "update"
    /\ \E f \in [Groups -> {"none", "reject", "error"}] :
          /\ \A h \in Groups : fault[h] # "none" => f[h] \in {fault[h], "error"}
          /\ fault' = f
          /\ result' = [h \in Groups |-> WriteResult(h, f[h])]
          /\ accepted' = [h \in Groups |->
                            IF WriteResult(h, f[h]) = 1 THEN commit[h] ELSE accepted[h]]
          /\ admitted' = [h \in Groups |->
                            IF WriteResult(h, f[h]) = 1 THEN slots[h] ELSE admitted[h]]
    /\ UNCHANGED <<adapterVars, row, recordVars, slots, commit, claimed>>

Next ==
    \/ Activate \/ Deactivate \/ Save
    \/ UpdateNothing \/ Check \/ WriteValues \/ WriteCommits
    \/ ReleaseValues \/ ReleaseCommits
    \/ HardwareWrite

Spec == Init /\ [][Next]_vars

---------------------------------------------------------------------------
(* Properties *)

FlagsOK ==
    /\ activatedOnce \in BOOLEAN /\ active \in BOOLEAN /\ terminal \in BOOLEAN
    /\ claimed \in BOOLEAN /\ saved \in BOOLEAN
    /\ pc \in {"update", "values", "commits", "release", "releaseCommits", "write"}

CountsOK ==
    /\ seen \in [Groups -> BOOLEAN]
    /\ deviation \in [Groups -> 0 .. DeviationCycles]
    /\ cycle \in Nat /\ count \in 0 .. RowCapacity /\ dropped \in Nat
    /\ csv \in [rows : Nat, last : Nat]

RowOK ==
    row \in [reason : Reasons, good : SUBSET Groups, touched : SUBSET Groups,
             missing : SUBSET Groups, displaced : SUBSET Groups,
             returned : {"OK", "ERROR"}]

SlotsOK ==
    /\ generation \in [Groups -> 0 .. MaxGeneration]
    /\ commit \in [Groups -> 0 .. MaxGeneration]
    /\ accepted \in [Groups -> 0 .. MaxGeneration]
    /\ slots \in [Groups -> SUBSET Batches]
    /\ admitted \in [Groups -> SUBSET Batches]

HardwareOK ==
    /\ fault \in [Groups -> {"none", "reject", "error"}]
    /\ result \in [Groups -> 0 .. 5]

\* Every variable has its type; no generation passes MaxGeneration, although
\* a failed cycle commits one more than the last good one.
TypeOK == FlagsOK /\ CountsOK /\ RowOK /\ SlotsOK /\ HardwareOK

\* What a group's hardware admits was written by one batch, the one whose
\* generation it carries: no normal batch mixed with a release, although a
\* failed cycle writes both under the same generation (writeBatch()).
AdmittedWhole ==
    \A h \in Groups :
        accepted[h] # 0 => \E kind \in {"boot", "normal", "release"} :
                              admitted[h] = {Batch(kind, accepted[h])}

\* No group's hardware runs a batch with gains before the values of every
\* other group have been written for that generation (writeBatch() commits
\* no group unless all groups are good).
PreparedBeforeCommit ==
    \A h, k \in Groups :
        \A a \in admitted[h], b \in slots[k] : a.kind = "normal" => b.g >= a.g

\* A group with gains is at most one generation ahead of any other, whatever
\* write fails and whatever hardware stops accepting; only a release goes
\* further.
GainsOneAhead ==
    \A h, k \in Groups :
        \A a \in admitted[h] : a.kind = "normal" => accepted[h] <= accepted[k] + 1

\* What a group's values are to PairCommit::inspect(), which the hardware of
\* the robot calls where the mock has tests of its own.
BatchClass(h) ==
    IF \E b \in slots[h] : b.kind = "nan" THEN "invalid"
    ELSE IF \A b \in slots[h] : b.kind \in {"boot", "release"} THEN "released"
    ELSE "active"
Admission(h) == INSTANCE PairCommit WITH last <- accepted[h], latched <- FALSE,
                                         expired <- FALSE

\* The adapter never makes the hardware report a wrong generation or a wrong
\* batch (results 4 and 5 of the mock's write()), and never leaves behind
\* what would latch PairCommit's inspect() in the robot's hardware.
NeverRefused ==
    \A h \in Groups :
        /\ result[h] \notin {4, 5}
        /\ ~Admission(h)!InspectLatches(commit[h], BatchClass(h), FALSE)

\* The record that save() writes ends with the last cycle, and the cycles it
\* lacks have been counted as dropped.
SavedEndsWithLastCycle ==
    saved => csv.last = cycle /\ csv.rows + dropped \in {cycle, cycle + 1}

\* The test hardware admits the batches of each group as the robot's does,
\* but that it never latches.
KindAdmitted(h) ==
    IF admitted[h] = {} THEN "none"
    ELSE IF \A b \in admitted[h] : b.kind \in {"boot", "release"} THEN "released"
    ELSE "active"
GroupHardware(h) ==
    INSTANCE GroupAdmission
    WITH generation <- accepted[h], kind <- KindAdmitted(h), latched <- FALSE
ImplementsAdmission ==
    /\ \A h \in Groups : GroupHardware(h)!Init
    /\ [][\A h \in Groups : [GroupHardware(h)!Next]_<<accepted[h], KindAdmitted(h)>>]_vars
===========================================================================
