-------------------------- MODULE NAxisTrajectory --------------------------
(***************************************************************************)
(* NAxisTrajectoryController (src/n_axis_trajectory_controller.cpp): one   *)
(* run of a fixed trajectory on a G hardware group.  The real-time update()*)
(* is cut where it meets what the node's callbacks share; the callbacks    *)
(* (~/start, ~/finish, ~/stop, ~/keepalive, the status timer) are in one   *)
(* mutually exclusive group and interleave with it.  After each update()   *)
(* comes the hardware's writePair() with its PairCommit, in the same       *)
(* thread.                                                                 *)
(*                                                                         *)
(* A cycle writes its values, reads them back and then writes the          *)
(* generation; it keeps the generation (holds) while the last one has not  *)
(* been seen accepted.  A cycle that fails writes a release under the same *)
(* generation, once.  Times are ages in ticks, counted up to their limits; *)
(* ticks pass between two cycles.  What the checks of a cycle find, and    *)
(* every write of a command interface, is a free choice.                   *)
(***************************************************************************)
EXTENDS PairCommit

CONSTANTS
    Lease,        \* kLeaseNs
    ArmTimeout,   \* kArmNs
    Duration,     \* sine_->duration(), in cycles
    Hold,         \* run_.hold, in cycles
    RowCapacity   \* rows_.size()

ASSUME TimesAssumption ==
    /\ Lease \in Nat \ {0} /\ ArmTimeout \in Nat \ {0}
    /\ Duration \in Nat \ {0} /\ Hold \in Nat
ASSUME CapacityAssumption == RowCapacity \in Nat

VARIABLES
    activatedOnce,   \* activated_once_
    active,          \* active_
    terminal,        \* terminal_
    pc,              \* where the real-time thread is
    state,           \* state_
    publishedState,  \* published_state_
    generation,      \* generation_
    cycle,           \* the row: candidate, held, material_missing, and how its
                     \* release went
    armedAge,        \* age of armed_ns_
    heartAge,        \* age of heart_.sent_ns, Lease when expired or none
    elapsed,         \* elapsed_, in cycles
    rows,            \* row_count_
    dropped,         \* dropped_
    complete,        \* complete_
    release,         \* the request's release option
    busy,            \* busy_
    requested,       \* requests_ holds the request
    heart,           \* age of the heartbeat in hearts_, Lease when none
    stop,            \* stop_
    finish,          \* finish_
    saved,           \* record_state_, and the rows that saveRecord() has written
    wire,            \* age of the heartbeat under way to the node, Lease when none
    beat,            \* history: age of the sender's last heartbeat
    slots,           \* the command interfaces: where their values come from
    commit,          \* the commit_generation interface
    admitted,        \* history: the slots that the hardware has last published
    claimed,         \* pair_claimed_
    feedbackStopped, \* pair_safety_.feedback_stopped
    publishFailed    \* history: a publication has failed

rtVars == <<state, publishedState, generation, cycle, armedAge, heartAge, elapsed,
            rows, dropped, complete>>
lifecycleVars == <<activatedOnce, active>>
nodeVars == <<release, busy, requested, heart, stop, finish, saved>>
senderVars == <<wire, beat>>
interfaceVars == <<slots, commit>>
hwVars == <<commitVars, admitted, claimed, feedbackStopped, publishFailed>>
vars == <<lifecycleVars, terminal, pc, rtVars, nodeVars, senderVars, interfaceVars,
          hwVars>>

States == {"kBoot", "kIdle", "kArmed", "kRunning", "kHolding", "kReleased",
           "kStopped", "kAborted"}
Moves(s) == s \in {"kRunning", "kHolding"}

\* What a cycle finds.  good: all is well; lost: a state other than a position
\* is unavailable; blind: a position is; late: the period is implausible;
\* beyond: a position is over state_limit_; outside: it is out of its joint's
\* bounds; astray: both; far: out of the start range; steep: the trajectory's
\* point or its torque is over a limit.
Findings == {"good", "lost", "blind", "late", "beyond", "outside", "astray", "far",
             "steep"}

Values(kind, g) == [kind |-> kind, g |-> g]
SlotValues == [kind : {"nan", "released", "gains"}, g : 0 .. MaxGeneration]

NoCycle == [candidate |-> 0, held |-> FALSE, missing |-> FALSE, released |-> "none"]

Init ==
    /\ CommitInit
    /\ activatedOnce = FALSE /\ active = FALSE /\ terminal = FALSE
    /\ pc = "update" /\ state = "kBoot" /\ publishedState = "kBoot"
    /\ generation = 0 /\ cycle = NoCycle
    /\ armedAge = 0 /\ heartAge = Lease /\ elapsed = 0
    /\ rows = 0 /\ dropped = 0 /\ complete = FALSE
    /\ release = FALSE /\ busy = FALSE /\ requested = FALSE /\ heart = Lease
    /\ stop = FALSE /\ finish = FALSE
    /\ saved = [state |-> "unsaved", rows |-> 0]
    /\ wire = Lease /\ beat = Lease
    /\ slots = {Values("nan", 0)} /\ commit = 0 /\ admitted = {}
    /\ claimed = FALSE /\ feedbackStopped = FALSE /\ publishFailed = FALSE

---------------------------------------------------------------------------
(* Lifecycle, between two cycles *)

\* on_activate(), once; accepted_generation has to be 0.
Activate ==
    /\ ~activatedOnce /\ pc = "update"
    /\ activatedOnce' = TRUE
    /\ \/ /\ last = 0
          /\ active' = TRUE /\ claimed' = TRUE
          /\ state' = "kBoot" /\ publishedState' = "kBoot"
          /\ UNCHANGED terminal
       \/ /\ terminal' = TRUE
          /\ UNCHANGED <<active, claimed, state, publishedState>>
    /\ UNCHANGED <<pc, generation, cycle, armedAge, heartAge, elapsed, rows, dropped,
                   complete, nodeVars, senderVars, interfaceVars, commitVars, admitted,
                   feedbackStopped, publishFailed>>

\* on_deactivate() and the hardware's command mode switch, which after an
\* ERROR may come before or after the cycle's write().
Deactivate ==
    /\ active /\ pc \in {"update", "write"}
    /\ terminal' = TRUE /\ active' = FALSE /\ complete' = TRUE
    /\ claimed' = FALSE /\ latched' = TRUE
    /\ UNCHANGED <<activatedOnce, pc, state, publishedState, generation, cycle, armedAge,
                   heartAge, elapsed, rows, dropped, nodeVars, senderVars, interfaceVars,
                   last, expired, admitted, feedbackStopped, publishFailed>>

---------------------------------------------------------------------------
(* The node's callbacks *)

\* The run is not over.  What is sent to the node later is never read.
Live == active /\ state \notin {"kReleased", "kStopped", "kAborted"}

\* requestStart(), with or without release.
RequestStart ==
    /\ active /\ ~terminal /\ ~busy /\ publishedState = "kIdle"
    /\ release' \in BOOLEAN
    /\ busy' = TRUE /\ requested' = TRUE
    /\ UNCHANGED <<lifecycleVars, terminal, pc, rtVars, heart, stop, finish, saved,
                   senderVars, interfaceVars, hwVars>>

\* The sender's next heartbeat replaces one that is still under way.
SendBeat ==
    /\ busy /\ Live
    /\ wire' = 0 /\ beat' = 0
    /\ UNCHANGED <<lifecycleVars, terminal, pc, rtVars, nodeVars, interfaceVars, hwVars>>

\* Mutant: a heartbeat counts from its receipt.
AgeOfReceipt == 0

\* The age a heartbeat has when it arrives: by the sender's time.
AgeOnArrival == wire

\* keepalive()
Keepalive ==
    /\ active /\ ~terminal /\ busy
    /\ wire < Lease
    /\ heart' = AgeOnArrival
    /\ wire' = Lease
    /\ UNCHANGED <<lifecycleVars, terminal, pc, rtVars, release, busy, requested, stop,
                   finish, saved, beat, interfaceVars, hwVars>>

RequestFinish ==
    /\ active /\ ~terminal /\ publishedState = "kHolding"
    /\ finish' = TRUE
    /\ UNCHANGED <<lifecycleVars, terminal, pc, rtVars, release, busy, requested, heart,
                   stop, saved, senderVars, interfaceVars, hwVars>>

\* requestStop(), also of a run that has been released.
RequestStop ==
    /\ active /\ state # "kAborted"
    /\ stop' = TRUE
    /\ UNCHANGED <<lifecycleVars, terminal, pc, rtVars, release, busy, requested, heart,
                   finish, saved, senderVars, interfaceVars, hwVars>>

\* Mutant: the record is saved as soon as the controller is terminal.
ReadyToSaveIfTerminal == terminal

\* recordComplete()
ReadyToSave == complete

\* publishRosStatus() saves a complete record once; saveRecord() succeeds if
\* the file is good, nothing was dropped and there is a row.
SaveRecord ==
    /\ ReadyToSave /\ saved.state = "unsaved"
    /\ \/ /\ dropped = 0 /\ rows # 0
          /\ saved' = [state |-> "saved", rows |-> rows]
          /\ UNCHANGED terminal
       \/ saved' = [state |-> "failed", rows |-> rows] /\ terminal' = TRUE
    /\ UNCHANGED <<lifecycleVars, pc, rtVars, release, busy, requested, heart, stop,
                   finish, senderVars, interfaceVars, hwVars>>

---------------------------------------------------------------------------
(* update() *)

HasRoom == rows < RowCapacity

\* append(): the row is kept while there is room; an aborted run's record is
\* complete.
Append(s) ==
    /\ IF HasRoom THEN rows' = rows + 1 /\ UNCHANGED dropped
                  ELSE dropped' = dropped + 1 /\ UNCHANGED rows
    /\ publishedState' = s
    /\ complete' = (complete \/ s = "kAborted")

UpdateNothing ==
    /\ pc = "update" /\ (state = "kAborted" \/ ~active)
    /\ pc' = "write"
    /\ UNCHANGED <<lifecycleVars, terminal, rtVars, nodeVars, senderVars, interfaceVars,
                   hwVars>>

\* mayAdvance(): the last generation has been seen accepted.
MayAdvance(read) == read /\ last = generation

Candidate(read) ==
    IF generation = 0 THEN 1 ELSE IF MayAdvance(read) THEN generation + 1 ELSE generation

\* tryRead() fails while a callback publishes: seen says what the cycle can
\* read, and whether the request was received after the cycle had begun.
\* Such a request is refused with an abort; any other arms an idle controller.
Sights == SUBSET {"request", "midCycle", "heartbeat"}
TakesRequest(seen) == state = "kIdle" /\ requested /\ "request" \in seen
Arms(seen) == TakesRequest(seen) /\ "midCycle" \notin seen
StateArmed(seen) ==
    IF Arms(seen) THEN "kArmed" ELSE IF TakesRequest(seen) THEN "kAborted" ELSE state

\* Only a heartbeat of the run counts, and none before the run is known.
HeartRead(seen) ==
    IF "heartbeat" \in seen /\ heart < heartAge /\ StateArmed(seen) \notin {"kBoot", "kIdle"}
    THEN heart ELSE heartAge
Expired(age) == age >= Lease

Elapsed == IF Moves(state) /\ elapsed < Duration + Hold THEN elapsed + 1 ELSE elapsed

\* The state, or the reason of an abort, that an armed controller goes to.
FromArmed(found, seen) ==
    IF ~Expired(HeartRead(seen))
    THEN IF found \in {"far", "outside"} THEN "kStartRange" ELSE "kRunning"
    ELSE IF ~Arms(seen) /\ armedAge >= ArmTimeout THEN "kArmTimeout" ELSE "kArmed"

FromMoving(s, time, seen) ==
    IF Expired(HeartRead(seen)) THEN "kLease"
    ELSE IF s = "kHolding" /\ finish THEN "kReleased"
    ELSE IF time >= Duration + Hold /\ release THEN "kReleased"
    ELSE IF time >= Duration THEN "kHolding"
    ELSE s

\* The state the cycle's inputs lead to.
Progress(found, seen) ==
    IF stop THEN "kStopped"
    ELSE IF state = "kBoot" THEN "kBoot"
    ELSE LET s == IF StateArmed(seen) = "kArmed" THEN FromArmed(found, seen) ELSE state
         IN IF StateArmed(seen) = "kAborted" THEN "kTrajectory"
            ELSE IF Moves(s) THEN FromMoving(s, IF Moves(state) THEN Elapsed ELSE 0, seen)
            ELSE s

\* The checks of the values that the state calls for.
Protected(found, seen) ==
    LET s == Progress(found, seen)
    IN IF Moves(s) /\ found = "steep" THEN "kTorque"
       ELSE IF ~Moves(s) /\ s \in States /\ found = "outside" THEN "kState"
       ELSE s

\* The state after the first half of a cycle, or the reason of its abort.
Outcome(found, seen) ==
    IF ~HasRoom THEN "kCapacity"
    ELSE IF found \in {"lost", "blind"} THEN "kState"
    ELSE IF found = "late" THEN "kPeriod"
    ELSE IF found \in {"beyond", "astray"} THEN "kState"
    ELSE Protected(found, seen)

\* Capacity, states and period come before the generation's limit, which ends
\* the run without an ERROR.
UpperLimitReached(found, read) ==
    /\ HasRoom /\ found \notin {"lost", "blind", "late"}
    /\ Candidate(read) > MaxGeneration

\* The cycle comes to the request and the heartbeat.
Reads(found) ==
    /\ HasRoom /\ found \notin {"lost", "blind", "late", "beyond", "astray"}
    /\ ~stop /\ state # "kBoot"

Missing(found) == found \in {"blind", "outside", "astray"}

Decide ==
    /\ pc = "update" /\ active /\ state # "kAborted"
    /\ \E found \in Findings, read \in BOOLEAN, seen \in Sights :
          /\ cycle' = [candidate |-> Candidate(read),
                       held |-> generation # 0 /\ ~MayAdvance(read),
                       missing |-> Missing(found), released |-> "none"]
          /\ IF UpperLimitReached(found, read)
             THEN /\ terminal' = TRUE /\ Append(state) /\ pc' = "write"
                  /\ UNCHANGED <<state, armedAge, heartAge, elapsed>>
             ELSE LET to == Outcome(found, seen)
                  IN /\ state' = IF to \in States THEN to ELSE "kAborted"
                     /\ pc' = IF to \in States THEN "attempt" ELSE "abort"
                     /\ terminal' = (terminal \/ to \notin {"kBoot", "kIdle", "kArmed",
                                                            "kRunning", "kHolding"})
                     /\ armedAge' = IF Reads(found) /\ Arms(seen) THEN 0 ELSE armedAge
                     /\ heartAge' = IF Reads(found) THEN HeartRead(seen) ELSE heartAge
                     /\ elapsed' = IF Reads(found) THEN Elapsed ELSE elapsed
                     /\ UNCHANGED <<publishedState, rows, dropped, complete>>
    /\ UNCHANGED <<lifecycleVars, generation, nodeVars, senderVars, interfaceVars, hwVars>>

\* attempt(), the values: all stored and read back, all stored but not read
\* back, some refused, all refused.
ValueOutcomes == {"ok", "unconfirmed", "partial", "refused"}
Stored(new, outcome) ==
    CASE outcome \in {"ok", "unconfirmed"} -> {new}
      [] outcome = "partial" -> slots \cup {new}
      [] OTHER -> slots

\* attempt(), the generation, when every value was good.
CommitOutcomes == {"ok", "unconfirmed", "refused"}

\* Mutant: the generation is written even when a value was not.
CommitsAnyway(values, outcome) == outcome # "refused"

Commits(values, outcome) == values = "ok" /\ outcome # "refused"

WriteAttempt(kind, g, values, outcome) ==
    /\ slots' = Stored(Values(kind, g), values)
    /\ commit' = IF Commits(values, outcome) THEN g ELSE commit

\* The cycle's own batch; a failure aborts.
Attempt ==
    /\ pc = "attempt"
    /\ \E values \in ValueOutcomes, outcome \in CommitOutcomes :
          /\ WriteAttempt(IF Moves(state) THEN "gains" ELSE "released", cycle.candidate,
                          values, outcome)
          /\ IF values = "ok" /\ outcome = "ok"
             THEN LET s == IF state = "kBoot" THEN "kIdle" ELSE state
                  IN /\ generation' = cycle.candidate
                     /\ state' = s /\ Append(s) /\ pc' = "write"
                     /\ UNCHANGED terminal
             ELSE /\ state' = "kAborted" /\ terminal' = TRUE /\ pc' = "abort"
                  /\ UNCHANGED <<generation, publishedState, rows, dropped, complete>>
    /\ UNCHANGED <<lifecycleVars, cycle, armedAge, heartAge, elapsed, nodeVars, senderVars,
                   hwVars>>

\* Mutant: a release needs no measured position.
ReleasesBlindly == cycle.candidate <= MaxGeneration

\* A release needs every position, and a generation.
Releases == ~cycle.missing /\ cycle.candidate <= MaxGeneration

\* released[] holds the measured positions.
ReleasedKind == IF cycle.missing THEN "nan" ELSE "released"

\* Mutant: the release repeats the last generation.
ReleaseLastGeneration == generation

ReleaseGeneration == cycle.candidate

\* The one release of an aborted cycle, which returns ERROR.
AbortRelease ==
    /\ pc = "abort" /\ pc' = "write"
    /\ IF Releases
       THEN \E values \in ValueOutcomes, outcome \in CommitOutcomes :
               /\ WriteAttempt(ReleasedKind, ReleaseGeneration, values, outcome)
               /\ cycle' = [cycle EXCEPT !.released =
                              IF values = "ok" /\ outcome # "refused" THEN "written"
                              ELSE "failed"]
       ELSE UNCHANGED <<slots, commit, cycle>>
    /\ Append("kAborted")
    /\ UNCHANGED <<lifecycleVars, terminal, state, generation, armedAge, heartAge, elapsed,
                   nodeVars, senderVars, hwVars>>

---------------------------------------------------------------------------
(* The hardware and the clock *)

SlotClass ==
    IF \E v \in slots : v.kind = "nan" THEN "invalid"
    ELSE IF \A v \in slots : v.kind = "released" THEN "released" ELSE "active"

\* writePair(): admission, accept() and the publication.
HardwareWrite ==
    /\ pc = "write" /\ pc' = "update"
    /\ \E late, published \in BOOLEAN :
          LET inspected == claimed /\ ~feedbackStopped
              accepts == inspected /\ Inspect(commit, SlotClass, late) = "Accepted"
          IN /\ last' = IF accepts THEN commit ELSE last
             /\ expired' = IF inspected THEN ExpiresNow(late) ELSE expired
             /\ latched' = \/ latched
                           \/ inspected /\ InspectLatches(commit, SlotClass, late)
                           \/ accepts /\ ~published
             /\ admitted' = IF accepts /\ published THEN slots ELSE admitted
             /\ publishFailed' = (publishFailed \/ (accepts /\ ~published))
    /\ UNCHANGED <<lifecycleVars, terminal, rtVars, nodeVars, senderVars, interfaceVars,
                   claimed, feedbackStopped>>

\* The send thread stops the group when its feedback is stale.
FeedbackStops ==
    /\ claimed /\ ~feedbackStopped /\ pc = "update"
    /\ feedbackStopped' = TRUE
    /\ UNCHANGED <<lifecycleVars, terminal, pc, rtVars, nodeVars, senderVars,
                   interfaceVars, commitVars, admitted, claimed, publishFailed>>

Older(age, limit) == IF age < limit THEN age + 1 ELSE age

Tick ==
    /\ pc = "update" /\ Live
    /\ armedAge' = IF state = "kArmed" THEN Older(armedAge, ArmTimeout) ELSE 0
    /\ heartAge' = Older(heartAge, Lease) /\ heart' = Older(heart, Lease)
    /\ wire' = Older(wire, Lease) /\ beat' = Older(beat, Lease)
    /\ UNCHANGED <<lifecycleVars, terminal, pc, state, publishedState, generation, cycle,
                   elapsed, rows, dropped, complete, release, busy, requested, stop, finish,
                   saved, interfaceVars, hwVars>>

Next ==
    \/ Activate \/ Deactivate
    \/ RequestStart \/ SendBeat \/ Keepalive \/ RequestFinish \/ RequestStop
    \/ SaveRecord
    \/ UpdateNothing \/ Decide \/ Attempt \/ AbortRelease
    \/ HardwareWrite \/ FeedbackStops \/ Tick

Spec == Init /\ [][Next]_vars

---------------------------------------------------------------------------
(* Properties *)

FlagsOK ==
    /\ activatedOnce \in BOOLEAN /\ active \in BOOLEAN /\ terminal \in BOOLEAN
    /\ complete \in BOOLEAN /\ release \in BOOLEAN /\ busy \in BOOLEAN
    /\ requested \in BOOLEAN /\ stop \in BOOLEAN /\ finish \in BOOLEAN
    /\ latched \in BOOLEAN /\ expired \in BOOLEAN /\ claimed \in BOOLEAN
    /\ feedbackStopped \in BOOLEAN /\ publishFailed \in BOOLEAN

ControlOK ==
    /\ pc \in {"update", "attempt", "abort", "write"}
    /\ state \in States /\ publishedState \in States
    /\ generation \in 0 .. MaxGeneration
    /\ cycle \in [candidate : 0 .. MaxGeneration + 1, held : BOOLEAN, missing : BOOLEAN,
                  released : {"none", "written", "failed"}]
    /\ elapsed \in 0 .. Duration + Hold

AgesOK ==
    /\ armedAge \in 0 .. ArmTimeout
    /\ heartAge \in 0 .. Lease /\ heart \in 0 .. Lease
    /\ wire \in 0 .. Lease /\ beat \in 0 .. Lease

RecordOK ==
    /\ rows \in 0 .. RowCapacity /\ dropped \in Nat
    /\ saved \in [state : {"unsaved", "saved", "failed"}, rows : 0 .. RowCapacity]

HardwareOK ==
    /\ slots \in SUBSET SlotValues /\ commit \in 0 .. MaxGeneration
    /\ admitted \in SUBSET SlotValues /\ last \in 0 .. MaxGeneration

\* Every variable has its type: no row is written beyond the record's capacity
\* and no generation beyond its limit.
TypeOK == FlagsOK /\ ControlOK /\ AgesOK /\ RecordOK /\ HardwareOK

\* The hardware runs what one batch has written.  Only a cycle whose commit
\* could not be read back and whose release was then refused in part leaves a
\* mixture under a committed generation (attempt() after attempt()).
TornNeedsFailedRelease ==
    (\E v, w \in admitted : v # w) => cycle.released = "failed"

\* A release that an aborted cycle has written reaches the motors if the
\* hardware is still listening, unless the cycle held a generation that the
\* hardware had already accepted: then inspect() finds it unchanged and the
\* last gains stay until the mode switch.
AbortReleases ==
    ( /\ state = "kAborted" /\ pc = "update" /\ cycle.released = "written"
      /\ claimed /\ ~feedbackStopped /\ ~latched )
        => \/ \A v \in admitted : v.kind = "released"
           \/ cycle.held /\ last = cycle.candidate

\* The controller never writes what inspect() refuses as misuse: no unusable
\* generation, rollback or gap, no invalid batch, and gains only on an
\* unlatched group; the exception is a group that a failed publication has
\* latched without the controller's knowledge.
AdmissionRespected ==
    pc = "write" /\ claimed /\ ~feedbackStopped /\ ~expired =>
        LET reason == Inspect(commit, SlotClass, FALSE)
        IN /\ reason \notin {"InvalidGeneration", "Rollback", "Gap", "InvalidBatch"}
           /\ reason = "LatchedNonzero" => publishFailed

\* Gains are only written while the sender's last heartbeat is younger than
\* the lease, by the sender's own time, whatever the node and the snapshot
\* delay ("never refreshes by receipt time").
GainsNeedLease ==
    pc = "attempt" /\ Moves(state) => beat < Lease

\* A record reported as saved has every row of the run, although the timer
\* saves it beside the real-time thread.
SavedRecordIsWhole ==
    saved.state = "saved" => complete /\ saved.rows = rows /\ dropped = 0

\* The hardware that the controller commands admits its batches as the
\* robot's does (writePair() in one step).
Admission ==
    INSTANCE GroupAdmission
    WITH generation <- last,
         kind <- IF admitted = {} THEN "none"
                 ELSE IF \A v \in admitted : v.kind = "released" THEN "released"
                 ELSE "active"
ImplementsAdmission == Admission!Spec

\* The cycle and the callbacks together keep the motion contract: gains only
\* in a requested run under a live supervisor, and an ended run stays ended.
Motion ==
    INSTANCE SupervisedMotion
    WITH waiting <- requested /\ state \in {"kBoot", "kIdle"},
         phase <- IF Moves(state) THEN "moving"
                  ELSE IF state = "kArmed" THEN "armed" ELSE "rest",
         gains <- \E v \in slots : v.kind = "gains",
         alive <- beat < Lease
ImplementsMotion == Motion!Spec
===========================================================================
