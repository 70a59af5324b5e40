----------------------- MODULE BxiPairAdapterProofs -----------------------
(***************************************************************************)
(* Proofs about BxiPairAdapter, for every number of groups, every greatest *)
(* generation and every length of the record.                              *)
(*                                                                         *)
(* IInv joins the types with five arguments:                               *)
(*   LifeInv     nothing has happened before the only activation, nothing  *)
(*               runs after the end;                                       *)
(*   StageInv    the groups' generations are equal, and how far commit and *)
(*               accepted_generation are from them at each stage of a      *)
(*               cycle;                                                    *)
(*   WholeInv    a commit that is not yet accepted stands over one batch,  *)
(*               the one it numbers;                                       *)
(*   GainInv     where gains have been or may be admitted, every other     *)
(*               group is prepared and at most one generation behind;      *)
(*   RecordInv   every cycle is recorded or counted as dropped.            *)
(***************************************************************************)
EXTENDS BxiPairAdapter, TLAPS, WellFoundedInduction

LifeInv ==
    /\ ~activatedOnce =>
         /\ ~active /\ ~terminal /\ cycle = 0 /\ count = 0 /\ dropped = 0
         /\ \A h \in Groups : commit[h] = 0 /\ accepted[h] = 0 /\ generation[h] = 0
    /\ active => activatedOnce
    /\ pc \notin {"update", "write"} => active
    /\ saved => ~active /\ activatedOnce

StageInv ==
    /\ \A h, k \in Groups : generation[h] = generation[k]
    /\ \A h \in Groups :
         /\ accepted[h] <= commit[h] /\ commit[h] <= accepted[h] + 1
         /\ commit[h] <= generation[h] + 1
         /\ ~terminal /\ pc \in {"update", "write"} => commit[h] = generation[h]
         /\ pc \in {"values", "commits"} =>
              /\ ~terminal
              /\ commit[h] = generation[h] /\ accepted[h] = generation[h]
              /\ Candidate(h) <= MaxGeneration
         /\ pc = "commits" => slots[h] = {Batch(NormalKind(h), Candidate(h))}
         /\ pc = "release" =>
              \/ h \in row.touched
              \/ /\ commit[h] = generation[h]
                 /\ h \notin row.missing => accepted[h] = generation[h]
         /\ pc = "releaseCommits" => terminal
         /\ pc = "releaseCommits" /\ h \in row.good =>
              /\ commit[h] = generation[h] /\ accepted[h] = generation[h]
              /\ Candidate(h) <= MaxGeneration
              /\ slots[h] = {Batch("release", Candidate(h))}

\* A batch that the hardware may admit in the place of its present one.
Whole(h) ==
    \E kind \in {"boot", "normal", "release"} :
        /\ slots[h] = {Batch(kind, commit[h])}
        /\ kind = "normal" => accepted[h] # 0

WholeInv ==
    \A h \in Groups :
        /\ commit[h] # accepted[h] => Whole(h)
        /\ accepted[h] # 0 => \E kind \in {"boot", "normal", "release"} :
                                 admitted[h] = {Batch(kind, accepted[h])}
        /\ accepted[h] = 0 => admitted[h] = {}
        /\ result[h] \notin {4, 5}

GainInv ==
    \A h, k \in Groups :
        /\ commit[h] # accepted[h] /\ slots[h] = {Batch("normal", commit[h])} =>
             /\ commit[h] <= accepted[k] + 1
             /\ \A b \in slots[k] : b.g >= commit[h]
        /\ \A a \in admitted[h] : a.kind = "normal" =>
             /\ accepted[h] <= accepted[k] + 1
             /\ \A b \in slots[k] : b.g >= accepted[h]

RecordInv ==
    /\ pc \in {"update", "write"} => count + dropped = cycle
    /\ pc \notin {"update", "write"} => count + dropped + 1 = cycle
    /\ saved => SavedEndsWithLastCycle

IInv == TypeOK /\ LifeInv /\ StageInv /\ WholeInv /\ GainInv /\ RecordInv

---------------------------------------------------------------------------
(* The greatest of a set of groups *)

\* A set of naturals has a least member.
LEMMA LeastExists ==
    ASSUME NEW T \in SUBSET Nat, T # {}
    PROVE  \E m \in T : \A y \in T : m <= y
  <1> DEFINE R == {ss \in Nat \X Nat : ss[1] < ss[2]}
  <1>1. IsWellFoundedOn(R, Nat)
    BY NatLessThanWellFounded, Zenon DEF OpToRel
  <1>2. PICK x \in T : \A y \in T : ~(<<y, x>> \in R)
    BY <1>1, WFMin, Zenon
  <1>3. ASSUME NEW y \in T PROVE x <= y
    <2>1. <<y, x>> \notin R
      BY <1>2
    <2> QED
      BY <2>1
  <1> QED
    BY <1>3

\* A set of numbers up to n has a greatest member.
LEMMA GreatestExists ==
    ASSUME NEW n \in Nat, NEW T \in SUBSET (1 .. n), T # {}
    PROVE  \E m \in T : \A y \in T : y <= m
  <1> DEFINE S == {n - i : i \in T}
  <1>1. S \in SUBSET Nat
    OBVIOUS
  <1>2. PICK j \in T : TRUE
    OBVIOUS
  <1>3. n - j \in S
    OBVIOUS
  <1>4. PICK d \in S : \A y \in S : d <= y
    BY <1>1, <1>3, LeastExists
  <1>5. PICK m \in T : d = n - m
    BY <1>4
  <1>6. ASSUME NEW y \in T PROVE y <= m
    <2>1. n - y \in S
      OBVIOUS
    <2>2. d <= n - y
      BY <1>4, <2>1
    <2> QED
      BY <1>5, <2>2
  <1> QED
    BY <1>5, <1>6

---------------------------------------------------------------------------
(* What the checks of a cycle establish *)

\* A group without a reason has a candidate in range and its last one accepted.
LEMMA GroupReasonFacts ==
    ASSUME NEW found, NEW h \in Groups
    PROVE  /\ GroupReason(found, h) \in Reasons
           /\ GroupReason(found, h) = "none" =>
                ~(Candidate(h) > MaxGeneration) /\ h \notin Unaccepted(found)
  <1>1. GroupReason(found, h) \in Reasons
    BY DEF GroupReason, Reasons
  <1>2. ASSUME GroupReason(found, h) = "none"
        PROVE  /\ ~(Candidate(h) > MaxGeneration)
               /\ h \notin Unaccepted(found)
    BY <1>2 DEF GroupReason
  <1> QED
    BY <1>1, <1>2

\* A cycle without a reason has found nothing in any group.
LEMMA NoReason ==
    ASSUME NEW found, NEW periodOk
    PROVE  /\ CycleReason(found, periodOk) \in Reasons
           /\ CycleReason(found, periodOk) = "none" =>
                \A h \in Groups : GroupReason(found, h) = "none"
  <1> DEFINE bad == {h \in Groups : GroupReason(found, h) # "none"}
             last == CHOOSE h \in bad : \A k \in bad : k <= h
  <1>1. CASE bad = {}
    <2>1. CycleReason(found, periodOk) \in Reasons
      BY <1>1 DEF CycleReason, Reasons
    <2> QED
      BY <1>1, <2>1
  <1>2. CASE bad # {}
    <2>1. bad \in SUBSET (1 .. GroupCount) /\ GroupCount \in Nat
      BY GroupAssumption DEF Groups
    <2>2. \E h \in bad : \A k \in bad : k <= h
      BY <1>2, <2>1, GreatestExists
    <2>3. last \in bad
      BY <2>2
    <2>4. CycleReason(found, periodOk) = GroupReason(found, last)
      BY <1>2 DEF CycleReason
    <2> HIDE DEF last
    <2> QED
      BY <2>3, <2>4, GroupReasonFacts
  <1> QED
    BY <1>1, <1>2

\* What Check does, without its reasons.
CheckEffect ==
    /\ pc = "update" /\ active /\ ~terminal
    /\ cycle' = cycle + 1
    /\ seen' \in [Groups -> BOOLEAN] /\ deviation' \in [Groups -> 0 .. DeviationCycles]
    /\ row' \in [reason : Reasons, good : SUBSET Groups, touched : SUBSET Groups,
                 missing : SUBSET Groups, displaced : SUBSET Groups,
                 returned : {"OK", "ERROR"}]
    /\ row'.touched = {} /\ row'.good = {}
    /\ \A h \in Groups : h \notin row'.missing => accepted[h] = generation[h]
    /\ \/ terminal' = TRUE /\ Record /\ pc' = "write"
       \/ /\ terminal' = terminal /\ count' = count /\ dropped' = dropped
          /\ \/ pc' = "release"
             \/ /\ pc' = "values"
                /\ \A h \in Groups : /\ accepted[h] = generation[h]
                                     /\ Candidate(h) <= MaxGeneration
    /\ UNCHANGED <<activatedOnce, active, generation, csv, saved, slots, commit,
                   hardwareVars>>

\* The checks of a cycle do what CheckEffect says.
LEMMA CheckFacts ==
    ASSUME Check, TypeOK
    PROVE  CheckEffect
  <1>1. PICK found \in [Groups -> Findings], periodOk \in BOOLEAN :
          LET reason == CycleReason(found, periodOk)
          IN /\ row' = [reason |-> reason, good |-> {}, touched |-> {},
                        missing |-> Unaccepted(found),
                        displaced |-> {h \in Groups : found[h] = "displaced"},
                        returned |-> "OK"]
             /\ seen' = [h \in Groups |->
                           seen[h] \/ found[h] \notin {"unset", "infinite"}]
             /\ deviation' = [h \in Groups |-> NextDeviation(found, h)]
             /\ cycle' = cycle + 1
             /\ IF reason = "Exhausted"
                THEN terminal' = TRUE /\ Record /\ pc' = "write"
                ELSE /\ pc' = IF reason = "none" THEN "values" ELSE "release"
                     /\ UNCHANGED <<terminal, count, dropped>>
    BY DEF Check
  <1>2. /\ pc = "update" /\ active /\ ~terminal
        /\ UNCHANGED <<activatedOnce, active, generation, csv, saved, slots, commit,
                       hardwareVars>>
    BY DEF Check
  <1> DEFINE reason == CycleReason(found, periodOk)
  <1>3. reason \in Reasons
    BY NoReason
  <1>4. seen' \in [Groups -> BOOLEAN]
    BY <1>1, Zenon
  <1>5. deviation' \in [Groups -> 0 .. DeviationCycles]
    <2>1. \A h \in Groups : NextDeviation(found, h) \in 0 .. DeviationCycles
      BY DeviationAssumption DEF NextDeviation, TypeOK, CountsOK
    <2> QED
      BY <1>1, <2>1
  <1>6. Unaccepted(found) \subseteq Groups
    BY DEF Unaccepted
  <1>7. row' \in [reason : Reasons, good : SUBSET Groups, touched : SUBSET Groups,
                  missing : SUBSET Groups, displaced : SUBSET Groups,
                  returned : {"OK", "ERROR"}]
    BY <1>1, <1>3, <1>6
  <1>8. row'.touched = {} /\ row'.good = {} /\ row'.missing = Unaccepted(found)
    BY <1>1
  <1>9. \A h \in Groups : h \notin row'.missing => accepted[h] = generation[h]
    BY <1>8 DEF Unaccepted
  <1>10. reason = "none" => \A h \in Groups : /\ accepted[h] = generation[h]
                                              /\ Candidate(h) <= MaxGeneration
    <2>1. \A h \in Groups : Candidate(h) \in Nat
      BY DEF TypeOK, SlotsOK, Candidate
    <2> QED
      BY <1>8, <1>9, <2>1, NoReason, GroupReasonFacts, GenerationAssumption
  <1>11. \/ terminal' = TRUE /\ Record /\ pc' = "write"
         \/ /\ terminal' = terminal /\ count' = count /\ dropped' = dropped
            /\ pc' = IF reason = "none" THEN "values" ELSE "release"
    BY <1>1
  <1> HIDE DEF reason
  <1> QED
    BY <1>1, <1>2, <1>4, <1>5, <1>7, <1>8, <1>9, <1>10, <1>11 DEF CheckEffect

---------------------------------------------------------------------------
(* What the other steps of a cycle do to a group *)

\* A write leaves the old values, the new ones or both.
LEMMA StoredFacts ==
    ASSUME NEW old, NEW new, NEW outcome
    PROVE  /\ Stored(old, new, outcome) \in {old, {new}, old \cup {new}}
           /\ outcome = "ok" => Stored(old, new, outcome) = {new}
  BY DEF Stored

WriteValuesEffect ==
    /\ pc = "values" /\ pc' \in {"commits", "release"}
    /\ \A h \in Groups :
         /\ slots'[h] \in {slots[h], {Batch(NormalKind(h), Candidate(h))},
                           slots[h] \cup {Batch(NormalKind(h), Candidate(h))}}
         /\ pc' = "commits" => slots'[h] = {Batch(NormalKind(h), Candidate(h))}
    /\ UNCHANGED <<adapterVars, recordVars, commit, hardwareVars>>

\* Writing the values does what WriteValuesEffect says.
LEMMA WriteValuesFacts ==
    ASSUME WriteValues
    PROVE  WriteValuesEffect
  <1>1. PICK outcome \in [Groups -> ValueOutcomes] :
          /\ slots' = [h \in Groups |->
                         Stored(slots[h], Batch(NormalKind(h), Candidate(h)), outcome[h])]
          /\ IF AllGood(outcome)
             THEN pc' = "commits" /\ UNCHANGED row
             ELSE pc' = "release" /\ row' = [row EXCEPT !.reason = "Write"]
    BY DEF WriteValues
  <1>2. pc' = "commits" => \A h \in Groups : outcome[h] = "ok"
    BY <1>1 DEF AllGood
  <1>3. \A h \in Groups :
          slots'[h] = Stored(slots[h], Batch(NormalKind(h), Candidate(h)), outcome[h])
    BY <1>1
  <1> QED
    BY <1>1, <1>2, <1>3, StoredFacts DEF WriteValues, WriteValuesEffect

WriteCommitsEffect ==
    /\ pc = "commits"
    /\ commit' \in [Groups -> UNION {{commit[h], Candidate(h)} : h \in Groups}]
    /\ \A h \in Groups : commit'[h] \in {commit[h], Candidate(h)}
    /\ \/ /\ pc' = "write" /\ Record
          /\ generation' = [h \in Groups |-> Candidate(h)]
          /\ \A h \in Groups : commit'[h] = Candidate(h)
       \/ /\ pc' = "release" /\ UNCHANGED <<generation, count, dropped>>
          /\ RowOK => row'.touched = Groups
    /\ UNCHANGED <<activatedOnce, active, terminal, seen, deviation, cycle, csv, saved,
                   slots, hardwareVars>>

\* Writing the generations does what WriteCommitsEffect says.
LEMMA WriteCommitsFacts ==
    ASSUME WriteCommits
    PROVE  WriteCommitsEffect
  <1>1. PICK outcome \in [Groups -> CommitOutcomes] :
          /\ commit' = [h \in Groups |-> Committed(h, outcome[h])]
          /\ IF \A h \in Groups : outcome[h] = "ok"
             THEN /\ generation' = [h \in Groups |-> Candidate(h)]
                  /\ row' = [row EXCEPT !.touched = Touched(outcome)]
                  /\ Record /\ pc' = "write"
             ELSE /\ row' = [row EXCEPT !.touched = Touched(outcome),
                                        !.reason = "Write"]
                  /\ pc' = "release"
                  /\ UNCHANGED <<generation, count, dropped>>
    BY DEF WriteCommits
  <1>2. \A h \in Groups : commit'[h] = Committed(h, outcome[h])
    BY <1>1
  <1>3. \A h \in Groups : /\ commit'[h] \in {commit[h], Candidate(h)}
                          /\ outcome[h] = "ok" => commit'[h] = Candidate(h)
    BY <1>2 DEF Committed
  <1>4. commit' \in [Groups -> UNION {{commit[h], Candidate(h)} : h \in Groups}]
    BY <1>1, <1>3
  <1>5. row' = [row EXCEPT !.touched = Touched(outcome), !.reason = "Write"] =>
          (RowOK => row'.touched = Groups)
    BY DEF RowOK, Touched
  <1> QED
    BY <1>1, <1>3, <1>4, <1>5 DEF WriteCommits, WriteCommitsEffect

ReleaseValuesEffect ==
    /\ pc = "release" /\ pc' = "releaseCommits" /\ terminal' = TRUE
    /\ \A h \in Groups :
         /\ h \notin Releasable => slots'[h] = slots[h]
         /\ slots'[h] \in {slots[h], {Batch("release", Candidate(h))},
                           slots[h] \cup {Batch("release", Candidate(h))}}
         /\ h \in row'.good => h \in Releasable /\ slots'[h] = {Batch("release", Candidate(h))}
    /\ UNCHANGED <<activatedOnce, active, generation, seen, deviation, recordVars, commit,
                   hardwareVars>>

\* Writing the release does what ReleaseValuesEffect says.
LEMMA ReleaseValuesFacts ==
    ASSUME ReleaseValues, RowOK
    PROVE  ReleaseValuesEffect
  <1>1. PICK outcome \in [Groups -> ValueOutcomes] :
          /\ slots' = [h \in Groups |->
                         IF h \in Releasable
                         THEN Stored(slots[h], Batch("release", Candidate(h)), outcome[h])
                         ELSE slots[h]]
          /\ row' = [row EXCEPT !.good = {h \in Releasable : outcome[h] = "ok"},
                                !.missing = Groups \ Releasable]
    BY DEF ReleaseValues
  <1>2. row'.good = {h \in Releasable : outcome[h] = "ok"}
    BY <1>1 DEF RowOK
  <1>3. \A h \in Groups :
          slots'[h] = IF h \in Releasable
                      THEN Stored(slots[h], Batch("release", Candidate(h)), outcome[h])
                      ELSE slots[h]
    BY <1>1
  <1>4. \A h \in Groups :
          /\ h \notin Releasable => slots'[h] = slots[h]
          /\ slots'[h] \in {slots[h], {Batch("release", Candidate(h))},
                            slots[h] \cup {Batch("release", Candidate(h))}}
          /\ h \in row'.good => h \in Releasable /\ slots'[h] = {Batch("release", Candidate(h))}
    BY <1>2, <1>3, StoredFacts
  <1> QED
    BY <1>4 DEF ReleaseValues, ReleaseValuesEffect

ReleaseCommitsEffect ==
    /\ pc = "releaseCommits" /\ pc' = "write" /\ Record
    /\ commit' \in [Groups -> UNION {{commit[h], Candidate(h)} : h \in Groups}]
    /\ \A h \in Groups : /\ commit'[h] \in {commit[h], Candidate(h)}
                         /\ h \notin row.good => commit'[h] = commit[h]
    /\ UNCHANGED <<adapterVars, cycle, csv, saved, slots, hardwareVars>>

\* Committing the release does what ReleaseCommitsEffect says.
LEMMA ReleaseCommitsFacts ==
    ASSUME ReleaseCommits
    PROVE  ReleaseCommitsEffect
  <1>1. PICK outcome \in [Groups -> CommitOutcomes] :
          commit' = [h \in Groups |-> IF h \in row.good
                                      THEN Committed(h, outcome[h]) ELSE commit[h]]
    BY DEF ReleaseCommits
  <1>2. \A h \in Groups : /\ commit'[h] \in {commit[h], Candidate(h)}
                          /\ h \notin row.good => commit'[h] = commit[h]
    BY <1>1 DEF Committed
  <1>3. commit' \in [Groups -> UNION {{commit[h], Candidate(h)} : h \in Groups}]
    BY <1>1, <1>2
  <1> QED
    BY <1>2, <1>3 DEF ReleaseCommits, ReleaseCommitsEffect

\* A group admits its slots, or nothing; its result tells which.
HardwareWriteEffect ==
    /\ pc = "write" /\ pc' = "update"
    /\ \A h \in Groups :
         /\ \/ /\ accepted'[h] = accepted[h] /\ admitted'[h] = admitted[h]
            \/ /\ accepted'[h] = commit[h] /\ admitted'[h] = slots[h]
               /\ claimed /\ commit[h] = accepted[h] + 1 /\ Acceptable(h)
         /\ result'[h] = 4 => claimed /\ commit[h] \notin {accepted[h], accepted[h] + 1}
         /\ result'[h] = 5 => claimed /\ commit[h] = accepted[h] + 1 /\ ~Acceptable(h)
    /\ accepted' \in [Groups -> UNION {{accepted[h], commit[h]} : h \in Groups}]
    /\ admitted' \in [Groups -> UNION {{admitted[h], slots[h]} : h \in Groups}]
    /\ UNCHANGED <<adapterVars, row, recordVars, slots, commit, claimed>>

\* The hardware's write() does what HardwareWriteEffect says.
LEMMA HardwareWriteFacts ==
    ASSUME HardwareWrite
    PROVE  HardwareWriteEffect
  <1>1. PICK f \in [Groups -> {"none", "reject", "error"}] :
          /\ result' = [h \in Groups |-> WriteResult(h, f[h])]
          /\ accepted' = [h \in Groups |->
                            IF WriteResult(h, f[h]) = 1 THEN commit[h] ELSE accepted[h]]
          /\ admitted' = [h \in Groups |->
                            IF WriteResult(h, f[h]) = 1 THEN slots[h] ELSE admitted[h]]
    BY DEF HardwareWrite
  <1>2. ASSUME NEW h \in Groups
        PROVE  /\ \/ /\ accepted'[h] = accepted[h] /\ admitted'[h] = admitted[h]
                  \/ /\ accepted'[h] = commit[h] /\ admitted'[h] = slots[h]
                     /\ claimed /\ commit[h] = accepted[h] + 1 /\ Acceptable(h)
               /\ result'[h] = 4 => claimed /\ commit[h] \notin {accepted[h], accepted[h] + 1}
               /\ result'[h] = 5 => claimed /\ commit[h] = accepted[h] + 1 /\ ~Acceptable(h)
    BY <1>1, <1>2 DEF WriteResult
  <1>3. accepted' \in [Groups -> UNION {{accepted[h], commit[h]} : h \in Groups}]
    BY <1>1
  <1>4. admitted' \in [Groups -> UNION {{admitted[h], slots[h]} : h \in Groups}]
    BY <1>1
  <1> QED
    BY <1>2, <1>3, <1>4 DEF HardwareWrite, HardwareWriteEffect

---------------------------------------------------------------------------
(* Base case *)

\* The invariant holds initially.
LEMMA InitInv == Init => IInv
  <1> SUFFICES ASSUME Init PROVE IInv
    OBVIOUS
  <1> USE GroupAssumption, GenerationAssumption, DeviationAssumption, CapacityAssumption
  <1>0. FlagsOK
    BY DEF Init, FlagsOK
  <1>1. HardwareOK
    BY DEF Init, HardwareOK
  <1>2. CountsOK
    BY DEF Init, CountsOK
  <1>3. RowOK
    BY DEF Init, RowOK, NoRow, Reasons
  <1>4. SlotsOK
    BY DEF Init, SlotsOK, Batch, Batches
  <1>5. LifeInv /\ StageInv
    BY DEF Init, LifeInv, StageInv
  <1>6. WholeInv /\ GainInv
    BY DEF Init, WholeInv, GainInv
  <1>7. RecordInv
    BY DEF Init, RecordInv
  <1> QED
    BY <1>0, <1>1, <1>2, <1>3, <1>4, <1>5, <1>6, <1>7 DEF IInv, TypeOK

---------------------------------------------------------------------------
(* Induction step: types *)

\* Every step keeps the types of the flags.
LEMMA FlagsStep == IInv /\ [Next]_vars => FlagsOK'
  <1> SUFFICES ASSUME IInv, [Next]_vars PROVE FlagsOK'
    OBVIOUS
  <1> USE DEF FlagsOK, recordVars, adapterVars, hardwareVars, vars
  <1>0. FlagsOK
    BY DEF IInv, TypeOK
  <1>1. CASE Activate
    BY <1>0, <1>1 DEF Activate
  <1>2. CASE Deactivate
    BY <1>0, <1>2 DEF Deactivate
  <1>3. CASE Save
    BY <1>0, <1>3 DEF Save
  <1>4. CASE UpdateNothing
    BY <1>0, <1>4 DEF UpdateNothing
  <1>5. CASE Check
    <2>1. CheckEffect
      BY <1>5, CheckFacts DEF IInv
    <2> QED
      BY <1>0, <2>1 DEF CheckEffect
  <1>6. CASE WriteValues
    BY <1>0, <1>6 DEF WriteValues
  <1>7. CASE WriteCommits
    BY <1>0, <1>7 DEF WriteCommits, Record
  <1>8. CASE ReleaseValues
    BY <1>0, <1>8 DEF ReleaseValues
  <1>9. CASE ReleaseCommits
    BY <1>0, <1>9 DEF ReleaseCommits
  <1>10. CASE HardwareWrite
    BY <1>0, <1>10 DEF HardwareWrite
  <1>11. CASE UNCHANGED vars
    BY <1>0, <1>11
  <1> QED
    BY <1>1, <1>2, <1>3, <1>4, <1>5, <1>6, <1>7, <1>8, <1>9, <1>10, <1>11 DEF Next

\* Every step keeps the types of the counters.
LEMMA CountsStep == IInv /\ [Next]_vars => CountsOK'
  <1> SUFFICES ASSUME IInv, [Next]_vars PROVE CountsOK'
    OBVIOUS
  <1> USE CapacityAssumption DEF CountsOK, recordVars, adapterVars, hardwareVars, vars
  <1>0. CountsOK /\ DeviationCycles \in Nat
    BY DeviationAssumption DEF IInv, TypeOK
  <1>1. CASE Activate
    <2>1. seen' \in [Groups -> BOOLEAN]
      BY <1>0, <1>1 DEF Activate
    <2>2. deviation' \in [Groups -> 0 .. DeviationCycles]
      BY <1>0, <1>1 DEF Activate
    <2> QED
      BY <1>0, <1>1, <2>1, <2>2 DEF Activate
  <1>2. CASE Deactivate
    BY <1>0, <1>2 DEF Deactivate
  <1>3. CASE Save
    BY <1>0, <1>3 DEF Save
  <1>4. CASE UpdateNothing
    BY <1>0, <1>4 DEF UpdateNothing
  <1>5. CASE Check
    <2>1. CheckEffect
      BY <1>5, CheckFacts DEF IInv
    <2>2. count' \in 0 .. RowCapacity /\ dropped' \in Nat
      BY <1>0, <2>1 DEF CheckEffect, Record
    <2> QED
      BY <1>0, <2>1, <2>2 DEF CheckEffect
  <1>6. CASE WriteValues
    BY <1>0, <1>6 DEF WriteValues
  <1>7. CASE WriteCommits
    <2>1. count' \in 0 .. RowCapacity /\ dropped' \in Nat
      BY <1>0, <1>7 DEF WriteCommits, Record
    <2> QED
      BY <1>0, <1>7, <2>1 DEF WriteCommits
  <1>8. CASE ReleaseValues
    BY <1>0, <1>8 DEF ReleaseValues
  <1>9. CASE ReleaseCommits
    <2>1. count' \in 0 .. RowCapacity /\ dropped' \in Nat
      BY <1>0, <1>9 DEF ReleaseCommits, Record
    <2> QED
      BY <1>0, <1>9, <2>1 DEF ReleaseCommits
  <1>10. CASE HardwareWrite
    BY <1>0, <1>10 DEF HardwareWrite
  <1>11. CASE UNCHANGED vars
    BY <1>0, <1>11
  <1> QED
    BY <1>1, <1>2, <1>3, <1>4, <1>5, <1>6, <1>7, <1>8, <1>9, <1>10, <1>11 DEF Next

\* Every step keeps the type of the row.
LEMMA RowStep == IInv /\ [Next]_vars => RowOK'
  <1> SUFFICES ASSUME IInv, [Next]_vars PROVE RowOK'
    OBVIOUS
  <1> USE DEF RowOK, recordVars, adapterVars, hardwareVars, vars
  <1>0. RowOK
    BY DEF IInv, TypeOK
  <1>1. CASE Activate \/ Deactivate \/ Save \/ UpdateNothing \/ HardwareWrite
    BY <1>0, <1>1 DEF Activate, Deactivate, Save, UpdateNothing, HardwareWrite
  <1>2. CASE Check
    <2>1. CheckEffect
      BY <1>2, CheckFacts DEF IInv
    <2> QED
      BY <2>1 DEF CheckEffect
  <1>3. CASE WriteValues
    BY <1>0, <1>3 DEF WriteValues, Reasons
  <1>4. CASE WriteCommits
    BY <1>0, <1>4 DEF WriteCommits, Touched, Reasons
  <1>5. CASE ReleaseValues
    <2>1. PICK outcome \in [Groups -> ValueOutcomes] :
            row' = [row EXCEPT !.good = {h \in Releasable : outcome[h] = "ok"},
                               !.missing = Groups \ Releasable]
      BY <1>5 DEF ReleaseValues
    <2>2. Releasable \subseteq Groups
      BY DEF Releasable
    <2> QED
      BY <1>0, <2>1, <2>2
  <1>6. CASE ReleaseCommits
    BY <1>0, <1>6 DEF ReleaseCommits, Returns
  <1>7. CASE UNCHANGED vars
    BY <1>0, <1>7
  <1> QED
    BY <1>1, <1>2, <1>3, <1>4, <1>5, <1>6, <1>7 DEF Next

\* Every step keeps the types of the hardware's results.
LEMMA HardwareStep == IInv /\ [Next]_vars => HardwareOK'
  <1> SUFFICES ASSUME IInv, [Next]_vars PROVE HardwareOK'
    OBVIOUS
  <1> USE DEF HardwareOK, recordVars, adapterVars, hardwareVars, vars
  <1>0. HardwareOK
    BY DEF IInv, TypeOK
  <1>1. CASE Activate \/ Deactivate \/ Save \/ UpdateNothing
    BY <1>0, <1>1 DEF Activate, Deactivate, Save, UpdateNothing
  <1>2. CASE Check \/ WriteValues \/ WriteCommits \/ ReleaseValues \/ ReleaseCommits
    BY <1>0, <1>2 DEF Check, WriteValues, WriteCommits, ReleaseValues, ReleaseCommits
  <1>3. CASE HardwareWrite
    <2>1. PICK f \in [Groups -> {"none", "reject", "error"}] :
            fault' = f /\ result' = [h \in Groups |-> WriteResult(h, f[h])]
      BY <1>3 DEF HardwareWrite
    <2>2. \A h \in Groups : WriteResult(h, f[h]) \in 0 .. 5
      BY DEF WriteResult
    <2> QED
      BY <2>1, <2>2
  <1>4. CASE UNCHANGED vars
    BY <1>0, <1>4
  <1> QED
    BY <1>1, <1>2, <1>3, <1>4 DEF Next

\* Every step keeps generations and slots within their types.
LEMMA SlotsStep == IInv /\ [Next]_vars => SlotsOK'
  <1> SUFFICES ASSUME IInv, [Next]_vars PROVE SlotsOK'
    OBVIOUS
  <1> USE GenerationAssumption DEF SlotsOK, recordVars, adapterVars, hardwareVars, vars
  <1>0. SlotsOK /\ RowOK /\ TypeOK /\ StageInv
    BY DEF IInv, TypeOK
  <1>1. CASE Activate
    BY <1>0, <1>1 DEF Activate
  <1>2. CASE Deactivate \/ Save \/ UpdateNothing \/ Check
    BY <1>0, <1>2 DEF Deactivate, Save, UpdateNothing, Check
  <1>3. CASE WriteValues
    <2>1. PICK outcome \in [Groups -> ValueOutcomes] :
            slots' = [h \in Groups |->
                        Stored(slots[h], Batch(NormalKind(h), Candidate(h)), outcome[h])]
      BY <1>3 DEF WriteValues
    <2>2. \A h \in Groups : Candidate(h) \in 0 .. MaxGeneration
      BY <1>0, <1>3 DEF WriteValues, StageInv, Candidate
    <2>3. \A h \in Groups : Batch(NormalKind(h), Candidate(h)) \in Batches
      BY <2>2 DEF Batch, Batches, NormalKind
    <2>4. \A h \in Groups :
            Stored(slots[h], Batch(NormalKind(h), Candidate(h)), outcome[h]) \in SUBSET Batches
      BY <1>0, <2>3, StoredFacts
    <2> QED
      BY <1>0, <1>3, <2>1, <2>4 DEF WriteValues
  <1>4. CASE WriteCommits
    <2>1. WriteCommitsEffect
      BY <1>4, WriteCommitsFacts
    <2>2. \A h \in Groups : Candidate(h) \in 0 .. MaxGeneration
      BY <1>0, <1>4 DEF WriteCommits, StageInv, Candidate
    <2>3. commit' \in [Groups -> 0 .. MaxGeneration]
      BY <1>0, <2>1, <2>2 DEF WriteCommitsEffect
    <2>4. generation' \in [Groups -> 0 .. MaxGeneration]
      BY <1>0, <2>1, <2>2 DEF WriteCommitsEffect
    <2> QED
      BY <1>0, <2>1, <2>3, <2>4 DEF WriteCommitsEffect
  <1>5. CASE ReleaseValues
    <2>1. PICK outcome \in [Groups -> ValueOutcomes] :
            slots' = [h \in Groups |->
                        IF h \in Releasable
                        THEN Stored(slots[h], Batch("release", Candidate(h)), outcome[h])
                        ELSE slots[h]]
      BY <1>5 DEF ReleaseValues
    <2>2. \A h \in Releasable : Candidate(h) \in 0 .. MaxGeneration
      BY <1>0 DEF Releasable, Candidate
    <2>3. \A h \in Releasable : Batch("release", Candidate(h)) \in Batches
      BY <2>2 DEF Batch, Batches
    <2>4. \A h \in Groups :
            (IF h \in Releasable
             THEN Stored(slots[h], Batch("release", Candidate(h)), outcome[h])
             ELSE slots[h]) \in SUBSET Batches
      BY <1>0, <2>3, StoredFacts
    <2> QED
      BY <1>0, <1>5, <2>1, <2>4 DEF ReleaseValues
  <1>6. CASE ReleaseCommits
    <2>1. ReleaseCommitsEffect
      BY <1>6, ReleaseCommitsFacts
    <2>2. \A h \in Groups : h \in row.good => Candidate(h) \in 0 .. MaxGeneration
      BY <1>0, <1>6 DEF ReleaseCommits, StageInv, Candidate
    <2>3. \A h \in Groups : commit'[h] \in 0 .. MaxGeneration
      BY <1>0, <2>1, <2>2 DEF ReleaseCommitsEffect
    <2>4. commit' \in [Groups -> 0 .. MaxGeneration]
      BY <2>1, <2>3 DEF ReleaseCommitsEffect
    <2> QED
      BY <1>0, <2>1, <2>4 DEF ReleaseCommitsEffect
  <1>7. CASE HardwareWrite
    <2>1. HardwareWriteEffect
      BY <1>7, HardwareWriteFacts
    <2>2. accepted' \in [Groups -> 0 .. MaxGeneration]
      BY <1>0, <2>1 DEF HardwareWriteEffect
    <2>3. admitted' \in [Groups -> SUBSET Batches]
      BY <1>0, <2>1 DEF HardwareWriteEffect
    <2> QED
      BY <1>0, <2>1, <2>2, <2>3 DEF HardwareWriteEffect
  <1>8. CASE UNCHANGED vars
    BY <1>0, <1>8
  <1> QED
    BY <1>1, <1>2, <1>3, <1>4, <1>5, <1>6, <1>7, <1>8 DEF Next

---------------------------------------------------------------------------
(* Induction step: life and record *)

\* Every step keeps the lifecycle flags consistent.
LEMMA LifeStep == IInv /\ [Next]_vars => LifeInv'
  <1> SUFFICES ASSUME IInv, [Next]_vars PROVE LifeInv'
    OBVIOUS
  <1> USE DEF LifeInv, recordVars, adapterVars, hardwareVars, vars
  <1>0. LifeInv /\ SlotsOK /\ RowOK
    BY DEF IInv, TypeOK
  <1>1. CASE Activate
    BY <1>0, <1>1 DEF Activate
  <1>2. CASE Deactivate
    BY <1>0, <1>2 DEF Deactivate
  <1>3. CASE Save
    <2>1. activatedOnce
      BY <1>0, <1>3 DEF Save
    <2> QED
      BY <1>0, <1>3, <2>1 DEF Save
  <1>4. CASE UpdateNothing
    BY <1>0, <1>4 DEF UpdateNothing
  <1>5. CASE Check
    BY <1>0, <1>5 DEF Check
  <1>6. CASE WriteValues
    BY <1>0, <1>6 DEF WriteValues
  <1>7. CASE WriteCommits
    BY <1>0, <1>7 DEF WriteCommits
  <1>8. CASE ReleaseValues
    BY <1>0, <1>8 DEF ReleaseValues
  <1>9. CASE ReleaseCommits
    BY <1>0, <1>9 DEF ReleaseCommits
  <1>10. CASE HardwareWrite
    <2>1. HardwareWriteEffect
      BY <1>10, HardwareWriteFacts
    <2> QED
      BY <1>0, <2>1 DEF HardwareWriteEffect
  <1>11. CASE UNCHANGED vars
    BY <1>0, <1>11
  <1> QED
    BY <1>1, <1>2, <1>3, <1>4, <1>5, <1>6, <1>7, <1>8, <1>9, <1>10, <1>11 DEF Next

\* Every cycle stays a row or a dropped one.
LEMMA RecordStep == IInv /\ [Next]_vars => RecordInv'
  <1> SUFFICES ASSUME IInv, [Next]_vars PROVE RecordInv'
    OBVIOUS
  <1> USE DEF RecordInv, SavedEndsWithLastCycle, recordVars, adapterVars, hardwareVars, vars
  <1>0. /\ RecordInv /\ LifeInv /\ TypeOK
        /\ cycle \in Nat /\ count \in Nat /\ dropped \in Nat
    BY CapacityAssumption DEF IInv, TypeOK, CountsOK
  <1>1. CASE Activate
    BY <1>0, <1>1 DEF Activate, LifeInv
  <1>2. CASE Deactivate
    BY <1>0, <1>2 DEF Deactivate
  <1>3. CASE Save
    BY <1>0, <1>3 DEF Save, EmitsFinal
  <1>4. CASE UpdateNothing
    BY <1>0, <1>4 DEF UpdateNothing
  <1>5. CASE Check
    <2>1. CheckEffect
      BY <1>0, <1>5, CheckFacts
    <2>2. ~saved' /\ count + dropped = cycle /\ cycle' = cycle + 1
      BY <1>0, <2>1 DEF CheckEffect, LifeInv
    <2>3. pc' = "write" => count' + dropped' = cycle + 1
      BY <1>0, <2>1, <2>2 DEF CheckEffect, Record
    <2>4. pc' # "write" => pc' \in {"release", "values"} /\ count' + dropped' = cycle
      BY <1>0, <2>1, <2>2 DEF CheckEffect
    <2> QED
      BY <1>0, <2>2, <2>3, <2>4
  <1>6. CASE WriteValues
    BY <1>0, <1>6 DEF WriteValues, LifeInv
  <1>7. CASE WriteCommits
    BY <1>0, <1>7 DEF WriteCommits, Record, LifeInv
  <1>8. CASE ReleaseValues
    BY <1>0, <1>8 DEF ReleaseValues, LifeInv
  <1>9. CASE ReleaseCommits
    BY <1>0, <1>9 DEF ReleaseCommits, Record, LifeInv
  <1>10. CASE HardwareWrite
    BY <1>0, <1>10 DEF HardwareWrite
  <1>11. CASE UNCHANGED vars
    BY <1>0, <1>11
  <1> QED
    BY <1>1, <1>2, <1>3, <1>4, <1>5, <1>6, <1>7, <1>8, <1>9, <1>10, <1>11 DEF Next

---------------------------------------------------------------------------
(* Induction step: the stages of a cycle *)

\* The three generations of a group stay related at every stage.
LEMMA StageStep == IInv /\ [Next]_vars => StageInv'
  <1> SUFFICES ASSUME IInv, [Next]_vars PROVE StageInv'
    OBVIOUS
  <1> USE GenerationAssumption
      DEF StageInv, Candidate, NormalKind, SlotsOK, recordVars, adapterVars, hardwareVars, vars
  <1>0. StageInv /\ LifeInv /\ SlotsOK /\ RowOK /\ TypeOK
    BY DEF IInv, TypeOK
  <1>1. CASE Activate
    BY <1>0, <1>1 DEF Activate, LifeInv
  <1>2. CASE Deactivate
    BY <1>0, <1>2 DEF Deactivate
  <1>3. CASE Save
    BY <1>0, <1>3 DEF Save
  <1>4. CASE UpdateNothing
    BY <1>0, <1>4 DEF UpdateNothing
  <1>5. CASE Check
    <2>1. CheckEffect
      BY <1>0, <1>5, CheckFacts
    <2> QED
      BY <1>0, <2>1 DEF CheckEffect
  <1>6. CASE WriteValues
    <2>1. WriteValuesEffect
      BY <1>6, WriteValuesFacts
    <2>2. \A h \in Groups : commit[h] = generation[h] /\ accepted[h] = generation[h]
                            /\ generation[h] + 1 <= MaxGeneration /\ ~terminal
      BY <1>0, <1>6 DEF WriteValues
    <2> QED
      BY <1>0, <2>1, <2>2 DEF WriteValuesEffect
  <1>7. CASE WriteCommits
    <2>1. WriteCommitsEffect
      BY <1>7, WriteCommitsFacts
    <2>2. \A h \in Groups : commit[h] = generation[h] /\ accepted[h] = generation[h]
                            /\ generation[h] \in Nat /\ ~terminal
      BY <1>0, <1>7 DEF WriteCommits
    <2>3. CASE pc' = "write"
      BY <1>0, <2>1, <2>2, <2>3 DEF WriteCommitsEffect
    <2>4. CASE pc' = "release"
      BY <1>0, <2>1, <2>2, <2>4 DEF WriteCommitsEffect
    <2> QED
      BY <2>1, <2>3, <2>4 DEF WriteCommitsEffect
  <1>8. CASE ReleaseValues
    <2>1. ReleaseValuesEffect
      BY <1>0, <1>8, ReleaseValuesFacts
    <2>2. \A h \in Releasable : /\ commit[h] = generation[h] /\ accepted[h] = generation[h]
                                /\ generation[h] + 1 <= MaxGeneration
      BY <1>0, <1>8 DEF ReleaseValues, Releasable
    <2> QED
      BY <1>0, <2>1, <2>2 DEF ReleaseValuesEffect
  <1>9. CASE ReleaseCommits
    <2>1. ReleaseCommitsEffect
      BY <1>9, ReleaseCommitsFacts
    <2>2. terminal \/ Groups = {}
      BY <1>0, <1>9 DEF ReleaseCommits
    <2>3. \A h \in Groups : h \in row.good => /\ commit[h] = generation[h]
                                              /\ accepted[h] = generation[h]
      BY <1>0, <1>9 DEF ReleaseCommits
    <2> QED
      BY <1>0, <2>1, <2>2, <2>3 DEF ReleaseCommitsEffect
  <1>10. CASE HardwareWrite
    <2>1. HardwareWriteEffect
      BY <1>10, HardwareWriteFacts
    <2>2. ASSUME NEW h \in Groups
          PROVE  accepted'[h] <= commit[h] /\ commit[h] <= accepted'[h] + 1
      <3>1. /\ commit[h] \in Nat /\ accepted[h] \in Nat
            /\ accepted[h] <= commit[h] /\ commit[h] <= accepted[h] + 1
        BY <1>0
      <3>2. accepted'[h] = accepted[h] \/ accepted'[h] = commit[h]
        BY <2>1 DEF HardwareWriteEffect
      <3> QED
        BY <3>1, <3>2
    <2>3. UNCHANGED <<generation, commit, slots, terminal, row>>
      BY <2>1 DEF HardwareWriteEffect
    <2>4. pc = "write" /\ pc' = "update"
      BY <2>1 DEF HardwareWriteEffect
    <2> QED
      BY <1>0, <2>2, <2>3, <2>4
  <1>11. CASE UNCHANGED vars
    BY <1>0, <1>11
  <1> QED
    BY <1>1, <1>2, <1>3, <1>4, <1>5, <1>6, <1>7, <1>8, <1>9, <1>10, <1>11 DEF Next

---------------------------------------------------------------------------
(* Induction step: whole batches *)

\* What may be admitted stays one batch.
LEMMA WholeStep == IInv /\ [Next]_vars => WholeInv'
  <1> SUFFICES ASSUME IInv, [Next]_vars PROVE WholeInv'
    OBVIOUS
  <1> USE DEF recordVars, adapterVars, hardwareVars, vars
  <1>0. WholeInv /\ StageInv /\ LifeInv /\ SlotsOK /\ RowOK /\ TypeOK
    BY DEF IInv, TypeOK
  <1>1. CASE Activate \/ Deactivate \/ Save \/ UpdateNothing \/ Check
    <2>1. UNCHANGED <<slots, commit, accepted, admitted, result>>
      BY <1>1 DEF Activate, Deactivate, Save, UpdateNothing, Check
    <2> QED
      BY <1>0, <2>1 DEF WholeInv, Whole
  <1>2. CASE WriteValues
    <2>1. \A h \in Groups : commit[h] = accepted[h]
      BY <1>0, <1>2 DEF WriteValues, StageInv
    <2>2. UNCHANGED <<commit, accepted, admitted, result>>
      BY <1>2 DEF WriteValues
    <2> QED
      BY <1>0, <2>1, <2>2 DEF WholeInv
  <1>3. CASE WriteCommits
    <2>1. WriteCommitsEffect
      BY <1>3, WriteCommitsFacts
    <2>2. UNCHANGED <<slots, accepted, admitted, result>>
      BY <1>3 DEF WriteCommits
    <2>3. ASSUME NEW h \in Groups, commit'[h] # accepted'[h] PROVE Whole(h)'
      <3>1. /\ commit[h] = generation[h] /\ accepted[h] = generation[h]
            /\ slots[h] = {Batch(NormalKind(h), Candidate(h))}
        BY <1>0, <1>3 DEF WriteCommits, StageInv
      <3>2. commit'[h] = Candidate(h)
        BY <2>1, <2>2, <2>3, <3>1 DEF WriteCommitsEffect
      <3>3. NormalKind(h) \in {"boot", "normal", "release"}
            /\ (NormalKind(h) = "normal" => generation[h] # 0)
        BY DEF NormalKind
      <3> QED
        BY <2>2, <3>1, <3>2, <3>3 DEF Whole
    <2> QED
      BY <1>0, <2>2, <2>3 DEF WholeInv
  <1>4. CASE ReleaseValues
    <2>1. ReleaseValuesEffect
      BY <1>0, <1>4, ReleaseValuesFacts
    <2>2. UNCHANGED <<commit, accepted, admitted, result>>
      BY <1>4 DEF ReleaseValues
    <2>3. ASSUME NEW h \in Groups, commit'[h] # accepted'[h] PROVE Whole(h)'
      <3>1. h \notin Releasable
        BY <1>0, <1>4, <2>2, <2>3 DEF ReleaseValues, Releasable, StageInv
      <3>2. slots'[h] = slots[h]
        BY <2>1, <3>1 DEF ReleaseValuesEffect
      <3> QED
        BY <1>0, <2>2, <2>3, <3>2 DEF WholeInv, Whole
    <2> QED
      BY <1>0, <2>2, <2>3 DEF WholeInv
  <1>5. CASE ReleaseCommits
    <2>1. ReleaseCommitsEffect
      BY <1>5, ReleaseCommitsFacts
    <2>2. UNCHANGED <<slots, accepted, admitted, result>>
      BY <1>5 DEF ReleaseCommits
    <2>3. ASSUME NEW h \in Groups, commit'[h] # accepted'[h] PROVE Whole(h)'
      <3>1. CASE h \in row.good
        <4>1. /\ commit[h] = generation[h] /\ accepted[h] = generation[h]
              /\ slots[h] = {Batch("release", Candidate(h))}
          BY <1>0, <1>5, <3>1 DEF ReleaseCommits, StageInv
        <4>2. commit'[h] = Candidate(h)
          BY <2>1, <2>2, <2>3, <4>1 DEF ReleaseCommitsEffect
        <4> QED
          BY <2>2, <4>1, <4>2 DEF Whole
      <3>2. CASE h \notin row.good
        <4>1. commit'[h] = commit[h]
          BY <2>1, <3>2 DEF ReleaseCommitsEffect
        <4> QED
          BY <1>0, <2>2, <2>3, <4>1 DEF WholeInv, Whole
      <3> QED
        BY <3>1, <3>2
    <2> QED
      BY <1>0, <2>2, <2>3 DEF WholeInv
  <1>6. CASE HardwareWrite
    <2>1. HardwareWriteEffect
      BY <1>6, HardwareWriteFacts
    <2> SUFFICES ASSUME NEW h \in Groups
                 PROVE  /\ commit'[h] # accepted'[h] => Whole(h)'
                        /\ accepted'[h] # 0 =>
                             \E kind \in {"boot", "normal", "release"} :
                                admitted'[h] = {Batch(kind, accepted'[h])}
                        /\ accepted'[h] = 0 => admitted'[h] = {}
                        /\ result'[h] \notin {4, 5}
      BY DEF WholeInv
    <2>2. UNCHANGED <<slots, commit>>
      BY <2>1 DEF HardwareWriteEffect
    <2>3. commit[h] \in Nat /\ accepted[h] \in Nat /\ commit[h] \in {accepted[h], accepted[h] + 1}
      BY <1>0, GenerationAssumption DEF SlotsOK, StageInv
    <2>4. commit[h] = accepted[h] + 1 => Whole(h)
      BY <1>0, <2>3 DEF WholeInv
    <2>5. Whole(h) => Acceptable(h)
      <3>1. SUFFICES ASSUME Whole(h) PROVE Acceptable(h)
        OBVIOUS
      <3>2. PICK kind \in {"boot", "normal", "release"} :
              slots[h] = {Batch(kind, commit[h])} /\ (kind = "normal" => accepted[h] # 0)
        BY <3>1 DEF Whole
      <3>3. Batch(kind, commit[h]).kind = kind
        BY DEF Batch
      <3> QED
        BY <3>2, <3>3 DEF Acceptable
    <2>6. result'[h] \notin {4, 5}
      BY <2>1, <2>3, <2>4, <2>5 DEF HardwareWriteEffect
    <2>7. CASE accepted'[h] = accepted[h] /\ admitted'[h] = admitted[h]
      BY <1>0, <2>2, <2>6, <2>7 DEF WholeInv, Whole
    <2>8. CASE accepted'[h] = commit[h] /\ admitted'[h] = slots[h]
               /\ commit[h] = accepted[h] + 1
      <3>1. commit'[h] = accepted'[h] /\ accepted'[h] # 0
        BY <2>2, <2>3, <2>8
      <3>2. \E kind \in {"boot", "normal", "release"} :
               admitted'[h] = {Batch(kind, accepted'[h])}
        BY <2>4, <2>8 DEF Whole
      <3> QED
        BY <2>6, <3>1, <3>2
    <2> QED
      BY <2>1, <2>7, <2>8 DEF HardwareWriteEffect
  <1>7. CASE UNCHANGED vars
    BY <1>0, <1>7 DEF WholeInv, Whole
  <1> QED
    BY <1>1, <1>2, <1>3, <1>4, <1>5, <1>6, <1>7 DEF Next

---------------------------------------------------------------------------
(* Induction step: gains *)

\* The generations of the batches in a group's slots.
LEMMA BatchFields ==
    ASSUME NEW kind, NEW g
    PROVE  Batch(kind, g).kind = kind /\ Batch(kind, g).g = g
  BY DEF Batch

\* A batch with gains stays behind the other groups' values.
LEMMA GainStep == IInv /\ [Next]_vars => GainInv'
  <1> SUFFICES ASSUME IInv, [Next]_vars PROVE GainInv'
    OBVIOUS
  <1> USE DEF recordVars, adapterVars, hardwareVars, vars
  <1>0. GainInv /\ WholeInv /\ StageInv /\ SlotsOK /\ RowOK
    BY DEF IInv, TypeOK
  <1>n. \A h \in Groups : /\ commit[h] \in Nat /\ accepted[h] \in Nat /\ generation[h] \in Nat
                          /\ accepted[h] <= commit[h] /\ commit[h] <= Candidate(h)
    BY <1>0, GenerationAssumption DEF SlotsOK, StageInv, Candidate
  <1>c. \A h, k \in Groups : Candidate(h) = Candidate(k) /\ Candidate(h) \in Nat
    BY <1>0, <1>n DEF StageInv, Candidate
  <1>1. CASE Activate \/ Deactivate \/ Save \/ UpdateNothing \/ Check
    <2>1. UNCHANGED <<slots, commit, accepted, admitted>>
      BY <1>1 DEF Activate, Deactivate, Save, UpdateNothing, Check
    <2> QED
      BY <1>0, <2>1 DEF GainInv
  <1>2. CASE WriteValues
    <2>1. WriteValuesEffect
      BY <1>2, WriteValuesFacts
    <2>2. \A h \in Groups : commit[h] = accepted[h]
      BY <1>0, <1>2 DEF WriteValues, StageInv
    <2>3. UNCHANGED <<commit, accepted, admitted>>
      BY <1>2 DEF WriteValues
    <2>4. \A h, k \in Groups : \A b \in slots'[k] :
            b \in slots[k] \/ b.g >= accepted[h]
      BY <1>n, <1>c, <2>1, BatchFields DEF WriteValuesEffect
    <2> QED
      BY <1>0, <2>2, <2>3, <2>4 DEF GainInv
  <1>3. CASE WriteCommits
    <2>1. WriteCommitsEffect
      BY <1>3, WriteCommitsFacts
    <2>2. UNCHANGED <<slots, accepted, admitted>>
      BY <1>3 DEF WriteCommits
    <2>3. \A h \in Groups : accepted[h] + 1 = Candidate(h) /\ commit[h] = accepted[h]
                            /\ slots[h] = {Batch(NormalKind(h), Candidate(h))}
      BY <1>0, <1>3 DEF WriteCommits, StageInv, Candidate
    <2>4. \A h, k \in Groups : commit'[h] # accepted[h] =>
            /\ commit'[h] <= accepted[k] + 1
            /\ \A b \in slots[k] : b.g >= commit'[h]
      BY <1>c, <2>1, <2>3, BatchFields DEF WriteCommitsEffect
    <2> QED
      BY <1>0, <2>2, <2>4 DEF GainInv
  <1>4. CASE ReleaseValues
    <2>1. ReleaseValuesEffect
      BY <1>0, <1>4, ReleaseValuesFacts
    <2>2. UNCHANGED <<commit, accepted, admitted>>
      BY <1>4 DEF ReleaseValues
    <2>3. \A h \in Groups : commit[h] # accepted[h] => slots'[h] = slots[h]
      BY <1>0, <1>4, <2>1 DEF ReleaseValuesEffect, ReleaseValues, Releasable, StageInv
    <2>4. \A h, k \in Groups : \A b \in slots'[k] :
            b \in slots[k] \/ (b.g >= accepted[h] /\ b.g >= commit[h])
      BY <1>n, <1>c, <2>1, BatchFields DEF ReleaseValuesEffect
    <2> QED
      BY <1>0, <2>2, <2>3, <2>4 DEF GainInv
  <1>5. CASE ReleaseCommits
    <2>1. ReleaseCommitsEffect
      BY <1>5, ReleaseCommitsFacts
    <2>2. UNCHANGED <<slots, accepted, admitted>>
      BY <1>5 DEF ReleaseCommits
    <2>3. \A h \in Groups : h \in row.good => slots[h] = {Batch("release", Candidate(h))}
      BY <1>0, <1>5 DEF ReleaseCommits, StageInv
    <2>4. \A h \in Groups : h \in row.good => slots'[h] # {Batch("normal", commit'[h])}
      <3>1. \A g, i : Batch("release", g) # Batch("normal", i)
        BY DEF Batch
      <3> QED
        BY <2>2, <2>3, <3>1
    <2>5. \A h \in Groups : h \notin row.good => commit'[h] = commit[h]
      BY <2>1 DEF ReleaseCommitsEffect
    <2> QED
      BY <1>0, <2>2, <2>4, <2>5 DEF GainInv
  <1>6. CASE HardwareWrite
    <2>1. HardwareWriteEffect
      BY <1>6, HardwareWriteFacts
    <2>2. UNCHANGED <<slots, commit>>
      BY <2>1 DEF HardwareWriteEffect
    <2>3. \A k \in Groups : accepted'[k] \in Nat /\ accepted[k] <= accepted'[k]
      BY <1>n, <2>1 DEF HardwareWriteEffect
    <2> SUFFICES ASSUME NEW h \in Groups, NEW k \in Groups
                 PROVE  /\ commit'[h] # accepted'[h] /\ slots'[h] = {Batch("normal", commit'[h])} =>
                             /\ commit'[h] <= accepted'[k] + 1
                             /\ \A b \in slots'[k] : b.g >= commit'[h]
                        /\ \A a \in admitted'[h] : a.kind = "normal" =>
                             /\ accepted'[h] <= accepted'[k] + 1
                             /\ \A b \in slots'[k] : b.g >= accepted'[h]
      BY DEF GainInv
    <2>4. CASE accepted'[h] = accepted[h] /\ admitted'[h] = admitted[h]
      BY <1>0, <1>n, <2>2, <2>3, <2>4 DEF GainInv
    <2>5. CASE accepted'[h] = commit[h] /\ admitted'[h] = slots[h]
               /\ commit[h] = accepted[h] + 1
      <3>1. commit[h] # accepted[h] /\ commit'[h] = accepted'[h]
        BY <1>n, <2>2, <2>5
      <3>2. ASSUME NEW a \in slots[h], a.kind = "normal"
            PROVE  slots[h] = {Batch("normal", commit[h])}
        <4>1. PICK kind \in {"boot", "normal", "release"} : slots[h] = {Batch(kind, commit[h])}
          BY <1>0, <3>1 DEF WholeInv, Whole
        <4>2. kind = "normal"
          BY <3>2, <4>1, BatchFields
        <4> QED
          BY <4>1, <4>2
      <3> QED
        BY <1>0, <1>n, <2>2, <2>3, <2>5, <3>1, <3>2 DEF GainInv
    <2> QED
      BY <2>1, <2>4, <2>5 DEF HardwareWriteEffect
  <1>7. CASE UNCHANGED vars
    BY <1>0, <1>7 DEF GainInv
  <1> QED
    BY <1>1, <1>2, <1>3, <1>4, <1>5, <1>6, <1>7 DEF Next

---------------------------------------------------------------------------
(* Theorems *)

\* Every step preserves the invariant.
LEMMA StepInv == IInv /\ [Next]_vars => IInv'
  BY FlagsStep, CountsStep, RowStep, SlotsStep, HardwareStep, LifeStep, StageStep,
     WholeStep, GainStep, RecordStep DEF IInv, TypeOK

\* The inductive invariant holds in every reachable state.
THEOREM Inductive == Spec => []IInv
  BY InitInv, StepInv, PTL DEF Spec

\* Every variable keeps its type; no generation passes MaxGeneration.
THEOREM TypeCorrect == Spec => []TypeOK
  <1>1. IInv => TypeOK
    BY DEF IInv
  <1> QED
    BY <1>1, Inductive, PTL

\* No hardware admits a mixture of two batches, whatever writes fail.
THEOREM NoMixedBatch == Spec => []AdmittedWhole
  <1>1. IInv => AdmittedWhole
    BY DEF IInv, WholeInv, AdmittedWhole
  <1> QED
    BY <1>1, Inductive, PTL

\* A group runs gains only after every other group's values were written for
\* that generation.
THEOREM Prepared == Spec => []PreparedBeforeCommit
  <1>1. ASSUME IInv PROVE PreparedBeforeCommit
    <2> SUFFICES ASSUME NEW h \in Groups, NEW k \in Groups,
                        NEW a \in admitted[h], NEW b \in slots[k], a.kind = "normal"
                 PROVE  b.g >= a.g
      BY DEF PreparedBeforeCommit
    <2>1. b.g >= accepted[h]
      BY <1>1 DEF IInv, GainInv
    <2>2. a.g = accepted[h]
      BY <1>1, BatchFields DEF IInv, WholeInv
    <2> QED
      BY <2>1, <2>2
  <1> QED
    BY <1>1, Inductive, PTL

\* A group with gains is at most one generation ahead of every other group.
THEOREM OneAhead == Spec => []GainsOneAhead
  <1>1. IInv => GainsOneAhead
    BY DEF IInv, GainInv, GainsOneAhead
  <1> QED
    BY <1>1, Inductive, PTL

\* Neither the mock nor PairCommit ever has a reason to refuse the adapter.
THEOREM NotRefused == Spec => []NeverRefused
  <1>1. ASSUME IInv, NEW h \in Groups
        PROVE  /\ result[h] \notin {4, 5}
               /\ ~Admission(h)!InspectLatches(commit[h], BatchClass(h), FALSE)
    <2>1. commit[h] \in Nat /\ accepted[h] \in Nat /\ commit[h] <= MaxGeneration
          /\ commit[h] \in {accepted[h], accepted[h] + 1}
      BY <1>1, GenerationAssumption DEF IInv, TypeOK, SlotsOK, StageInv
    <2>2. commit[h] # accepted[h] =>
            BatchClass(h) # "invalid" /\ (accepted[h] = 0 => BatchClass(h) = "released")
      <3> SUFFICES ASSUME commit[h] # accepted[h]
                   PROVE  BatchClass(h) # "invalid"
                          /\ (accepted[h] = 0 => BatchClass(h) = "released")
        OBVIOUS
      <3>1. PICK kind \in {"boot", "normal", "release"} :
              slots[h] = {Batch(kind, commit[h])} /\ (kind = "normal" => accepted[h] # 0)
        BY <1>1 DEF IInv, WholeInv, Whole
      <3> QED
        BY <3>1, BatchFields DEF BatchClass
    <2>3. ~Admission(h)!InspectLatches(commit[h], BatchClass(h), FALSE)
      BY <2>1, <2>2, GenerationAssumption
         DEF Admission!InspectLatches, Admission!Inspect, Admission!ExpiresNow,
             Admission!BadGeneration, Admission!IsGap, Admission!OutOfBounds,
             Admission!MustBeReleased
    <2> QED
      BY <1>1, <2>3 DEF IInv, WholeInv
  <1>2. IInv => NeverRefused
    BY <1>1 DEF NeverRefused
  <1> QED
    BY <1>2, Inductive, PTL

\* The saved record ends with the last cycle, whatever its capacity.
THEOREM RecordComplete == Spec => []SavedEndsWithLastCycle
  <1>1. IInv => SavedEndsWithLastCycle
    BY DEF IInv, RecordInv, SavedEndsWithLastCycle
  <1> QED
    BY <1>1, Inductive, PTL

---------------------------------------------------------------------------
(* The admission contract of each group's hardware *)

\* What each group's hardware may do in one step.
HardwareStepOK ==
    \A h \in Groups : [GroupHardware(h)!Next]_<<accepted[h], KindAdmitted(h)>>

\* Only write() admits a batch, the one that the adapter has written as a whole.
LEMMA AdmissionStep == IInv /\ [Next]_vars => HardwareStepOK
  <1> SUFFICES ASSUME IInv, [Next]_vars, NEW h \in Groups
               PROVE  [GroupHardware(h)!Next]_<<accepted[h], KindAdmitted(h)>>
    BY DEF HardwareStepOK
  <1>1. CASE HardwareWrite
    <2>1. HardwareWriteEffect
      BY <1>1, HardwareWriteFacts
    <2>2. CASE accepted'[h] = accepted[h] /\ admitted'[h] = admitted[h]
      BY <2>2 DEF KindAdmitted
    <2>3. CASE /\ accepted'[h] = commit[h] /\ admitted'[h] = slots[h]
               /\ commit[h] = accepted[h] + 1
      <3>1. accepted[h] \in Nat /\ commit[h] <= MaxGeneration /\ commit[h] # accepted[h]
        BY <2>3, GenerationAssumption DEF IInv, TypeOK, SlotsOK
      <3>2. PICK kind \in {"boot", "normal", "release"} :
              slots[h] = {Batch(kind, commit[h])} /\ (kind = "normal" => accepted[h] # 0)
        BY <3>1 DEF IInv, WholeInv, Whole
      <3>3. KindAdmitted(h)' = IF kind = "normal" THEN "active" ELSE "released"
        BY <2>3, <3>2, BatchFields DEF KindAdmitted
      <3> QED
        BY <2>3, <3>1, <3>2, <3>3, GenerationAssumption
           DEF GroupHardware!Next, GroupHardware!Run, GroupHardware!Advance
    <2> QED
      BY <2>1, <2>2, <2>3 DEF HardwareWriteEffect
  <1>2. CASE ~HardwareWrite
    <2>1. UNCHANGED <<accepted, admitted>>
      BY <1>2 DEF Next, Activate, Deactivate, Save, UpdateNothing, Check, WriteValues,
             WriteCommits, ReleaseValues, ReleaseCommits, hardwareVars, vars
    <2> QED
      BY <2>1 DEF KindAdmitted
  <1> QED
    BY <1>1, <1>2

\* Each group's hardware keeps the contract, whatever the adapter's writes to
\* it and to the other groups come to.
THEOREM KeepsAdmission == Spec => ImplementsAdmission
  <1>1. Init => \A h \in Groups : GroupHardware(h)!Init
    BY DEF Init, KindAdmitted, GroupHardware!Init
  <1>2. HardwareStepOK =>
          [\A h \in Groups : [GroupHardware(h)!Next]_<<accepted[h], KindAdmitted(h)>>]_vars
    BY DEF HardwareStepOK
  <1> QED
    BY <1>1, <1>2, AdmissionStep, Inductive, PTL DEF Spec, ImplementsAdmission
===========================================================================
