----------------------- MODULE NAxisTrajectoryProofs -----------------------
(***************************************************************************)
(* Proofs about NAxisTrajectory, for every value of its constants.         *)
(***************************************************************************)
EXTENDS NAxisTrajectory, TLAPS

---------------------------------------------------------------------------
(* The inductive invariant *)

\* One activation; where the real-time thread can be; a complete record belongs
\* to a run that appends no more rows.
LifecycleInv ==
    /\ claimed = active
    /\ active => activatedOnce
    /\ complete => activatedOnce /\ pc \in {"update", "write"} /\ (active => state = "kAborted")
    /\ pc \in {"attempt", "abort"} => active
    /\ pc = "attempt" => state # "kAborted"
    /\ pc = "abort" => state = "kAborted"
    /\ cycle.released # "none" =>
          activatedOnce /\ state = "kAborted" /\ pc \in {"update", "write"}

\* No heartbeat known anywhere is younger than the sender's last one.
LeaseInv ==
    /\ beat <= wire /\ beat <= heart /\ beat <= heartAge
    /\ pc = "attempt" /\ Moves(state) => heartAge < Lease

\* The generations of the controller and of the hardware.
NumberingInv ==
    /\ last <= commit /\ commit <= last + 1
    /\ state # "kAborted" => commit = generation
    /\ state = "kAborted" => commit \in {generation, cycle.candidate}
    /\ state \in {"kIdle", "kArmed", "kRunning", "kHolding"} => generation # 0
    /\ pc \in {"attempt", "abort"} =>
          \/ cycle.held /\ cycle.candidate = generation /\ generation # 0
          \/ ~cycle.held /\ cycle.candidate = generation + 1 /\ last = generation
    /\ pc = "attempt" => cycle.candidate <= MaxGeneration
    /\ ~activatedOnce => commit = 0 /\ generation = 0

Listening == claimed /\ ~feedbackStopped /\ ~expired

HasGains(batch) == \E v \in batch : v.kind = "gains"
OneBatch(batch) == \A v, w \in batch : v = w

\* What the hardware finds in the slots, and why it may not have admitted it yet.
AdmissionInv ==
    /\ ~activatedOnce => ~latched /\ ~HasGains(slots)
    /\ commit # 0 => \A v \in slots : v.kind # "nan"
    /\ Listening /\ last = 0 => ~HasGains(slots)
    /\ publishFailed => latched /\ last # 0
    /\ expired => latched
    /\ latched /\ claimed => publishFailed \/ expired
    /\ Listening /\ last # commit =>
          \/ publishFailed /\ HasGains(slots)
          \/ pc \in {"abort", "write"} /\ (OneBatch(slots) \/ cycle.released = "failed")
    /\ Listening /\ ~publishFailed /\ pc = "abort" => last = generation

\* A release that has been written is still in the slots.
ReleaseInv ==
    /\ cycle.released = "written" =>
          slots = {Values("released", cycle.candidate)} /\ commit = cycle.candidate
    /\ cycle.released = "written" /\ Listening /\ ~latched =>
          \/ \A v \in admitted : v.kind = "released"
          \/ cycle.held /\ last = cycle.candidate
          \/ pc = "write" /\ last # commit

IInv ==
    /\ TypeOK /\ LifecycleInv /\ LeaseInv /\ NumberingInv /\ AdmissionInv /\ ReleaseInv
    /\ TornNeedsFailedRelease /\ SavedRecordIsWhole

---------------------------------------------------------------------------
(* What the larger actions do *)

\* The controller only comes to moving states with an unexpired lease, and to a
\* state that presupposes a generation from another such state.
LEMMA OutcomeFacts ==
    ASSUME ControlOK, AgesOK, state # "kAborted", NEW found, NEW seen
    PROVE  LET to == Outcome(found, seen)
           IN /\ Moves(to) => Reads(found) /\ HeartRead(seen) < Lease
              /\ to # "kAborted"
              /\ to \in {"kIdle", "kArmed", "kRunning", "kHolding"} =>
                    state \in {"kIdle", "kArmed", "kRunning", "kHolding"}
              /\ to \in States =>
                    HasRoom /\ found \notin {"lost", "blind", "late"}
              /\ HeartRead(seen) \in {heart, heartAge}
              /\ Elapsed \in 0 .. Duration + Hold
  <1>1. HeartRead(seen) \in 0 .. Lease /\ HeartRead(seen) \in {heart, heartAge}
    BY DEF HeartRead, AgesOK
  <1>2. Elapsed \in 0 .. Duration + Hold
    BY TimesAssumption DEF Elapsed, ControlOK
  <1> DEFINE prog == Progress(found, seen)
  <1>4. /\ Moves(prog) => ~stop /\ state # "kBoot" /\ ~Expired(HeartRead(seen))
        /\ prog # "kAborted"
        /\ prog \in {"kIdle", "kArmed", "kRunning", "kHolding"} =>
              state \in {"kIdle", "kArmed", "kRunning", "kHolding"}
    BY DEF Progress, FromArmed, FromMoving, Moves, StateArmed, Arms, TakesRequest, States, ControlOK
  <1> HIDE DEF prog
  <1> DEFINE prot == Protected(found, seen)
  <1>5. prot \in {prog, "kTorque", "kState"}
    BY DEF Protected, prog
  <1> HIDE DEF prot
  <1>6. \/ /\ Outcome(found, seen) = prot /\ HasRoom
           /\ found \notin {"lost", "blind", "late", "beyond", "astray"}
        \/ Outcome(found, seen) \in {"kCapacity", "kState", "kPeriod"}
    BY DEF Outcome, prot
  <1>7. Reads(found) = (/\ HasRoom /\ found \notin {"lost", "blind", "late", "beyond", "astray"}
                        /\ ~stop /\ state # "kBoot")
    BY DEF Reads
  <1> DEFINE to == Outcome(found, seen)
  <1>8. to \in {prog, "kTorque", "kState", "kCapacity", "kPeriod"}
    BY <1>5, <1>6
  <1>9. to \in States => HasRoom /\ found \notin {"lost", "blind", "late", "beyond", "astray"}
    BY <1>6 DEF States
  <1> HIDE DEF to
  <1>10. Moves(to) => Reads(found) /\ HeartRead(seen) < Lease
    <2>1. Moves(to) => to = prog /\ Moves(prog) /\ to \in States
      BY <1>8 DEF Moves, States
    <2>2. ~Expired(HeartRead(seen)) => HeartRead(seen) < Lease
      BY <1>1, TimesAssumption DEF Expired
    <2> QED
      BY <2>1, <2>2, <1>4, <1>7, <1>9
  <1>11. /\ to # "kAborted"
         /\ to \in {"kIdle", "kArmed", "kRunning", "kHolding"} =>
               state \in {"kIdle", "kArmed", "kRunning", "kHolding"}
    BY <1>4, <1>8
  <1> QED
    BY <1>1, <1>2, <1>9, <1>10, <1>11 DEF to

DecideEffect ==
    /\ pc = "update" /\ active /\ state # "kAborted"
    /\ cycle' \in [candidate : 0 .. MaxGeneration + 1, held : BOOLEAN, missing : BOOLEAN,
                   released : {"none", "written", "failed"}]
    /\ cycle'.released = "none"
    /\ \/ cycle'.held /\ cycle'.candidate = generation /\ generation # 0
       \/ /\ ~cycle'.held /\ cycle'.candidate = generation + 1
          /\ generation = 0 \/ last = generation
    /\ \/ pc' = "write" /\ state' = state /\ Append(state)
          /\ terminal' \in BOOLEAN
          /\ UNCHANGED <<armedAge, heartAge, elapsed>>
       \/ /\ pc' \in {"attempt", "abort"} /\ state' \in States
          /\ pc' = "abort" <=> state' = "kAborted"
          /\ pc' = "attempt" => cycle'.candidate <= MaxGeneration
          /\ state' \in {"kIdle", "kArmed", "kRunning", "kHolding"} =>
                state \in {"kIdle", "kArmed", "kRunning", "kHolding"}
          /\ Moves(state') => heartAge' < Lease
          /\ terminal' \in BOOLEAN
          /\ armedAge' \in {0, armedAge} /\ heartAge' \in {heart, heartAge}
          /\ elapsed' \in 0 .. Duration + Hold
          /\ UNCHANGED <<publishedState, rows, dropped, complete>>
    /\ UNCHANGED <<activatedOnce, active, generation, release, busy, requested, heart, stop,
                   finish, saved, wire, beat, slots, commit, last, latched, expired,
                   admitted, claimed, feedbackStopped, publishFailed>>

\* The checks and state changes of update() do what DecideEffect says.
LEMMA DecideFacts ==
    ASSUME TypeOK, Decide
    PROVE  DecideEffect
  <1>1. PICK found \in Findings, read \in BOOLEAN, seen \in Sights :
          /\ cycle' = [candidate |-> Candidate(read),
                       held |-> generation # 0 /\ ~MayAdvance(read),
                       missing |-> Missing(found), released |-> "none"]
          /\ IF UpperLimitReached(found, read)
             THEN /\ terminal' = TRUE /\ Append(state) /\ pc' = "write"
                  /\ UNCHANGED <<state, armedAge, heartAge, elapsed>>
             ELSE /\ state' = IF Outcome(found, seen) \in States
                              THEN Outcome(found, seen) ELSE "kAborted"
                  /\ pc' = IF Outcome(found, seen) \in States THEN "attempt" ELSE "abort"
                  /\ terminal' = (terminal \/ Outcome(found, seen) \notin
                                    {"kBoot", "kIdle", "kArmed", "kRunning", "kHolding"})
                  /\ armedAge' = IF Reads(found) /\ Arms(seen) THEN 0 ELSE armedAge
                  /\ heartAge' = IF Reads(found) THEN HeartRead(seen) ELSE heartAge
                  /\ elapsed' = IF Reads(found) THEN Elapsed ELSE elapsed
                  /\ UNCHANGED <<publishedState, rows, dropped, complete>>
    BY DEF Decide
  <1>2. pc = "update" /\ active /\ state # "kAborted"
    BY DEF Decide
  <1>3. UNCHANGED <<activatedOnce, active, generation, release, busy, requested, heart, stop,
                    finish, saved, wire, beat, slots, commit, last, latched, expired,
                    admitted, claimed, feedbackStopped, publishFailed>>
    BY DEF Decide, lifecycleVars, nodeVars, senderVars, interfaceVars,
       hwVars, commitVars
  <1>4. /\ MayAdvance(read) \in BOOLEAN /\ MayAdvance(read) => last = generation
        /\ Missing(found) \in BOOLEAN
    BY DEF MayAdvance, Missing, FlagsOK, TypeOK
  <1>5. /\ Candidate(read) \in 0 .. MaxGeneration + 1
        /\ \/ /\ generation # 0 /\ ~MayAdvance(read) /\ Candidate(read) = generation
           \/ /\ generation = 0 \/ MayAdvance(read)
              /\ Candidate(read) = generation + 1
    BY <1>4, MaxGenerationAssumption DEF Candidate, TypeOK, ControlOK
  <1>6. /\ cycle' \in [candidate : 0 .. MaxGeneration + 1, held : BOOLEAN, missing : BOOLEAN,
                       released : {"none", "written", "failed"}]
        /\ cycle'.released = "none" /\ cycle'.candidate = Candidate(read)
        /\ cycle'.held = (generation # 0 /\ ~MayAdvance(read))
    BY <1>1, <1>4, <1>5
  <1>7. \/ cycle'.held /\ cycle'.candidate = generation /\ generation # 0
        \/ /\ ~cycle'.held /\ cycle'.candidate = generation + 1
           /\ generation = 0 \/ last = generation
    BY <1>4, <1>5, <1>6
  <1>8. CASE UpperLimitReached(found, read)
    BY <1>1, <1>2, <1>3, <1>6, <1>7, <1>8 DEF DecideEffect
  <1>9. CASE ~UpperLimitReached(found, read)
    <2> DEFINE to == Outcome(found, seen)
    <2>1. /\ Moves(to) => Reads(found) /\ HeartRead(seen) < Lease
          /\ to # "kAborted"
          /\ to \in {"kIdle", "kArmed", "kRunning", "kHolding"} =>
                state \in {"kIdle", "kArmed", "kRunning", "kHolding"}
          /\ to \in States => HasRoom /\ found \notin {"lost", "blind", "late"}
          /\ HeartRead(seen) \in {heart, heartAge}
          /\ Elapsed \in 0 .. Duration + Hold
      BY <1>2, OutcomeFacts DEF TypeOK
    <2>2. to \in States => Candidate(read) <= MaxGeneration
      BY <1>5, <1>9, <2>1, MaxGenerationAssumption DEF UpperLimitReached
    <2>3. /\ state' = IF to \in States THEN to ELSE "kAborted"
          /\ pc' = IF to \in States THEN "attempt" ELSE "abort"
          /\ armedAge' = IF Reads(found) /\ Arms(seen) THEN 0 ELSE armedAge
          /\ heartAge' = IF Reads(found) THEN HeartRead(seen) ELSE heartAge
          /\ elapsed' = IF Reads(found) THEN Elapsed ELSE elapsed
          /\ UNCHANGED <<publishedState, rows, dropped, complete>>
      BY <1>1, <1>9
    <2>4. terminal' \in BOOLEAN
      BY <1>1, <1>9 DEF TypeOK, FlagsOK
    <2> HIDE DEF to
    <2>5. /\ pc' \in {"attempt", "abort"} /\ state' \in States
          /\ pc' = "abort" <=> state' = "kAborted"
          /\ pc' = "attempt" => cycle'.candidate <= MaxGeneration
      BY <1>6, <2>1, <2>2, <2>3 DEF States
    <2>6. /\ state' \in {"kIdle", "kArmed", "kRunning", "kHolding"} =>
               state \in {"kIdle", "kArmed", "kRunning", "kHolding"}
          /\ Moves(state') => heartAge' < Lease
      BY <2>1, <2>3 DEF Moves, States
    <2>7. /\ armedAge' \in {0, armedAge} /\ heartAge' \in {heart, heartAge}
          /\ elapsed' \in 0 .. Duration + Hold
      BY <2>1, <2>3 DEF TypeOK, ControlOK
    <2> QED
      BY <1>2, <1>3, <1>6, <1>7, <2>3, <2>4, <2>5, <2>6, <2>7 DEF DecideEffect
  <1> QED
    BY <1>8, <1>9

\* A batch of attempt(): every slot is written, or a commit is left as it was.
LEMMA WriteFacts ==
    ASSUME NEW kind, NEW g, NEW values \in ValueOutcomes, NEW outcome \in CommitOutcomes,
           WriteAttempt(kind, g, values, outcome)
    PROVE  /\ \/ slots' = {Values(kind, g)} /\ commit' \in {commit, g}
              \/ slots' \in {slots \cup {Values(kind, g)}, slots} /\ commit' = commit
           /\ values = "ok" /\ outcome # "refused" =>
                 slots' = {Values(kind, g)} /\ commit' = g
           /\ values \in {"partial", "refused"} => commit' = commit
           /\ values \in {"ok", "unconfirmed"} => slots' = {Values(kind, g)}
  BY DEF WriteAttempt, Stored, Commits, ValueOutcomes, CommitOutcomes

AttemptKind == IF Moves(state) THEN "gains" ELSE "released"

AttemptEffect ==
    /\ pc = "attempt"
    /\ \/ /\ slots' = {Values(AttemptKind, cycle.candidate)} /\ commit' = cycle.candidate
          /\ generation' = cycle.candidate
          /\ state' = IF state = "kBoot" THEN "kIdle" ELSE state
          /\ rows' \in 0 .. RowCapacity /\ dropped' \in Nat /\ publishedState' = state'
          /\ complete' = (complete \/ state' = "kAborted")
          /\ pc' = "write" /\ UNCHANGED terminal
       \/ /\ state' = "kAborted" /\ terminal' = TRUE /\ pc' = "abort"
          /\ \/ slots' = {Values(AttemptKind, cycle.candidate)}
                /\ commit' \in {commit, cycle.candidate}
             \/ slots' \in {slots \cup {Values(AttemptKind, cycle.candidate)}, slots}
                /\ commit' = commit
          /\ UNCHANGED <<generation, publishedState, rows, dropped, complete>>
    /\ UNCHANGED <<activatedOnce, active, cycle, armedAge, heartAge, elapsed, release, busy,
                   requested, heart, stop, finish, saved, wire, beat, last, latched, expired,
                   admitted, claimed, feedbackStopped, publishFailed>>

\* attempt() does what AttemptEffect says.
LEMMA AttemptFacts ==
    ASSUME TypeOK, Attempt
    PROVE  AttemptEffect
  <1>1. PICK values \in ValueOutcomes, outcome \in CommitOutcomes :
          /\ WriteAttempt(AttemptKind, cycle.candidate, values, outcome)
          /\ IF values = "ok" /\ outcome = "ok"
             THEN LET s == IF state = "kBoot" THEN "kIdle" ELSE state
                  IN /\ generation' = cycle.candidate
                     /\ state' = s /\ Append(s) /\ pc' = "write"
                     /\ UNCHANGED terminal
             ELSE /\ state' = "kAborted" /\ terminal' = TRUE /\ pc' = "abort"
                  /\ UNCHANGED <<generation, publishedState, rows, dropped, complete>>
    BY DEF Attempt, AttemptKind
  <1>2. /\ pc = "attempt"
        /\ UNCHANGED <<activatedOnce, active, cycle, armedAge, heartAge, elapsed, release, busy,
                       requested, heart, stop, finish, saved, wire, beat, last, latched,
                       expired, admitted, claimed, feedbackStopped, publishFailed>>
    BY DEF Attempt, lifecycleVars, nodeVars, senderVars, hwVars, commitVars
  <1> DEFINE new == Values(AttemptKind, cycle.candidate)
  <1>3. /\ \/ slots' = {new} /\ commit' \in {commit, cycle.candidate}
           \/ slots' \in {slots \cup {new}, slots} /\ commit' = commit
        /\ values = "ok" /\ outcome # "refused" => slots' = {new} /\ commit' = cycle.candidate
    BY <1>1, WriteFacts
  <1>4. CASE values = "ok" /\ outcome = "ok"
    <2>1. /\ generation' = cycle.candidate /\ pc' = "write" /\ UNCHANGED terminal
          /\ state' = IF state = "kBoot" THEN "kIdle" ELSE state
          /\ Append(IF state = "kBoot" THEN "kIdle" ELSE state)
      BY <1>1, <1>4
    <2>2. Append(state') /\ state' \in States
      BY <2>1 DEF TypeOK, ControlOK, States
    <2>3. /\ rows' \in 0 .. RowCapacity /\ dropped' \in Nat /\ publishedState' = state'
          /\ complete' = (complete \/ state' = "kAborted")
      BY <2>2, CapacityAssumption DEF TypeOK, RecordOK, Append, HasRoom
    <2> QED
      BY <1>2, <1>3, <1>4, <2>1, <2>3 DEF AttemptEffect
  <1>5. CASE ~(values = "ok" /\ outcome = "ok")
    BY <1>1, <1>2, <1>3, <1>5 DEF AttemptEffect
  <1> QED
    BY <1>4, <1>5

AbortReleaseEffect ==
    /\ pc = "abort" /\ pc' = "write"
    /\ \/ /\ slots' = {Values("released", cycle.candidate)} /\ commit' = cycle.candidate
          /\ cycle' = [cycle EXCEPT !.released = "written"]
          /\ cycle.candidate <= MaxGeneration
       \/ /\ cycle' = [cycle EXCEPT !.released = "failed"]
          /\ \/ slots' = {Values("released", cycle.candidate)}
                /\ commit' \in {commit, cycle.candidate}
             \/ slots' \in {slots \cup {Values("released", cycle.candidate)}, slots}
                /\ commit' = commit
          /\ cycle.candidate <= MaxGeneration
       \/ UNCHANGED <<slots, commit, cycle>>
    /\ rows' \in 0 .. RowCapacity /\ dropped' \in Nat
    /\ publishedState' = "kAborted" /\ complete' = TRUE
    /\ UNCHANGED <<activatedOnce, active, terminal, state, generation, armedAge, heartAge,
                   elapsed, release, busy, requested, heart, stop, finish, saved, wire, beat,
                   last, latched, expired, admitted, claimed, feedbackStopped, publishFailed>>

\* The release of an aborted cycle does what AbortReleaseEffect says.
LEMMA AbortReleaseFacts ==
    ASSUME TypeOK, AbortRelease
    PROVE  AbortReleaseEffect
  <1>1. /\ pc = "abort" /\ pc' = "write" /\ Append("kAborted")
        /\ UNCHANGED <<activatedOnce, active, terminal, state, generation, armedAge, heartAge,
                       elapsed, release, busy, requested, heart, stop, finish, saved, wire,
                       beat, last, latched, expired, admitted, claimed, feedbackStopped,
                       publishFailed>>
    BY DEF AbortRelease, lifecycleVars, nodeVars, senderVars, hwVars, commitVars
  <1>2. /\ rows' \in 0 .. RowCapacity /\ dropped' \in Nat
        /\ publishedState' = "kAborted" /\ complete' = TRUE
    <2>1. rows' \in 0 .. RowCapacity /\ dropped' \in Nat /\ publishedState' = "kAborted"
      BY <1>1, CapacityAssumption DEF TypeOK, RecordOK, Append, HasRoom
    <2>2. complete' = TRUE
      BY <1>1, Zenon DEF Append
    <2> QED
      BY <2>1, <2>2
  <1>3. CASE Releases
    <2>1. PICK values \in ValueOutcomes, outcome \in CommitOutcomes :
            /\ WriteAttempt("released", cycle.candidate, values, outcome)
            /\ cycle' = [cycle EXCEPT !.released =
                           IF values = "ok" /\ outcome # "refused" THEN "written"
                           ELSE "failed"]
      BY <1>3 DEF AbortRelease, Releases, ReleasedKind, ReleaseGeneration
    <2>2. cycle.candidate <= MaxGeneration
      BY <1>3 DEF Releases
    <2> DEFINE new == Values("released", cycle.candidate)
    <2>3. /\ \/ slots' = {new} /\ commit' \in {commit, cycle.candidate}
             \/ slots' \in {slots \cup {new}, slots} /\ commit' = commit
          /\ values = "ok" /\ outcome # "refused" =>
                slots' = {new} /\ commit' = cycle.candidate
      BY <2>1, WriteFacts
    <2> QED
      BY <1>1, <1>2, <2>1, <2>2, <2>3 DEF AbortReleaseEffect
  <1>4. CASE ~Releases
    BY <1>1, <1>2, <1>4 DEF AbortRelease, AbortReleaseEffect
  <1> QED
    BY <1>3, <1>4

\* What the hardware makes of the slots.
LEMMA SlotClassFacts ==
    ASSUME HardwareOK
    PROVE  /\ SlotClass \in Batches
           /\ (\A v \in slots : v.kind # "nan") => SlotClass # "invalid"
           /\ SlotClass = "active" => HasGains(slots)
           /\ SlotClass = "released" => ~HasGains(slots)
  <1>1. \A v \in slots : v.kind \in {"nan", "released", "gains"}
    BY DEF HardwareOK, SlotValues
  <1> QED
    BY <1>1 DEF SlotClass, Batches, HasGains

HardwareWriteEffect ==
    /\ pc = "write" /\ pc' = "update"
    /\ \/ /\ ~(claimed /\ ~feedbackStopped)
          /\ UNCHANGED <<last, latched, expired, admitted, publishFailed>>
       \/ /\ claimed /\ expired' = TRUE /\ latched' = TRUE
          /\ UNCHANGED <<last, admitted, publishFailed>>
       \/ /\ ~expired /\ commit = last
          /\ UNCHANGED <<last, latched, expired, admitted, publishFailed>>
       \/ /\ Listening /\ commit = last + 1 /\ last' = commit /\ UNCHANGED expired
          /\ latched => ~HasGains(slots)
          /\ \/ admitted' = slots /\ UNCHANGED <<latched, publishFailed>>
             \/ latched' = TRUE /\ publishFailed' = TRUE /\ UNCHANGED admitted
       \/ /\ Listening /\ commit = last + 1 /\ publishFailed /\ HasGains(slots)
          /\ latched' = TRUE /\ UNCHANGED <<last, expired, admitted, publishFailed>>
    /\ UNCHANGED <<activatedOnce, active, terminal, state, publishedState, generation, cycle,
                   armedAge, heartAge, elapsed, rows, dropped, complete, release, busy,
                   requested, heart, stop, finish, saved, wire, beat, slots, commit, claimed,
                   feedbackStopped>>

\* The hardware's write() does what HardwareWriteEffect says.
LEMMA HardwareWriteFacts ==
    ASSUME TypeOK, NumberingInv, AdmissionInv, HardwareWrite
    PROVE  HardwareWriteEffect
  <1>1. PICK late \in BOOLEAN, published \in BOOLEAN :
          LET inspected == claimed /\ ~feedbackStopped
              accepts == inspected /\ Inspect(commit, SlotClass, late) = "Accepted"
          IN /\ last' = IF accepts THEN commit ELSE last
             /\ expired' = IF inspected THEN ExpiresNow(late) ELSE expired
             /\ latched' = \/ latched
                           \/ inspected /\ InspectLatches(commit, SlotClass, late)
                           \/ accepts /\ ~published
             /\ admitted' = IF accepts /\ published THEN slots ELSE admitted
             /\ publishFailed' = (publishFailed \/ (accepts /\ ~published))
    BY DEF HardwareWrite
  <1>2. /\ pc = "write" /\ pc' = "update"
        /\ UNCHANGED <<activatedOnce, active, terminal, state, publishedState, generation,
                       cycle, armedAge, heartAge, elapsed, rows, dropped, complete, release,
                       busy, requested, heart, stop, finish, saved, wire, beat, slots, commit,
                       claimed, feedbackStopped>>
    BY DEF HardwareWrite, lifecycleVars, rtVars, nodeVars, senderVars, interfaceVars
  <1>3. /\ SlotClass \in Batches
        /\ (\A v \in slots : v.kind # "nan") => SlotClass # "invalid"
        /\ SlotClass = "active" => HasGains(slots)
        /\ SlotClass = "released" => ~HasGains(slots)
    BY SlotClassFacts DEF TypeOK
  <1> DEFINE reason == Inspect(commit, SlotClass, late)
  <1>4. CASE ~(claimed /\ ~feedbackStopped)
    <2>1. UNCHANGED <<last, expired, admitted>>
      BY <1>1, <1>4
    <2>2. UNCHANGED <<latched, publishFailed>>
      BY <1>1, <1>4 DEF TypeOK, FlagsOK
    <2> QED
      BY <1>2, <1>4, <2>1, <2>2 DEF HardwareWriteEffect
  <1>5. CASE claimed /\ ~feedbackStopped
    <2>1. /\ last' = IF reason = "Accepted" THEN commit ELSE last
          /\ expired' = ExpiresNow(late)
          /\ latched' = \/ latched \/ InspectLatches(commit, SlotClass, late)
                        \/ reason = "Accepted" /\ ~published
          /\ admitted' = IF reason = "Accepted" /\ published THEN slots ELSE admitted
          /\ publishFailed' = (publishFailed \/ (reason = "Accepted" /\ ~published))
      BY <1>1, <1>5
    <2>2. commit # BadGeneration
      BY MaxGenerationAssumption DEF TypeOK, HardwareOK, BadGeneration
    <2>3. CASE ExpiresNow(late)
      <3>1. reason = "StartupExpired"
        BY <2>3 DEF Inspect
      <3>2. InspectLatches(commit, SlotClass, late)
        BY <3>1 DEF InspectLatches
      <3>3. UNCHANGED <<last, admitted>>
        BY <2>1, <3>1
      <3>4. expired' = TRUE /\ latched' = TRUE
        BY <2>1, <2>3, <3>2 DEF ExpiresNow, TypeOK, FlagsOK
      <3>5. UNCHANGED publishFailed
        BY <2>1, <3>1 DEF TypeOK, FlagsOK
      <3> QED
        BY <1>2, <1>5, <3>3, <3>4, <3>5 DEF HardwareWriteEffect
    <2>4. CASE ~ExpiresNow(late) /\ commit = last
      <3>1. reason \in {"BootWait", "Unchanged"}
        BY <2>2, <2>4 DEF Inspect
      <3>2. ~InspectLatches(commit, SlotClass, late)
        BY <2>2, <3>1 DEF InspectLatches
      <3>3. UNCHANGED <<last, admitted>>
        BY <2>1, <3>1
      <3>4. UNCHANGED <<latched, publishFailed, expired>> /\ ~expired
        BY <2>1, <2>4, <3>1, <3>2 DEF ExpiresNow, TypeOK, FlagsOK
      <3> QED
        BY <1>2, <2>4, <3>3, <3>4 DEF HardwareWriteEffect
    <2>5. CASE ~ExpiresNow(late) /\ commit # last
      <3>1. commit = last + 1 /\ commit # 0 /\ last # MaxGeneration
        BY <2>5, MaxGenerationAssumption DEF NumberingInv, TypeOK, HardwareOK
      <3>2. SlotClass \in {"released", "active"}
        BY <1>3, <3>1 DEF AdmissionInv, Batches
      <3>3. ~expired /\ ~expired' /\ UNCHANGED expired
        BY <2>1, <2>5 DEF ExpiresNow, TypeOK, FlagsOK
      <3>4. Listening
        BY <1>5, <3>3 DEF Listening
      <3>5. reason = IF MustBeReleased /\ SlotClass # "released"
                     THEN "LatchedNonzero" ELSE "Accepted"
        BY <2>2, <2>5, <3>1, <3>2, MaxGenerationAssumption
           DEF Inspect, IsGap, OutOfBounds, TypeOK, HardwareOK
      <3>6. CASE MustBeReleased /\ SlotClass # "released"
        <4>1. reason = "LatchedNonzero" /\ HasGains(slots)
          BY <1>3, <3>2, <3>5, <3>6
        <4>2. publishFailed
          BY <1>5, <3>3, <3>4, <3>6, <4>1 DEF AdmissionInv, MustBeReleased
        <4>3. InspectLatches(commit, SlotClass, late)
          BY <4>1 DEF InspectLatches
        <4>4. latched' = TRUE /\ UNCHANGED publishFailed
          BY <2>1, <4>1, <4>2, <4>3 DEF TypeOK, FlagsOK
        <4>5. UNCHANGED <<last, admitted>>
          BY <2>1, <4>1
        <4> QED
          BY <1>2, <3>1, <3>3, <3>4, <4>1, <4>2, <4>4, <4>5 DEF HardwareWriteEffect
      <3>7. CASE ~(MustBeReleased /\ SlotClass # "released")
        <4>1. reason = "Accepted"
          BY <3>5, <3>7
        <4>2. ~InspectLatches(commit, SlotClass, late)
          BY <2>2, <4>1 DEF InspectLatches
        <4>3. last' = commit /\ (latched => ~HasGains(slots))
          BY <1>3, <2>1, <3>7, <4>1 DEF MustBeReleased
        <4>4. CASE published
          <5>1. admitted' = slots
            BY <2>1, <4>1, <4>4
          <5>2. UNCHANGED <<latched, publishFailed>>
            BY <2>1, <4>2, <4>4 DEF TypeOK, FlagsOK
          <5> QED
            BY <1>2, <3>1, <3>3, <3>4, <4>3, <5>1, <5>2 DEF HardwareWriteEffect
        <4>5. CASE ~published
          <5>1. UNCHANGED admitted
            BY <2>1, <4>5
          <5>2. latched' = TRUE /\ publishFailed' = TRUE
            BY <2>1, <4>1, <4>5 DEF TypeOK, FlagsOK
          <5> QED
            BY <1>2, <3>1, <3>3, <3>4, <4>3, <5>1, <5>2 DEF HardwareWriteEffect
        <4> QED
          BY <4>4, <4>5
      <3> QED
        BY <3>6, <3>7
    <2> QED
      BY <2>3, <2>4, <2>5
  <1> QED
    BY <1>4, <1>5

---------------------------------------------------------------------------
(* The invariant is inductive *)

\* The invariant holds initially.
LEMMA InitInv == Init => IInv
  <1> SUFFICES ASSUME Init PROVE IInv
    OBVIOUS
  <1>1. TypeOK
    <2>0. FlagsOK
      BY DEF Init, CommitInit, FlagsOK
    <2>1. ControlOK
      BY TimesAssumption, MaxGenerationAssumption DEF Init, ControlOK, States, NoCycle
    <2>2. AgesOK /\ RecordOK
      BY TimesAssumption, CapacityAssumption DEF Init, AgesOK, RecordOK
    <2>3. slots \in SUBSET SlotValues /\ admitted \in SUBSET SlotValues
      BY MaxGenerationAssumption DEF Init, Values, SlotValues
    <2>4. HardwareOK
      BY <2>3, MaxGenerationAssumption DEF Init, CommitInit, HardwareOK
    <2> QED
      BY <2>0, <2>1, <2>2, <2>4 DEF TypeOK
  <1>2. LifecycleInv /\ LeaseInv
    <2>1. LifecycleInv
      BY DEF Init, LifecycleInv, NoCycle
    <2>2. LeaseInv
      BY TimesAssumption DEF Init, LeaseInv, Moves
    <2> QED
      BY <2>1, <2>2
  <1>3. NumberingInv /\ AdmissionInv
    BY DEF Init, CommitInit, NumberingInv, AdmissionInv, Listening, HasGains, Values, NoCycle
  <1>4. ReleaseInv /\ TornNeedsFailedRelease /\ SavedRecordIsWhole
    BY DEF Init, ReleaseInv, TornNeedsFailedRelease, SavedRecordIsWhole, NoCycle
  <1> QED
    BY <1>1, <1>2, <1>3, <1>4 DEF IInv

\* requestStart() touches nothing that the invariant is about.
LEMMA RequestStartInv ==
    ASSUME IInv, RequestStart
    PROVE  IInv'
  <1>0. TypeOK /\ LifecycleInv /\ LeaseInv /\ NumberingInv /\ AdmissionInv /\ ReleaseInv
        /\ TornNeedsFailedRelease /\ SavedRecordIsWhole
    BY DEF IInv
  <1>1. /\ release' \in BOOLEAN /\ busy' = TRUE /\ requested' = TRUE
        /\ UNCHANGED <<activatedOnce, active, terminal, pc, state, publishedState,
           generation, cycle, armedAge, heartAge, elapsed, rows, dropped, complete,
           heart, stop, finish, saved, wire, beat, slots, commit, last, latched,
           expired, admitted, claimed, feedbackStopped, publishFailed>>
    BY DEF RequestStart, lifecycleVars, rtVars, nodeVars, senderVars, interfaceVars,
       hwVars, commitVars
  <1>2. TypeOK'
    BY <1>0, <1>1 DEF TypeOK, FlagsOK, ControlOK, AgesOK, RecordOK, HardwareOK
  <1>3. LifecycleInv'
    BY <1>0, <1>1 DEF LifecycleInv
  <1>4. LeaseInv'
    BY <1>0, <1>1 DEF LeaseInv
  <1>5. NumberingInv'
    BY <1>0, <1>1 DEF NumberingInv
  <1>6. AdmissionInv'
    BY <1>0, <1>1 DEF AdmissionInv, Listening, HasGains, OneBatch
  <1>7. ReleaseInv'
    BY <1>0, <1>1 DEF ReleaseInv, Listening
  <1>8. TornNeedsFailedRelease'
    BY <1>0, <1>1 DEF TornNeedsFailedRelease
  <1>9. SavedRecordIsWhole'
    BY <1>0, <1>1 DEF SavedRecordIsWhole
  <1> QED
    BY <1>2, <1>3, <1>4, <1>5, <1>6, <1>7, <1>8, <1>9 DEF IInv

\* A new heartbeat is younger than all others.
LEMMA SendBeatInv ==
    ASSUME IInv, SendBeat
    PROVE  IInv'
  <1>0. TypeOK /\ LifecycleInv /\ LeaseInv /\ NumberingInv /\ AdmissionInv /\ ReleaseInv
        /\ TornNeedsFailedRelease /\ SavedRecordIsWhole
    BY DEF IInv
  <1>1. /\ wire' = 0 /\ beat' = 0
        /\ UNCHANGED <<activatedOnce, active, terminal, pc, state, publishedState,
           generation, cycle, armedAge, heartAge, elapsed, rows, dropped, complete,
           release, busy, requested, heart, stop, finish, saved, slots, commit, last,
           latched, expired, admitted, claimed, feedbackStopped, publishFailed>>
    BY DEF SendBeat, lifecycleVars, rtVars, nodeVars, senderVars, interfaceVars,
       hwVars, commitVars
  <1>2. TypeOK'
    BY <1>0, <1>1, TimesAssumption DEF TypeOK, FlagsOK, ControlOK, AgesOK, RecordOK,
       HardwareOK
  <1>3. LifecycleInv'
    BY <1>0, <1>1 DEF LifecycleInv
  <1>4. LeaseInv'
    BY <1>0, <1>1 DEF LeaseInv, TypeOK, FlagsOK, ControlOK, AgesOK, RecordOK,
       HardwareOK
  <1>5. NumberingInv'
    BY <1>0, <1>1 DEF NumberingInv
  <1>6. AdmissionInv'
    BY <1>0, <1>1 DEF AdmissionInv, Listening, HasGains, OneBatch
  <1>7. ReleaseInv'
    BY <1>0, <1>1 DEF ReleaseInv, Listening
  <1>8. TornNeedsFailedRelease'
    BY <1>0, <1>1 DEF TornNeedsFailedRelease
  <1>9. SavedRecordIsWhole'
    BY <1>0, <1>1 DEF SavedRecordIsWhole
  <1> QED
    BY <1>2, <1>3, <1>4, <1>5, <1>6, <1>7, <1>8, <1>9 DEF IInv

\* The node stores the heartbeat with the age it has.
LEMMA KeepaliveInv ==
    ASSUME IInv, Keepalive
    PROVE  IInv'
  <1>0. TypeOK /\ LifecycleInv /\ LeaseInv /\ NumberingInv /\ AdmissionInv /\ ReleaseInv
        /\ TornNeedsFailedRelease /\ SavedRecordIsWhole
    BY DEF IInv
  <1>1. /\ heart' = wire /\ wire' = Lease
        /\ UNCHANGED <<activatedOnce, active, terminal, pc, state, publishedState,
           generation, cycle, armedAge, heartAge, elapsed, rows, dropped, complete,
           release, busy, requested, stop, finish, saved, beat, slots, commit, last,
           latched, expired, admitted, claimed, feedbackStopped, publishFailed>>
    BY DEF Keepalive, AgeOnArrival, lifecycleVars, rtVars, nodeVars, senderVars, interfaceVars,
       hwVars, commitVars
  <1>2. TypeOK'
    BY <1>0, <1>1, TimesAssumption DEF TypeOK, FlagsOK, ControlOK, AgesOK, RecordOK,
       HardwareOK
  <1>3. LifecycleInv'
    BY <1>0, <1>1 DEF LifecycleInv
  <1>4. LeaseInv'
    BY <1>0, <1>1, TimesAssumption DEF LeaseInv, TypeOK, FlagsOK, ControlOK, AgesOK,
       RecordOK, HardwareOK
  <1>5. NumberingInv'
    BY <1>0, <1>1 DEF NumberingInv
  <1>6. AdmissionInv'
    BY <1>0, <1>1 DEF AdmissionInv, Listening, HasGains, OneBatch
  <1>7. ReleaseInv'
    BY <1>0, <1>1 DEF ReleaseInv, Listening
  <1>8. TornNeedsFailedRelease'
    BY <1>0, <1>1 DEF TornNeedsFailedRelease
  <1>9. SavedRecordIsWhole'
    BY <1>0, <1>1 DEF SavedRecordIsWhole
  <1> QED
    BY <1>2, <1>3, <1>4, <1>5, <1>6, <1>7, <1>8, <1>9 DEF IInv

\* requestFinish() only sets a flag.
LEMMA RequestFinishInv ==
    ASSUME IInv, RequestFinish
    PROVE  IInv'
  <1>0. TypeOK /\ LifecycleInv /\ LeaseInv /\ NumberingInv /\ AdmissionInv /\ ReleaseInv
        /\ TornNeedsFailedRelease /\ SavedRecordIsWhole
    BY DEF IInv
  <1>1. /\ finish' = TRUE
        /\ UNCHANGED <<activatedOnce, active, terminal, pc, state, publishedState,
           generation, cycle, armedAge, heartAge, elapsed, rows, dropped, complete,
           release, busy, requested, heart, stop, saved, wire, beat, slots, commit,
           last, latched, expired, admitted, claimed, feedbackStopped, publishFailed>>
    BY DEF RequestFinish, lifecycleVars, rtVars, nodeVars, senderVars, interfaceVars,
       hwVars, commitVars
  <1>2. TypeOK'
    BY <1>0, <1>1 DEF TypeOK, FlagsOK, ControlOK, AgesOK, RecordOK, HardwareOK
  <1>3. LifecycleInv'
    BY <1>0, <1>1 DEF LifecycleInv
  <1>4. LeaseInv'
    BY <1>0, <1>1 DEF LeaseInv
  <1>5. NumberingInv'
    BY <1>0, <1>1 DEF NumberingInv
  <1>6. AdmissionInv'
    BY <1>0, <1>1 DEF AdmissionInv, Listening, HasGains, OneBatch
  <1>7. ReleaseInv'
    BY <1>0, <1>1 DEF ReleaseInv, Listening
  <1>8. TornNeedsFailedRelease'
    BY <1>0, <1>1 DEF TornNeedsFailedRelease
  <1>9. SavedRecordIsWhole'
    BY <1>0, <1>1 DEF SavedRecordIsWhole
  <1> QED
    BY <1>2, <1>3, <1>4, <1>5, <1>6, <1>7, <1>8, <1>9 DEF IInv

\* ~/stop only sets a flag.
LEMMA RequestStopInv ==
    ASSUME IInv, RequestStop
    PROVE  IInv'
  <1>0. TypeOK /\ LifecycleInv /\ LeaseInv /\ NumberingInv /\ AdmissionInv /\ ReleaseInv
        /\ TornNeedsFailedRelease /\ SavedRecordIsWhole
    BY DEF IInv
  <1>1. /\ stop' = TRUE
        /\ UNCHANGED <<activatedOnce, active, terminal, pc, state, publishedState,
           generation, cycle, armedAge, heartAge, elapsed, rows, dropped, complete,
           release, busy, requested, heart, finish, saved, wire, beat, slots, commit,
           last, latched, expired, admitted, claimed, feedbackStopped, publishFailed>>
    BY DEF RequestStop, lifecycleVars, rtVars, nodeVars, senderVars, interfaceVars,
       hwVars, commitVars
  <1>2. TypeOK'
    BY <1>0, <1>1 DEF TypeOK, FlagsOK, ControlOK, AgesOK, RecordOK, HardwareOK
  <1>3. LifecycleInv'
    BY <1>0, <1>1 DEF LifecycleInv
  <1>4. LeaseInv'
    BY <1>0, <1>1 DEF LeaseInv
  <1>5. NumberingInv'
    BY <1>0, <1>1 DEF NumberingInv
  <1>6. AdmissionInv'
    BY <1>0, <1>1 DEF AdmissionInv, Listening, HasGains, OneBatch
  <1>7. ReleaseInv'
    BY <1>0, <1>1 DEF ReleaseInv, Listening
  <1>8. TornNeedsFailedRelease'
    BY <1>0, <1>1 DEF TornNeedsFailedRelease
  <1>9. SavedRecordIsWhole'
    BY <1>0, <1>1 DEF SavedRecordIsWhole
  <1> QED
    BY <1>2, <1>3, <1>4, <1>5, <1>6, <1>7, <1>8, <1>9 DEF IInv

\* update() of an aborted or inactive controller does nothing.
LEMMA UpdateNothingInv ==
    ASSUME IInv, UpdateNothing
    PROVE  IInv'
  <1>0. TypeOK /\ LifecycleInv /\ LeaseInv /\ NumberingInv /\ AdmissionInv /\ ReleaseInv
        /\ TornNeedsFailedRelease /\ SavedRecordIsWhole
    BY DEF IInv
  <1>1. /\ pc = "update" /\ pc' = "write" /\ (state = "kAborted" \/ ~active)
        /\ UNCHANGED <<activatedOnce, active, terminal, state, publishedState,
           generation, cycle, armedAge, heartAge, elapsed, rows, dropped, complete,
           release, busy, requested, heart, stop, finish, saved, wire, beat, slots,
           commit, last, latched, expired, admitted, claimed, feedbackStopped,
           publishFailed>>
    BY DEF UpdateNothing, lifecycleVars, rtVars, nodeVars, senderVars, interfaceVars,
       hwVars, commitVars
  <1>2. TypeOK'
    BY <1>0, <1>1 DEF TypeOK, FlagsOK, ControlOK, AgesOK, RecordOK, HardwareOK
  <1>3. LifecycleInv'
    BY <1>0, <1>1 DEF LifecycleInv
  <1>4. LeaseInv'
    BY <1>0, <1>1 DEF LeaseInv
  <1>5. NumberingInv'
    BY <1>0, <1>1 DEF NumberingInv
  <1>6. AdmissionInv'
    BY <1>0, <1>1 DEF AdmissionInv, Listening, HasGains, OneBatch
  <1>7. ReleaseInv'
    BY <1>0, <1>1 DEF ReleaseInv, Listening
  <1>8. TornNeedsFailedRelease'
    BY <1>0, <1>1 DEF TornNeedsFailedRelease
  <1>9. SavedRecordIsWhole'
    BY <1>0, <1>1 DEF SavedRecordIsWhole
  <1> QED
    BY <1>2, <1>3, <1>4, <1>5, <1>6, <1>7, <1>8, <1>9 DEF IInv

\* A group that has stopped no longer listens.
LEMMA FeedbackStopsInv ==
    ASSUME IInv, FeedbackStops
    PROVE  IInv'
  <1>0. TypeOK /\ LifecycleInv /\ LeaseInv /\ NumberingInv /\ AdmissionInv /\ ReleaseInv
        /\ TornNeedsFailedRelease /\ SavedRecordIsWhole
    BY DEF IInv
  <1>1. /\ feedbackStopped' = TRUE
        /\ UNCHANGED <<activatedOnce, active, terminal, pc, state, publishedState,
           generation, cycle, armedAge, heartAge, elapsed, rows, dropped, complete,
           release, busy, requested, heart, stop, finish, saved, wire, beat, slots,
           commit, last, latched, expired, admitted, claimed, publishFailed>>
    BY DEF FeedbackStops, lifecycleVars, rtVars, nodeVars, senderVars, interfaceVars,
       hwVars, commitVars
  <1>2. TypeOK'
    BY <1>0, <1>1 DEF TypeOK, FlagsOK, ControlOK, AgesOK, RecordOK, HardwareOK
  <1>3. LifecycleInv'
    BY <1>0, <1>1 DEF LifecycleInv
  <1>4. LeaseInv'
    BY <1>0, <1>1 DEF LeaseInv
  <1>5. NumberingInv'
    BY <1>0, <1>1 DEF NumberingInv
  <1>6. AdmissionInv'
    BY <1>0, <1>1 DEF AdmissionInv, Listening, HasGains, OneBatch
  <1>7. ReleaseInv'
    BY <1>0, <1>1 DEF ReleaseInv, Listening
  <1>8. TornNeedsFailedRelease'
    BY <1>0, <1>1 DEF TornNeedsFailedRelease
  <1>9. SavedRecordIsWhole'
    BY <1>0, <1>1 DEF SavedRecordIsWhole
  <1> QED
    BY <1>2, <1>3, <1>4, <1>5, <1>6, <1>7, <1>8, <1>9 DEF IInv

\* on_activate() starts from the initial numbers.
LEMMA ActivateInv ==
    ASSUME IInv, Activate
    PROVE  IInv'
  <1>0. TypeOK /\ LifecycleInv /\ LeaseInv /\ NumberingInv /\ AdmissionInv /\ ReleaseInv
        /\ TornNeedsFailedRelease /\ SavedRecordIsWhole
    BY DEF IInv
  <1>1. /\ ~activatedOnce /\ activatedOnce' = TRUE /\ pc = "update"
        /\ \/ active' = TRUE /\ claimed' = TRUE /\ last = 0
              /\ state' = "kBoot" /\ publishedState' = "kBoot" /\ UNCHANGED terminal
           \/ terminal' = TRUE /\ UNCHANGED <<active, claimed, state, publishedState>>
        /\ UNCHANGED <<pc, generation, cycle, armedAge, heartAge, elapsed, rows,
           dropped, complete, release, busy, requested, heart, stop, finish, saved,
           wire, beat, slots, commit, last, latched, expired, admitted, feedbackStopped,
           publishFailed>>
    BY DEF Activate, nodeVars, senderVars, interfaceVars, commitVars
  <1>2. TypeOK'
    <2>1. FlagsOK'
      BY <1>0, <1>1, ZenonT(30) DEF TypeOK, FlagsOK
    <2>2. ControlOK'
      BY <1>0, <1>1 DEF TypeOK, ControlOK, States
    <2>3. AgesOK'
      BY <1>0, <1>1 DEF TypeOK, AgesOK
    <2>4. RecordOK'
      BY <1>0, <1>1 DEF TypeOK, RecordOK
    <2>5. HardwareOK'
      BY <1>0, <1>1 DEF TypeOK, HardwareOK
    <2> QED
      BY <2>1, <2>2, <2>3, <2>4, <2>5 DEF TypeOK
  <1>3. LifecycleInv'
    BY <1>0, <1>1 DEF LifecycleInv
  <1>4. LeaseInv'
    BY <1>0, <1>1 DEF LeaseInv, Moves
  <1>5. NumberingInv'
    BY <1>0, <1>1 DEF NumberingInv, LifecycleInv, TypeOK, ControlOK, HardwareOK, States
  <1>6. AdmissionInv'
    BY <1>0, <1>1 DEF AdmissionInv, Listening, HasGains, OneBatch, LifecycleInv,
       NumberingInv
  <1>7. ReleaseInv'
    BY <1>0, <1>1 DEF ReleaseInv, Listening, LifecycleInv
  <1>8. TornNeedsFailedRelease'
    BY <1>0, <1>1 DEF TornNeedsFailedRelease
  <1>9. SavedRecordIsWhole'
    BY <1>0, <1>1 DEF SavedRecordIsWhole
  <1> QED
    BY <1>2, <1>3, <1>4, <1>5, <1>6, <1>7, <1>8, <1>9 DEF IInv

\* on_deactivate() ends the run at a place where no row is under way.
LEMMA DeactivateInv ==
    ASSUME IInv, Deactivate
    PROVE  IInv'
  <1>0. TypeOK /\ LifecycleInv /\ LeaseInv /\ NumberingInv /\ AdmissionInv /\ ReleaseInv
        /\ TornNeedsFailedRelease /\ SavedRecordIsWhole
    BY DEF IInv
  <1>1. /\ active /\ pc \in {"update", "write"}
        /\ terminal' = TRUE /\ active' = FALSE /\ complete' = TRUE
        /\ claimed' = FALSE /\ latched' = TRUE
        /\ UNCHANGED <<activatedOnce, pc, state, publishedState, generation, cycle,
           armedAge, heartAge, elapsed, rows, dropped, release, busy, requested, heart,
           stop, finish, saved, wire, beat, slots, commit, last, expired, admitted,
           feedbackStopped, publishFailed>>
    BY DEF Deactivate, nodeVars, senderVars, interfaceVars
  <1>2. TypeOK'
    <2>1. FlagsOK'
      BY <1>0, <1>1, ZenonT(30) DEF TypeOK, FlagsOK
    <2>2. ControlOK'
      BY <1>0, <1>1 DEF TypeOK, ControlOK
    <2>3. AgesOK'
      BY <1>0, <1>1 DEF TypeOK, AgesOK
    <2>4. RecordOK'
      BY <1>0, <1>1 DEF TypeOK, RecordOK
    <2>5. HardwareOK'
      BY <1>0, <1>1 DEF TypeOK, HardwareOK
    <2> QED
      BY <2>1, <2>2, <2>3, <2>4, <2>5 DEF TypeOK
  <1>3. LifecycleInv'
    BY <1>0, <1>1 DEF LifecycleInv
  <1>4. LeaseInv'
    BY <1>0, <1>1 DEF LeaseInv
  <1>5. NumberingInv'
    BY <1>0, <1>1 DEF NumberingInv
  <1>6. AdmissionInv'
    BY <1>0, <1>1 DEF AdmissionInv, Listening, HasGains, OneBatch, LifecycleInv
  <1>7. ReleaseInv'
    BY <1>0, <1>1 DEF ReleaseInv, Listening
  <1>8. TornNeedsFailedRelease'
    BY <1>0, <1>1 DEF TornNeedsFailedRelease
  <1>9. SavedRecordIsWhole'
    BY <1>0, <1>1 DEF SavedRecordIsWhole
  <1> QED
    BY <1>2, <1>3, <1>4, <1>5, <1>6, <1>7, <1>8, <1>9 DEF IInv

\* The record that is saved is complete, so no row is added to it.
LEMMA SaveRecordInv ==
    ASSUME IInv, SaveRecord
    PROVE  IInv'
  <1>0. TypeOK /\ LifecycleInv /\ LeaseInv /\ NumberingInv /\ AdmissionInv /\ ReleaseInv
        /\ TornNeedsFailedRelease /\ SavedRecordIsWhole
    BY DEF IInv
  <1>1. /\ complete /\ saved.state = "unsaved"
        /\ \/ /\ dropped = 0 /\ rows # 0
              /\ saved' = [state |-> "saved", rows |-> rows]
              /\ UNCHANGED terminal
           \/ saved' = [state |-> "failed", rows |-> rows] /\ terminal' = TRUE
        /\ UNCHANGED <<activatedOnce, active, pc, state, publishedState, generation,
           cycle, armedAge, heartAge, elapsed, rows, dropped, complete, release, busy,
           requested, heart, stop, finish, wire, beat, slots, commit, last, latched,
           expired, admitted, claimed, feedbackStopped, publishFailed>>
    BY DEF SaveRecord, ReadyToSave, lifecycleVars, rtVars, nodeVars, senderVars, interfaceVars,
       hwVars, commitVars
  <1>2. TypeOK'
    <2>1. FlagsOK'
      BY <1>0, <1>1, ZenonT(30) DEF TypeOK, FlagsOK
    <2>2. ControlOK'
      BY <1>0, <1>1 DEF TypeOK, ControlOK
    <2>3. AgesOK'
      BY <1>0, <1>1 DEF TypeOK, AgesOK
    <2>4. RecordOK'
      BY <1>0, <1>1 DEF TypeOK, RecordOK
    <2>5. HardwareOK'
      BY <1>0, <1>1 DEF TypeOK, HardwareOK
    <2> QED
      BY <2>1, <2>2, <2>3, <2>4, <2>5 DEF TypeOK
  <1>3. LifecycleInv'
    BY <1>0, <1>1 DEF LifecycleInv
  <1>4. LeaseInv'
    BY <1>0, <1>1 DEF LeaseInv
  <1>5. NumberingInv'
    BY <1>0, <1>1 DEF NumberingInv
  <1>6. AdmissionInv'
    BY <1>0, <1>1 DEF AdmissionInv, Listening, HasGains, OneBatch
  <1>7. ReleaseInv'
    BY <1>0, <1>1 DEF ReleaseInv, Listening
  <1>8. TornNeedsFailedRelease'
    BY <1>0, <1>1 DEF TornNeedsFailedRelease
  <1>9. SavedRecordIsWhole'
    BY <1>0, <1>1 DEF SavedRecordIsWhole
  <1> QED
    BY <1>2, <1>3, <1>4, <1>5, <1>6, <1>7, <1>8, <1>9 DEF IInv

\* All ages grow together.
LEMMA TickInv ==
    ASSUME IInv, Tick
    PROVE  IInv'
  <1>0. TypeOK /\ LifecycleInv /\ LeaseInv /\ NumberingInv /\ AdmissionInv /\ ReleaseInv
        /\ TornNeedsFailedRelease /\ SavedRecordIsWhole
    BY DEF IInv
  <1>1. /\ pc = "update"
        /\ armedAge' = IF state = "kArmed" THEN Older(armedAge, ArmTimeout) ELSE 0
        /\ heartAge' = Older(heartAge, Lease) /\ heart' = Older(heart, Lease)
        /\ wire' = Older(wire, Lease) /\ beat' = Older(beat, Lease)
        /\ UNCHANGED <<activatedOnce, active, terminal, pc, state, publishedState,
           generation, cycle, elapsed, rows, dropped, complete, release, busy,
           requested, stop, finish, saved, slots, commit, last, latched, expired,
           admitted, claimed, feedbackStopped, publishFailed>>
    BY DEF Tick, lifecycleVars, rtVars, nodeVars, senderVars, interfaceVars,
       hwVars, commitVars
  <1>2. TypeOK'
    BY <1>0, <1>1, TimesAssumption DEF TypeOK, FlagsOK, ControlOK, AgesOK, RecordOK,
       HardwareOK, Older
  <1>3. LifecycleInv'
    BY <1>0, <1>1 DEF LifecycleInv
  <1>4. LeaseInv'
    BY <1>0, <1>1, TimesAssumption DEF LeaseInv, Older, TypeOK, FlagsOK, ControlOK,
       AgesOK, RecordOK, HardwareOK
  <1>5. NumberingInv'
    BY <1>0, <1>1 DEF NumberingInv
  <1>6. AdmissionInv'
    BY <1>0, <1>1 DEF AdmissionInv, Listening, HasGains, OneBatch
  <1>7. ReleaseInv'
    BY <1>0, <1>1 DEF ReleaseInv, Listening
  <1>8. TornNeedsFailedRelease'
    BY <1>0, <1>1 DEF TornNeedsFailedRelease
  <1>9. SavedRecordIsWhole'
    BY <1>0, <1>1 DEF SavedRecordIsWhole
  <1> QED
    BY <1>2, <1>3, <1>4, <1>5, <1>6, <1>7, <1>8, <1>9 DEF IInv

\* The first half of a cycle writes no slot and chooses the next generation only
\* when the last one has been admitted.
LEMMA DecideInv ==
    ASSUME IInv, Decide
    PROVE  IInv'
  <1>0. TypeOK /\ LifecycleInv /\ LeaseInv /\ NumberingInv /\ AdmissionInv /\ ReleaseInv
        /\ TornNeedsFailedRelease /\ SavedRecordIsWhole
    BY DEF IInv
  <1>1. DecideEffect
    BY <1>0, DecideFacts
  <1>2. TypeOK'
    BY <1>0, <1>1, TimesAssumption, CapacityAssumption DEF TypeOK, FlagsOK,
       ControlOK, AgesOK, RecordOK, HardwareOK, DecideEffect, Append, HasRoom
  <1>3. LifecycleInv'
    BY <1>0, <1>1 DEF LifecycleInv, DecideEffect, Append, TypeOK, FlagsOK,
       ControlOK, AgesOK, RecordOK, HardwareOK
  <1>4. LeaseInv'
    BY <1>0, <1>1 DEF LeaseInv, DecideEffect, TypeOK, FlagsOK, ControlOK, AgesOK,
       RecordOK, HardwareOK
  <1>5. NumberingInv'
    BY <1>0, <1>1 DEF NumberingInv, DecideEffect, TypeOK, FlagsOK, ControlOK,
       AgesOK, RecordOK, HardwareOK, States
  <1>6. AdmissionInv'
    BY <1>0, <1>1 DEF AdmissionInv, Listening, HasGains, OneBatch, DecideEffect,
       NumberingInv, LifecycleInv
  <1>7. ReleaseInv'
    BY <1>0, <1>1 DEF ReleaseInv, Listening, DecideEffect
  <1>8. TornNeedsFailedRelease'
    BY <1>0, <1>1 DEF TornNeedsFailedRelease, DecideEffect, LifecycleInv
  <1>9. SavedRecordIsWhole'
    BY <1>0, <1>1 DEF SavedRecordIsWhole, DecideEffect, LifecycleInv
  <1> QED
    BY <1>2, <1>3, <1>4, <1>5, <1>6, <1>7, <1>8, <1>9 DEF IInv

\* A commit is only written over one whole batch.
LEMMA AttemptInv ==
    ASSUME IInv, Attempt
    PROVE  IInv'
  <1>0. TypeOK /\ LifecycleInv /\ LeaseInv /\ NumberingInv /\ AdmissionInv /\ ReleaseInv
        /\ TornNeedsFailedRelease /\ SavedRecordIsWhole
    BY DEF IInv
  <1>1. AttemptEffect
    BY <1>0, AttemptFacts
  <1>2. TypeOK'
    <2>1. FlagsOK'
      <3>1. complete' \in BOOLEAN
        BY <1>0, <1>1 DEF TypeOK, FlagsOK, AttemptEffect
      <3>2. terminal' \in BOOLEAN
        BY <1>0, <1>1 DEF TypeOK, FlagsOK, AttemptEffect
      <3> QED
        BY <1>0, <1>1, <3>1, <3>2 DEF TypeOK, FlagsOK, AttemptEffect
    <2>2. ControlOK'
      BY <1>0, <1>1 DEF TypeOK, ControlOK, AttemptEffect, NumberingInv, States
    <2>3. AgesOK'
      BY <1>0, <1>1 DEF TypeOK, AgesOK, AttemptEffect
    <2>4. RecordOK'
      BY <1>0, <1>1 DEF TypeOK, RecordOK, AttemptEffect
    <2>5. HardwareOK'
      BY <1>0, <1>1 DEF TypeOK, HardwareOK, AttemptEffect, AttemptKind, Values,
          SlotValues, NumberingInv
    <2> QED
      BY <2>1, <2>2, <2>3, <2>4, <2>5 DEF TypeOK
  <1>3. LifecycleInv'
    BY <1>0, <1>1 DEF LifecycleInv, AttemptEffect, TypeOK, FlagsOK, ControlOK,
       AgesOK, RecordOK, HardwareOK
  <1>4. LeaseInv'
    BY <1>0, <1>1 DEF LeaseInv, AttemptEffect
  <1>5. NumberingInv'
    BY <1>0, <1>1 DEF NumberingInv, AttemptEffect, LifecycleInv, TypeOK, FlagsOK,
       ControlOK, AgesOK, RecordOK, HardwareOK
  <1>6. AdmissionInv'
    BY <1>0, <1>1 DEF AdmissionInv, Listening, HasGains, OneBatch, AttemptEffect,
       AttemptKind, Values, NumberingInv, LifecycleInv, Moves
  <1>7. ReleaseInv'
    BY <1>0, <1>1 DEF ReleaseInv, Listening, AttemptEffect, LifecycleInv
  <1>8. TornNeedsFailedRelease'
    BY <1>0, <1>1 DEF TornNeedsFailedRelease, AttemptEffect, LifecycleInv
  <1>9. SavedRecordIsWhole'
    BY <1>0, <1>1 DEF SavedRecordIsWhole, AttemptEffect, LifecycleInv
  <1> QED
    BY <1>2, <1>3, <1>4, <1>5, <1>6, <1>7, <1>8, <1>9 DEF IInv

\* The release of an aborted cycle fills the slots or is marked as failed.
LEMMA AbortReleaseInv ==
    ASSUME IInv, AbortRelease
    PROVE  IInv'
  <1>0. TypeOK /\ LifecycleInv /\ LeaseInv /\ NumberingInv /\ AdmissionInv /\ ReleaseInv
        /\ TornNeedsFailedRelease /\ SavedRecordIsWhole
    BY DEF IInv
  <1>1. AbortReleaseEffect
    BY <1>0, AbortReleaseFacts
  <1>2. TypeOK'
    <2>1. FlagsOK'
      BY <1>0, <1>1, ZenonT(30) DEF TypeOK, FlagsOK, AbortReleaseEffect
    <2>2. ControlOK'
      BY <1>0, <1>1, MaxGenerationAssumption DEF TypeOK, ControlOK, AbortReleaseEffect, States
    <2>3. AgesOK'
      BY <1>0, <1>1, MaxGenerationAssumption DEF TypeOK, AgesOK, AbortReleaseEffect
    <2>4. RecordOK'
      BY <1>0, <1>1, MaxGenerationAssumption DEF TypeOK, RecordOK, AbortReleaseEffect
    <2>5. HardwareOK'
      BY <1>0, <1>1, MaxGenerationAssumption DEF TypeOK, HardwareOK, ControlOK,
          AbortReleaseEffect, Values, SlotValues
    <2> QED
      BY <2>1, <2>2, <2>3, <2>4, <2>5 DEF TypeOK
  <1>3. LifecycleInv'
    BY <1>0, <1>1 DEF LifecycleInv, AbortReleaseEffect, TypeOK, FlagsOK, ControlOK,
       AgesOK, RecordOK, HardwareOK
  <1>4. LeaseInv'
    BY <1>0, <1>1 DEF LeaseInv, AbortReleaseEffect
  <1>5. NumberingInv'
    BY <1>0, <1>1 DEF NumberingInv, AbortReleaseEffect, LifecycleInv, TypeOK,
       FlagsOK, ControlOK, AgesOK, RecordOK, HardwareOK
  <1>6. AdmissionInv'
    BY <1>0, <1>1 DEF AdmissionInv, Listening, HasGains, OneBatch,
       AbortReleaseEffect, Values, NumberingInv, LifecycleInv, TypeOK, FlagsOK,
       ControlOK, AgesOK, RecordOK, HardwareOK
  <1>7. ReleaseInv'
    BY <1>0, <1>1 DEF ReleaseInv, Listening, AbortReleaseEffect, AdmissionInv,
       LifecycleInv, NumberingInv, TypeOK, FlagsOK, ControlOK, AgesOK, RecordOK,
       HardwareOK
  <1>8. TornNeedsFailedRelease'
    BY <1>0, <1>1 DEF TornNeedsFailedRelease, AbortReleaseEffect, LifecycleInv,
       TypeOK, FlagsOK, ControlOK, AgesOK, RecordOK, HardwareOK
  <1>9. SavedRecordIsWhole'
    BY <1>0, <1>1 DEF SavedRecordIsWhole, AbortReleaseEffect, LifecycleInv
  <1> QED
    BY <1>2, <1>3, <1>4, <1>5, <1>6, <1>7, <1>8, <1>9 DEF IInv

\* The hardware admits one whole batch, or a failed release.
LEMMA HardwareWriteInv ==
    ASSUME IInv, HardwareWrite
    PROVE  IInv'
  <1>0. TypeOK /\ LifecycleInv /\ LeaseInv /\ NumberingInv /\ AdmissionInv /\ ReleaseInv
        /\ TornNeedsFailedRelease /\ SavedRecordIsWhole
    BY DEF IInv
  <1>1. HardwareWriteEffect
    BY <1>0, HardwareWriteFacts
  <1>2. TypeOK'
    <2>1. FlagsOK'
      <3>1. latched' \in BOOLEAN
        BY <1>0, <1>1 DEF TypeOK, FlagsOK, HardwareWriteEffect
      <3>2. expired' \in BOOLEAN
        BY <1>0, <1>1 DEF TypeOK, FlagsOK, HardwareWriteEffect
      <3>3. publishFailed' \in BOOLEAN
        BY <1>0, <1>1 DEF TypeOK, FlagsOK, HardwareWriteEffect
      <3> QED
        BY <1>0, <1>1, <3>1, <3>2, <3>3 DEF TypeOK, FlagsOK, HardwareWriteEffect
    <2>2. ControlOK'
      BY <1>0, <1>1 DEF TypeOK, ControlOK, HardwareWriteEffect
    <2>3. AgesOK'
      BY <1>0, <1>1 DEF TypeOK, AgesOK, HardwareWriteEffect
    <2>4. RecordOK'
      BY <1>0, <1>1 DEF TypeOK, RecordOK, HardwareWriteEffect
    <2>5. HardwareOK'
      BY <1>0, <1>1 DEF TypeOK, HardwareOK, HardwareWriteEffect
    <2> QED
      BY <2>1, <2>2, <2>3, <2>4, <2>5 DEF TypeOK
  <1>3. LifecycleInv'
    BY <1>0, <1>1 DEF LifecycleInv, HardwareWriteEffect
  <1>4. LeaseInv'
    BY <1>0, <1>1 DEF LeaseInv, HardwareWriteEffect
  <1>5. NumberingInv'
    BY <1>0, <1>1 DEF NumberingInv, HardwareWriteEffect, TypeOK, FlagsOK, ControlOK,
       AgesOK, RecordOK, HardwareOK
  <1>6. AdmissionInv'
    <2>1. /\ UNCHANGED <<activatedOnce, slots, commit, claimed, feedbackStopped, cycle, generation>>
          /\ pc' = "update" /\ last \in Nat /\ commit \in Nat
      BY <1>0, <1>1 DEF HardwareWriteEffect, TypeOK, HardwareOK
    <2>2. HasGains(slots') = HasGains(slots) /\ (commit # 0 => \A v \in slots : v.kind # "nan")
      BY <1>0, <2>1 DEF HasGains, AdmissionInv
    <2>3. claimed => activatedOnce
      BY <1>0 DEF LifecycleInv
    <2>4. ~activatedOnce' => ~latched' /\ ~HasGains(slots')
      BY <1>0, <1>1, <2>1, <2>2, <2>3 DEF HardwareWriteEffect, AdmissionInv, Listening
    <2>5. Listening' /\ last' = 0 => Listening /\ last = 0
      BY <1>0, <1>1, <2>1 DEF HardwareWriteEffect, AdmissionInv, Listening
    <2>6. /\ publishFailed' => latched' /\ last' # 0
          /\ expired' => latched'
          /\ latched' /\ claimed' => publishFailed' \/ expired'
      BY <1>0, <1>1, <2>1 DEF HardwareWriteEffect, AdmissionInv
    <2>7. Listening' /\ last' # commit' => publishFailed' /\ HasGains(slots')
      BY <1>0, <1>1, <2>1, <2>2 DEF HardwareWriteEffect, AdmissionInv, Listening
    <2> QED
      BY <1>0, <2>1, <2>2, <2>4, <2>5, <2>6, <2>7 DEF AdmissionInv
  <1>7. ReleaseInv'
    BY <1>0, <1>1 DEF ReleaseInv, Listening, HardwareWriteEffect, AdmissionInv,
       NumberingInv, Values, HasGains, TypeOK, FlagsOK, ControlOK, AgesOK, RecordOK,
       HardwareOK
  <1>8. TornNeedsFailedRelease'
    BY <1>0, <1>1 DEF TornNeedsFailedRelease, HardwareWriteEffect, AdmissionInv,
       OneBatch, HasGains, TypeOK, FlagsOK, ControlOK, AgesOK, RecordOK, HardwareOK
  <1>9. SavedRecordIsWhole'
    BY <1>0, <1>1 DEF SavedRecordIsWhole, HardwareWriteEffect
  <1> QED
    BY <1>2, <1>3, <1>4, <1>5, <1>6, <1>7, <1>8, <1>9 DEF IInv

\* Every step preserves the invariant.
LEMMA StepInv == IInv /\ [Next]_vars => IInv'
  <1> SUFFICES ASSUME IInv, [Next]_vars PROVE IInv'
    OBVIOUS
  <1>1. CASE UNCHANGED vars
    <2>1. TypeOK' /\ LifecycleInv' /\ LeaseInv'
      BY <1>1 DEF IInv, vars, lifecycleVars, rtVars, nodeVars, senderVars, interfaceVars,
                  hwVars, commitVars, TypeOK, FlagsOK, ControlOK, AgesOK, RecordOK,
                  HardwareOK, LifecycleInv, LeaseInv
    <2>2. NumberingInv' /\ AdmissionInv' /\ ReleaseInv'
      BY <1>1 DEF IInv, vars, lifecycleVars, rtVars, nodeVars, senderVars, interfaceVars,
                  hwVars, commitVars, NumberingInv, AdmissionInv, ReleaseInv, Listening,
                  HasGains, OneBatch
    <2>3. TornNeedsFailedRelease' /\ SavedRecordIsWhole'
      BY <1>1 DEF IInv, vars, lifecycleVars, rtVars, nodeVars, senderVars, interfaceVars,
                  hwVars, commitVars, TornNeedsFailedRelease, SavedRecordIsWhole
    <2> QED
      BY <2>1, <2>2, <2>3 DEF IInv
  <1>2. CASE Next
    BY <1>2, ActivateInv, DeactivateInv, RequestStartInv, SendBeatInv, KeepaliveInv,
       RequestFinishInv, RequestStopInv, SaveRecordInv, UpdateNothingInv, DecideInv,
       AttemptInv, AbortReleaseInv, HardwareWriteInv, FeedbackStopsInv, TickInv DEF Next
  <1> QED
    BY <1>1, <1>2

---------------------------------------------------------------------------
(* The theorems *)

\* The invariant holds in every state the controller and the hardware reach.
THEOREM Inductive == Spec => []IInv
  BY InitInv, StepInv, PTL DEF Spec

\* Every variable keeps its type: the record never overruns its capacity and no
\* generation passes the limit.
THEOREM TypeCorrect == Spec => []TypeOK
  <1>1. IInv => TypeOK
    BY DEF IInv
  <1> QED
    BY <1>1, Inductive, PTL

\* The hardware runs a mixture of two batches only after a release that failed.
THEOREM TornOnlyAfterFailure == Spec => []TornNeedsFailedRelease
  <1>1. IInv => TornNeedsFailedRelease
    BY DEF IInv
  <1> QED
    BY <1>1, Inductive, PTL

\* A written release reaches a listening hardware unless its generation was
\* already admitted.
THEOREM AbortReleaseArrives == Spec => []AbortReleases
  <1>1. ASSUME IInv PROVE AbortReleases
    <2> SUFFICES ASSUME pc = "update", cycle.released = "written", claimed,
                        ~feedbackStopped, ~latched
                 PROVE  \/ \A v \in admitted : v.kind = "released"
                        \/ cycle.held /\ last = cycle.candidate
      BY DEF AbortReleases
    <2>1. Listening
      BY <1>1 DEF IInv, AdmissionInv, Listening
    <2> QED
      BY <1>1, <2>1 DEF IInv, ReleaseInv
  <1> QED
    BY <1>1, Inductive, PTL

\* The controller never commits what PairCommit refuses as misuse.
THEOREM AdmissionIsRespected == Spec => []AdmissionRespected
  <1>1. ASSUME IInv PROVE AdmissionRespected
    <2> DEFINE reason == Inspect(commit, SlotClass, FALSE)
    <2> SUFFICES ASSUME pc = "write", claimed, ~feedbackStopped, ~expired
                 PROVE  /\ reason \notin {"InvalidGeneration", "Rollback", "Gap",
                                          "InvalidBatch"}
                        /\ reason = "LatchedNonzero" => publishFailed
      BY DEF AdmissionRespected
    <2>1. /\ last \in Nat /\ commit \in 0 .. MaxGeneration
          /\ commit \in {last, last + 1} /\ commit # BadGeneration
      BY <1>1, MaxGenerationAssumption
         DEF IInv, TypeOK, HardwareOK, NumberingInv, BadGeneration
    <2>2. ~ExpiresNow(FALSE)
      BY DEF ExpiresNow
    <2>3. CASE commit = last
      <3>1. reason \in {"BootWait", "Unchanged"}
        BY <2>1, <2>2, <2>3 DEF Inspect
      <3> QED
        BY <3>1
    <2>4. CASE commit = last + 1
      <3>1. /\ commit # 0 /\ commit # last /\ ~(commit < last) /\ last # MaxGeneration
        BY <2>1, <2>4, MaxGenerationAssumption
      <3>2. SlotClass # "invalid" /\ (SlotClass # "released" => HasGains(slots))
        BY <1>1, <3>1, SlotClassFacts DEF IInv, TypeOK, AdmissionInv, Batches
      <3>3. reason = IF MustBeReleased /\ SlotClass # "released"
                     THEN "LatchedNonzero" ELSE "Accepted"
        BY <2>1, <2>2, <2>4, <3>1, <3>2 DEF Inspect, IsGap, OutOfBounds
      <3>4. MustBeReleased /\ SlotClass # "released" => publishFailed
        BY <1>1, <3>2 DEF IInv, AdmissionInv, Listening, MustBeReleased
      <3> QED
        BY <3>3, <3>4
    <2> QED
      BY <2>1, <2>3, <2>4
  <1> QED
    BY <1>1, Inductive, PTL

\* Gains are only written under the sender's own unexpired heartbeat.
THEOREM LeaseHeld == Spec => []GainsNeedLease
  <1>1. ASSUME IInv PROVE GainsNeedLease
    BY <1>1, TimesAssumption DEF IInv, TypeOK, AgesOK, LeaseInv, GainsNeedLease
  <1> QED
    BY <1>1, Inductive, PTL

\* A saved record is complete and stays so.
THEOREM SavedRecordWhole == Spec => []SavedRecordIsWhole
  <1>1. IInv => SavedRecordIsWhole
    BY DEF IInv
  <1> QED
    BY <1>1, Inductive, PTL

---------------------------------------------------------------------------
(* The hardware's admission contract *)

\* The command interfaces always hold somebody's values.
Filled == slots # {}

\* No step empties the slots.
LEMMA FilledStep == Filled /\ [Next]_vars => Filled'
  <1> SUFFICES ASSUME Filled, [Next]_vars PROVE Filled'
    OBVIOUS
  <1>1. ASSUME NEW kind, NEW g, NEW values \in ValueOutcomes, NEW outcome \in CommitOutcomes,
               WriteAttempt(kind, g, values, outcome)
        PROVE  Filled'
    BY <1>1, WriteFacts DEF Filled
  <1>2. CASE Attempt
    BY <1>1, <1>2 DEF Attempt
  <1>3. CASE AbortRelease
    <2>1. CASE Releases
      BY <1>1, <1>3, <2>1 DEF AbortRelease
    <2>2. CASE ~Releases
      BY <1>3, <2>2 DEF AbortRelease, Filled
    <2> QED
      BY <2>1, <2>2
  <1>4. CASE ~(Attempt \/ AbortRelease)
    BY <1>4 DEF Next, Activate, Deactivate, RequestStart, SendBeat, Keepalive, RequestFinish,
           RequestStop, SaveRecord, UpdateNothing, Decide, HardwareWrite, FeedbackStops, Tick,
           interfaceVars, vars, Filled
  <1> QED
    BY <1>2, <1>3, <1>4

\* Only write() admits a batch; a mode switch latches.
LEMMA AdmissionStep ==
    ASSUME IInv, Filled, [Next]_vars
    PROVE  [Admission!Next]_(Admission!groupVars)
  <1> USE MaxGenerationAssumption
  <1>1. /\ TypeOK /\ NumberingInv /\ AdmissionInv /\ last \in Nat /\ commit <= MaxGeneration
        /\ latched \in BOOLEAN
    BY DEF IInv, TypeOK, HardwareOK, FlagsOK
  <1>2. CASE HardwareWrite
    <2>1. HardwareWriteEffect
      BY <1>1, <1>2, HardwareWriteFacts
    <2>2. CASE UNCHANGED <<last, admitted>> /\ (latched' = latched \/ latched' = TRUE)
      BY <2>2 DEF Admission!Next, Admission!Latch, Admission!groupVars
    <2>3. CASE /\ Listening /\ commit = last + 1 /\ last' = commit
               /\ latched => ~HasGains(slots)
               /\ admitted' = slots /\ UNCHANGED latched
      <3>1. \A v \in slots : v.kind \in {"released", "gains"}
        BY <1>1, <2>3 DEF AdmissionInv, TypeOK, HardwareOK, SlotValues
      <3>2. CASE HasGains(slots)
        <4>1. /\ ~\A v \in slots : v.kind = "released"
              /\ last # 0 /\ ~latched
          BY <1>1, <2>3, <3>2 DEF HasGains, AdmissionInv
        <4> QED
          BY <1>1, <2>3, <4>1 DEF Admission!Next, Admission!Run, Admission!Advance, Filled
      <3>3. CASE ~HasGains(slots)
        <4>1. \A v \in slots : v.kind = "released"
          BY <3>1, <3>3 DEF HasGains
        <4> QED
          BY <1>1, <2>3, <4>1 DEF Admission!Next, Admission!Run, Admission!Advance, Filled
      <3> QED
        BY <3>2, <3>3
    <2>4. CASE commit = last + 1 /\ last' = commit /\ latched' = TRUE /\ UNCHANGED admitted
      BY <1>1, <2>4 DEF Admission!Next, Admission!Lose, Admission!Advance
    <2> QED
      BY <2>1, <2>2, <2>3, <2>4 DEF HardwareWriteEffect
  <1>3. CASE Deactivate
    BY <1>3 DEF Deactivate, Admission!Next, Admission!Latch
  <1>4. CASE ~(HardwareWrite \/ Deactivate)
    <2>1. UNCHANGED <<last, latched, admitted>>
      BY <1>4 DEF Next, Activate, RequestStart, SendBeat, Keepalive, RequestFinish,
             RequestStop, SaveRecord, UpdateNothing, Decide, Attempt, AbortRelease,
             FeedbackStops, Tick, hwVars, commitVars, vars
    <2> QED
      BY <2>1 DEF Admission!groupVars
  <1> QED
    BY <1>2, <1>3, <1>4

\* The hardware as this controller sees it keeps the contract that the robot's
\* write(), send and lifecycle threads keep (PairStreamProofs).
THEOREM KeepsAdmission == Spec => ImplementsAdmission
  <1>1. Init => Filled /\ Admission!Init
    BY DEF Init, CommitInit, Filled, Admission!Init
  <1> QED
    BY <1>1, FilledStep, AdmissionStep, Inductive, PTL
       DEF Spec, ImplementsAdmission, Admission!Spec

---------------------------------------------------------------------------
(* The motion contract *)

\* The phase of the contract that a state of update() stands for, and the states
\* in which a request waits.
Phase(s) == IF Moves(s) THEN "moving" ELSE IF s = "kArmed" THEN "armed" ELSE "rest"
Unstarted(s) == s \in {"kBoot", "kIdle"}

\* A step of the contract, in the variables of the controller.
MotionStep == [Motion!Next]_(Motion!motionVars)

\* A run is armed by a request only, does not arm again while it moves, and no
\* cycle brings an idle controller back.
LEMMA OutcomePhases ==
    ASSUME ControlOK, state # "kAborted", NEW found, NEW seen
    PROVE  LET to == Outcome(found, seen)
           IN /\ to = "kArmed" \/ Moves(to) =>
                    state = "kArmed" \/ Moves(state) \/ (state = "kIdle" /\ requested)
              /\ to = "kArmed" => ~Moves(state)
              /\ Unstarted(to) => to = state
  <1> DEFINE prog == Progress(found, seen)
  <1>1. /\ prog = "kArmed" \/ Moves(prog) =>
              state = "kArmed" \/ Moves(state) \/ (state = "kIdle" /\ requested)
        /\ prog = "kArmed" => ~Moves(state)
        /\ Unstarted(prog) => prog = state
    BY DEF Progress, FromArmed, FromMoving, Moves, StateArmed, Arms, TakesRequest, States, ControlOK, Unstarted
  <1> HIDE DEF prog
  <1>2. Protected(found, seen) \in {prog, "kTorque", "kState"}
    BY DEF Protected, prog
  <1>3. Outcome(found, seen) \in {Protected(found, seen), "kCapacity", "kState", "kPeriod"}
    BY DEF Outcome
  <1>4. Outcome(found, seen) \in {prog, "kTorque", "kState", "kCapacity", "kPeriod"}
    BY <1>2, <1>3
  <1> QED
    BY <1>1, <1>4 DEF Moves, Unstarted

\* Who leaves the request, the state and the slots alone does not move.
LEMMA StillMotion ==
    ASSUME UNCHANGED <<requested, state, slots>>
    PROVE  MotionStep
  BY DEF MotionStep, Motion!motionVars, Moves

\* The outputs only lose gains, while the run ends or a request is given up.
LEMMA EndMotion ==
    ASSUME UNCHANGED requested, requested \in BOOLEAN,
           \/ state' = state \/ (Unstarted(state) /\ Unstarted(state'))
           \/ ~Unstarted(state') /\ Phase(state') = "rest",
           HasGains(slots') => HasGains(slots) \/ (Moves(state) /\ beat < Lease)
    PROVE  MotionStep
  <1>1. Phase(state)' = Phase(state') /\ Phase(state) \in {"rest", "armed", "moving"}
    BY DEF Phase, Moves
  <1>2. /\ Phase(state) = "moving" <=> Moves(state)
        /\ Unstarted(state) => Phase(state) = "rest"
        /\ Unstarted(state') => Phase(state') = "rest"
    BY DEF Phase, Moves, Unstarted
  <1>3. /\ (\E v \in slots : v.kind = "gains") <=> HasGains(slots)
        /\ (\E v \in slots' : v.kind = "gains") <=> HasGains(slots')
    BY DEF HasGains
  <1>4. CASE Phase(state) # "rest" /\ Phase(state') = "rest"
    <2>1. ~Unstarted(state) /\ ~Unstarted(state')
      BY <1>1, <1>2, <1>4
    <2>2. Motion!End
      BY <1>1, <1>2, <1>3, <1>4, <2>1 DEF Motion!End, Motion!MayDrive, Phase, Unstarted
    <2> QED
      BY <2>2 DEF MotionStep, Motion!Next
  <1>5. CASE ~(Phase(state) # "rest" /\ Phase(state') = "rest")
    <2>1. Phase(state') = Phase(state)
      BY <1>1, <1>2, <1>5
    <2>2. Unstarted(state') => Unstarted(state)
      BY DEF Unstarted
    <2>3. CASE ~HasGains(slots')
      <3>1. Motion!Release
        BY <1>1, <1>3, <2>1, <2>2, <2>3 DEF Motion!Release, Phase, Unstarted
      <3> QED
        BY <3>1 DEF MotionStep, Motion!Next
    <2>4. CASE HasGains(slots') /\ HasGains(slots)
      <3>1. CASE Unstarted(state) /\ ~Unstarted(state')
        <4>1. Motion!Withdraw
          BY <1>1, <1>3, <2>1, <2>4, <3>1 DEF Motion!Withdraw, Phase, Unstarted
        <4> QED
          BY <4>1 DEF MotionStep, Motion!Next
      <3>2. CASE Unstarted(state) <=> Unstarted(state')
        BY <1>1, <1>3, <2>1, <2>4, <3>2 DEF MotionStep, Motion!motionVars, Phase, Unstarted
      <3> QED
        BY <2>2, <3>1, <3>2
    <2>5. CASE HasGains(slots') /\ ~HasGains(slots)
      <3>1. Phase(state) = "moving" /\ beat < Lease /\ ~Unstarted(state) /\ ~Unstarted(state')
        BY <1>2, <2>2, <2>5
      <3>2. Motion!Drive
        BY <1>1, <1>3, <2>1, <2>5, <3>1 DEF Motion!Drive, Motion!MayDrive, Phase, Unstarted
      <3> QED
        BY <3>2 DEF MotionStep, Motion!Next
    <2> QED
      BY <2>3, <2>4, <2>5
  <1> QED
    BY <1>4, <1>5

\* The first half of a cycle starts a run for a waiting request only, and comes to
\* a moving state only under an unexpired heartbeat.
LEMMA DecideMotion ==
    ASSUME IInv, Decide
    PROVE  MotionStep
  <1> USE TimesAssumption
  <1>1. TypeOK /\ LeaseInv /\ requested \in BOOLEAN
    BY DEF IInv, TypeOK, FlagsOK
  <1>2. DecideEffect
    BY <1>1, DecideFacts
  <1>3. UNCHANGED <<requested, slots>> /\ state # "kAborted"
    BY <1>2 DEF DecideEffect
  <1>4. Moves(state') => state' = state \/ beat < Lease
    <2>1. CASE pc' = "write"
      BY <1>2, <2>1 DEF DecideEffect
    <2>2. CASE pc' # "write"
      <3>1. Moves(state') => heartAge' < Lease /\ heartAge' \in {heart, heartAge}
        BY <1>2, <2>2 DEF DecideEffect
      <3> QED
        BY <1>1, <3>1 DEF LeaseInv, TypeOK, AgesOK
    <2> QED
      BY <2>1, <2>2
  <1>5. PICK found, seen :
          \/ state' = state
          \/ state' = IF Outcome(found, seen) \in States THEN Outcome(found, seen)
                      ELSE "kAborted"
    BY DEF Decide
  <1>6. state' \in {state, "kAborted", Outcome(found, seen)}
    BY <1>5
  <1>7. /\ state' = "kArmed" \/ Moves(state') =>
              state = "kArmed" \/ Moves(state) \/ (state = "kIdle" /\ requested)
        /\ state' = "kArmed" => state' = state \/ ~Moves(state)
        /\ Unstarted(state') => state' = state
    BY <1>1, <1>3, <1>6, OutcomePhases DEF Moves, Unstarted, TypeOK
  <1>8. CASE Phase(state') = "rest"
    <2>1. state' = state \/ ~Unstarted(state')
      BY <1>7
    <2> QED
      BY <1>1, <1>3, <1>8, <2>1, EndMotion DEF Phase
  <1>9. CASE Phase(state') # "rest" /\ Phase(state') = Phase(state)
    <2>1. ~Unstarted(state) /\ ~Unstarted(state')
      BY <1>9 DEF Phase, Moves, Unstarted
    <2> QED
      BY <1>3, <1>9, <2>1 DEF MotionStep, Motion!motionVars, Phase, Unstarted
  <1>10. CASE Phase(state') # "rest" /\ Phase(state) = "rest"
    <2>1. state = "kIdle" /\ requested /\ (Phase(state') = "moving" => beat < Lease)
      BY <1>4, <1>7, <1>10 DEF Phase, Moves
    <2>2. Phase(state') \in {"armed", "moving"} /\ ~Unstarted(state')
      BY <1>10 DEF Phase, Moves, Unstarted
    <2>3. Motion!Start
      BY <1>3, <1>10, <2>1, <2>2 DEF Motion!Start, Phase, Unstarted
    <2> QED
      BY <2>3 DEF MotionStep, Motion!Next
  <1>11. CASE Phase(state') = "moving" /\ Phase(state) = "armed"
    <2>1. beat < Lease /\ ~Unstarted(state) /\ ~Unstarted(state')
      BY <1>4, <1>11 DEF Phase, Moves, Unstarted
    <2>2. Motion!Move
      BY <1>3, <1>11, <2>1 DEF Motion!Move, Phase, Unstarted
    <2> QED
      BY <2>2 DEF MotionStep, Motion!Next
  <1> QED
    BY <1>7, <1>8, <1>9, <1>10, <1>11 DEF Phase, Moves

\* The values of a cycle carry gains only in a run that moves, within the lease.
LEMMA AttemptMotion ==
    ASSUME IInv, Attempt
    PROVE  MotionStep
  <1>1. TypeOK /\ requested \in BOOLEAN /\ (Moves(state) => beat < Lease)
    BY TimesAssumption DEF IInv, TypeOK, FlagsOK, AgesOK, LeaseInv, Attempt
  <1>2. AttemptEffect
    BY <1>1, AttemptFacts
  <1> DEFINE new == Values(AttemptKind, cycle.candidate)
  <1>3. /\ UNCHANGED requested
        /\ \/ state' = IF state = "kBoot" THEN "kIdle" ELSE state
           \/ state' = "kAborted"
        /\ slots' \in {{new}, slots \cup {new}, slots}
    BY <1>2 DEF AttemptEffect
  <1>4. new.kind = "gains" => Moves(state)
    BY DEF Values, AttemptKind
  <1>5. HasGains(slots') => HasGains(slots) \/ Moves(state)
    BY <1>3, <1>4 DEF HasGains
  <1>6. \/ state' = state \/ (Unstarted(state) /\ Unstarted(state'))
        \/ ~Unstarted(state') /\ Phase(state') = "rest"
    BY <1>3 DEF Unstarted, Phase, Moves
  <1> QED
    BY <1>1, <1>3, <1>5, <1>6, EndMotion

\* Every step of the controller is one of the contract, or changes nothing there.
LEMMA NextMotion == IInv /\ [Next]_vars => MotionStep
  <1> SUFFICES ASSUME IInv, [Next]_vars PROVE MotionStep
    OBVIOUS
  <1> USE DEF rtVars, nodeVars, interfaceVars
  <1>0. TypeOK /\ requested \in BOOLEAN
    BY DEF IInv, TypeOK, FlagsOK
  <1>1. CASE Activate
    <2>1. /\ UNCHANGED <<requested, slots>> /\ state' \in {state, "kBoot"}
          /\ state \in States /\ ~(state = "kArmed" \/ Moves(state))
      BY <1>1 DEF Activate, IInv, TypeOK, ControlOK, NumberingInv, Moves
    <2>2. Phase(state) = "rest" /\ Phase(state') = "rest"
      BY <2>1 DEF Phase, Moves
    <2>3. CASE requested /\ ~Unstarted(state) /\ Unstarted(state')
      <3>1. Motion!Accept
        BY <2>1, <2>2, <2>3 DEF Motion!Accept, Phase, Unstarted
      <3> QED
        BY <3>1 DEF MotionStep, Motion!Next
    <2>4. CASE ~(requested /\ ~Unstarted(state) /\ Unstarted(state'))
      <3>1. (requested /\ Unstarted(state))' <=> (requested /\ Unstarted(state))
        BY <2>1, <2>4 DEF Unstarted
      <3> QED
        BY <2>1, <2>2, <3>1 DEF MotionStep, Motion!motionVars, Phase, Unstarted
    <2> QED
      BY <2>3, <2>4
  <1>2. CASE RequestStart
    <2>1. requested' = TRUE /\ UNCHANGED <<state, slots>>
      BY <1>2 DEF RequestStart
    <2>2. CASE Unstarted(state) /\ ~requested
      <3>1. Phase(state) = "rest" /\ Phase(state') = "rest"
        BY <2>1, <2>2 DEF Phase, Moves, Unstarted
      <3>2. Motion!Accept
        BY <2>1, <2>2, <3>1 DEF Motion!Accept, Phase, Unstarted
      <3> QED
        BY <3>2 DEF MotionStep, Motion!Next
    <2>3. CASE ~(Unstarted(state) /\ ~requested)
      <3>1. (requested /\ Unstarted(state))' <=> (requested /\ Unstarted(state))
        BY <1>0, <2>1, <2>3 DEF Unstarted
      <3> QED
        BY <2>1, <3>1 DEF MotionStep, Motion!motionVars, Moves, Unstarted
    <2> QED
      BY <2>2, <2>3
  <1>3. CASE AbortRelease
    <2>1. AbortReleaseEffect
      BY <1>0, <1>3, AbortReleaseFacts
    <2>2. /\ UNCHANGED <<requested, state>>
          /\ slots' \in {{Values("released", cycle.candidate)}, slots,
                         slots \cup {Values("released", cycle.candidate)}}
      BY <2>1 DEF AbortReleaseEffect
    <2>3. HasGains(slots') => HasGains(slots)
      BY <2>2 DEF HasGains, Values
    <2> QED
      BY <1>0, <2>2, <2>3, EndMotion
  <1>4. CASE ~(Activate \/ RequestStart \/ Decide \/ Attempt \/ AbortRelease)
    <2>1. UNCHANGED <<requested, state, slots>>
      BY <1>4 DEF Next, Deactivate, SendBeat, Keepalive, RequestFinish, RequestStop, SaveRecord,
             UpdateNothing, HardwareWrite, FeedbackStops, Tick, vars
    <2> QED
      BY <2>1, StillMotion
  <1> QED
    BY <1>1, <1>2, <1>3, <1>4, DecideMotion, AttemptMotion

\* Whatever the callbacks and the cycle do to each other, this controller too
\* applies gains only in a run that was asked for, under a live supervisor.
THEOREM KeepsMotion == Spec => ImplementsMotion
  <1>1. Init => Motion!Init
    BY DEF Init, Motion!Init, Moves, Values
  <1> QED
    BY <1>1, NextMotion, Inductive, PTL DEF Spec, ImplementsMotion, Motion!Spec, MotionStep
===========================================================================
