------------------------ MODULE HilTrajectoryProofs ------------------------
(***************************************************************************)
(* Proofs about HilTrajectory, for every number of starts and stops and    *)
(* every lease, arming time and record tail.                               *)
(*                                                                         *)
(* The invariants of HilTrajectory lean on who owns what between update()  *)
(* and the callbacks, so IInv joins:                                       *)
(*   OwnerInv   a run that moves is recorded, a record belongs to update() *)
(*              until it is complete and to the timer afterwards, and no   *)
(*              start is accepted before the timer is done;                *)
(*   LimpInv    without a record there is no gain to be released;          *)
(*   StopInv    a pending start has seen every stop;                       *)
(*   NumberInv  the run is the last accepted request, or an older one that *)
(*              has ended;                                                 *)
(*   BeatInv    what update() takes for the age of the last keepalive is   *)
(*              never less than the age of one that really came;           *)
(*   ReportInv  a snapshot that calls the run ended is not ahead of it.    *)
(***************************************************************************)
EXTENDS HilTrajectory, TLAPS

OwnerInv ==
    /\ isActive(state) => recording
    /\ recording \/ recordComplete => busy
    /\ recordComplete => ~recording
    /\ callback = "csv" => recordComplete
    /\ busy => pending = NoRequest
    /\ lifecycle # "active" => ~recording

LimpInv ==
    /\ LimpUnlessPending
    /\ lifecycle = "active" /\ ~recording => ~kp

StopInv ==
    /\ StopEndsEarlierRuns
    /\ pending # NoRequest => rtStops = stopCount

NumberInv ==
    /\ run.id < nextId
    /\ pending # NoRequest => pending.id = nextId - 1 /\ run.id < pending.id
    /\ isActive(state) => run.id = nextId - 1

BeatInv ==
    /\ keepalive.after /\ keepalive.id = nextId - 1 => beat <= keepalive.age
    /\ isActive(state) /\ lastAge # Never => beat <= lastAge
    /\ rt = "output" /\ Gains(state) => lastAge <= Lease

ReportInv ==
    /\ snapshot.id <= run.id
    /\ lifecycle = "active" /\ Ended(snapshot.state) /\ snapshot.id = run.id =>
           /\ Ended(state)
           /\ ~snapshot.releasePending => ~releasePending

IInv ==
    /\ TypeOK /\ OwnerInv /\ LimpInv /\ StopInv /\ NumberInv /\ BeatInv /\ ReportInv

---------------------------------------------------------------------------

\* Every step keeps the types of what update() owns.
LEMMA RunTypeStep == TypeOK /\ [Next]_vars => RunTypeOK'
<1> SUFFICES ASSUME TypeOK, [Next]_vars PROVE RunTypeOK'
    OBVIOUS
<1> USE BoundsAssumption, TimesAssumption
    DEF TypeOK, RunTypeOK, SharedTypeOK, States, Requests, NoRequest, Never,
        isActive, Gains, Ended, runVars, mailVars, callbackVars, stopVars,
        recordVars
<1>1. CASE CycleStop
  <2>1. state' \in States /\ endAge' \in 0 .. RecordTail /\ releasePending' \in BOOLEAN
    <3>1. CASE stopCount # appliedStops /\ isActive(state)
      BY <1>1, <3>1 DEF CycleStop, EndRun
    <3>2. CASE ~(stopCount # appliedStops /\ isActive(state))
      BY <1>1, <3>2 DEF CycleStop
    <3> QED
      BY <3>1, <3>2
  <2> QED
    BY <1>1, <2>1 DEF CycleStop
<1>2. CASE TakeStart
  <2>1. run' \in Requests /\ armedAge' \in 0 .. ArmTimeout + 1 /\ lastAge' \in 0 .. Never
    BY <1>2 DEF TakeStart
  <2> QED
    BY <1>2, <2>1 DEF TakeStart
<1>3. CASE NoStart
    BY <1>3 DEF NoStart
<1>4. CASE ReadKeepalive
    BY <1>4 DEF ReadKeepalive, Counts
<1>5. CASE Compute
  <2>1. PICK result \in Results :
            \/ result \in States /\ state' = result /\ UNCHANGED <<endAge, releasePending>>
            \/ EndRun(result)
    BY <1>5 DEF Compute
  <2>2. state' \in States /\ endAge' \in 0 .. RecordTail /\ releasePending' \in BOOLEAN
    <3>1. CASE result \in States /\ state' = result /\ UNCHANGED <<endAge, releasePending>>
      BY <3>1
    <3>2. CASE EndRun(result)
      BY <3>2 DEF EndRun
    <3> QED
      BY <2>1, <3>1, <3>2
  <2> QED
    BY <1>5, <2>2 DEF Compute
<1>6. ASSUME NEW taken \in BOOLEAN, Output(taken) PROVE RunTypeOK'
  <2>1. state' \in States /\ endAge' \in 0 .. RecordTail
    BY <1>6 DEF Output, WriteFailed
  <2>2. releasePending' \in BOOLEAN
    BY <1>6 DEF Output, WriteFailed
  <2>3. kp' \in BOOLEAN
    <3>1. CASE Gains(state) /\ ~taken
      BY <1>6, <3>1 DEF Output, WriteFailed
    <3>2. CASE Gains(state) /\ taken
      BY <1>6, <3>2 DEF Output, WriteOutputs
    <3>3. CASE ~Gains(state)
      <4>1. Gains(state) = FALSE
        BY <3>3
      <4> QED
        BY <1>6, <4>1 DEF Output, WriteOutputs
    <3> QED
      BY <1>6, <3>1, <3>2, <3>3
  <2> QED
    BY <1>6, <2>1, <2>2, <2>3 DEF Output
<1>7. CASE Record
    BY <1>7 DEF Record, RecordEnds
<1>8. CASE Publish
    BY <1>8 DEF Publish, PublishRtState
<1>9. ASSUME NEW taken \in BOOLEAN, OnActivate(taken) PROVE RunTypeOK'
    BY <1>9 DEF OnActivate, WriteOutputs, PublishRtState
<1>10. ASSUME NEW taken \in BOOLEAN, OnDeactivate(taken) PROVE RunTypeOK'
  <2>1. state' \in States /\ endAge' \in 0 .. RecordTail /\ releasePending' \in BOOLEAN
    <3>1. CASE isActive(state)
      BY <1>10, <3>1 DEF OnDeactivate, EndRun
    <3>2. CASE ~isActive(state)
      BY <1>10, <3>2 DEF OnDeactivate
    <3> QED
      BY <3>1, <3>2
  <2>2. kp' \in BOOLEAN
    BY <1>10 DEF OnDeactivate, WriteOutputs
  <2> QED
    BY <1>10, <2>1, <2>2 DEF OnDeactivate, HandOver
<1>11. ASSUME NEW release \in BOOLEAN, RequestStart(release) PROVE RunTypeOK'
    BY <1>11 DEF RequestStart, Accepts
<1>12. CASE RequestFinish
    BY <1>12 DEF RequestFinish
<1>13. CASE StoreFinish
    BY <1>13 DEF StoreFinish
<1>14. CASE RequestStop
    BY <1>14 DEF RequestStop
<1>15. ASSUME NEW id \in Ids, OnKeepalive(id) PROVE RunTypeOK'
    BY <1>15 DEF OnKeepalive, Ids
<1>16. CASE WriteBegin
    BY <1>16 DEF WriteBegin
<1>17. CASE WriteDone
    BY <1>17 DEF WriteDone
<1>18. CASE WriteRefused
    BY <1>18 DEF WriteRefused
<1>19. CASE Tick
    BY <1>19 DEF Tick, Older
<1>20. CASE UNCHANGED vars
    BY <1>20 DEF vars
<1> QED
    BY <1>1, <1>2, <1>3, <1>4, <1>5, <1>6, <1>7, <1>8, <1>9, <1>10,
       <1>11, <1>12, <1>13, <1>14, <1>15, <1>16, <1>17, <1>18, <1>19, <1>20
    DEF Next, Cycle, Lifecycle, Callbacks

\* Every step keeps the types of what is shared.
LEMMA SharedTypeStep == TypeOK /\ [Next]_vars => SharedTypeOK'
<1> SUFFICES ASSUME TypeOK, [Next]_vars PROVE SharedTypeOK'
    OBVIOUS
<1> USE BoundsAssumption, TimesAssumption
    DEF TypeOK, RunTypeOK, SharedTypeOK, States, Requests, NoRequest, Never,
        isActive, Gains, Ended, runVars, mailVars, callbackVars, stopVars,
        recordVars
<1>1. CASE CycleStop
    BY <1>1 DEF CycleStop, EndRun
<1>2. CASE TakeStart
    BY <1>2 DEF TakeStart, PublishRtState
<1>3. CASE NoStart
    BY <1>3 DEF NoStart
<1>4. CASE ReadKeepalive
    BY <1>4 DEF ReadKeepalive, Counts
<1>5. CASE Compute
    BY <1>5
    DEF Compute, EndRun, Results, ArmResults, RunResults, HoldResults, States,
        Reasons
<1>6. ASSUME NEW taken \in BOOLEAN, Output(taken) PROVE SharedTypeOK'
    BY <1>6 DEF Output, WriteOutputs, WriteFailed
<1>7. CASE Record
    BY <1>7 DEF Record, RecordEnds
<1>8. CASE Publish
    BY <1>8 DEF Publish, PublishRtState
<1>9. ASSUME NEW taken \in BOOLEAN, OnActivate(taken) PROVE SharedTypeOK'
    BY <1>9 DEF OnActivate, WriteOutputs, PublishRtState
<1>10. ASSUME NEW taken \in BOOLEAN, OnDeactivate(taken) PROVE SharedTypeOK'
    BY <1>10 DEF OnDeactivate, WriteOutputs, EndRun, PublishRtState, HandOver
<1>11. ASSUME NEW release \in BOOLEAN, RequestStart(release) PROVE SharedTypeOK'
  <2>1. pending' \in Requests
    BY <1>11 DEF RequestStart
  <2>2. keepalive' \in [id : 0 .. MaxStarts, after : BOOLEAN, age : 0 .. Lease + 1]
    BY <1>11 DEF RequestStart
  <2>3. nextId' \in 1 .. MaxStarts + 1 /\ beat' \in 0 .. Never
    BY <1>11 DEF RequestStart
  <2> QED
    BY <1>11, <2>1, <2>2, <2>3 DEF RequestStart
<1>12. CASE RequestFinish
    BY <1>12 DEF RequestFinish
<1>13. CASE StoreFinish
    BY <1>13 DEF StoreFinish
<1>14. CASE RequestStop
    BY <1>14 DEF RequestStop
<1>15. ASSUME NEW id \in Ids, OnKeepalive(id) PROVE SharedTypeOK'
    BY <1>15 DEF OnKeepalive, Ids
<1>16. CASE WriteBegin
    BY <1>16 DEF WriteBegin
<1>17. CASE WriteDone
    BY <1>17 DEF WriteDone
<1>18. CASE WriteRefused
    BY <1>18 DEF WriteRefused
<1>19. CASE Tick
    BY <1>19 DEF Tick, Older
<1>20. CASE UNCHANGED vars
    BY <1>20 DEF vars
<1> QED
    BY <1>1, <1>2, <1>3, <1>4, <1>5, <1>6, <1>7, <1>8, <1>9, <1>10,
       <1>11, <1>12, <1>13, <1>14, <1>15, <1>16, <1>17, <1>18, <1>19, <1>20
    DEF Next, Cycle, Lifecycle, Callbacks

\* Every step keeps the ownership of the record.
LEMMA OwnerStep == IInv /\ [Next]_vars => OwnerInv'
<1> SUFFICES ASSUME IInv, [Next]_vars PROVE OwnerInv'
    OBVIOUS
<1> USE BoundsAssumption, TimesAssumption
    DEF IInv, TypeOK, RunTypeOK, SharedTypeOK, OwnerInv, isActive, Gains, Ended,
        runVars, mailVars, callbackVars, stopVars, recordVars
<1>1. CASE CycleStop
    BY <1>1 DEF CycleStop, EndRun
<1>2. CASE TakeStart
    BY <1>2 DEF TakeStart, PublishRtState
<1>3. CASE NoStart
    BY <1>3 DEF NoStart
<1>4. CASE ReadKeepalive
    BY <1>4 DEF ReadKeepalive, Counts
<1>5. CASE Compute
    BY <1>5
    DEF Compute, EndRun, Results, ArmResults, RunResults, HoldResults, States,
        Reasons
<1>6. ASSUME NEW taken \in BOOLEAN, Output(taken) PROVE OwnerInv'
    BY <1>6 DEF Output, WriteOutputs, WriteFailed
<1>7. CASE Record
    BY <1>7 DEF Record, RecordEnds
<1>8. CASE Publish
    BY <1>8 DEF Publish, PublishRtState
<1>9. ASSUME NEW taken \in BOOLEAN, OnActivate(taken) PROVE OwnerInv'
    BY <1>9 DEF OnActivate, WriteOutputs, PublishRtState
<1>10. ASSUME NEW taken \in BOOLEAN, OnDeactivate(taken) PROVE OwnerInv'
    BY <1>10 DEF OnDeactivate, WriteOutputs, EndRun, PublishRtState, HandOver
<1>11. ASSUME NEW release \in BOOLEAN, RequestStart(release) PROVE OwnerInv'
    BY <1>11 DEF RequestStart, Accepts
<1>12. CASE RequestFinish
    BY <1>12 DEF RequestFinish
<1>13. CASE StoreFinish
    BY <1>13 DEF StoreFinish
<1>14. CASE RequestStop
    BY <1>14 DEF RequestStop
<1>15. ASSUME NEW id \in Ids, OnKeepalive(id) PROVE OwnerInv'
    BY <1>15 DEF OnKeepalive, Ids
<1>16. CASE WriteBegin
    BY <1>16 DEF WriteBegin
<1>17. CASE WriteDone
    BY <1>17 DEF WriteDone
<1>18. CASE WriteRefused
    BY <1>18 DEF WriteRefused
<1>19. CASE Tick
    BY <1>19 DEF Tick, Older
<1>20. CASE UNCHANGED vars
    BY <1>20 DEF vars
<1> QED
    BY <1>1, <1>2, <1>3, <1>4, <1>5, <1>6, <1>7, <1>8, <1>9, <1>10,
       <1>11, <1>12, <1>13, <1>14, <1>15, <1>16, <1>17, <1>18, <1>19, <1>20
    DEF Next, Cycle, Lifecycle, Callbacks

\* Every step keeps the gains accounted for.
LEMMA LimpStep == IInv /\ [Next]_vars => LimpInv'
<1> SUFFICES ASSUME IInv, [Next]_vars PROVE LimpInv'
    OBVIOUS
<1> USE BoundsAssumption, TimesAssumption
    DEF IInv, TypeOK, RunTypeOK, SharedTypeOK, OwnerInv, LimpInv,
        LimpUnlessPending, isActive, Gains, Ended, runVars, mailVars,
        callbackVars, stopVars, recordVars
<1>1. CASE CycleStop
    BY <1>1 DEF CycleStop, EndRun
<1>2. CASE TakeStart
    BY <1>2 DEF TakeStart, PublishRtState
<1>3. CASE NoStart
    BY <1>3 DEF NoStart
<1>4. CASE ReadKeepalive
    BY <1>4 DEF ReadKeepalive, Counts
<1>5. CASE Compute
    BY <1>5
    DEF Compute, EndRun, Results, ArmResults, RunResults, HoldResults, States,
        Reasons
<1>6. ASSUME NEW taken \in BOOLEAN, Output(taken) PROVE LimpInv'
    BY <1>6 DEF Output, WriteOutputs, WriteFailed
<1>7. CASE Record
    BY <1>7 DEF Record, RecordEnds
<1>8. CASE Publish
    BY <1>8 DEF Publish, PublishRtState
<1>9. ASSUME NEW taken \in BOOLEAN, OnActivate(taken) PROVE LimpInv'
    BY <1>9 DEF OnActivate, WriteOutputs, PublishRtState
<1>10. ASSUME NEW taken \in BOOLEAN, OnDeactivate(taken) PROVE LimpInv'
    BY <1>10 DEF OnDeactivate, WriteOutputs, EndRun, PublishRtState, HandOver
<1>11. ASSUME NEW release \in BOOLEAN, RequestStart(release) PROVE LimpInv'
    BY <1>11 DEF RequestStart, Accepts
<1>12. CASE RequestFinish
    BY <1>12 DEF RequestFinish
<1>13. CASE StoreFinish
    BY <1>13 DEF StoreFinish
<1>14. CASE RequestStop
    BY <1>14 DEF RequestStop
<1>15. ASSUME NEW id \in Ids, OnKeepalive(id) PROVE LimpInv'
    BY <1>15 DEF OnKeepalive, Ids
<1>16. CASE WriteBegin
    BY <1>16 DEF WriteBegin
<1>17. CASE WriteDone
    BY <1>17 DEF WriteDone
<1>18. CASE WriteRefused
    BY <1>18 DEF WriteRefused
<1>19. CASE Tick
    BY <1>19 DEF Tick, Older
<1>20. CASE UNCHANGED vars
    BY <1>20 DEF vars
<1> QED
    BY <1>1, <1>2, <1>3, <1>4, <1>5, <1>6, <1>7, <1>8, <1>9, <1>10,
       <1>11, <1>12, <1>13, <1>14, <1>15, <1>16, <1>17, <1>18, <1>19, <1>20
    DEF Next, Cycle, Lifecycle, Callbacks

\* Every step keeps stops and starts in order.
LEMMA StopStep == IInv /\ [Next]_vars => StopInv'
<1> SUFFICES ASSUME IInv, [Next]_vars PROVE StopInv'
    OBVIOUS
<1> USE BoundsAssumption, TimesAssumption
    DEF IInv, TypeOK, RunTypeOK, SharedTypeOK, StopInv, StopEndsEarlierRuns,
        isActive, Gains, Ended, runVars, mailVars, callbackVars, stopVars,
        recordVars
<1>1. CASE CycleStop
    BY <1>1 DEF CycleStop, EndRun
<1>2. CASE TakeStart
    BY <1>2 DEF TakeStart, PublishRtState
<1>3. CASE NoStart
    BY <1>3 DEF NoStart
<1>4. CASE ReadKeepalive
    BY <1>4 DEF ReadKeepalive, Counts
<1>5. CASE Compute
    BY <1>5
    DEF Compute, EndRun, Results, ArmResults, RunResults, HoldResults, States,
        Reasons
<1>6. ASSUME NEW taken \in BOOLEAN, Output(taken) PROVE StopInv'
    BY <1>6 DEF Output, WriteOutputs, WriteFailed
<1>7. CASE Record
    BY <1>7 DEF Record, RecordEnds
<1>8. CASE Publish
    BY <1>8 DEF Publish, PublishRtState
<1>9. ASSUME NEW taken \in BOOLEAN, OnActivate(taken) PROVE StopInv'
    BY <1>9 DEF OnActivate, WriteOutputs, PublishRtState
<1>10. ASSUME NEW taken \in BOOLEAN, OnDeactivate(taken) PROVE StopInv'
    BY <1>10 DEF OnDeactivate, WriteOutputs, EndRun, PublishRtState, HandOver
<1>11. ASSUME NEW release \in BOOLEAN, RequestStart(release) PROVE StopInv'
    BY <1>11 DEF RequestStart, Accepts
<1>12. CASE RequestFinish
    BY <1>12 DEF RequestFinish
<1>13. CASE StoreFinish
    BY <1>13 DEF StoreFinish
<1>14. CASE RequestStop
    BY <1>14 DEF RequestStop
<1>15. ASSUME NEW id \in Ids, OnKeepalive(id) PROVE StopInv'
    BY <1>15 DEF OnKeepalive, Ids
<1>16. CASE WriteBegin
    BY <1>16 DEF WriteBegin
<1>17. CASE WriteDone
    BY <1>17 DEF WriteDone
<1>18. CASE WriteRefused
    BY <1>18 DEF WriteRefused
<1>19. CASE Tick
    BY <1>19 DEF Tick, Older
<1>20. CASE UNCHANGED vars
    BY <1>20 DEF vars
<1> QED
    BY <1>1, <1>2, <1>3, <1>4, <1>5, <1>6, <1>7, <1>8, <1>9, <1>10,
       <1>11, <1>12, <1>13, <1>14, <1>15, <1>16, <1>17, <1>18, <1>19, <1>20
    DEF Next, Cycle, Lifecycle, Callbacks

\* Every step keeps the request numbers in order.
LEMMA NumberStep == IInv /\ [Next]_vars => NumberInv'
<1> SUFFICES ASSUME IInv, [Next]_vars PROVE NumberInv'
    OBVIOUS
<1> USE BoundsAssumption, TimesAssumption
    DEF IInv, TypeOK, RunTypeOK, SharedTypeOK, OwnerInv, NumberInv, Requests,
        isActive, Gains, Ended, runVars, mailVars, callbackVars, stopVars,
        recordVars
<1>1. CASE CycleStop
    BY <1>1 DEF CycleStop, EndRun
<1>2. CASE TakeStart
    BY <1>2 DEF TakeStart, PublishRtState
<1>3. CASE NoStart
    BY <1>3 DEF NoStart
<1>4. CASE ReadKeepalive
    BY <1>4 DEF ReadKeepalive, Counts
<1>5. CASE Compute
    BY <1>5
    DEF Compute, EndRun, Results, ArmResults, RunResults, HoldResults, States,
        Reasons
<1>6. ASSUME NEW taken \in BOOLEAN, Output(taken) PROVE NumberInv'
    BY <1>6 DEF Output, WriteOutputs, WriteFailed
<1>7. CASE Record
    BY <1>7 DEF Record, RecordEnds
<1>8. CASE Publish
    BY <1>8 DEF Publish, PublishRtState
<1>9. ASSUME NEW taken \in BOOLEAN, OnActivate(taken) PROVE NumberInv'
    BY <1>9 DEF OnActivate, WriteOutputs, PublishRtState
<1>10. ASSUME NEW taken \in BOOLEAN, OnDeactivate(taken) PROVE NumberInv'
    BY <1>10 DEF OnDeactivate, WriteOutputs, EndRun, PublishRtState, HandOver
<1>11. ASSUME NEW release \in BOOLEAN, RequestStart(release) PROVE NumberInv'
    BY <1>11 DEF RequestStart, Accepts
<1>12. CASE RequestFinish
    BY <1>12 DEF RequestFinish
<1>13. CASE StoreFinish
    BY <1>13 DEF StoreFinish
<1>14. CASE RequestStop
    BY <1>14 DEF RequestStop
<1>15. ASSUME NEW id \in Ids, OnKeepalive(id) PROVE NumberInv'
    BY <1>15 DEF OnKeepalive, Ids
<1>16. CASE WriteBegin
    BY <1>16 DEF WriteBegin
<1>17. CASE WriteDone
    BY <1>17 DEF WriteDone
<1>18. CASE WriteRefused
    BY <1>18 DEF WriteRefused
<1>19. CASE Tick
    BY <1>19 DEF Tick, Older
<1>20. CASE UNCHANGED vars
    BY <1>20 DEF vars
<1> QED
    BY <1>1, <1>2, <1>3, <1>4, <1>5, <1>6, <1>7, <1>8, <1>9, <1>10,
       <1>11, <1>12, <1>13, <1>14, <1>15, <1>16, <1>17, <1>18, <1>19, <1>20
    DEF Next, Cycle, Lifecycle, Callbacks

\* Every step keeps the age of the keepalive.
LEMMA BeatStep == IInv /\ [Next]_vars => BeatInv'
<1> SUFFICES ASSUME IInv, [Next]_vars PROVE BeatInv'
    OBVIOUS
<1> USE BoundsAssumption, TimesAssumption
    DEF IInv, TypeOK, RunTypeOK, SharedTypeOK, OwnerInv, NumberInv, BeatInv,
        Never, isActive, Gains, Ended, runVars, mailVars, callbackVars,
        stopVars, recordVars
<1>1. CASE CycleStop
    BY <1>1 DEF CycleStop, EndRun
<1>2. CASE TakeStart
    BY <1>2 DEF TakeStart, PublishRtState
<1>3. CASE NoStart
    BY <1>3 DEF NoStart
<1>4. CASE ReadKeepalive
    BY <1>4 DEF ReadKeepalive, Counts
<1>5. CASE Compute
    BY <1>5
    DEF Compute, EndRun, Results, ArmResults, RunResults, HoldResults, States,
        Reasons
<1>6. ASSUME NEW taken \in BOOLEAN, Output(taken) PROVE BeatInv'
    BY <1>6 DEF Output, WriteOutputs, WriteFailed
<1>7. CASE Record
    BY <1>7 DEF Record, RecordEnds
<1>8. CASE Publish
    BY <1>8 DEF Publish, PublishRtState
<1>9. ASSUME NEW taken \in BOOLEAN, OnActivate(taken) PROVE BeatInv'
    BY <1>9 DEF OnActivate, WriteOutputs, PublishRtState
<1>10. ASSUME NEW taken \in BOOLEAN, OnDeactivate(taken) PROVE BeatInv'
    BY <1>10 DEF OnDeactivate, WriteOutputs, EndRun, PublishRtState, HandOver
<1>11. ASSUME NEW release \in BOOLEAN, RequestStart(release) PROVE BeatInv'
    BY <1>11 DEF RequestStart, Accepts
<1>12. CASE RequestFinish
    BY <1>12 DEF RequestFinish
<1>13. CASE StoreFinish
    BY <1>13 DEF StoreFinish
<1>14. CASE RequestStop
    BY <1>14 DEF RequestStop
<1>15. ASSUME NEW id \in Ids, OnKeepalive(id) PROVE BeatInv'
    BY <1>15 DEF OnKeepalive, Ids
<1>16. CASE WriteBegin
    BY <1>16 DEF WriteBegin
<1>17. CASE WriteDone
    BY <1>17 DEF WriteDone
<1>18. CASE WriteRefused
    BY <1>18 DEF WriteRefused
<1>19. CASE Tick
    BY <1>19 DEF Tick, Older
<1>20. CASE UNCHANGED vars
    BY <1>20 DEF vars
<1> QED
    BY <1>1, <1>2, <1>3, <1>4, <1>5, <1>6, <1>7, <1>8, <1>9, <1>10,
       <1>11, <1>12, <1>13, <1>14, <1>15, <1>16, <1>17, <1>18, <1>19, <1>20
    DEF Next, Cycle, Lifecycle, Callbacks

\* Every step keeps the snapshot behind the run.
LEMMA ReportStep == IInv /\ [Next]_vars => ReportInv'
<1> SUFFICES ASSUME IInv, [Next]_vars PROVE ReportInv'
    OBVIOUS
<1> USE BoundsAssumption, TimesAssumption
    DEF IInv, TypeOK, RunTypeOK, SharedTypeOK, OwnerInv, NumberInv, ReportInv,
        Requests, isActive, Gains, Ended, runVars, mailVars, callbackVars,
        stopVars, recordVars
<1>1. CASE CycleStop
    BY <1>1 DEF CycleStop, EndRun
<1>2. CASE TakeStart
    BY <1>2 DEF TakeStart, PublishRtState
<1>3. CASE NoStart
    BY <1>3 DEF NoStart
<1>4. CASE ReadKeepalive
    BY <1>4 DEF ReadKeepalive, Counts
<1>5. CASE Compute
    BY <1>5
    DEF Compute, EndRun, Results, ArmResults, RunResults, HoldResults, States,
        Reasons
<1>6. ASSUME NEW taken \in BOOLEAN, Output(taken) PROVE ReportInv'
    BY <1>6 DEF Output, WriteOutputs, WriteFailed
<1>7. CASE Record
    BY <1>7 DEF Record, RecordEnds
<1>8. CASE Publish
    BY <1>8 DEF Publish, PublishRtState
<1>9. ASSUME NEW taken \in BOOLEAN, OnActivate(taken) PROVE ReportInv'
    BY <1>9 DEF OnActivate, WriteOutputs, PublishRtState
<1>10. ASSUME NEW taken \in BOOLEAN, OnDeactivate(taken) PROVE ReportInv'
    BY <1>10 DEF OnDeactivate, WriteOutputs, EndRun, PublishRtState, HandOver
<1>11. ASSUME NEW release \in BOOLEAN, RequestStart(release) PROVE ReportInv'
    BY <1>11 DEF RequestStart, Accepts
<1>12. CASE RequestFinish
    BY <1>12 DEF RequestFinish
<1>13. CASE StoreFinish
    BY <1>13 DEF StoreFinish
<1>14. CASE RequestStop
    BY <1>14 DEF RequestStop
<1>15. ASSUME NEW id \in Ids, OnKeepalive(id) PROVE ReportInv'
    BY <1>15 DEF OnKeepalive, Ids
<1>16. CASE WriteBegin
    BY <1>16 DEF WriteBegin
<1>17. CASE WriteDone
    BY <1>17 DEF WriteDone
<1>18. CASE WriteRefused
    BY <1>18 DEF WriteRefused
<1>19. CASE Tick
    BY <1>19 DEF Tick, Older
<1>20. CASE UNCHANGED vars
    BY <1>20 DEF vars
<1> QED
    BY <1>1, <1>2, <1>3, <1>4, <1>5, <1>6, <1>7, <1>8, <1>9, <1>10,
       <1>11, <1>12, <1>13, <1>14, <1>15, <1>16, <1>17, <1>18, <1>19, <1>20
    DEF Next, Cycle, Lifecycle, Callbacks

\* The controller starts without a run, a request or a gain.
LEMMA InitIInv == Init => IInv
<1> SUFFICES ASSUME Init PROVE IInv
    OBVIOUS
<1> USE BoundsAssumption, TimesAssumption
    DEF Init, NoRequest, Never, isActive, Gains, Ended
<1>1. RunTypeOK
  <2>1. run \in Requests
    BY DEF Requests
  <2>2. armedAge \in 0 .. ArmTimeout + 1 /\ endAge \in 0 .. RecordTail /\ lastAge \in 0 .. Never
    OBVIOUS
  <2> QED
    BY <2>1, <2>2 DEF RunTypeOK, States
<1>2. SharedTypeOK
  <2>1. pending \in Requests /\ nextId \in 1 .. MaxStarts + 1
    BY DEF Requests
  <2>2. keepalive \in [id : 0 .. MaxStarts, after : BOOLEAN, age : 0 .. Lease + 1]
    OBVIOUS
  <2>3. /\ rtState \in [state : States, id : 0 .. MaxStarts]
        /\ snapshot \in [state : States, id : 0 .. MaxStarts, releasePending : BOOLEAN]
    BY DEF States
  <2>4. /\ appliedStops \in 0 .. MaxStops /\ stopCount \in 0 .. MaxStops
        /\ beat \in 0 .. Never
        /\ finishFor \in 0 .. MaxStarts /\ finishing \in 0 .. MaxStarts
    OBVIOUS
  <2> QED
    BY <2>1, <2>2, <2>3, <2>4 DEF SharedTypeOK
<1>3. OwnerInv /\ LimpInv /\ StopInv
    BY DEF OwnerInv, LimpInv, LimpUnlessPending, StopInv, StopEndsEarlierRuns
<1>4. NumberInv /\ BeatInv /\ ReportInv
    BY DEF NumberInv, BeatInv, ReportInv
<1> QED
    BY <1>1, <1>2, <1>3, <1>4 DEF IInv, TypeOK

\* The inductive invariant holds in every reachable state.
THEOREM InductiveInvariant == Spec => []IInv
<1>1. IInv /\ [Next]_vars => IInv'
    BY RunTypeStep, SharedTypeStep, OwnerStep, LimpStep, StopStep, NumberStep,
       BeatStep, ReportStep
    DEF IInv, TypeOK
<1> QED
    BY <1>1, InitIInv, PTL DEF Spec

\* Types, and the stop count that ~/start compares with is the applied one,
\* for every number of starts and stops.
THEOREM TypeCorrect == Spec => []TypeOK
    BY InductiveInvariant, PTL DEF IInv

\* No gain is forgotten: a refused write, a deactivation and the start of the
\* next run all leave it either wanted or marked as to be released.
THEOREM GainsAccountedFor == Spec => []LimpUnlessPending
    BY InductiveInvariant, PTL DEF IInv, LimpInv

\* ~/stop ends every run accepted before it and no later one.
THEOREM StopAndStartInOrder == Spec => []StopEndsEarlierRuns
    BY InductiveInvariant, PTL DEF IInv, StopInv

\* update() writes gains only within the lease of a real keepalive.
THEOREM MovesOnlyWithinLease == Spec => []GainsNeedLease
<1>1. IInv => GainsNeedLease
    BY TimesAssumption
   
    DEF IInv, TypeOK, RunTypeOK, SharedTypeOK, BeatInv, GainsNeedLease, Gains,
        isActive,
        Never
<1> QED
    BY <1>1, InductiveInvariant, PTL

\* The status of an active controller never hides a gain that is left.
THEOREM StatusIsHonest == Spec => []PendingIsReported
<1>1. IInv => PendingIsReported
    BY
    DEF IInv, LimpInv, LimpUnlessPending, ReportInv, PendingIsReported, Gains,
        Ended
<1> QED
    BY <1>1, InductiveInvariant, PTL

\* The record the timer reads is not written to, and keeps its run.
THEOREM RecordHasOneOwner == Spec => RecordIsStable
<1>1. IInv /\ [Next]_vars => [callback = "csv" => ~recording /\ run' = run]_vars
  <2> SUFFICES ASSUME IInv, [Next]_vars, callback = "csv"
               PROVE  ~recording /\ run' = run
    OBVIOUS
  <2>1. recordComplete /\ ~recording
    BY DEF IInv, OwnerInv
  <2>2. run' = run
    BY <2>1
   
    DEF Next, Cycle, Lifecycle, Callbacks, CycleStop, TakeStart, NoStart,
        ReadKeepalive,
        Compute, Output, Record, Publish, OnActivate, OnDeactivate, RequestStart,
        RequestFinish, StoreFinish, RequestStop, OnKeepalive, WriteBegin, WriteDone,
        WriteRefused, Tick, runVars, vars
  <2> QED
    BY <2>1, <2>2
<1> QED
    BY <1>1, InductiveInvariant, PTL DEF Spec, RecordIsStable

---------------------------------------------------------------------------
(* The motion contract *)

\* The phase of the contract that a state of update() stands for.
Phase(s) == IF Gains(s) THEN "moving" ELSE IF s = "kArmed" THEN "armed" ELSE "rest"

\* A step of the contract, in the variables of the controller.
MotionStep == [Motion!Next]_(Motion!motionVars)

\* What a state's phase is.
LEMMA PhaseFacts ==
    ASSUME NEW s
    PROVE  /\ Phase(s) = "moving" <=> Gains(s)
           /\ Phase(s) = "rest" <=> ~isActive(s)
           /\ Phase(s) \in {"rest", "armed", "moving"}
  BY DEF Phase, Gains, isActive

\* Who leaves the request, the state and the outputs alone does not move; nor
\* does who withdraws a request.
LEMMA StillMotion ==
    ASSUME UNCHANGED <<state, kp>>, pending' \in {pending, NoRequest}
    PROVE  MotionStep
<1>1. Phase(state)' = Phase(state)
    BY DEF Phase, Gains
<1>2. CASE pending' = pending
    BY <1>1, <1>2 DEF MotionStep, Motion!motionVars, Phase
<1>3. CASE pending' = NoRequest
    BY <1>1, <1>3 DEF MotionStep, Motion!Next, Motion!Withdraw, Phase
<1> QED
    BY <1>2, <1>3

\* The end of a run, with outputs that hold a gain only where they did, or where
\* the cycle may write one.
LEMMA EndMotion ==
    ASSUME TypeOK, pending' = pending, kp' \in BOOLEAN,
           state' = state \/ ~isActive(state'),
           kp' => kp \/ (Gains(state) /\ beat <= Lease)
    PROVE  MotionStep
<1>1. Phase(state)' = Phase(state') /\ (state' = state => Phase(state)' = Phase(state))
    BY DEF Phase, Gains
<1>2. /\ (pending # NoRequest)' <=> (pending # NoRequest)
      /\ kp \in BOOLEAN
    BY DEF TypeOK, RunTypeOK
<1>3. CASE isActive(state) /\ ~isActive(state')
  <2>1. Phase(state) # "rest" /\ Phase(state)' = "rest"
    BY <1>1, <1>3, PhaseFacts
  <2>2. kp' => kp \/ (Phase(state) = "moving" /\ beat <= Lease)
    BY PhaseFacts
  <2>3. Motion!End
    BY <1>2, <2>1, <2>2 DEF Motion!End, Motion!MayDrive, Phase
  <2> QED
    BY <2>3 DEF MotionStep, Motion!Next
<1>4. CASE ~(isActive(state) /\ ~isActive(state'))
  <2>1. Phase(state)' = Phase(state)
    BY <1>1, <1>4, PhaseFacts
  <2>2. CASE kp' = kp
    BY <2>1, <2>2 DEF MotionStep, Motion!motionVars, Phase
  <2>3. CASE kp' = FALSE
    BY <2>1, <2>3 DEF MotionStep, Motion!Next, Motion!Release, Phase
  <2>4. CASE kp' = TRUE /\ kp = FALSE
    <3>1. Phase(state) = "moving" /\ beat <= Lease
      BY <2>4, PhaseFacts
    <3> QED
      BY <2>1, <2>4, <3>1 DEF MotionStep, Motion!Next, Motion!Drive, Motion!MayDrive, Phase
  <2> QED
    BY <1>2, <2>2, <2>3, <2>4
<1> QED
    BY <1>3, <1>4

\* The computation of a cycle comes to a moving state only within the lease.
LEMMA ComputeMotion ==
    ASSUME IInv, Compute
    PROVE  MotionStep
<1> USE TimesAssumption
<1>1. /\ state \in States /\ lastAge \in 0 .. Never /\ beat \in 0 .. Never
      /\ isActive(state) /\ lastAge # Never => beat <= lastAge
    BY DEF IInv, TypeOK, RunTypeOK, SharedTypeOK, BeatInv
<1>2. PICK result \in Results :
          \/ result \in States /\ state' = result
          \/ result \in Reasons /\ ~isActive(state')
    BY DEF Compute, EndRun, isActive
<1>3. UNCHANGED <<pending, kp>>
    BY DEF Compute, mailVars
<1>4. CASE state = "kArmed" /\ Gains(state')
  <2>1. result \in ArmResults /\ result \in {"kRunning", "kHolding"}
    BY <1>2, <1>4 DEF Results, Gains, isActive
  <2>2. lastAge # Never /\ result \in RunResults
    BY <2>1 DEF ArmResults
  <2>3. ~(lastAge > Lease)
    BY <2>1, <2>2 DEF RunResults
  <2>4. beat <= Lease
    BY <1>1, <1>4, <2>2, <2>3 DEF isActive
  <2>5. Phase(state) = "armed" /\ Phase(state)' = "moving"
    BY <1>4 DEF Phase, Gains
  <2> QED
    BY <1>3, <2>4, <2>5 DEF MotionStep, Motion!Next, Motion!Move, Phase
<1>5. CASE ~(state = "kArmed" /\ Gains(state')) /\ isActive(state')
  <2>1. result = state'
    BY <1>2, <1>5
  <2>2. Gains(state) => Gains(state')
    <3>1. ASSUME Gains(state) PROVE state' # "kArmed"
      BY <1>5, <2>1, <3>1 DEF Results, RunResults, HoldResults, Gains
    <3> QED
      BY <1>5, <3>1 DEF Gains, isActive
  <2>3. isActive(state)
    <3>1. ASSUME ~isActive(state) PROVE state' = state
      BY <2>1, <3>1 DEF Results, isActive
    <3> QED
      BY <1>5, <3>1
  <2>4. Phase(state)' = Phase(state)
    BY <1>5, <2>2, <2>3 DEF Phase, Gains, isActive
  <2> QED
    BY <1>3, <2>4 DEF MotionStep, Motion!motionVars, Phase
<1>6. CASE ~isActive(state')
  <2>1. kp' \in BOOLEAN /\ TypeOK
    BY <1>3 DEF IInv, TypeOK, RunTypeOK
  <2> QED
    BY <1>3, <1>6, <2>1, EndMotion
<1> QED
    BY <1>4, <1>5, <1>6 DEF Gains, isActive

\* The outputs of a cycle hold a new gain only within the lease.
LEMMA OutputMotion ==
    ASSUME IInv, NEW taken \in BOOLEAN, Output(taken)
    PROVE  MotionStep
<1>1. TypeOK /\ kp \in BOOLEAN /\ (Gains(state) => beat <= Lease)
    BY TimesAssumption
    DEF IInv, TypeOK, RunTypeOK, SharedTypeOK, BeatInv, Output, Gains, isActive, Never
<1>2. pending' = pending
    BY DEF Output, mailVars
<1>3. CASE Gains(state) /\ ~taken
  <2>1. kp' \in BOOLEAN /\ ~isActive(state')
    BY <1>3 DEF Output, WriteFailed, isActive
  <2> QED
    BY <1>1, <1>2, <1>3, <2>1, EndMotion
<1>4. CASE ~(Gains(state) /\ ~taken)
  <2>1. state' = state /\ WriteOutputs(Gains(state), taken)
    BY <1>4 DEF Output
  <2>2. kp' \in BOOLEAN /\ (kp' => kp \/ Gains(state))
    <3>1. CASE kp' = kp
      <4>1. kp' \in BOOLEAN
        BY <1>1, <3>1
      <4> QED
        BY <3>1, <4>1
    <3>2. CASE kp' = Gains(state)
      <4>1. Gains(state) \in BOOLEAN
        BY DEF Gains
      <4>2. kp' \in BOOLEAN
        BY <3>2, <4>1
      <4>3. ASSUME ~Gains(state) PROVE kp' = FALSE
        <5>1. Gains(state) = FALSE
          BY <4>3 DEF Gains
        <5> QED
          BY <3>2, <5>1
      <4> QED
        BY <4>2, <4>3
    <3> QED
      BY <2>1, <3>1, <3>2 DEF WriteOutputs
  <2> QED
    BY <1>1, <1>2, <2>1, <2>2, EndMotion
<1> QED
    BY <1>3, <1>4

\* Every step of the controller is one of the contract, or changes nothing there.
LEMMA NextMotion == IInv /\ [Next]_vars => MotionStep
<1> SUFFICES ASSUME IInv, [Next]_vars PROVE MotionStep
    OBVIOUS
<1> USE DEF runVars, mailVars
<1>0. TypeOK /\ kp \in BOOLEAN
    BY DEF IInv, TypeOK, RunTypeOK
<1>1. CASE CycleStop
  <2>1. UNCHANGED <<pending, kp>> /\ (state' = state \/ ~isActive(state'))
    BY <1>1 DEF CycleStop, EndRun, isActive
  <2> QED
    BY <1>0, <2>1, EndMotion
<1>2. CASE TakeStart
  <2>1. pending # NoRequest /\ pending' = NoRequest /\ UNCHANGED kp
    BY <1>2 DEF TakeStart
  <2>2. Phase(state) = "rest" /\ Phase(state)' = "armed"
    BY <1>2 DEF TakeStart, Phase, Gains, isActive
  <2> QED
    BY <2>1, <2>2 DEF MotionStep, Motion!Next, Motion!Start, Phase
<1>3. CASE NoStart \/ ReadKeepalive \/ Record \/ Publish
    BY <1>3, StillMotion DEF NoStart, ReadKeepalive, Record, Publish
<1>4. ASSUME NEW taken \in BOOLEAN, OnActivate(taken) \/ OnDeactivate(taken)
      PROVE  MotionStep
  <2>1. /\ pending' = pending /\ kp' \in {kp, FALSE}
        /\ state' = state \/ ~isActive(state')
    BY <1>4 DEF OnActivate, OnDeactivate, WriteOutputs, EndRun, isActive
  <2>2. kp' \in BOOLEAN /\ (kp' => kp)
    <3>1. CASE kp' = kp
      BY <1>0, <3>1
    <3>2. CASE kp' = FALSE
      BY <3>2
    <3> QED
      BY <2>1, <3>1, <3>2
  <2> QED
    BY <1>0, <2>1, <2>2, EndMotion
<1>5. ASSUME NEW release \in BOOLEAN, RequestStart(release) PROVE MotionStep
  <2>1. /\ pending = NoRequest /\ pending' # NoRequest /\ UNCHANGED <<state, kp>>
        /\ ~isActive(state)
    BY <1>0, <1>5
    DEF RequestStart, Accepts, NoRequest, IInv, OwnerInv, TypeOK, SharedTypeOK
  <2>2. Phase(state) = "rest" /\ Phase(state)' = "rest"
    BY <2>1, PhaseFacts DEF Phase, Gains, isActive
  <2> QED
    BY <2>1, <2>2 DEF MotionStep, Motion!Next, Motion!Accept, Phase
<1>6. CASE RequestFinish \/ StoreFinish \/ RequestStop \/ WriteBegin \/ WriteDone \/ WriteRefused
    BY <1>6, StillMotion
    DEF RequestFinish, StoreFinish, RequestStop, WriteBegin, WriteDone, WriteRefused
<1>7. ASSUME NEW id \in Ids, OnKeepalive(id) PROVE MotionStep
    BY <1>7, StillMotion DEF OnKeepalive
<1>8. CASE Tick \/ UNCHANGED vars
    BY <1>8, StillMotion DEF Tick, vars
<1> QED
    BY <1>1, <1>2, <1>3, <1>4, <1>5, <1>6, <1>7, <1>8, ComputeMotion, OutputMotion
    DEF Next, Cycle, Lifecycle, Callbacks

\* Whatever the callbacks, the cycle and the lifecycle do to each other, gains are
\* applied only in a run that was asked for, under a live supervisor.
THEOREM KeepsMotion == Spec => ImplementsMotion
<1>1. Init => Motion!Init
    BY DEF Init, Motion!Init, NoRequest, Gains
<1> QED
    BY <1>1, NextMotion, InductiveInvariant, PTL DEF Spec, ImplementsMotion, Motion!Spec, MotionStep
===========================================================================
