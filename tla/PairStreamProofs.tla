------------------------- MODULE PairStreamProofs -------------------------
(***************************************************************************)
(* Proofs about PairStream, for every MaxGeneration.                       *)
(*                                                                         *)
(* None of the invariants of PairStream is inductive alone.  IInv joins    *)
(* four arguments:                                                         *)
(*   PublishInv  how far the write in progress has brought its batch: the  *)
(*               distance between what was admitted and what is published; *)
(*   OrderInv    sent <= taken over by TX <= published <= admitted;        *)
(*   SendInv     the TX thread cannot be past the send boundary with a     *)
(*               request it could have seen;                               *)
(*   AttemptInv  an attempt implies an observed error.                     *)
(***************************************************************************)
EXTENDS PairStream, TLAPS

PublishInv ==
    /\ cpc \in {"idle", "recheck"} => snapSeq = last
    /\ cpc = "gate" =>
           /\ gen \in Generations /\ gen = last + 1
           /\ last = snapSeq
           /\ batch # "invalid"
           /\ (latched \/ last = 0) => batch = "released"
    /\ cpc = "storing" =>
           /\ gen = last
           /\ last = snapSeq + 1
           /\ batch # "invalid"
           /\ (latched \/ snapSeq = 0) => batch = "released"
    /\ cpc = "settle" => snapSeq = last \/ reason = "PublishFailed"
    /\ cpc \in {"error", "errored"} => snapSeq = last \/ "HwFault" \in sources
    /\ version = IF cpc = "storing" THEN 2 * snapSeq + 1 ELSE 2 * snapSeq

OrderInv ==
    /\ wireSeq <= schedSeq
    /\ schedSeq <= snapSeq
    /\ snapSeq <= last
    /\ expiredUpTo <= last

SendInv ==
    /\ lateFrames <= 1
    /\ sources = {} => lateFrames = 0
    /\ tpc \in {"fresh", "send"} => lateFrames = 0
    /\ feedbackStopped => sources # {} /\ tpc \notin {"fresh", "send"}

AttemptInv ==
    /\ errorObserved => cpc = "errored"
    /\ tpc = "perform" => result = "Processing"
    /\ result \notin {"Unattempted", "Incomplete"} => sources # {}
    /\ sources = {"HwFault"} /\ result \notin {"Unattempted", "Incomplete"} =>
           errorObserved

IInv == TypeOK /\ PublishInv /\ OrderInv /\ SendInv /\ AttemptInv

---------------------------------------------------------------------------
(* What inspect() decides *)

\* An admitted batch is the successor of the last one, in bounds, and
\* released where it must be.
LEMMA AcceptedFacts ==
    ASSUME last \in Generations,
           NEW g \in Generations \cup {BadGeneration}, NEW b \in Batches, NEW late,
           Inspect(g, b, late) = "Accepted"
    PROVE  /\ g \in Generations
           /\ g = last + 1
           /\ b # "invalid"
           /\ (latched \/ last = 0) => b = "released"
           /\ ~InspectLatches(g, b, late)
  <1>1. g # BadGeneration
    BY DEF Inspect
  <1>2. g = last + 1
    BY <1>1 DEF Inspect, IsGap
  <1>3. b # "invalid"
    BY DEF Inspect, OutOfBounds
  <1>4. (latched \/ last = 0) => b = "released"
    BY DEF Inspect, MustBeReleased
  <1>5. ~InspectLatches(g, b, late)
    BY <1>1 DEF InspectLatches
  <1> QED
    BY <1>1, <1>2, <1>3, <1>4, <1>5

\* inspect() gives a reason of its own.
LEMMA InspectReason ==
    ASSUME NEW g, NEW b, NEW late
    PROVE  Inspect(g, b, late) \in Reasons \ {"PublishFailed"}
  BY DEF Inspect, Reasons

\* A step is one of the named actions, or leaves every variable alone.
LEMMA NextCases ==
    ASSUME [Next]_vars
    PROVE  \/ \E g \in Generations \cup {BadGeneration}, b \in Batches : Write(g, b)
           \/ Recheck \/ Gate \/ Store \/ Return \/ OnError
           \/ ModeStart \/ ModeStop
           \/ TxTop \/ TxFlags \/ TxRead \/ TxDecide \/ TxGuard \/ TxFresh \/ TxSend
           \/ TxSafety \/ TxAttempt \/ TxPerform \/ TxFinish
           \/ RequestStop \/ StopBegin \/ Drained \/ DrainTimeout \/ Join
           \/ CommandAges \/ StartupPasses \/ FeedbackAges \/ Receive
           \/ UNCHANGED vars
  BY DEF Next, ControlReturns, TxStep, LifecycleStep, Terminated

---------------------------------------------------------------------------
(* Base case *)

\* The invariant holds initially.
LEMMA InitInv == Init => IInv
  <1> SUFFICES ASSUME Init PROVE IInv
    OBVIOUS
  <1> USE MaxGenerationAssumption
  <1>0. FlagsOK
    BY DEF Init, CommitInit, FlagsOK
  <1>1. ValuesOK
    BY DEF Init, CommitInit, ValuesOK, Generations, Batches, Reasons,
           Sources, Results, Faults, Versions
  <1>2. PublishInv /\ OrderInv /\ SendInv /\ AttemptInv
    BY DEF Init, CommitInit, PublishInv, OrderInv, SendInv, AttemptInv
  <1> QED
    BY <1>0, <1>1, <1>2 DEF IInv, TypeOK

---------------------------------------------------------------------------
(* Induction step, flags *)

\* Every step keeps the types of the flags.
LEMMA FlagsStep == FlagsOK /\ [Next]_vars => FlagsOK'
  <1> SUFFICES ASSUME FlagsOK, [Next]_vars PROVE FlagsOK'
    OBVIOUS
  <1> USE DEF commitVars, controlVars, drainVars, staleVars, snapVars, readVars, endVars,
        timeVars, wireVars, notControl, notTx, notLifecycle, notTime, vars
  <1>1. ASSUME NEW g, NEW b, Write(g, b) PROVE FlagsOK'
    <2>1. latched' \in BOOLEAN
      BY <1>1, Zenon DEF Write, InspectEffect, FlagsOK
    <2>2. expired' \in BOOLEAN
      BY <1>1, Zenon DEF Write, InspectEffect, ExpiresNow, FlagsOK
    <2> QED
      BY <1>1, <2>1, <2>2 DEF Write, FlagsOK
  <1>2. CASE Recheck
    <2>1. latched' \in BOOLEAN
      BY <1>2, Zenon DEF Recheck, InspectEffect, FlagsOK
    <2>2. expired' \in BOOLEAN
      BY <1>2, Zenon DEF Recheck, InspectEffect, ExpiresNow, FlagsOK
    <2> QED
      BY <1>2, <2>1, <2>2 DEF Recheck, FlagsOK
  <1>3. CASE Gate
    <2>1. latched' \in BOOLEAN
      BY <1>3, Zenon DEF Gate, FlagsOK
    <2> QED
      BY <1>3, <2>1 DEF Gate, FlagsOK
  <1>4. CASE Store
    BY <1>4 DEF Store, Notify, Fault, FlagsOK
  <1>5. CASE Return
    BY <1>5 DEF Return, Notify, Fault, FlagsOK
  <1>6. CASE OnError
    BY <1>6 DEF OnError, Notify, Fault, FlagsOK
  <1>7. CASE ModeStart
    BY <1>7 DEF ModeStart, Notify, Fault, FlagsOK
  <1>8. CASE ModeStop
    <2>1. notifyFailed' \in BOOLEAN
      BY <1>8, Zenon DEF ModeStop, Notify, FlagsOK
    <2>2. claimed' \in BOOLEAN
      BY <1>8, Zenon DEF ModeStop, Notify, FlagsOK
    <2>3. terminal' \in BOOLEAN
      BY <1>8, Zenon DEF ModeStop, Notify, FlagsOK
    <2>4. latched' \in BOOLEAN
      BY <1>8, Zenon DEF ModeStop, Notify, FlagsOK
    <2> QED
      BY <1>8, <2>1, <2>2, <2>3, <2>4 DEF ModeStop, FlagsOK
  <1>9. CASE TxTop
    BY <1>9 DEF TxTop, Notify, Fault, FlagsOK
  <1>10. CASE TxFlags
    <2>1. safeStopped' \in BOOLEAN
      BY <1>10, Zenon DEF TxFlags, Fault, FlagsOK
    <2>2. nowStartup' \in BOOLEAN
      BY <1>10, Zenon DEF TxFlags, Fault, FlagsOK
    <2> QED
      BY <1>10, <2>1, <2>2 DEF TxFlags, FlagsOK
  <1>11. CASE TxRead
    <2>1. snapFailed' \in BOOLEAN
      BY <1>11, Zenon DEF TxRead, FlagsOK
    <2> QED
      BY <1>11, <2>1 DEF TxRead, FlagsOK
  <1>12. CASE TxDecide
    <2>1. staleDetected' \in BOOLEAN
      BY <1>12, Zenon DEF TxDecide, NoteStale, Fault, Notify, FlagsOK
    <2>2. feedbackStopped' \in BOOLEAN
      BY <1>12, Zenon DEF TxDecide, NoteStale, Fault, Notify, FlagsOK
    <2>3. notifyFailed' \in BOOLEAN
      BY <1>12, Zenon DEF TxDecide, NoteStale, Fault, Notify, FlagsOK
    <2>4. safeStopped' \in BOOLEAN
      BY <1>12, Zenon DEF TxDecide, NoteStale, Fault, Notify, FlagsOK
    <2>5. nowStartup' \in BOOLEAN
      BY <1>12, Zenon DEF TxDecide, NoteStale, Fault, Notify, FlagsOK
    <2> QED
      BY <1>12, <2>1, <2>2, <2>3, <2>4, <2>5 DEF TxDecide, FlagsOK
  <1>13. CASE TxGuard
    <2>1. safeStopped' \in BOOLEAN
      BY <1>13, Zenon DEF TxGuard, Fault, FlagsOK
    <2> QED
      BY <1>13, <2>1 DEF TxGuard, FlagsOK
  <1>14. CASE TxFresh
    BY <1>14 DEF TxFresh, Notify, Fault, FlagsOK
  <1>15. CASE TxSend
    <2>1. firstSent' \in BOOLEAN
      BY <1>15, Zenon DEF TxSend, Fault, FlagsOK
    <2>2. safeStopped' \in BOOLEAN
      BY <1>15, Zenon DEF TxSend, Fault, FlagsOK
    <2>3. driversLatched' \in BOOLEAN
      BY <1>15, Zenon DEF TxSend, Fault, FlagsOK
    <2> QED
      BY <1>15, <2>1, <2>2, <2>3 DEF TxSend, FlagsOK
  <1>16. CASE TxSafety
    <2>1. staleDetected' \in BOOLEAN
      BY <1>16, Zenon DEF TxSafety, NoteStale, FlagsOK
    <2>2. feedbackStopped' \in BOOLEAN
      BY <1>16, Zenon DEF TxSafety, NoteStale, FlagsOK
    <2> QED
      BY <1>16, <2>1, <2>2 DEF TxSafety, FlagsOK
  <1>17. CASE TxAttempt
    BY <1>17 DEF TxAttempt, Notify, Fault, FlagsOK
  <1>18. CASE TxPerform
    BY <1>18 DEF TxPerform, Notify, Fault, FlagsOK
  <1>19. CASE TxFinish
    BY <1>19 DEF TxFinish, Notify, Fault, FlagsOK
  <1>20. CASE RequestStop
    <2>1. txRunning' \in BOOLEAN
      BY <1>20, Zenon DEF RequestStop, Notify, FlagsOK
    <2>2. notifyFailed' \in BOOLEAN
      BY <1>20, Zenon DEF RequestStop, Notify, FlagsOK
    <2>3. stopPending' \in BOOLEAN
      BY <1>20, Zenon DEF RequestStop, Notify, FlagsOK
    <2> QED
      BY <1>20, <2>1, <2>2, <2>3 DEF RequestStop, FlagsOK
  <1>21. CASE StopBegin
    BY <1>21 DEF StopBegin, Notify, Fault, FlagsOK
  <1>22. CASE Drained
    BY <1>22 DEF Drained, Notify, Fault, FlagsOK
  <1>23. CASE DrainTimeout
    BY <1>23 DEF DrainTimeout, Notify, Fault, FlagsOK
  <1>24. CASE Join
    BY <1>24 DEF Join, Notify, Fault, FlagsOK
  <1>25. CASE CommandAges
    BY <1>25 DEF CommandAges, Notify, Fault, FlagsOK
  <1>26. CASE StartupPasses
    BY <1>26 DEF StartupPasses, Notify, Fault, FlagsOK
  <1>27. CASE FeedbackAges
    BY <1>27 DEF FeedbackAges, Notify, Fault, FlagsOK
  <1>28. CASE Receive
    <2>1. rxFault' \in BOOLEAN
      BY <1>28, Zenon DEF Receive, FlagsOK
    <2>2. feedbackOld' \in BOOLEAN
      BY <1>28, Zenon DEF Receive, FlagsOK
    <2> QED
      BY <1>28, <2>1, <2>2 DEF Receive, FlagsOK
  <1>29. CASE UNCHANGED vars
    BY <1>29 DEF FlagsOK
  <1> QED
    BY NextCases, <1>1, <1>2, <1>3, <1>4, <1>5, <1>6, <1>7, <1>8, <1>9, <1>10, <1>11,
        <1>12, <1>13, <1>14, <1>15, <1>16, <1>17, <1>18, <1>19, <1>20, <1>21, <1>22,
        <1>23, <1>24, <1>25, <1>26, <1>27, <1>28, <1>29

---------------------------------------------------------------------------
(* Induction step, values *)

\* The ranges, which rest on PublishInv (version, snapBatch) and OrderInv.
LEMMA ValuesStep == IInv /\ [Next]_vars => ValuesOK'
  <1> SUFFICES ASSUME IInv, [Next]_vars PROVE ValuesOK'
    OBVIOUS
  <1> USE MaxGenerationAssumption DEF commitVars, controlVars, drainVars, staleVars,
      snapVars, readVars, endVars,
        timeVars, wireVars, notControl, notTx, notLifecycle, notTime, vars,
        IInv, TypeOK, ValuesOK, PublishInv, OrderInv, Generations, BadGeneration,
        Batches, Reasons, Sources, Results, Faults, Versions
  <1>1. ASSUME NEW g \in Generations \cup {BadGeneration}, NEW b \in Batches,
               Write(g, b)
        PROVE  ValuesOK'
    BY <1>1, AcceptedFacts, InspectReason DEF Write, Settle
  <1>2. CASE Recheck
    BY <1>2, AcceptedFacts, InspectReason DEF Recheck, InspectEffect, Settle
  <1>3. CASE Gate
    BY <1>3 DEF Gate, Settle
  <1>4. CASE Store
    BY <1>4 DEF Store
  <1>5. CASE Return
    <2>1. sources' \subseteq Sources
      <3>1. sources' = sources \/ sources' = sources \cup {"HwFault"}
        BY <1>5 DEF Return
      <3> QED
        BY <3>1
    <2>2. cpc' \in {"error", "idle"}
      BY <1>5 DEF Return
    <2> QED
      BY <1>5, <2>1, <2>2 DEF Return
  <1>6. CASE OnError
    BY <1>6 DEF OnError, Requested
  <1>7. CASE ModeStart
    BY <1>7 DEF ModeStart
  <1>8. CASE ModeStop
    BY <1>8 DEF ModeStop
  <1>9. CASE TxTop
    BY <1>9 DEF TxTop, Goto
  <1>10. CASE TxFlags
    BY <1>10 DEF TxFlags, Goto, Fault
  <1>11. CASE TxRead
    BY <1>11 DEF TxRead, Goto
  <1>12. CASE TxDecide
    <2>1. sources' \subseteq Sources
      <3>1. sources' \subseteq sources \cup {"FeedbackStale", "Watchdog"}
        BY <1>12 DEF TxDecide, NoteStale
      <3> QED
        BY <3>1
    <2>2. terminalFault' \in Faults
      BY <1>12 DEF TxDecide, StopReason
    <2>3. tpc' \in {"top", "guard", "done"} /\ fault' \in Faults
      BY <1>12 DEF TxDecide, Goto, Fault
    <2> QED
      BY <1>12, <2>1, <2>2, <2>3 DEF TxDecide
  <1>13. CASE TxGuard
    BY <1>13 DEF TxGuard, Goto, Fault, Requested
  <1>14. CASE TxFresh
    BY <1>14 DEF TxFresh, Goto
  <1>15. CASE TxSend
    BY <1>15 DEF TxSend, Goto, Fault
  <1>16. CASE TxSafety
    <2>1. sources' \subseteq Sources
      <3>1. sources' \subseteq sources \cup {"FeedbackStale", "Watchdog"}
        BY <1>16 DEF TxSafety, NoteStale
      <3> QED
        BY <3>1
    <2> QED
      BY <1>16, <2>1 DEF TxSafety, Goto
  <1>17. CASE TxAttempt
    BY <1>17 DEF TxAttempt, Goto, Ready, Requested
  <1>18. CASE TxPerform
    BY <1>18 DEF TxPerform, Goto
  <1>19. CASE TxFinish
    BY <1>19 DEF TxFinish, Fault
  <1>20. CASE RequestStop
    BY <1>20 DEF RequestStop
  <1>21. CASE StopBegin
    BY <1>21 DEF StopBegin
  <1>22. CASE Drained
    BY <1>22 DEF Drained
  <1>23. CASE DrainTimeout
    BY <1>23 DEF DrainTimeout
  <1>24. CASE Join
    BY <1>24 DEF Join
  <1>25. CASE CommandAges
    BY <1>25 DEF CommandAges
  <1>26. CASE StartupPasses
    BY <1>26 DEF StartupPasses
  <1>27. CASE FeedbackAges
    BY <1>27 DEF FeedbackAges
  <1>28. CASE Receive
    BY <1>28 DEF Receive
  <1>29. CASE UNCHANGED vars
    BY <1>29
  <1> QED
    BY NextCases, <1>1, <1>2, <1>3, <1>4, <1>5, <1>6, <1>7, <1>8, <1>9, <1>10,
       <1>11, <1>12, <1>13, <1>14, <1>15, <1>16, <1>17, <1>18, <1>19, <1>20,
       <1>21, <1>22, <1>23, <1>24, <1>25, <1>26, <1>27, <1>28, <1>29

---------------------------------------------------------------------------
(* Induction step, admission and publication *)

\* Only the control thread moves the distance between admitted and published.
LEMMA PublishStep == IInv /\ [Next]_vars => PublishInv'
  <1> SUFFICES ASSUME IInv, [Next]_vars PROVE PublishInv'
    OBVIOUS
  <1> USE MaxGenerationAssumption DEF commitVars, controlVars, drainVars, staleVars,
      snapVars, readVars, endVars,
        timeVars, wireVars, notControl, notTx, notLifecycle, notTime, vars,
        IInv, TypeOK, ValuesOK, PublishInv
  <1>1. ASSUME NEW g \in Generations \cup {BadGeneration}, NEW b \in Batches,
               Write(g, b)
        PROVE  PublishInv'
    BY <1>1, AcceptedFacts, InspectReason DEF Write, Settle
  <1>2. CASE Recheck
    BY <1>2, AcceptedFacts, InspectReason DEF Recheck, InspectEffect, Settle, Generations
  <1>3. CASE Gate
    BY <1>3 DEF Gate, Settle
  <1>4. CASE Store
    <2>1. snapSeq' = last /\ last' = last /\ cpc' = "settle"
      BY <1>4 DEF Store
    <2>2. version' = 2 * snapSeq'
      BY <1>4 DEF Store, Generations
    <2> QED
      BY <2>1, <2>2
  <1>5. CASE Return
    BY <1>5 DEF Return, Abnormal
  <1>6. CASE OnError
    BY <1>6 DEF OnError, Requested
  <1>7. CASE ModeStart
    BY <1>7 DEF ModeStart
  <1>8. CASE ModeStop
    BY <1>8 DEF ModeStop
  <1>9. CASE TxTop
    BY <1>9 DEF TxTop, Goto
  <1>10. CASE TxFlags
    BY <1>10 DEF TxFlags, Goto, Fault
  <1>11. CASE TxRead
    BY <1>11 DEF TxRead, Goto
  <1>12. CASE TxDecide
    BY <1>12 DEF TxDecide, Goto, Fault, NoteStale, Active
  <1>13. CASE TxGuard
    BY <1>13 DEF TxGuard, Goto, Fault, Requested
  <1>14. CASE TxFresh
    BY <1>14 DEF TxFresh, Goto
  <1>15. CASE TxSend
    BY <1>15 DEF TxSend, Goto, Fault
  <1>16. CASE TxSafety
    BY <1>16 DEF TxSafety, Goto, NoteStale
  <1>17. CASE TxAttempt
    BY <1>17 DEF TxAttempt, Goto, Ready, Requested
  <1>18. CASE TxPerform
    BY <1>18 DEF TxPerform, Goto
  <1>19. CASE TxFinish
    BY <1>19 DEF TxFinish, Fault
  <1>20. CASE RequestStop
    BY <1>20 DEF RequestStop
  <1>21. CASE StopBegin
    BY <1>21 DEF StopBegin
  <1>22. CASE Drained
    BY <1>22 DEF Drained
  <1>23. CASE DrainTimeout
    BY <1>23 DEF DrainTimeout
  <1>24. CASE Join
    BY <1>24 DEF Join
  <1>25. CASE CommandAges
    BY <1>25 DEF CommandAges
  <1>26. CASE StartupPasses
    BY <1>26 DEF StartupPasses
  <1>27. CASE FeedbackAges
    BY <1>27 DEF FeedbackAges
  <1>28. CASE Receive
    BY <1>28 DEF Receive
  <1>29. CASE UNCHANGED vars
    BY <1>29
  <1> QED
    BY NextCases, <1>1, <1>2, <1>3, <1>4, <1>5, <1>6, <1>7, <1>8, <1>9, <1>10,
       <1>11, <1>12, <1>13, <1>14, <1>15, <1>16, <1>17, <1>18, <1>19, <1>20,
       <1>21, <1>22, <1>23, <1>24, <1>25, <1>26, <1>27, <1>28, <1>29

---------------------------------------------------------------------------
(* Induction step, order *)

\* A generation passes from write() to the snapshot, to TX, to the bus.
LEMMA OrderStep == IInv /\ [Next]_vars => OrderInv'
  <1> SUFFICES ASSUME IInv, [Next]_vars PROVE OrderInv'
    OBVIOUS
  <1> USE MaxGenerationAssumption DEF commitVars, controlVars, drainVars, staleVars,
      snapVars, readVars, endVars,
        timeVars, wireVars, notControl, notTx, notLifecycle, notTime, vars,
        IInv, TypeOK, ValuesOK, PublishInv, OrderInv, Generations
  <1>1. ASSUME NEW g \in Generations \cup {BadGeneration}, NEW b \in Batches,
               Write(g, b)
        PROVE  OrderInv'
    BY <1>1, AcceptedFacts, InspectReason DEF Write, Settle
  <1>2. CASE Recheck
    BY <1>2, AcceptedFacts, InspectReason DEF Recheck, InspectEffect, Settle
  <1>3. CASE Gate
    BY <1>3 DEF Gate, Settle
  <1>4. CASE Store
    BY <1>4 DEF Store
  <1>5. CASE Return
    BY <1>5 DEF Return, Abnormal
  <1>6. CASE OnError
    BY <1>6 DEF OnError, Requested
  <1>7. CASE ModeStart
    BY <1>7 DEF ModeStart
  <1>8. CASE ModeStop
    BY <1>8 DEF ModeStop
  <1>9. CASE TxTop
    BY <1>9 DEF TxTop, Goto
  <1>10. CASE TxFlags
    BY <1>10 DEF TxFlags, Goto, Fault
  <1>11. CASE TxRead
    BY <1>11 DEF TxRead, Goto
  <1>12. CASE TxDecide
    BY <1>12 DEF TxDecide, Goto, Fault, NoteStale, Active
  <1>13. CASE TxGuard
    BY <1>13 DEF TxGuard, Goto, Fault, Requested
  <1>14. CASE TxFresh
    BY <1>14 DEF TxFresh, Goto
  <1>15. CASE TxSend
    BY <1>15 DEF TxSend, Goto, Fault
  <1>16. CASE TxSafety
    BY <1>16 DEF TxSafety, Goto, NoteStale
  <1>17. CASE TxAttempt
    BY <1>17 DEF TxAttempt, Goto, Ready, Requested
  <1>18. CASE TxPerform
    BY <1>18 DEF TxPerform, Goto
  <1>19. CASE TxFinish
    BY <1>19 DEF TxFinish, Fault
  <1>20. CASE RequestStop
    BY <1>20 DEF RequestStop
  <1>21. CASE StopBegin
    BY <1>21 DEF StopBegin
  <1>22. CASE Drained
    BY <1>22 DEF Drained
  <1>23. CASE DrainTimeout
    BY <1>23 DEF DrainTimeout
  <1>24. CASE Join
    BY <1>24 DEF Join
  <1>25. CASE CommandAges
    BY <1>25 DEF CommandAges
  <1>26. CASE StartupPasses
    BY <1>26 DEF StartupPasses
  <1>27. CASE FeedbackAges
    BY <1>27 DEF FeedbackAges
  <1>28. CASE Receive
    BY <1>28 DEF Receive
  <1>29. CASE UNCHANGED vars
    BY <1>29
  <1> QED
    BY NextCases, <1>1, <1>2, <1>3, <1>4, <1>5, <1>6, <1>7, <1>8, <1>9, <1>10,
       <1>11, <1>12, <1>13, <1>14, <1>15, <1>16, <1>17, <1>18, <1>19, <1>20,
       <1>21, <1>22, <1>23, <1>24, <1>25, <1>26, <1>27, <1>28, <1>29

---------------------------------------------------------------------------
(* Induction step, the send boundary *)

\* TxGuard is the only way to a frame and passes without a request only.
LEMMA SendStep == IInv /\ [Next]_vars => SendInv'
  <1> SUFFICES ASSUME IInv, [Next]_vars PROVE SendInv'
    OBVIOUS
  <1> USE MaxGenerationAssumption DEF commitVars, controlVars, drainVars, staleVars,
      snapVars, readVars, endVars,
        timeVars, wireVars, notControl, notTx, notLifecycle, notTime, vars,
        IInv, TypeOK, ValuesOK, SendInv
  <1>1. ASSUME NEW g \in Generations \cup {BadGeneration}, NEW b \in Batches,
               Write(g, b)
        PROVE  SendInv'
    BY <1>1, AcceptedFacts, InspectReason DEF Write, Settle
  <1>2. CASE Recheck
    BY <1>2, AcceptedFacts, InspectReason DEF Recheck, InspectEffect, Settle
  <1>3. CASE Gate
    BY <1>3 DEF Gate, Settle
  <1>4. CASE Store
    BY <1>4 DEF Store
  <1>5. CASE Return
    BY <1>5 DEF Return, Abnormal
  <1>6. CASE OnError
    BY <1>6 DEF OnError, Requested
  <1>7. CASE ModeStart
    BY <1>7 DEF ModeStart
  <1>8. CASE ModeStop
    BY <1>8 DEF ModeStop
  <1>9. CASE TxTop
    BY <1>9 DEF TxTop, Goto
  <1>10. CASE TxFlags
    BY <1>10 DEF TxFlags, Goto, Fault
  <1>11. CASE TxRead
    BY <1>11 DEF TxRead, Goto
  <1>12. CASE TxDecide
    BY <1>12 DEF TxDecide, Goto, Fault, NoteStale, Active
  <1>13. CASE TxGuard
    BY <1>13 DEF TxGuard, Goto, Fault, Requested
  <1>14. CASE TxFresh
    BY <1>14 DEF TxFresh, Goto
  <1>15. CASE TxSend
    BY <1>15 DEF TxSend, Goto, Fault
  <1>16. CASE TxSafety
    BY <1>16 DEF TxSafety, Goto, NoteStale
  <1>17. CASE TxAttempt
    BY <1>17 DEF TxAttempt, Goto, Ready, Requested
  <1>18. CASE TxPerform
    BY <1>18 DEF TxPerform, Goto
  <1>19. CASE TxFinish
    BY <1>19 DEF TxFinish, Fault
  <1>20. CASE RequestStop
    BY <1>20 DEF RequestStop
  <1>21. CASE StopBegin
    BY <1>21 DEF StopBegin
  <1>22. CASE Drained
    BY <1>22 DEF Drained
  <1>23. CASE DrainTimeout
    BY <1>23 DEF DrainTimeout
  <1>24. CASE Join
    BY <1>24 DEF Join
  <1>25. CASE CommandAges
    BY <1>25 DEF CommandAges
  <1>26. CASE StartupPasses
    BY <1>26 DEF StartupPasses
  <1>27. CASE FeedbackAges
    BY <1>27 DEF FeedbackAges
  <1>28. CASE Receive
    BY <1>28 DEF Receive
  <1>29. CASE UNCHANGED vars
    BY <1>29
  <1> QED
    BY NextCases, <1>1, <1>2, <1>3, <1>4, <1>5, <1>6, <1>7, <1>8, <1>9, <1>10,
       <1>11, <1>12, <1>13, <1>14, <1>15, <1>16, <1>17, <1>18, <1>19, <1>20,
       <1>21, <1>22, <1>23, <1>24, <1>25, <1>26, <1>27, <1>28, <1>29

---------------------------------------------------------------------------
(* Induction step, the safety attempt *)

\* An attempt starts when the request is ready, and on_error() is final.
LEMMA AttemptStep == IInv /\ [Next]_vars => AttemptInv'
  <1> SUFFICES ASSUME IInv, [Next]_vars PROVE AttemptInv'
    OBVIOUS
  <1> USE MaxGenerationAssumption DEF commitVars, controlVars, drainVars, staleVars,
      snapVars, readVars, endVars,
        timeVars, wireVars, notControl, notTx, notLifecycle, notTime, vars,
        IInv, TypeOK, ValuesOK, AttemptInv
  <1>1. ASSUME NEW g \in Generations \cup {BadGeneration}, NEW b \in Batches,
               Write(g, b)
        PROVE  AttemptInv'
    BY <1>1, AcceptedFacts, InspectReason DEF Write, Settle
  <1>2. CASE Recheck
    BY <1>2, AcceptedFacts, InspectReason DEF Recheck, InspectEffect, Settle
  <1>3. CASE Gate
    BY <1>3 DEF Gate, Settle
  <1>4. CASE Store
    BY <1>4 DEF Store
  <1>5. CASE Return
    BY <1>5 DEF Return, Abnormal
  <1>6. CASE OnError
    BY <1>6 DEF OnError, Requested
  <1>7. CASE ModeStart
    BY <1>7 DEF ModeStart
  <1>8. CASE ModeStop
    BY <1>8 DEF ModeStop
  <1>9. CASE TxTop
    BY <1>9 DEF TxTop, Goto
  <1>10. CASE TxFlags
    BY <1>10 DEF TxFlags, Goto, Fault
  <1>11. CASE TxRead
    BY <1>11 DEF TxRead, Goto
  <1>12. CASE TxDecide
    BY <1>12 DEF TxDecide, Goto, Fault, NoteStale, Active
  <1>13. CASE TxGuard
    BY <1>13 DEF TxGuard, Goto, Fault, Requested
  <1>14. CASE TxFresh
    BY <1>14 DEF TxFresh, Goto
  <1>15. CASE TxSend
    BY <1>15 DEF TxSend, Goto, Fault
  <1>16. CASE TxSafety
    BY <1>16 DEF TxSafety, Goto, NoteStale
  <1>17. CASE TxAttempt
    BY <1>17 DEF TxAttempt, Goto, Ready, Requested
  <1>18. CASE TxPerform
    BY <1>18 DEF TxPerform, Goto
  <1>19. CASE TxFinish
    BY <1>19 DEF TxFinish, Fault
  <1>20. CASE RequestStop
    BY <1>20 DEF RequestStop
  <1>21. CASE StopBegin
    BY <1>21 DEF StopBegin
  <1>22. CASE Drained
    BY <1>22 DEF Drained
  <1>23. CASE DrainTimeout
    BY <1>23 DEF DrainTimeout
  <1>24. CASE Join
    BY <1>24 DEF Join
  <1>25. CASE CommandAges
    BY <1>25 DEF CommandAges
  <1>26. CASE StartupPasses
    BY <1>26 DEF StartupPasses
  <1>27. CASE FeedbackAges
    BY <1>27 DEF FeedbackAges
  <1>28. CASE Receive
    BY <1>28 DEF Receive
  <1>29. CASE UNCHANGED vars
    BY <1>29
  <1> QED
    BY NextCases, <1>1, <1>2, <1>3, <1>4, <1>5, <1>6, <1>7, <1>8, <1>9, <1>10,
       <1>11, <1>12, <1>13, <1>14, <1>15, <1>16, <1>17, <1>18, <1>19, <1>20,
       <1>21, <1>22, <1>23, <1>24, <1>25, <1>26, <1>27, <1>28, <1>29

---------------------------------------------------------------------------
(* Theorems *)

\* Every step preserves the invariant.
LEMMA NextInv == IInv /\ [Next]_vars => IInv'
  BY FlagsStep, ValuesStep, PublishStep, OrderStep, SendStep, AttemptStep
     DEF IInv, TypeOK

\* The inductive invariant holds in every reachable state.
THEOREM Invariance == Spec => []IInv
  BY InitInv, NextInv, PTL DEF Spec

\* Every variable keeps its range, whatever the three threads interleave: in
\* particular no rejected batch ever enters the snapshot and its version
\* counts exactly the admitted generations.
THEOREM TypeCorrect == Spec => []TypeOK
  <1>1. IInv => TypeOK
    BY DEF IInv
  <1> QED
    BY <1>1, Invariance, PTL

\* At most the frame already past the send boundary follows a request.
THEOREM LateFrames == Spec => []AtMostOneLateFrame
  <1>1. IInv => AtMostOneLateFrame
    BY DEF IInv, SendInv, AtMostOneLateFrame
  <1> QED
    BY <1>1, Invariance, PTL

\* No normal frame after the feedback stop.
THEOREM FeedbackStopIsFinal == Spec => []NoFrameAfterFeedbackStop
  <1>1. IInv => NoFrameAfterFeedbackStop
    BY DEF IInv, SendInv, NoFrameAfterFeedbackStop
  <1> QED
    BY <1>1, Invariance, PTL

\* accept() and publish() agree whenever write() has returned.
THEOREM AcceptedMeansPublished == Spec => []AcceptedIsPublished
  <1>1. IInv => AcceptedIsPublished
    BY DEF IInv, PublishInv, AcceptedIsPublished
  <1> QED
    BY <1>1, Invariance, PTL

\* A fault of write() is acted upon after its ERROR was observed.
THEOREM AttemptAfterError == Spec => []AttemptFollowsError
  <1>1. IInv => AttemptFollowsError
    BY DEF IInv, AttemptInv, AttemptFollowsError
  <1> QED
    BY <1>1, Invariance, PTL

\* Parity of the version.
LEMMA EvenOdd ==
    ASSUME NEW n \in Nat
    PROVE  (2 * n) % 2 = 0 /\ (2 * n + 1) % 2 = 1
  OBVIOUS

\* The snapshot carries the admitted generations once and in order.
THEOREM InOrder == Spec => PublicationsInOrder
  <1> DEFINE Ordered ==
        version' # version /\ version' % 2 = 0 =>
            /\ snapSeq' = snapSeq + 1
            /\ (latched \/ snapSeq = 0) => snapBatch' = "released"
  <1>1. ASSUME IInv, [Next]_vars PROVE Ordered \/ UNCHANGED vars
    <2> USE <1>1 DEF IInv, TypeOK, ValuesOK, PublishInv
    <2>1. CASE Gate
      <3>1. snapSeq \in Nat /\ version = 2 * snapSeq
        BY <2>1, MaxGenerationAssumption DEF Gate, Generations
      <3>2. version' = 2 * snapSeq + 1 \/ version' = version
        BY <2>1, <3>1 DEF Gate
      <3> QED
        BY <3>1, <3>2, EvenOdd
    <2>2. CASE Store
      BY <2>2 DEF Store
    <2>3. CASE version' = version
      BY <2>3
    <2>4. Gate \/ Store \/ version' = version
      BY NextCases DEF Write, Recheck, Return, OnError, ModeStart, ModeStop,
             TxTop, TxFlags, TxRead, TxDecide, TxGuard, TxFresh, TxSend,
             TxSafety, TxAttempt, TxPerform, TxFinish, RequestStop, StopBegin,
             Drained, DrainTimeout, Join, CommandAges, StartupPasses,
             FeedbackAges, Receive, snapVars, notTx, notLifecycle, notTime, vars
    <2> QED
      BY <2>1, <2>2, <2>3, <2>4
  <1> QED
    BY <1>1, Invariance, PTL DEF Spec, PublicationsInOrder

\* Generations on the bus were admitted and never go back.
THEOREM WireInOrder == Spec => WireFollowsAdmission
  <1> DEFINE Forward == wireSeq' >= wireSeq /\ wireSeq' <= last
  <1>1. ASSUME IInv, [Next]_vars PROVE Forward \/ UNCHANGED vars
    <2> USE <1>1, MaxGenerationAssumption
        DEF IInv, TypeOK, ValuesOK, OrderInv, Generations
    <2>1. CASE TxSend
      BY <2>1 DEF TxSend
    <2>2. CASE wireSeq' = wireSeq
      BY <2>2
    <2>3. TxSend \/ wireSeq' = wireSeq
      BY NextCases DEF Write, Recheck, Gate, Store, Return, OnError, ModeStart,
             ModeStop, TxTop, TxFlags, TxRead, TxDecide, TxGuard, TxFresh,
             TxSafety, TxAttempt, TxPerform, TxFinish, RequestStop, StopBegin,
             Drained, DrainTimeout, Join, CommandAges, StartupPasses,
             FeedbackAges, Receive, wireVars, notControl, notLifecycle, notTime,
             vars
    <2> QED
      BY <2>1, <2>2, <2>3
  <1> QED
    BY <1>1, Invariance, PTL DEF Spec, WireFollowsAdmission

---------------------------------------------------------------------------
(* The admission contract of the group *)

\* latched_ is never cleared.
LEMMA LatchStep ==
    ASSUME FlagsOK, [Next]_vars
    PROVE  latched' \in BOOLEAN /\ (latched => latched')
  <1> USE DEF commitVars, notTx, notLifecycle, notTime, vars
  <1>1. latched' \in BOOLEAN
    BY FlagsStep DEF FlagsOK
  <1>2. latched => latched'
    BY NextCases, Zenon DEF Write, Recheck, Gate, Store, Return, OnError, ModeStart,
           ModeStop, TxTop, TxFlags, TxRead, TxDecide, TxGuard, TxFresh, TxSend,
           TxSafety, TxAttempt, TxPerform, TxFinish, RequestStop, StopBegin,
           Drained, DrainTimeout, Join, CommandAges, StartupPasses,
           FeedbackAges, Receive, InspectEffect
  <1> QED
    BY <1>1, <1>2

\* A step that settles no batch: at most the group latches.
LEMMA NothingSettled ==
    ASSUME FlagsOK, [Next]_vars, UNCHANGED <<snapSeq, snapBatch>>,
           \/ UNCHANGED last /\ (cpc = "storing" <=> cpc' = "storing")
           \/ /\ last \in Nat /\ last' = last + 1
              /\ cpc # "storing" /\ cpc' = "storing"
    PROVE  [Admission!Next]_(Admission!groupVars)
  <1>1. (IF cpc' = "storing" THEN last' - 1 ELSE last')
          = (IF cpc = "storing" THEN last - 1 ELSE last)
    OBVIOUS
  <1>2. latched' = latched \/ latched' = TRUE
    BY LatchStep DEF FlagsOK
  <1>3. CASE latched' = latched
    BY <1>1, <1>3 DEF Admission!groupVars
  <1>4. CASE latched' = TRUE
    BY <1>1, <1>4 DEF Admission!Next, Admission!Latch
  <1> QED
    BY <1>2, <1>3, <1>4

\* Every step is one of the contract or none: the control thread settles a
\* batch at the end of its publication, or where it gives it up.
LEMMA AdmissionStep ==
    ASSUME IInv, [Next]_vars
    PROVE  [Admission!Next]_(Admission!groupVars)
  <1> USE MaxGenerationAssumption
  <1>1. /\ FlagsOK /\ last \in Nat /\ last <= MaxGeneration /\ snapSeq \in Nat
        /\ batch \in Batches /\ latched \in BOOLEAN /\ PublishInv
    BY DEF IInv, TypeOK, ValuesOK, FlagsOK, Generations
  <1>2. CASE Store
    <2>1. /\ gen = last /\ last = snapSeq + 1 /\ batch \in {"released", "active"}
          /\ (latched \/ snapSeq = 0) => batch = "released"
          /\ cpc = "storing" /\ cpc' = "settle" /\ snapSeq' = last /\ snapBatch' = batch
          /\ last' = last
      BY <1>1, <1>2 DEF Store, PublishInv, Batches
    <2>2. latched' \in BOOLEAN /\ (latched => latched')
      BY <1>1, LatchStep
    <2> QED
      BY <1>1, <2>1, <2>2 DEF Admission!Next, Admission!Run, Admission!Advance
  <1>3. CASE Gate
    <2>1. /\ last' = last + 1 /\ last' <= MaxGeneration /\ cpc = "gate"
          /\ UNCHANGED <<snapSeq, snapBatch>>
      BY <1>1, <1>3 DEF Gate, PublishInv, Generations
    <2>2. CASE cpc' = "storing"
      BY <1>1, <2>1, <2>2, NothingSettled
    <2>3. CASE cpc' # "storing"
      <3>1. cpc' = "settle" /\ latched' = TRUE
        BY <1>3, <2>3 DEF Gate, Settle
      <3> QED
        BY <1>1, <2>1, <3>1 DEF Admission!Next, Admission!Lose, Admission!Advance
    <2> QED
      BY <2>2, <2>3
  <1>4. CASE ~(Store \/ Gate)
    <2>1. UNCHANGED <<last, snapSeq, snapBatch>>
      BY <1>4, NextCases DEF Write, Recheck, Return, OnError, ModeStart, ModeStop,
             TxTop, TxFlags, TxRead, TxDecide, TxGuard, TxFresh, TxSend,
             TxSafety, TxAttempt, TxPerform, TxFinish, RequestStop, StopBegin,
             Drained, DrainTimeout, Join, CommandAges, StartupPasses,
             FeedbackAges, Receive, snapVars, commitVars, notTx, notLifecycle, notTime, vars
    <2>2. cpc' = cpc \/ (cpc # "storing" /\ cpc' # "storing")
      BY <1>4, NextCases DEF Write, Recheck, Settle, Return, OnError, ModeStart, ModeStop,
             TxTop, TxFlags, TxRead, TxDecide, TxGuard, TxFresh, TxSend,
             TxSafety, TxAttempt, TxPerform, TxFinish, RequestStop, StopBegin,
             Drained, DrainTimeout, Join, CommandAges, StartupPasses,
             FeedbackAges, Receive, controlVars, notTx, notLifecycle, notTime, vars
    <2> QED
      BY <1>1, <2>1, <2>2, NothingSettled
  <1> QED
    BY <1>2, <1>3, <1>4

\* write(), the send thread and the lifecycle thread together admit batches as
\* the group's contract says, for every MaxGeneration.
THEOREM KeepsAdmission == Spec => ImplementsAdmission
  <1>1. Init => Admission!Init
    BY DEF Init, CommitInit, Admission!Init
  <1> QED
    BY <1>1, AdmissionStep, Invariance, PTL DEF Spec, ImplementsAdmission, Admission!Spec

---------------------------------------------------------------------------
(* The snapshot as the TX thread sees it *)

\* Every step publishes the next batch, takes the current one over, or does
\* neither.
LEMMA RegisterStep ==
    ASSUME IInv, [Next]_vars
    PROVE  [Register!Next]_(Register!regVars)
  <1>1. snapSeq \in Nat /\ schedSeq \in Nat /\ schedSeq <= snapSeq /\ PublishInv
    BY MaxGenerationAssumption DEF IInv, TypeOK, ValuesOK, OrderInv, Generations
  <1>2. CASE Store
    <2>1. snapSeq' = snapSeq + 1 /\ schedSeq' = schedSeq
      BY <1>1, <1>2 DEF Store, PublishInv, notControl, readVars
    <2> QED
      BY <2>1 DEF Register!Next, Register!Publish
  <1>3. CASE TxRead
    <2>1. snapSeq' = snapSeq /\ schedSeq' \in {schedSeq, snapSeq}
      BY <1>3 DEF TxRead, notTx, snapVars
    <2>2. CASE schedSeq' = schedSeq
      BY <2>1, <2>2 DEF Register!regVars
    <2>3. CASE schedSeq' # schedSeq
      <3>1. schedSeq' = snapSeq /\ snapSeq # 0
        BY <1>1, <2>1, <2>3
      <3> QED
        BY <2>1, <3>1 DEF Register!Next, Register!Read
    <2> QED
      BY <2>2, <2>3
  <1>4. CASE ~(Store \/ TxRead)
    <2>1. UNCHANGED <<snapSeq, schedSeq>>
      BY <1>4, NextCases DEF Write, Recheck, Gate, Return, OnError, ModeStart, ModeStop,
             TxTop, TxFlags, TxDecide, TxGuard, TxFresh, TxSend,
             TxSafety, TxAttempt, TxPerform, TxFinish, RequestStop, StopBegin,
             Drained, DrainTimeout, Join, CommandAges, StartupPasses,
             FeedbackAges, Receive, snapVars, readVars, notControl, notTx, notLifecycle,
             notTime, vars
    <2> QED
      BY <2>1 DEF Register!regVars
  <1> QED
    BY <1>2, <1>3, <1>4

\* To the TX thread the command snapshot is the register that AtomicSnapshot
\* implements: what it takes over is the batch published last, or what it had.
THEOREM ReadsRegister == Spec => TxReadsRegister
  <1>1. Init => Register!Init
    BY DEF Init, Register!Init
  <1> QED
    BY <1>1, RegisterStep, Invariance, PTL DEF Spec, TxReadsRegister, Register!Spec

---------------------------------------------------------------------------
(* What comes too late is not admitted *)

\* The flags that freeze the admission are never cleared.
LEMMA FreezeStep ==
    ASSUME [Next]_vars
    PROVE  (feedbackStopped => feedbackStopped') /\ (startupPassed => startupPassed')
  <1> USE DEF notControl, notTx, notLifecycle, notTime, staleVars, timeVars, vars
  <1>1. feedbackStopped => feedbackStopped'
    BY NextCases, Zenon DEF Write, Recheck, Gate, Store, Return, OnError, ModeStart, ModeStop,
       TxTop, TxFlags, TxRead, TxDecide, TxGuard, TxFresh, TxSend, TxSafety, NoteStale,
       TxAttempt, TxPerform, TxFinish, RequestStop, StopBegin, Drained, DrainTimeout, Join,
       CommandAges, StartupPasses, FeedbackAges, Receive
  <1>2. startupPassed => startupPassed'
    BY NextCases, Zenon DEF Write, Recheck, Gate, Store, Return, OnError, ModeStart, ModeStop,
       TxTop, TxFlags, TxRead, TxDecide, TxGuard, TxFresh, TxSend, TxSafety,
       TxAttempt, TxPerform, TxFinish, RequestStop, StopBegin, Drained, DrainTimeout, Join,
       CommandAges, StartupPasses, FeedbackAges, Receive
  <1> QED
    BY <1>1, <1>2

\* Neither inspection lets a batch through once the admission is frozen.
LEMMA FrozenStep ==
    ASSUME [Next]_vars, Frozen
    PROVE  last' = last /\ Frozen'
  <1>1. last' = last
    BY NextCases DEF Frozen, Write, Recheck, Gate, Store, Return, OnError, ModeStart, ModeStop,
       TxTop, TxFlags, TxRead, TxDecide, TxGuard, TxFresh, TxSend,
       TxSafety, TxAttempt, TxPerform, TxFinish, RequestStop, StopBegin,
       Drained, DrainTimeout, Join, CommandAges, StartupPasses,
       FeedbackAges, Receive, commitVars, notTx, notLifecycle, notTime, vars
  <1>2. cpc' # "gate"
    <2>1. ASSUME NEW g, NEW b, Write(g, b) PROVE cpc' # "gate"
      BY <2>1 DEF Write, Settle, Frozen
    <2>2. CASE Recheck
      <3>1. CASE feedbackStopped
        BY <2>2, <3>1 DEF Recheck, Settle
      <3>2. CASE ~feedbackStopped
        <4>1. Inspect(gen, batch, startupPassed) = "StartupExpired"
          BY <3>2 DEF Frozen, Inspect, ExpiresNow
        <4> QED
          BY <2>2, <3>2, <4>1 DEF Recheck
      <3> QED
        BY <3>1, <3>2
    <2>3. CASE cpc' = cpc
      BY <2>3 DEF Frozen
    <2>4. \/ \E g \in Generations \cup {BadGeneration}, b \in Batches : Write(g, b)
          \/ Recheck \/ cpc' = cpc \/ cpc' \in {"storing", "settle", "error", "idle", "errored"}
      BY NextCases DEF Gate, Settle, Store, Return, OnError, ModeStart, ModeStop,
         TxTop, TxFlags, TxRead, TxDecide, TxGuard, TxFresh, TxSend,
         TxSafety, TxAttempt, TxPerform, TxFinish, RequestStop, StopBegin,
         Drained, DrainTimeout, Join, CommandAges, StartupPasses,
         FeedbackAges, Receive, controlVars, notTx, notLifecycle, notTime, vars
    <2> QED
      BY <2>1, <2>2, <2>3, <2>4
  <1> QED
    BY <1>1, <1>2, FreezeStep DEF Frozen

\* After a feedback stop or a missed startup deadline the admitted generation
\* stands still, for every MaxGeneration.
THEOREM FrozenAdmission == Spec => LateIsNotAdmitted
  <1>1. [Next]_vars => [Frozen => last' = last /\ Frozen']_vars
    BY FrozenStep
  <1> QED
    BY <1>1, PTL DEF Spec, LateIsNotAdmitted
===========================================================================
