------------------------- MODULE WriteStreamProofs -------------------------
(***************************************************************************)
(* Proofs about WriteStream, for every period, grace, age and batch length *)
(* that start() accepts.                                                   *)
(*                                                                         *)
(* IInv joins the types with three arguments:                              *)
(*   SleepInv   the timer is no later than any deadline that its next turn *)
(*              would act on;                                              *)
(*   CutInv     where a batch may have been cut short, and what then stays *)
(*              true until the stream ends or takes a newer command;       *)
(*   ZeroInv    how far the zero-gain batch is.                            *)
(***************************************************************************)
EXTENDS WriteStream, TLAPS

SleepInv ==
    /\ pending => active
    /\ tpc = "wait" /\ ~notified /\ ~notifyFailed =>
        /\ fresh => writing
        /\ active => pubAge + wakeIn <= MaxAge
        /\ pending /\ ~unread => wakeIn <= sendIn
        /\ active /\ ~unread /\ ~pending => wakeIn <= resendIn \/ wakeIn <= sendIn
        /\ ~active /\ armed => wakeIn <= startIn

\* Why the rest of a batch need not be sent.
Ending == pubAge >= MaxAge \/ rxFault \/ ~running \/ stopAll

CutInv ==
    /\ tpc = "send" => sent < Frames
    /\ /\ tpc \in {"loop", "wait"} \/ (tpc = "finish" /\ kind # "zero")
                                   \/ (tpc = "send" /\ sent = 0)
       /\ active /\ ~pending
       => got = Frames \/ Ending

ZeroInv ==
    /\ tpc \in {"loop", "wait"} => kind # "zero" /\ reason = "kNone"
    /\ tpc = "send" => (kind = "zero" <=> reason \in ZeroReasons)
    /\ zeroed = IF kind = "zero" THEN sent ELSE 0
    /\ tpc = "finish" /\ kind = "zero" => sent = Frames \/ ~running \/ stopAll
    /\ tpc = "finish" /\ kind # "zero" => reason = "kNone"
    /\ tpc = "send" => reason \in ZeroReasons \cup {"kNone"}
    /\ tpc = "done" /\ reason \in ZeroReasons => zeroed = Frames

IInv == TypeOK /\ SleepInv /\ CutInv /\ ZeroInv

---------------------------------------------------------------------------
(* The timer's deadline *)

\* Least finds a least member where there is one.
LEMMA LeastIsLeast ==
    ASSUME NEW S, NEW m \in S, \A u \in S : m <= u
    PROVE  Least(S) \in S /\ \A u \in S : Least(S) <= u
  BY DEF Least

\* The timer takes the earliest of at most three times.
LEMMA LeastOfThree ==
    ASSUME NEW a \in Nat, NEW S \in SUBSET Nat, a \in S,
           NEW b \in Nat, NEW c \in Nat, S \subseteq {a, b, c}
    PROVE  Least(S) \in S /\ \A u \in S : Least(S) <= u
  <1>1. PICK m \in S : \A u \in S : m <= u
    <2>1. CASE b \in S /\ c \in S
      BY <2>1
    <2>2. CASE b \in S /\ c \notin S
      BY <2>2
    <2>3. CASE b \notin S /\ c \in S
      BY <2>3
    <2>4. CASE b \notin S /\ c \notin S
      BY <2>4
    <2> QED
      BY <2>1, <2>2, <2>3, <2>4
  <1> QED
    BY <1>1, LeastIsLeast

\* The types of what a turn has read.
LEMMA TurnTypes ==
    ASSUME TypeOK
    PROVE  /\ PubAge \in 0 .. MaxAge
           /\ ResendIn \in 0 .. Period + Grace
           /\ Left(MaxAge, PubAge) \in 0 .. MaxAge
           /\ Left(MaxAge, PubAge) = MaxAge - PubAge
  <1> USE TimesAssumption DEF TypeOK, TimesOK, FlagsOK
  <1>1. PubAge \in 0 .. MaxAge
    BY DEF PubAge
  <1>2. ResendIn \in 0 .. Period + Grace
    BY DEF ResendIn, Left
  <1> QED
    BY <1>1, <1>2 DEF Left

\* The deadline is no later than any time at which the loop has to act.
LEMMA DeadlineBounds ==
    ASSUME TypeOK
    PROVE  /\ Deadline \in 0 .. MaxAge
           /\ Active => PubAge + Deadline <= MaxAge
           /\ Active /\ ~Unread /\ (Pending \/ ResendDue) => Deadline <= sendIn
           /\ Active /\ ~Unread /\ ~(Pending \/ ResendDue) => Deadline <= ResendIn
           /\ ~Active /\ armed => Deadline <= startIn
  <1> USE TimesAssumption, TurnTypes
  <1>0. sendIn \in Nat /\ bootstrapIn \in 0 .. Period /\ startIn \in Nat
    BY DEF TypeOK, TimesOK, Half
  <1>1. CASE Active
    <2> DEFINE x == IF Unread THEN 1 ELSE IF Pending \/ ResendDue THEN sendIn ELSE ResendIn
               S == {Left(MaxAge, PubAge), x}
    <2>1. x \in Nat
      BY <1>0
    <2>2. Deadline = Least(S)
      BY <1>1 DEF Deadline
    <2> HIDE DEF x
    <2>3. Least(S) \in S /\ \A u \in S : Least(S) <= u
      BY <2>1, LeastOfThree
    <2>4. Deadline <= x /\ Deadline <= Left(MaxAge, PubAge) /\ Deadline \in Nat
      BY <2>1, <2>2, <2>3
    <2> QED
      BY <1>1, <2>4 DEF x
  <1>2. CASE ~Active
    <2> DEFINE S == {bootstrapIn} \cup (IF Unread THEN {1} ELSE {})
                                  \cup (IF armed THEN {startIn} ELSE {})
    <2>1. S \subseteq {bootstrapIn, 1, startIn} /\ S \in SUBSET Nat /\ bootstrapIn \in S
      BY <1>0
    <2>2. Deadline = Least(S)
      BY <1>2 DEF Deadline
    <2>3. armed => startIn \in S
      OBVIOUS
    <2> HIDE DEF S
    <2>4. Least(S) \in S /\ \A u \in S : Least(S) <= u
      BY <1>0, <2>1, LeastOfThree
    <2>5. Deadline \in Nat /\ Deadline <= bootstrapIn /\ (armed => Deadline <= startIn)
      BY <2>1, <2>2, <2>3, <2>4
    <2>6. Deadline \in 0 .. MaxAge
      BY <1>0, <2>5
    <2> QED
      BY <1>2, <2>5, <2>6
  <1> QED
    BY <1>1, <1>2

---------------------------------------------------------------------------
(* Base case *)

\* The invariant holds initially.
LEMMA InitInv == Init => IInv
  <1> SUFFICES ASSUME Init PROVE IInv
    OBVIOUS
  <1> USE FramesAssumption, TimesAssumption
  <1>1. FlagsOK
    BY DEF Init, FlagsOK
  <1>2. TimesOK /\ BatchOK
    BY DEF Init, TimesOK, BatchOK, Half, Reasons
  <1>3. SleepInv /\ CutInv /\ ZeroInv
    BY DEF Init, SleepInv, CutInv, ZeroInv
  <1> QED
    BY <1>1, <1>2, <1>3 DEF IInv, TypeOK

---------------------------------------------------------------------------
(* Induction step: flags *)

\* Every step keeps the types of the flags.
LEMMA FlagsStep == FlagsOK /\ [Next]_vars => FlagsOK'
  <1> SUFFICES ASSUME FlagsOK, [Next]_vars PROVE FlagsOK'
    OBVIOUS
  <1> USE DEF FlagsOK, flagVars, boxVars, scheduleVars, batchVars, vars
  <1>1. CASE ArmWrites
    BY <1>1 DEF ArmWrites, Notify
  <1>2. CASE PublishBegin
    BY <1>2 DEF PublishBegin
  <1>3. CASE PublishEnd
    BY <1>3 DEF PublishEnd, Notify
  <1>4. CASE RequestStop
    BY <1>4 DEF RequestStop, Notify
  <1>5. CASE StopAll
    BY <1>5 DEF StopAll
  <1>6. CASE ReceiveFault
    BY <1>6 DEF ReceiveFault, Notify
  <1>7. CASE ReceiveReply
    BY <1>7 DEF ReceiveReply, Notify
  <1>8. CASE Leave
    <2>1. stopAll' \in BOOLEAN
      BY <1>8, Zenon DEF Leave, Fault
    <2> QED
      BY <1>8, <2>1 DEF Leave
  <1>9. CASE Turn
    <2>1. unread' \in BOOLEAN /\ fresh' \in BOOLEAN
      BY <1>9, Zenon DEF Turn, Unread
    <2>2. active' \in BOOLEAN /\ pending' \in BOOLEAN
      BY <1>9, Zenon DEF Turn, Active, Pending, Takes
    <2>3. stopAll' \in BOOLEAN
      BY <1>9 DEF Turn, Fault
    <2> QED
      BY <1>9, <2>1, <2>2, <2>3 DEF Turn
  <1>10. CASE CutShort
    BY <1>10 DEF CutShort
  <1>11. CASE SendFrame
    BY <1>11 DEF SendFrame, Fault
  <1>12. CASE Finish
    <2>1. stopAll' \in BOOLEAN
      BY <1>12, Zenon DEF Finish, Fault
    <2> QED
      BY <1>12, <2>1 DEF Finish
  <1>13. CASE Wake \/ PollFails
    <2>1. notifyFailed' \in BOOLEAN /\ notified' \in BOOLEAN
      BY <1>13, Zenon DEF Wake, PollFails
    <2>2. stopAll' \in BOOLEAN
      BY <1>13, Zenon DEF Wake, PollFails, Fault
    <2> QED
      BY <1>13, <2>1, <2>2 DEF Wake, PollFails
  <1>14. CASE Tick
    <2>1. feedbackOld' \in BOOLEAN
      BY <1>14, Zenon DEF Tick
    <2> QED
      BY <1>14, <2>1 DEF Tick
  <1>15. CASE UNCHANGED vars
    BY <1>15
  <1> QED
    BY <1>1, <1>2, <1>3, <1>4, <1>5, <1>6, <1>7, <1>8, <1>9, <1>10, <1>11, <1>12,
       <1>13, <1>14, <1>15 DEF Next, Done

---------------------------------------------------------------------------
(* Induction step: times *)

\* Every step keeps deadlines and ages within their limits.
LEMMA TimesStep == TypeOK /\ [Next]_vars => TimesOK'
  <1> SUFFICES ASSUME TypeOK, [Next]_vars PROVE TimesOK'
    OBVIOUS
  <1> USE TimesAssumption DEF TimesOK, flagVars, boxVars, scheduleVars, batchVars, vars
  <1>0. TimesOK
    BY DEF TypeOK
  <1>1. CASE ArmWrites
    BY <1>0, <1>1 DEF ArmWrites
  <1>2. CASE PublishBegin
    BY <1>0, <1>2 DEF PublishBegin
  <1>3. CASE PublishEnd
    BY <1>0, <1>3 DEF PublishEnd
  <1>4. CASE RequestStop
    BY <1>0, <1>4 DEF RequestStop
  <1>5. CASE StopAll
    BY <1>0, <1>5 DEF StopAll
  <1>6. CASE ReceiveFault
    BY <1>0, <1>6 DEF ReceiveFault
  <1>7. CASE ReceiveReply
    BY <1>0, <1>7 DEF ReceiveReply
  <1>8. CASE Leave
    BY <1>0, <1>8 DEF Leave
  <1>9. CASE Turn
    <2>1. pubAge' \in 0 .. MaxAge /\ resendIn' \in 0 .. Period + Grace
      BY <1>9, TurnTypes DEF Turn
    <2>2. wakeIn' = wakeIn \/ wakeIn' = 1 \/ wakeIn' = Deadline
      BY <1>9, Zenon DEF Turn
    <2>3. wakeIn' \in 0 .. MaxAge
      BY <1>0, <2>2, DeadlineBounds
    <2> QED
      BY <1>0, <1>9, <2>1, <2>3 DEF Turn
  <1>10. CASE CutShort
    BY <1>0, <1>10 DEF CutShort
  <1>11. CASE SendFrame
    <2>1. sendIn' \in 0 .. Half
      BY <1>0, <1>11 DEF SendFrame, Half
    <2>2. bootstrapIn' \in 0 .. Period /\ resendIn' \in 0 .. Period + Grace
      BY <1>0, <1>11 DEF SendFrame
    <2>3. pubAge' = pubAge
      BY <1>11 DEF SendFrame, AgeWhenSent
    <2> QED
      BY <1>0, <1>11, <2>1, <2>2, <2>3 DEF SendFrame
  <1>12. CASE Finish
    BY <1>0, <1>12 DEF Finish
  <1>13. CASE Wake \/ PollFails
    BY <1>0, <1>13 DEF Wake, PollFails, Fault
  <1>14. CASE Tick
    BY <1>0, <1>14 DEF Tick, Older, Sooner, Half
  <1>15. CASE UNCHANGED vars
    BY <1>0, <1>15
  <1> QED
    BY <1>1, <1>2, <1>3, <1>4, <1>5, <1>6, <1>7, <1>8, <1>9, <1>10, <1>11, <1>12,
       <1>13, <1>14, <1>15 DEF Next, Done

---------------------------------------------------------------------------
(* Induction step: the batch *)

\* Every step keeps the type of the batch.
LEMMA BatchStep == IInv /\ [Next]_vars => BatchOK'
  <1> SUFFICES ASSUME IInv, [Next]_vars PROVE BatchOK'
    OBVIOUS
  <1> USE FramesAssumption DEF BatchOK, flagVars, boxVars, scheduleVars, batchVars, vars
  <1>0. BatchOK
    BY DEF IInv, TypeOK
  <1>1. CASE ArmWrites \/ PublishBegin \/ PublishEnd \/ RequestStop
    BY <1>0, <1>1 DEF ArmWrites, PublishBegin, PublishEnd, RequestStop
  <1>2. CASE StopAll \/ ReceiveFault \/ ReceiveReply \/ Tick
    BY <1>0, <1>2 DEF StopAll, ReceiveFault, ReceiveReply, Tick
  <1>3. CASE Leave
    BY <1>0, <1>3 DEF Leave, Fault, Reasons
  <1>4. CASE Turn
    <2>1. StopReason \in Reasons
      BY DEF StopReason, Reasons, ZeroReasons
    <2>2. tpc' \in {"done", "send", "wait"} /\ reason' \in Reasons
      BY <1>0, <1>4, <2>1 DEF Turn, Fault, Reasons
    <2>3. kind' \in {"none", "bootstrap", "command", "resend", "zero"}
      BY <1>0, <1>4 DEF Turn, SendKind
    <2>4. sent' \in 0 .. Frames /\ got' \in 0 .. Frames
      BY <1>0, <1>4 DEF Turn
    <2> QED
      BY <1>0, <1>4, <2>2, <2>3, <2>4 DEF Turn
  <1>5. CASE CutShort
    BY <1>0, <1>5 DEF CutShort
  <1>6. CASE SendFrame
    <2>1. sent < Frames /\ (kind = "zero" => zeroed = sent)
      BY <1>6 DEF IInv, CutInv, ZeroInv, SendFrame
    <2>2. sent' \in 0 .. Frames /\ got' \in 0 .. Frames /\ zeroed' \in 0 .. Frames
      BY <1>0, <1>6, <2>1 DEF SendFrame
    <2>3. tpc' \in {"send", "finish", "done"} /\ reason' \in Reasons /\ kind' = kind
      BY <1>0, <1>6 DEF SendFrame, Fault, Reasons
    <2> QED
      BY <1>0, <2>2, <2>3
  <1>7. CASE Finish
    BY <1>0, <1>7 DEF Finish, Fault, Reasons
  <1>8. CASE Wake \/ PollFails
    BY <1>0, <1>8 DEF Wake, PollFails, Fault, Reasons
  <1>9. CASE UNCHANGED vars
    BY <1>0, <1>9
  <1> QED
    BY <1>1, <1>2, <1>3, <1>4, <1>5, <1>6, <1>7, <1>8, <1>9 DEF Next, Done

---------------------------------------------------------------------------
(* Induction step: the sleep *)

\* The timer stays the earliest of the deadlines.
LEMMA SleepStep == IInv /\ [Next]_vars => SleepInv'
  <1> SUFFICES ASSUME IInv, [Next]_vars PROVE SleepInv'
    OBVIOUS
  <1> USE DEF SleepInv, flagVars, boxVars, scheduleVars, batchVars, vars
  <1>0. SleepInv /\ TypeOK
    BY DEF IInv
  <1>1. CASE ArmWrites \/ PublishBegin \/ PublishEnd \/ RequestStop
    BY <1>0, <1>1 DEF ArmWrites, PublishBegin, PublishEnd, RequestStop, Notify
  <1>2. CASE StopAll \/ ReceiveFault \/ ReceiveReply
    <2>1. UNCHANGED <<armed, startIn, writing, fresh, tpc, unread, active, pending, pubAge,
                      sendIn, resendIn, wakeIn>>
      BY <1>2 DEF StopAll, ReceiveFault, ReceiveReply
    <2>2. (notified' = notified /\ notifyFailed' = notifyFailed) \/ notified' = TRUE
          \/ notifyFailed' = TRUE
      BY <1>2 DEF StopAll, ReceiveFault, ReceiveReply, Notify
    <2> QED
      BY <1>0, <2>1, <2>2
  <1>3. CASE Leave
    BY <1>0, <1>3 DEF Leave, Fault
  <1>4. CASE Turn
    <2>1. pending' => active'
      BY <1>0, <1>4 DEF Turn, Active, Pending
    <2>2. tpc' \in {"send", "done"} \/ (tpc' = "wait" /\ ~(Due /\ (ZeroStop \/ ~Held)))
      BY <1>4 DEF Turn, Fault
    <2>3. CASE tpc' = "wait" /\ ~(Due /\ (ZeroStop \/ ~Held))
      <3>1. wakeIn' = IF Deadline = 0 THEN 1 ELSE Deadline
        BY <1>4, <2>3 DEF Turn, Fault
      <3>2. ~ZeroStop /\ (Due => Held)
        BY <2>3 DEF Due
      <3>3. ~Stale /\ ~StartupExpired
        BY <1>4, <2>3, <3>2 DEF Turn, Fault, ZeroStop, StopReason, ZeroReasons
      <3>4. /\ PubAge \in 0 .. MaxAge /\ ResendIn \in Nat
            /\ sendIn \in Nat /\ startIn \in Nat /\ MaxAge \in Nat
        BY <1>0, TurnTypes, TimesAssumption DEF TypeOK, TimesOK, Half
      <3>5. fresh' => writing'
        BY <1>4 DEF Turn
      <3>6. active' => pubAge' + wakeIn' <= MaxAge
        BY <1>0, <1>4, <3>1, <3>3, <3>4, DeadlineBounds DEF Turn, Stale
      <3>7. pending' /\ ~unread' => wakeIn' <= sendIn'
        <4>1. Pending /\ ~Unread => sendIn > 0
          BY <1>0, <3>2, <3>4 DEF Due, Held, Pending, Active
        <4>2. Pending => Active
          BY <1>0 DEF Pending, Active
        <4>3. Pending /\ ~Unread => Deadline <= sendIn
          BY <1>0, <4>2, DeadlineBounds
        <4>4. pending' = Pending /\ unread' = Unread /\ sendIn' = sendIn
          BY <1>4 DEF Turn
        <4> QED
          BY <3>1, <3>4, <4>1, <4>3, <4>4
      <3>8. active' /\ ~unread' /\ ~pending' => wakeIn' <= resendIn' \/ wakeIn' <= sendIn'
        <4>1. ResendDue => sendIn > 0
          BY <1>0, <3>2, <3>4 DEF Due, Held, ResendDue
        <4>2. Active /\ ~Unread /\ ~Pending /\ ~ResendDue => ResendIn > 0
          BY <3>4 DEF ResendDue
        <4> QED
          BY <1>0, <1>4, <3>1, <3>4, <4>1, <4>2, DeadlineBounds DEF Turn
      <3>9. ~active' /\ armed' => wakeIn' <= startIn'
        <4>1. ~Active /\ armed => startIn > 0
          BY <3>3, <3>4 DEF StartupExpired
        <4> QED
          BY <1>0, <1>4, <3>1, <3>4, <4>1, DeadlineBounds DEF Turn
      <3> QED
        BY <2>1, <3>5, <3>6, <3>7, <3>8, <3>9
    <2> QED
      BY <2>1, <2>2, <2>3
  <1>5. CASE CutShort \/ SendFrame \/ Finish \/ Wake \/ PollFails
    <2>1. tpc' # "wait"
      BY <1>5 DEF CutShort, SendFrame, Finish, Wake, PollFails, Fault
    <2>2. pending' => active'
      BY <1>0, <1>5 DEF CutShort, SendFrame, Finish, Wake, PollFails, Fault
    <2> QED
      BY <2>1, <2>2
  <1>6. CASE Tick
    <2>1. pubAge \in 0 .. MaxAge /\ wakeIn \in Nat /\ sendIn \in Nat /\ resendIn \in Nat
          /\ startIn \in Nat /\ MaxAge \in Nat
      BY <1>0, TimesAssumption DEF TypeOK, TimesOK, Half
    <2>2. wakeIn' = Sooner(wakeIn) \/ wakeIn' = 0
      BY <1>6 DEF Tick
    <2> QED
      BY <1>0, <1>6, <2>1, <2>2 DEF Tick, Older, Sooner
  <1>7. CASE UNCHANGED vars
    BY <1>0, <1>7
  <1> QED
    BY <1>1, <1>2, <1>3, <1>4, <1>5, <1>6, <1>7 DEF Next, Done

---------------------------------------------------------------------------
(* Induction step: batches that are cut short *)

\* A command marked as sent has reached every motor, or the stream ends.
LEMMA CutStep == IInv /\ [Next]_vars => CutInv'
  <1> SUFFICES ASSUME IInv, [Next]_vars PROVE CutInv'
    OBVIOUS
  <1> USE FramesAssumption DEF CutInv, Ending, flagVars, boxVars, scheduleVars,
          batchVars, vars
  <1>0. CutInv /\ TypeOK
    BY DEF IInv
  <1>1. CASE ArmWrites \/ PublishBegin \/ PublishEnd \/ RequestStop
    BY <1>0, <1>1 DEF ArmWrites, PublishBegin, PublishEnd, RequestStop
  <1>2. CASE StopAll \/ ReceiveFault \/ ReceiveReply
    <2>1. UNCHANGED <<tpc, active, pending, pubAge, kind, sent, got, running>>
      BY <1>2 DEF StopAll, ReceiveFault, ReceiveReply
    <2>2. stopAll => stopAll'
      BY <1>2, Zenon DEF StopAll, ReceiveFault, ReceiveReply
    <2>3. rxFault => rxFault'
      BY <1>2, Zenon DEF StopAll, ReceiveFault, ReceiveReply
    <2> QED
      BY <1>0, <2>1, <2>2, <2>3
  <1>3. CASE Leave
    BY <1>0, <1>3 DEF Leave, Fault
  <1>4. CASE Turn
    <2>1. tpc' \in {"send", "wait", "done"} /\ (tpc' = "send" => sent' = 0)
      BY <1>4 DEF Turn, Fault
    <2>2. active' /\ ~pending' =>
            active /\ ~pending /\ got' = got /\ pubAge' = pubAge
      BY <1>4 DEF Turn, Active, Pending, PubAge
    <2>3. tpc = "loop" /\ running' = running /\ rxFault' = rxFault /\ (stopAll => stopAll')
      BY <1>4 DEF Turn, Fault
    <2> QED
      BY <1>0, <2>1, <2>2, <2>3
  <1>5. CASE CutShort
    <2>1. CASE sent = 0
      BY <1>0, <1>5, <2>1 DEF CutShort
    <2>2. CASE sent # 0
      BY <1>0, <1>5, <2>2 DEF CutShort, Cancelled, Cuts
    <2> QED
      BY <2>1, <2>2
  <1>6. CASE SendFrame
    <2>0. sent \in Nat /\ got \in 0 .. Frames /\ sent < Frames
      BY <1>0, <1>6 DEF SendFrame, TypeOK, BatchOK
    <2>1. CASE tpc' = "done"
      BY <2>1
    <2>2. CASE tpc' # "done"
      <3>1. sent' = sent + 1 /\ tpc' = IF sent' = Frames THEN "finish" ELSE "send"
        BY <1>6, <2>2 DEF SendFrame, Fault
      <3>2. tpc' = "finish" /\ kind' # "zero" /\ active' => got' = Frames
        <4>1. got' = IF active /\ kind # "zero" /\ sent >= got THEN sent + 1 ELSE got
          BY <1>6, <2>2 DEF SendFrame, Fault
        <4>2. active' = active /\ kind' = kind
          BY <1>6, <2>2 DEF SendFrame, Fault
        <4> QED
          BY <2>0, <3>1, <4>1, <4>2
      <3> QED
        BY <2>0, <3>1, <3>2
    <2> QED
      BY <2>1, <2>2
  <1>7. CASE Finish
    BY <1>0, <1>7 DEF Finish, Fault
  <1>8. CASE Wake \/ PollFails
    <2>1. CASE tpc' = "done"
      BY <2>1
    <2>2. CASE tpc' # "done"
      <3>1. tpc = "wait" /\ tpc' = "loop"
        BY <1>8, <2>2 DEF Wake, PollFails, Fault
      <3>2. UNCHANGED <<active, pending, got, pubAge, rxFault, running, stopAll>>
        BY <1>8, <2>2 DEF Wake, PollFails, Fault
      <3> QED
        BY <1>0, <3>1, <3>2
    <2> QED
      BY <2>1, <2>2
  <1>9. CASE Tick
    <2>1. pubAge >= MaxAge => pubAge' >= MaxAge
      BY <1>0, <1>9, TimesAssumption DEF Tick, Older, TypeOK, TimesOK
    <2> QED
      BY <1>0, <1>9, <2>1 DEF Tick
  <1>10. CASE UNCHANGED vars
    BY <1>0, <1>10
  <1> QED
    BY <1>1, <1>2, <1>3, <1>4, <1>5, <1>6, <1>7, <1>8, <1>9, <1>10 DEF Next, Done

---------------------------------------------------------------------------
(* Induction step: the zero-gain batch *)

\* The zero-gain frames stay counted.
LEMMA ZeroStep == IInv /\ [Next]_vars => ZeroInv'
  <1> SUFFICES ASSUME IInv, [Next]_vars PROVE ZeroInv'
    OBVIOUS
  <1> USE FramesAssumption DEF ZeroInv, ZeroReasons, flagVars, boxVars, scheduleVars,
          batchVars, vars
  <1>0. ZeroInv /\ BatchOK /\ (tpc = "send" => sent < Frames)
    BY DEF IInv, TypeOK, CutInv
  <1>1. CASE ArmWrites \/ PublishBegin \/ PublishEnd \/ RequestStop
    BY <1>0, <1>1 DEF ArmWrites, PublishBegin, PublishEnd, RequestStop
  <1>2. CASE StopAll \/ ReceiveFault \/ ReceiveReply \/ Tick
    <2>1. UNCHANGED <<tpc, kind, sent, zeroed, reason, running>>
      BY <1>2 DEF StopAll, ReceiveFault, ReceiveReply, Tick
    <2>2. stopAll => stopAll'
      BY <1>2, Zenon DEF StopAll, ReceiveFault, ReceiveReply, Tick
    <2> QED
      BY <1>0, <2>1, <2>2
  <1>3. CASE Leave
    BY <1>0, <1>3 DEF Leave, Fault
  <1>4. CASE Turn
    <2>1. tpc = "loop" /\ kind # "zero" /\ reason = "kNone" /\ zeroed = 0 /\ zeroed' = 0
      BY <1>0, <1>4 DEF Turn
    <2>2. \/ tpc' = "done" /\ reason' = StopReason /\ ~ZeroStop /\ kind' = kind /\ sent' = sent
          \/ tpc' = "send" /\ reason' = StopReason /\ kind' = SendKind /\ sent' = 0
             /\ (StopReason = "kNone" \/ ZeroStop)
          \/ tpc' = "done" /\ reason' = "kEncodeFailed" /\ kind' = SendKind /\ sent' = 0
          \/ tpc' = "wait" /\ reason' = reason /\ kind' = kind /\ sent' = sent
      BY <1>4 DEF Turn, Fault
    <2>3. SendKind = "zero" <=> ZeroStop
      BY DEF SendKind
    <2>4. ZeroStop <=> StopReason \in ZeroReasons
      BY DEF ZeroStop
    <2> QED
      BY <2>1, <2>2, <2>3, <2>4
  <1>5. CASE CutShort
    BY <1>0, <1>5 DEF CutShort, Cancelled, Cuts
  <1>6. CASE SendFrame
    <2>1. \/ tpc' = "done" /\ reason' = "kSendFailed" /\ sent' = sent /\ zeroed' = zeroed
          \/ /\ sent' = sent + 1 /\ tpc' = IF sent' = Frames THEN "finish" ELSE "send"
             /\ reason' = reason /\ zeroed' = IF kind = "zero" THEN zeroed + 1 ELSE zeroed
      BY <1>6 DEF SendFrame, Fault
    <2>2. kind' = kind /\ tpc = "send"
      BY <1>6 DEF SendFrame
    <2> QED
      BY <1>0, <2>1, <2>2 DEF BatchOK
  <1>7. CASE Finish
    BY <1>0, <1>7 DEF Finish, Fault
  <1>8. CASE Wake \/ PollFails
    BY <1>0, <1>8 DEF Wake, PollFails, Fault
  <1>9. CASE UNCHANGED vars
    BY <1>0, <1>9
  <1> QED
    BY <1>1, <1>2, <1>3, <1>4, <1>5, <1>6, <1>7, <1>8, <1>9 DEF Next, Done

---------------------------------------------------------------------------
(* Theorems *)

\* Every step preserves the invariant.
LEMMA StepInv == IInv /\ [Next]_vars => IInv'
  BY FlagsStep, TimesStep, BatchStep, SleepStep, CutStep, ZeroStep DEF IInv, TypeOK

\* The inductive invariant holds in every reachable state.
THEOREM Inductive == Spec => []IInv
  BY InitInv, StepInv, PTL DEF Spec

\* Every variable of the stream keeps its type, for every accepted timing.
THEOREM TypeCorrect == Spec => []TypeOK
  <1>1. IInv => TypeOK
    BY DEF IInv
  <1> QED
    BY <1>1, Inductive, PTL

\* A motor that missed a command because its batch was cut short never waits
\* for a resend.
THEOREM CutShortRecovered == Spec => []CutShortIsRecovered
  <1>1. IInv => CutShortIsRecovered
    BY DEF IInv, CutInv, Ending, CutShortIsRecovered
  <1> QED
    BY <1>1, Inductive, PTL

\* WriteSchedule and the timer fit together: the thread is never asleep when a
\* command, a resend or an expiry is due.
THEOREM NoSleepOnWork == Spec => []NeverSleepsOnWork
  <1>1. IInv => NeverSleepsOnWork
    BY TimesAssumption
       DEF IInv, TypeOK, TimesOK, SleepInv, NeverSleepsOnWork, Takes, Half
  <1> QED
    BY <1>1, Inductive, PTL

\* A stop for want of commands has sent every motor its zero-gain frame.
THEOREM ZeroStopComplete == Spec => []ZeroStopIsComplete
  <1>1. IInv => ZeroStopIsComplete
    BY DEF IInv, ZeroInv, ZeroStopIsComplete
  <1> QED
    BY <1>1, Inductive, PTL
===========================================================================
