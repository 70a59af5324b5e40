------------------------- MODULE BxiActuatorProofs -------------------------
(***************************************************************************)
(* Proofs about BxiActuator, for every set of limits, every number of      *)
(* control frames and every loss.                                          *)
(*                                                                         *)
(* IInv joins the types with four arguments:                               *)
(*   PhaseInv   what the owner may be waiting for, and with which state;   *)
(*   LastInv    when a disable must have been the last frame;              *)
(*   QueueInv   in the queue to the motor nothing follows a disable but    *)
(*              disables, and nothing but enables precedes the first       *)
(*              reply;                                                     *)
(*   AckInv     on a bus that loses nothing an acknowledged disable is     *)
(*              still queued or was the last thing the motor executed.     *)
(***************************************************************************)
EXTENDS BxiActuator, TLAPS

PhaseInv ==
    /\ waiting # "none" => waiting = lastTried /\ state # "kSafeStopped"
    /\ phase = "enable" =>
           waiting \in {"none", "enable"} /\ initials = 0 /\ state # "kEnabled"
    /\ phase \in {"initial", "run"} =>
           waiting \in {"none", "control"} /\ state # "kDisabled"
    /\ phase = "disable" => waiting \in {"none", "disable"}
    /\ phase = "releasing" => waiting = "disable"
    /\ phase \in {"release", "closed"} => waiting = "none"
    /\ live => phase \notin {"enable", "initial"}
    /\ phase = "initial" /\ waiting = "none" => initials < InitialAttempts
    /\ timeouts < limit \/ state = "kSafeStopped"

LastInv ==
    /\ state = "kSafeStopped" \/ phase = "closed" => lastTried = "disable"
    /\ state = "kDisabled" /\ live => lastTried = "disable"
    /\ phase \in {"enable", "initial", "run"} /\ state # "kSafeStopped" =>
           lastTried # "disable"

Has(s, request) == \E i \in 1 .. Len(s) : s[i] = request

Ordered(s) == \A i, j \in 1 .. Len(s) : i < j /\ s[i] = "disable" => s[j] = "disable"

QueueInv ==
    /\ Ordered(toMotor)
    /\ lastTried # "disable" => ~Has(toMotor, "disable")
    /\ phase = "enable" /\ state # "kSafeStopped" =>
           /\ ~Has(toMotor, "control")
           /\ toHost # <<>> => motor = "motor"
    /\ phase \in {"initial", "run"} /\ state # "kSafeStopped" => motor = "motor"
    /\ Has(toMotor, "control") => motor = "motor"

AckInv ==
    ~lossy /\ (waiting = "disable" \/ (state = "kDisabled" /\ live)) =>
        Has(toMotor, "disable") \/ (toMotor = <<>> /\ motor = "menu")

IInv == TypeOK /\ PhaseInv /\ LastInv /\ QueueInv /\ AckInv

---------------------------------------------------------------------------
(* Sequences *)

\* What Append does to a queue of requests.
LEMMA AppendFacts ==
    ASSUME NEW s \in Seq(Requests), NEW r \in Requests
    PROVE  /\ Append(s, r) \in Seq(Requests)
           /\ Append(s, r) # <<>>
           /\ Len(Append(s, r)) = Len(s) + 1
           /\ \A i \in 1 .. Len(s) : Append(s, r)[i] = s[i]
           /\ Append(s, r)[Len(s) + 1] = r
  OBVIOUS

\* What Tail and Head do to a queue of requests.
LEMMA TailFacts ==
    ASSUME NEW s \in Seq(Requests), s # <<>>
    PROVE  /\ Tail(s) \in Seq(Requests)
           /\ Len(s) \in Nat \ {0}
           /\ Len(Tail(s)) = Len(s) - 1
           /\ \A i \in 1 .. Len(s) - 1 : Tail(s)[i] = s[i + 1]
           /\ Head(s) = s[1]
           /\ Head(s) \in Requests
  OBVIOUS

\* A request is in the longer queue if it was there or is the new one.
LEMMA AppendHas ==
    ASSUME NEW s \in Seq(Requests), NEW r \in Requests, NEW x
    PROVE  Has(Append(s, r), x) <=> Has(s, x) \/ x = r
  BY AppendFacts DEF Has

\* A disable may always be appended, another request only if no disable waits.
LEMMA AppendOrdered ==
    ASSUME NEW s \in Seq(Requests), NEW r \in Requests, Ordered(s),
           r = "disable" \/ ~Has(s, "disable")
    PROVE  Ordered(Append(s, r))
  BY AppendFacts DEF Has, Ordered

\* Taking the head removes no other request.
LEMMA TailHas ==
    ASSUME NEW s \in Seq(Requests), s # <<>>, NEW x
    PROVE  /\ Has(s, Head(s))
           /\ Has(Tail(s), x) => Has(s, x)
           /\ Has(s, x) /\ Head(s) # x => Has(Tail(s), x)
  <1> USE TailFacts DEF Has
  <1>1. Has(s, Head(s))
    OBVIOUS
  <1>2. ASSUME Has(Tail(s), x) PROVE Has(s, x)
    <2>1. PICK i \in 1 .. Len(Tail(s)) : Tail(s)[i] = x
      BY <1>2
    <2>2. i + 1 \in 1 .. Len(s) /\ s[i + 1] = x
      BY <2>1
    <2> QED
      BY <2>2
  <1>3. ASSUME Has(s, x), Head(s) # x PROVE Has(Tail(s), x)
    <2>1. PICK i \in 1 .. Len(s) : s[i] = x
      BY <1>3
    <2>2. i - 1 \in 1 .. Len(Tail(s)) /\ Tail(s)[i - 1] = x
      BY <1>3, <2>1
    <2> QED
      BY <2>2
  <1> QED
    BY <1>1, <1>2, <1>3

\* The rest of an ordered queue is ordered; behind a disable wait only disables.
LEMMA TailOrdered ==
    ASSUME NEW s \in Seq(Requests), s # <<>>, Ordered(s)
    PROVE  /\ Ordered(Tail(s))
           /\ Head(s) = "disable" /\ Tail(s) # <<>> => Has(Tail(s), "disable")
           /\ Head(s) = "disable" => ~Has(Tail(s), "control")
  <1> USE TailFacts DEF Ordered
  <1>1. Ordered(Tail(s))
    OBVIOUS
  <1>2. ASSUME Head(s) = "disable", NEW i \in 1 .. Len(Tail(s))
        PROVE  Tail(s)[i] = "disable"
    <2>1. 1 < i + 1 /\ i + 1 \in 1 .. Len(s) /\ 1 \in 1 .. Len(s)
      OBVIOUS
    <2> QED
      BY <1>2, <2>1
  <1>3. Tail(s) # <<>> => 1 \in 1 .. Len(Tail(s))
    OBVIOUS
  <1> QED
    BY <1>1, <1>2, <1>3 DEF Has

---------------------------------------------------------------------------
(* How a transaction ends *)

\* What a reply does to the driver, and where the owner goes on.
AnsweredEffect ==
    /\ waiting' = "none" /\ timeouts' = 0 /\ toHost # <<>> /\ toHost' = Tail(toHost)
    /\ UNCHANGED <<configVars, tries, initials, controls, receiving, toMotor, motor,
                  lastTried, refused>>
    /\ \/ /\ phase = "enable" /\ waiting = "enable" /\ state' = "kEnabled"
          /\ phase' \in {"initial", "release"} /\ live' = live
       \/ /\ phase = "initial" /\ waiting = "control" /\ state' = state
          /\ (phase' = "run" /\ live' = TRUE) \/ (phase' = "release" /\ live' = live)
       \/ /\ phase = "run" /\ waiting = "control" /\ state' = state
          /\ phase' = "run" /\ live' = TRUE
       \/ /\ phase = "disable" /\ waiting = "disable" /\ state' = "kDisabled"
          /\ phase' = "release" /\ live' = live
       \/ /\ phase = "releasing" /\ waiting = "disable" /\ state' = "kDisabled"
          /\ phase' = "closed" /\ live' = live

\* A reply ends a transaction in one of the ways of AnsweredEffect.
LEMMA AnsweredCases ==
    ASSUME Answered, PhaseInv, OwnerOK
    PROVE  AnsweredEffect
  <1>1. /\ waiting # "none" /\ waiting' = "none" /\ timeouts' = 0
        /\ toHost # <<>> /\ toHost' = Tail(toHost)
        /\ UNCHANGED <<configVars, tries, initials, controls, receiving, toMotor, motor,
                      lastTried, refused>>
    BY DEF Answered, Reply
  <1>2. state' = CASE waiting = "enable" -> "kEnabled" [] waiting = "disable" -> "kDisabled"
                   [] OTHER -> state
    BY DEF Answered, Reply, StateAfter
  <1>3. live' = (phase' = "run" \/ live)
    BY DEF Answered, AfterReply
  <1>4. \/ phase = "enable" /\ phase' \in {"initial", "release"}
        \/ phase = "initial" /\ phase' \in {"run", "release"}
        \/ phase = "disable" /\ phase' = "release"
        \/ phase = "releasing" /\ phase' = "closed"
        \/ phase = "run" /\ phase' = "run"
    BY <1>1 DEF Answered, AfterReply, PhaseInv, OwnerOK
  <1>5. phase' # "run" => live' = live
    BY <1>3 DEF OwnerOK
  <1> QED
    BY <1>1, <1>2, <1>3, <1>4, <1>5 DEF PhaseInv, AnsweredEffect

\* What a timeout does to the driver, and where the owner goes on.
TimedOutEffect ==
    /\ waiting # "none" /\ waiting' = "none" /\ timeouts' = timeouts + 1
    /\ UNCHANGED <<ownerVars, toHost, motor>>
    /\ \/ timeouts + 1 >= limit /\ LatchSafeStop
       \/ timeouts + 1 < limit /\ UNCHANGED <<state, toMotor, lastTried, refused>>
    /\ \/ phase \in {"enable", "run"} /\ phase' = phase
       \/ phase = "initial" /\ phase' = "release"
       \/ /\ phase = "initial" /\ phase' = "initial" /\ state' = "kEnabled"
          /\ initials < InitialAttempts
       \/ phase = "disable" /\ phase' = "release"
       \/ phase = "releasing" /\ phase' = "closed"

\* A timeout ends a transaction in one of the ways of TimedOutEffect.
LEMMA TimedOutCases ==
    ASSUME TimedOut, PhaseInv, DriverOK, OwnerOK
    PROVE  TimedOutEffect
  <1> USE LimitsAssumption
  <1>1. /\ waiting # "none" /\ waiting' = "none" /\ timeouts' = timeouts + 1
        /\ UNCHANGED <<ownerVars, toHost, motor>>
    BY DEF TimedOut, Timeout, LatchSafeStop
  <1>2. \/ timeouts + 1 >= limit /\ LatchSafeStop
        \/ timeouts + 1 < limit /\ UNCHANGED <<state, toMotor, lastTried, refused>>
    BY DEF TimedOut, Timeout, TimesOut, DriverOK, OwnerOK
  <1>3. phase \in {"enable", "initial", "run", "disable", "releasing"}
    BY <1>1 DEF PhaseInv, OwnerOK
  <1>4. \/ phase \in {"enable", "run"} /\ phase' = phase
        \/ phase = "initial" /\ phase' = "release"
        \/ /\ phase = "initial" /\ phase' = "initial" /\ state' = "kEnabled"
           /\ initials < InitialAttempts
        \/ phase = "disable" /\ phase' = "release"
        \/ phase = "releasing" /\ phase' = "closed"
    BY <1>3 DEF TimedOut, AfterTimeout, Repeats
  <1> QED
    BY <1>1, <1>2, <1>4 DEF TimedOutEffect

---------------------------------------------------------------------------
(* Base case *)

\* The invariant holds initially.
LEMMA InitInv == Init => IInv
  <1> SUFFICES ASSUME Init PROVE IInv
    OBVIOUS
  <1> USE LimitsAssumption, MaxControlsAssumption, LossAssumption
  <1>1. limit \in Nat /\ pair \in BOOLEAN
    BY DEF Init
  <1>2. DriverOK
    <2>1. timeouts \in 0 .. limit
      BY <1>1 DEF Init
    <2> QED
      BY <2>1 DEF Init, DriverOK, States, Requests
  <1>3. BusOK
    BY DEF Init, BusOK
  <1>4. OwnerOK
    <2>1. controls \in 0 .. MaxControls
      BY DEF Init
    <2>2. streamed \in BOOLEAN /\ live \in BOOLEAN /\ receiving \in BOOLEAN
          /\ fedBack \in BOOLEAN /\ lossy \in Losses
      BY DEF Init
    <2> QED
      BY <1>1, <2>1, <2>2 DEF Init, OwnerOK, EnableRetries, InitialAttempts
  <1>5. PhaseInv /\ LastInv
    BY DEF Init, PhaseInv, LastInv, InitialAttempts
  <1>6. QueueInv /\ AckInv
    BY DEF Init, QueueInv, AckInv, Has, Ordered
  <1> QED
    BY <1>2, <1>3, <1>4, <1>5, <1>6 DEF IInv, TypeOK

---------------------------------------------------------------------------
(* Induction step: types *)

\* Every step keeps the driver's types.
LEMMA DriverStep == IInv /\ [Next]_vars => DriverOK'
  <1> SUFFICES ASSUME IInv, [Next]_vars PROVE DriverOK'
    OBVIOUS
  <1> USE LimitsAssumption DEF DriverOK, OwnerOK, Requests, States, configVars,
      driverVars, ownerVars, busVars, vars
  <1>0. DriverOK /\ OwnerOK /\ PhaseInv
    BY DEF IInv, TypeOK
  <1>1. CASE Enable
    BY <1>0, <1>1 DEF Enable, Transact, LatchSafeStop, Send
  <1>2. CASE EnableFailed
    BY <1>0, <1>2 DEF EnableFailed
  <1>3. CASE InitialControl
    BY <1>0, <1>3 DEF InitialControl, Transact, LatchSafeStop, Send, Encodes
  <1>4. CASE StartupDeadline
    BY <1>0, <1>4 DEF StartupDeadline
  <1>5. CASE SendControl
    BY <1>0, <1>5 DEF SendControl, Transact, LatchSafeStop, Send, Encodes
  <1>6. CASE StartStream
    BY <1>0, <1>6 DEF StartStream
  <1>7. CASE StreamControl
    BY <1>0, <1>7 DEF StreamControl, LatchSafeStop, Send, Encodes
  <1>8. CASE LatchCommunicationFault
    BY <1>0, <1>8 DEF LatchCommunicationFault, LatchSafeStop, Send
  <1>9. CASE Answered
    <2>1. AnsweredEffect
      BY <1>0, <1>9, AnsweredCases
    <2> QED
      BY <1>0, <2>1 DEF AnsweredEffect
  <1>10. CASE TimedOut
    <2>1. TimedOutEffect
      BY <1>0, <1>10, TimedOutCases
    <2>2. timeouts < limit /\ limit \in Nat /\ limit' = limit
      BY <1>0, <2>1 DEF TimedOutEffect, PhaseInv
    <2>3. timeouts' \in 0 .. limit'
      BY <1>0, <2>1, <2>2 DEF TimedOutEffect
    <2> QED
      BY <1>0, <2>1, <2>3 DEF TimedOutEffect, LatchSafeStop, Send
  <1>11. ASSUME NEW fault \in BOOLEAN, Stop(fault) PROVE DriverOK'
    BY <1>0, <1>11 DEF Stop
  <1>12. CASE DisableOnFault
    BY <1>0, <1>12 DEF DisableOnFault, DisableLatched, Transact, LatchSafeStop, Send
  <1>13. CASE Release
    BY <1>0, <1>13 DEF Release, DisableLatched, Transact, LatchSafeStop, Send, Skips
  <1>14. CASE MotorStep
    BY <1>0, <1>14 DEF MotorStep
  <1>15. CASE Lose
    BY <1>0, <1>15 DEF Lose
  <1>16. CASE UNCHANGED vars
    BY <1>0, <1>16
  <1> QED
    BY <1>1, <1>2, <1>3, <1>4, <1>5, <1>6, <1>7, <1>8, <1>9, <1>10, <1>11,
       <1>12, <1>13, <1>14, <1>15, <1>16 DEF Next, Closed

\* Every step keeps the owner's types.
LEMMA OwnerStep == IInv /\ [Next]_vars => OwnerOK'
  <1> SUFFICES ASSUME IInv, [Next]_vars PROVE OwnerOK'
    OBVIOUS
  <1> USE MaxControlsAssumption DEF OwnerOK, EnableRetries, InitialAttempts, configVars,
      driverVars, ownerVars, busVars, vars
  <1>0. OwnerOK /\ PhaseInv
    BY DEF IInv, TypeOK
  <1>1. CASE Enable
    BY <1>0, <1>1 DEF Enable, Transact, LatchSafeStop, Send
  <1>2. CASE EnableFailed
    BY <1>0, <1>2 DEF EnableFailed
  <1>3. CASE InitialControl
    BY <1>0, <1>3 DEF PhaseInv, InitialControl, Transact, LatchSafeStop, Send, Encodes
  <1>4. CASE StartupDeadline
    BY <1>0, <1>4 DEF StartupDeadline
  <1>5. CASE SendControl
    BY <1>0, <1>5 DEF SendControl, Transact, LatchSafeStop, Send, Encodes
  <1>6. CASE StartStream
    BY <1>0, <1>6 DEF StartStream
  <1>7. CASE StreamControl
    BY <1>0, <1>7 DEF StreamControl, LatchSafeStop, Send, Encodes
  <1>8. CASE LatchCommunicationFault
    BY <1>0, <1>8 DEF LatchCommunicationFault, LatchSafeStop, Send
  <1>9. CASE Answered
    BY <1>0, <1>9 DEF Answered, Reply, AfterReply, StateAfter
  <1>10. CASE TimedOut
    BY <1>0, <1>10 DEF TimedOut, Timeout, TimesOut, LatchSafeStop, Send, AfterTimeout, Repeats
  <1>11. ASSUME NEW fault \in BOOLEAN, Stop(fault) PROVE OwnerOK'
    BY <1>0, <1>11 DEF Stop
  <1>12. CASE DisableOnFault
    BY <1>0, <1>12 DEF DisableOnFault, DisableLatched, Transact, LatchSafeStop, Send
  <1>13. CASE Release
    BY <1>0, <1>13 DEF Release, DisableLatched, Transact, LatchSafeStop, Send, Skips
  <1>14. CASE MotorStep
    BY <1>0, <1>14 DEF MotorStep
  <1>15. CASE Lose
    BY <1>0, <1>15 DEF Lose
  <1>16. CASE UNCHANGED vars
    BY <1>0, <1>16
  <1> QED
    BY <1>1, <1>2, <1>3, <1>4, <1>5, <1>6, <1>7, <1>8, <1>9, <1>10, <1>11,
       <1>12, <1>13, <1>14, <1>15, <1>16 DEF Next, Closed

\* Every step keeps the types of the queues.
LEMMA BusStep == IInv /\ [Next]_vars => BusOK'
  <1> SUFFICES ASSUME IInv, [Next]_vars PROVE BusOK'
    OBVIOUS
  <1> USE AppendFacts, TailFacts DEF BusOK, Requests, configVars, driverVars, ownerVars,
      busVars, vars
  <1>0. BusOK
    BY DEF IInv, TypeOK
  <1>1. CASE Enable
    BY <1>0, <1>1 DEF Enable, Transact, LatchSafeStop, Send
  <1>2. CASE EnableFailed
    BY <1>0, <1>2 DEF EnableFailed
  <1>3. CASE InitialControl
    BY <1>0, <1>3 DEF InitialControl, Transact, LatchSafeStop, Send, Encodes
  <1>4. CASE StartupDeadline
    BY <1>0, <1>4 DEF StartupDeadline
  <1>5. CASE SendControl
    BY <1>0, <1>5 DEF SendControl, Transact, LatchSafeStop, Send, Encodes
  <1>6. CASE StartStream
    BY <1>0, <1>6 DEF StartStream
  <1>7. CASE StreamControl
    BY <1>0, <1>7 DEF StreamControl, LatchSafeStop, Send, Encodes
  <1>8. CASE LatchCommunicationFault
    BY <1>0, <1>8 DEF LatchCommunicationFault, LatchSafeStop, Send
  <1>9. CASE Answered
    BY <1>0, <1>9 DEF Answered, Reply, AfterReply, StateAfter
  <1>10. CASE TimedOut
    BY <1>0, <1>10 DEF TimedOut, Timeout, TimesOut, LatchSafeStop, Send, AfterTimeout, Repeats
  <1>11. ASSUME NEW fault \in BOOLEAN, Stop(fault) PROVE BusOK'
    BY <1>0, <1>11 DEF Stop
  <1>12. CASE DisableOnFault
    BY <1>0, <1>12 DEF DisableOnFault, DisableLatched, Transact, LatchSafeStop, Send
  <1>13. CASE Release
    BY <1>0, <1>13 DEF Release, DisableLatched, Transact, LatchSafeStop, Send, Skips
  <1>14. CASE MotorStep
    <2>1. Head(toMotor) \in Requests /\ toMotor' \in Seq(Requests)
      BY <1>0, <1>14 DEF MotorStep
    <2>2. toHost' \in Seq(Requests)
      <3>1. toHost' \in {toHost, Append(toHost, Head(toMotor))}
        BY <1>14 DEF MotorStep
      <3>2. toHost \in Seq(Requests)
        BY <1>0
      <3>3. Append(toHost, Head(toMotor)) \in Seq(Requests)
        BY <2>1, <3>2, AppendFacts
      <3> QED
        BY <3>1, <3>2, <3>3
    <2>3. motor' \in {"menu", "motor"}
      BY <1>0, <1>14 DEF MotorStep
    <2> QED
      BY <2>1, <2>2, <2>3
  <1>15. CASE Lose
    BY <1>0, <1>15 DEF Lose
  <1>16. CASE UNCHANGED vars
    BY <1>0, <1>16
  <1> QED
    BY <1>1, <1>2, <1>3, <1>4, <1>5, <1>6, <1>7, <1>8, <1>9, <1>10, <1>11,
       <1>12, <1>13, <1>14, <1>15, <1>16 DEF Next, Closed

---------------------------------------------------------------------------
(* Induction step: phases and last frames *)

\* The request under way always fits the phase.
LEMMA PhaseStep == IInv /\ [Next]_vars => PhaseInv'
  <1> SUFFICES ASSUME IInv, [Next]_vars PROVE PhaseInv'
    OBVIOUS
  <1> USE LimitsAssumption DEF PhaseInv, InitialAttempts, configVars, driverVars,
      ownerVars, busVars, vars
  <1>0. PhaseInv /\ LastInv /\ DriverOK /\ OwnerOK
    BY DEF IInv, TypeOK
  <1>1. CASE Enable
    BY <1>0, <1>1 DEF Enable, Transact, LatchSafeStop, Send
  <1>2. CASE EnableFailed
    BY <1>0, <1>2 DEF EnableFailed
  <1>3. CASE InitialControl
    BY <1>0, <1>3 DEF InitialControl, Transact, LatchSafeStop, Send, Encodes
  <1>4. CASE StartupDeadline
    BY <1>0, <1>4 DEF StartupDeadline
  <1>5. CASE SendControl
    BY <1>0, <1>5 DEF SendControl, Transact, LatchSafeStop, Send, Encodes
  <1>6. CASE StartStream
    BY <1>0, <1>6 DEF StartStream
  <1>7. CASE StreamControl
    BY <1>0, <1>7 DEF StreamControl, LatchSafeStop, Send, Encodes
  <1>8. CASE LatchCommunicationFault
    BY <1>0, <1>8 DEF LatchCommunicationFault, LatchSafeStop, Send
  <1>9. CASE Answered
    <2>1. AnsweredEffect
      BY <1>0, <1>9, AnsweredCases
    <2>2. timeouts' < limit'
      BY <1>0, <2>1 DEF AnsweredEffect, OwnerOK
    <2>3. state # "kSafeStopped" /\ (phase \in {"initial", "run"} => state # "kDisabled")
      BY <1>0, <2>1 DEF AnsweredEffect
    <2>4. phase' = "initial" => initials' = 0
      BY <1>0, <2>1 DEF AnsweredEffect
    <2>5. live' => phase' \notin {"enable", "initial"}
      BY <1>0, <2>1 DEF AnsweredEffect
    <2>6. phase' \in {"initial", "release", "run", "closed"} /\ waiting' = "none"
          /\ (phase' \in {"initial", "run"} => state' # "kDisabled")
      BY <2>1, <2>3 DEF AnsweredEffect
    <2> QED
      BY <2>2, <2>4, <2>5, <2>6
  <1>10. CASE TimedOut
    <2>1. TimedOutEffect
      BY <1>0, <1>10, TimedOutCases
    <2> QED
      BY <1>0, <2>1 DEF TimedOutEffect, LatchSafeStop, Send
  <1>11. ASSUME NEW fault \in BOOLEAN, Stop(fault) PROVE PhaseInv'
    BY <1>0, <1>11 DEF Stop
  <1>12. CASE DisableOnFault
    BY <1>0, <1>12 DEF DisableOnFault, DisableLatched, Transact, LatchSafeStop, Send
  <1>13. CASE Release
    BY <1>0, <1>13 DEF Release, DisableLatched, Transact, LatchSafeStop, Send, Skips
  <1>14. CASE MotorStep
    BY <1>0, <1>14 DEF MotorStep
  <1>15. CASE Lose
    BY <1>0, <1>15 DEF Lose
  <1>16. CASE UNCHANGED vars
    BY <1>0, <1>16
  <1> QED
    BY <1>1, <1>2, <1>3, <1>4, <1>5, <1>6, <1>7, <1>8, <1>9, <1>10, <1>11,
       <1>12, <1>13, <1>14, <1>15, <1>16 DEF Next, Closed

\* Endings and latches keep a disable as the last frame tried.
LEMMA LastStep == IInv /\ [Next]_vars => LastInv'
  <1> SUFFICES ASSUME IInv, [Next]_vars PROVE LastInv'
    OBVIOUS
  <1> USE DEF LastInv, configVars, driverVars, ownerVars, busVars, vars
  <1>0. PhaseInv /\ LastInv /\ DriverOK /\ OwnerOK
    BY DEF IInv, TypeOK
  <1>1. CASE Enable
    BY <1>0, <1>1 DEF Enable, Transact, LatchSafeStop, Send
  <1>2. CASE EnableFailed
    BY <1>0, <1>2 DEF EnableFailed
  <1>3. CASE InitialControl
    BY <1>0, <1>3 DEF InitialControl, Transact, LatchSafeStop, Send, Encodes
  <1>4. CASE StartupDeadline
    BY <1>0, <1>4 DEF StartupDeadline
  <1>5. CASE SendControl
    BY <1>0, <1>5 DEF SendControl, Transact, LatchSafeStop, Send, Encodes
  <1>6. CASE StartStream
    BY <1>0, <1>6 DEF StartStream
  <1>7. CASE StreamControl
    BY <1>0, <1>7 DEF StreamControl, LatchSafeStop, Send, Encodes
  <1>8. CASE LatchCommunicationFault
    BY <1>0, <1>8 DEF LatchCommunicationFault, LatchSafeStop, Send
  <1>9. CASE Answered
    <2>1. AnsweredEffect
      BY <1>0, <1>9, AnsweredCases
    <2> QED
      BY <1>0, <2>1 DEF AnsweredEffect, PhaseInv
  <1>10. CASE TimedOut
    <2>1. TimedOutEffect
      BY <1>0, <1>10, TimedOutCases
    <2> QED
      BY <1>0, <2>1 DEF TimedOutEffect, PhaseInv, LatchSafeStop, Send
  <1>11. ASSUME NEW fault \in BOOLEAN, Stop(fault) PROVE LastInv'
    BY <1>0, <1>11 DEF Stop
  <1>12. CASE DisableOnFault
    BY <1>0, <1>12 DEF DisableOnFault, DisableLatched, Transact, LatchSafeStop, Send
  <1>13. CASE Release
    BY <1>0, <1>13 DEF Release, DisableLatched, Transact, LatchSafeStop, Send, Skips
  <1>14. CASE MotorStep
    BY <1>0, <1>14 DEF MotorStep
  <1>15. CASE Lose
    BY <1>0, <1>15 DEF Lose
  <1>16. CASE UNCHANGED vars
    BY <1>0, <1>16
  <1> QED
    BY <1>1, <1>2, <1>3, <1>4, <1>5, <1>6, <1>7, <1>8, <1>9, <1>10, <1>11,
       <1>12, <1>13, <1>14, <1>15, <1>16 DEF Next, Closed

---------------------------------------------------------------------------
(* Induction step: the queue to the motor *)

\* The queue after an attempt to send a disable.
LEMMA DisableTried ==
    ASSUME QueueInv, toMotor \in Seq(Requests), lastTried' = "disable", motor' = motor,
           toMotor' \in {toMotor, Append(toMotor, "disable")},
           phase' \in {"enable", "initial", "run"} => state' = "kSafeStopped"
    PROVE  QueueInv'
  <1>0. "disable" \in Requests
    BY DEF Requests
  <1>1. Ordered(toMotor')
    BY <1>0, AppendOrdered DEF QueueInv
  <1>2. Has(toMotor', "control") => Has(toMotor, "control")
    BY <1>0, AppendHas
  <1> QED
    BY <1>1, <1>2 DEF QueueInv

\* ... after a control frame to a motor in Motor Mode.
LEMMA ControlSent ==
    ASSUME QueueInv, toMotor \in Seq(Requests), toMotor' = Append(toMotor, "control"),
           lastTried # "disable", motor = "motor", motor' = motor, phase' # "enable"
    PROVE  QueueInv'
  <1>0. "control" \in Requests
    BY DEF Requests
  <1>1. Ordered(toMotor')
    BY <1>0, AppendOrdered DEF QueueInv
  <1>2. ~Has(toMotor', "disable")
    BY <1>0, AppendHas DEF QueueInv
  <1> QED
    BY <1>1, <1>2 DEF QueueInv

\* ... after an enable.
LEMMA EnableSent ==
    ASSUME QueueInv, toMotor \in Seq(Requests), toMotor' = Append(toMotor, "enable"),
           lastTried # "disable", state # "kSafeStopped", phase = "enable", phase' = phase,
           motor' = motor, toHost' = toHost
    PROVE  QueueInv'
  <1>0. "enable" \in Requests
    BY DEF Requests
  <1>1. Ordered(toMotor')
    BY <1>0, AppendOrdered DEF QueueInv
  <1>2. ~Has(toMotor', "disable") /\ ~Has(toMotor', "control")
    BY <1>0, AppendHas DEF QueueInv
  <1> QED
    BY <1>1, <1>2 DEF QueueInv

\* Nothing follows a disable in the queue to the motor.
LEMMA QueueStep == IInv /\ [Next]_vars => QueueInv'
  <1> SUFFICES ASSUME IInv, [Next]_vars PROVE QueueInv'
    OBVIOUS
  <1> USE DEF configVars, driverVars, ownerVars, busVars, vars
  <1>0. /\ PhaseInv /\ LastInv /\ QueueInv /\ DriverOK /\ OwnerOK
        /\ toMotor \in Seq(Requests)
    BY DEF IInv, TypeOK, BusOK
  <1>1. CASE Enable
    <2>1. CASE Transact("enable") /\ waiting' = "enable"
      <3>1. /\ toMotor' = Append(toMotor, "enable") /\ lastTried # "disable"
            /\ state # "kSafeStopped" /\ phase = "enable" /\ phase' = phase
            /\ UNCHANGED <<motor, toHost>>
        BY <1>0, <1>1, <2>1 DEF Enable, Transact, LatchSafeStop, LastInv
      <3> QED
        BY <1>0, <3>1, EnableSent
    <2>2. CASE Transact("enable") /\ waiting' # "enable"
      <3>1. /\ lastTried' = "disable" /\ motor' = motor /\ state' = "kSafeStopped"
            /\ toMotor' \in {toMotor, Append(toMotor, "disable")}
        BY <2>2 DEF Transact, LatchSafeStop, Send
      <3> QED
        BY <1>0, <3>1, DisableTried
    <2>3. CASE UNCHANGED <<driverVars, busVars>>
      BY <1>0, <1>1, <2>3 DEF Enable, QueueInv
    <2> QED
      BY <1>1, <2>1, <2>2, <2>3 DEF Enable
  <1>2. CASE EnableFailed
    BY <1>0, <1>2 DEF EnableFailed, QueueInv
  <1>3. ASSUME InitialControl \/ SendControl PROVE QueueInv'
    <2>1. /\ phase \in {"initial", "run"} /\ state = "kEnabled" /\ Transact("control")
          /\ phase' \in {"initial", "run", "release"}
      BY <1>3 DEF InitialControl, SendControl, Encodes
    <2>2. CASE waiting' = "control"
      <3>1. /\ toMotor' = Append(toMotor, "control") /\ lastTried # "disable"
            /\ motor = "motor" /\ motor' = motor
        BY <1>0, <2>1, <2>2 DEF Transact, LatchSafeStop, LastInv, QueueInv
      <3> QED
        BY <1>0, <2>1, <3>1, ControlSent
    <2>3. CASE waiting' # "control"
      <3>1. /\ lastTried' = "disable" /\ motor' = motor /\ state' = "kSafeStopped"
            /\ toMotor' \in {toMotor, Append(toMotor, "disable")}
        BY <2>1, <2>3 DEF Transact, LatchSafeStop, Send
      <3> QED
        BY <1>0, <3>1, DisableTried
    <2> QED
      BY <2>2, <2>3
  <1>4. CASE StartupDeadline
    BY <1>0, <1>4 DEF StartupDeadline, QueueInv
  <1>5. CASE StartStream
    BY <1>0, <1>5 DEF StartStream, QueueInv
  <1>6. CASE StreamControl
    <2>1. CASE lastTried' = "control"
      <3>1. /\ toMotor' = Append(toMotor, "control") /\ lastTried # "disable"
            /\ motor = "motor" /\ motor' = motor /\ phase' = "run"
        BY <1>0, <1>6, <2>1
           DEF StreamControl, Encodes, LatchSafeStop, Send, LastInv, QueueInv
      <3> QED
        BY <1>0, <3>1, ControlSent
    <2>2. CASE lastTried' # "control"
      <3>1. /\ lastTried' = "disable" /\ motor' = motor /\ state' = "kSafeStopped"
            /\ toMotor' \in {toMotor, Append(toMotor, "disable")}
        BY <1>6, <2>2 DEF StreamControl, LatchSafeStop, Send
      <3> QED
        BY <1>0, <3>1, DisableTried
    <2> QED
      BY <2>1, <2>2
  <1>7. CASE LatchCommunicationFault
    <2>1. /\ lastTried' = "disable" /\ motor' = motor /\ state' = "kSafeStopped"
          /\ toMotor' \in {toMotor, Append(toMotor, "disable")}
      BY <1>7 DEF LatchCommunicationFault, LatchSafeStop, Send
    <2> QED
      BY <1>0, <2>1, DisableTried
  <1>8. CASE Answered
    <2>1. AnsweredEffect
      BY <1>0, <1>8, AnsweredCases
    <2> QED
      BY <1>0, <2>1 DEF AnsweredEffect, PhaseInv, QueueInv
  <1>9. CASE TimedOut
    <2>1. TimedOutEffect
      BY <1>0, <1>9, TimedOutCases
    <2>2. CASE LatchSafeStop
      <3>1. /\ lastTried' = "disable" /\ motor' = motor /\ state' = "kSafeStopped"
            /\ toMotor' \in {toMotor, Append(toMotor, "disable")}
        BY <2>1, <2>2 DEF TimedOutEffect, LatchSafeStop, Send
      <3> QED
        BY <1>0, <3>1, DisableTried
    <2>3. CASE UNCHANGED <<state, toMotor, lastTried, refused>>
      BY <1>0, <2>1, <2>3 DEF TimedOutEffect, QueueInv
    <2> QED
      BY <2>1, <2>2, <2>3 DEF TimedOutEffect
  <1>10. ASSUME NEW fault \in BOOLEAN, Stop(fault) PROVE QueueInv'
    BY <1>0, <1>10 DEF Stop, QueueInv
  <1>11. ASSUME DisableOnFault \/ Release PROVE QueueInv'
    <2>1. phase' \in {"disable", "release", "releasing", "closed"} /\ motor' = motor
      BY <1>0, <1>11 DEF DisableOnFault, Release, DisableLatched, Transact, PhaseInv
    <2>2. \/ UNCHANGED <<driverVars, busVars>>
          \/ /\ lastTried' = "disable"
             /\ toMotor' \in {toMotor, Append(toMotor, "disable")}
      BY <1>11 DEF DisableOnFault, Release, DisableLatched, Transact, LatchSafeStop, Send
    <2>3. CASE UNCHANGED <<driverVars, busVars>>
      BY <1>0, <2>1, <2>3 DEF QueueInv
    <2> QED
      BY <1>0, <2>1, <2>2, <2>3, DisableTried
  <1>12. CASE MotorStep
    <2>0. /\ toMotor # <<>> /\ toMotor' = Tail(toMotor) /\ Head(toMotor) \in Requests
          /\ UNCHANGED <<lastTried, phase, state>>
      BY <1>0, <1>12, TailFacts DEF MotorStep
    <2>1. Ordered(toMotor') /\ (Head(toMotor) = "disable" => ~Has(toMotor', "control"))
      BY <1>0, <2>0, TailOrdered DEF QueueInv
    <2>2. \A x : Has(toMotor', x) => Has(toMotor, x)
      BY <1>0, <2>0, TailHas
    <2>3. Has(toMotor, Head(toMotor))
      BY <1>0, <2>0, TailHas
    <2>4. \/ Head(toMotor) = "enable" /\ motor' = "motor"
          \/ Head(toMotor) = "disable" /\ motor' = "menu"
          \/ Head(toMotor) = "control" /\ motor' = motor
      BY <1>12, <2>0 DEF MotorStep, Requests
    <2>5. phase \in {"enable", "initial", "run"} /\ state # "kSafeStopped" =>
            Head(toMotor) # "disable"
      BY <1>0, <2>3 DEF QueueInv, LastInv
    <2>6. phase = "enable" /\ state # "kSafeStopped" => Head(toMotor) = "enable"
      BY <1>0, <2>3, <2>4, <2>5 DEF QueueInv
    <2> QED
      BY <1>0, <2>0, <2>1, <2>2, <2>4, <2>5, <2>6 DEF QueueInv
  <1>13. CASE Lose
    <2>1. toMotor # <<>> /\ toMotor' = Tail(toMotor)
      BY <1>13 DEF Lose
    <2>2. Ordered(toMotor')
      BY <1>0, <2>1, TailOrdered DEF QueueInv
    <2>3. \A x : Has(toMotor', x) => Has(toMotor, x)
      BY <1>0, <2>1, TailHas
    <2> QED
      BY <1>0, <1>13, <2>2, <2>3 DEF Lose, QueueInv
  <1>14. CASE UNCHANGED vars
    BY <1>0, <1>14 DEF QueueInv
  <1> QED
    BY <1>1, <1>2, <1>3, <1>4, <1>5, <1>6, <1>7, <1>8, <1>9, <1>10, <1>11, <1>12, <1>13,
       <1>14 DEF Next, Closed

\* Without losses a disable that was waited for stays accounted for.
LEMMA AckStep == IInv /\ [Next]_vars => AckInv'
  <1> SUFFICES ASSUME IInv, [Next]_vars PROVE AckInv'
    OBVIOUS
  <1> USE AppendHas DEF AckInv, configVars, driverVars, ownerVars, busVars, vars
  <1>0. /\ PhaseInv /\ LastInv /\ QueueInv /\ AckInv /\ DriverOK /\ OwnerOK
        /\ toMotor \in Seq(Requests) /\ {"enable", "control", "disable"} \subseteq Requests
    BY DEF IInv, TypeOK, BusOK, Requests
  <1>1. CASE Enable
    BY <1>0, <1>1 DEF PhaseInv, LastInv, Enable, Transact, LatchSafeStop, Send
  <1>2. CASE EnableFailed
    BY <1>0, <1>2 DEF PhaseInv, LastInv, EnableFailed
  <1>3. CASE InitialControl
    BY <1>0, <1>3 DEF PhaseInv, LastInv, InitialControl, Transact, LatchSafeStop, Send, Encodes
  <1>4. CASE StartupDeadline
    BY <1>0, <1>4 DEF PhaseInv, LastInv, StartupDeadline
  <1>5. CASE SendControl
    BY <1>0, <1>5 DEF PhaseInv, LastInv, SendControl, Transact, LatchSafeStop, Send, Encodes
  <1>6. CASE StartStream
    BY <1>0, <1>6 DEF PhaseInv, LastInv, StartStream
  <1>7. CASE StreamControl
    BY <1>0, <1>7 DEF PhaseInv, LastInv, StreamControl, LatchSafeStop, Send, Encodes
  <1>8. CASE LatchCommunicationFault
    BY <1>0, <1>8 DEF PhaseInv, LastInv, LatchCommunicationFault, LatchSafeStop, Send
  <1>9. CASE Answered
    <2>1. AnsweredEffect
      BY <1>0, <1>9, AnsweredCases
    <2> QED
      BY <1>0, <2>1 DEF AnsweredEffect, PhaseInv, LastInv
  <1>10. CASE TimedOut
    <2>1. TimedOutEffect
      BY <1>0, <1>10, TimedOutCases
    <2> QED
      BY <1>0, <2>1 DEF TimedOutEffect, PhaseInv, LastInv, LatchSafeStop, Send
  <1>11. ASSUME NEW fault \in BOOLEAN, Stop(fault) PROVE AckInv'
    BY <1>0, <1>11 DEF Stop
  <1>12. CASE DisableOnFault
    <2>1. \/ UNCHANGED <<driverVars, busVars>>
          \/ state' = "kSafeStopped" /\ waiting' = "none"
          \/ toMotor' = Append(toMotor, "disable")
      BY <1>12 DEF DisableOnFault, DisableLatched, Transact, LatchSafeStop
    <2>2. Has(Append(toMotor, "disable"), "disable")
      BY <1>0
    <2> QED
      BY <1>0, <1>12, <2>1, <2>2 DEF DisableOnFault
  <1>13. CASE Release
    <2>1. \/ UNCHANGED <<driverVars, busVars>>
          \/ state' = "kSafeStopped" /\ waiting' = "none"
          \/ toMotor' = Append(toMotor, "disable")
      BY <1>0, <1>13 DEF Release, DisableLatched, Transact, LatchSafeStop, PhaseInv
    <2>2. Has(Append(toMotor, "disable"), "disable")
      BY <1>0
    <2> QED
      BY <1>0, <1>13, <2>1, <2>2 DEF Release
  <1>14. CASE MotorStep
    <2>0. /\ toMotor # <<>> /\ toMotor' = Tail(toMotor)
          /\ UNCHANGED <<lossy, waiting, state, live>>
      BY <1>14 DEF MotorStep
    <2>1. Head(toMotor) = "disable" => motor' = "menu"
      BY <1>14 DEF MotorStep
    <2>2. Head(toMotor) = "disable" /\ toMotor' # <<>> => Has(toMotor', "disable")
      BY <1>0, <2>0, TailOrdered DEF QueueInv
    <2>3. Has(toMotor, "disable") /\ Head(toMotor) # "disable" => Has(toMotor', "disable")
      BY <1>0, <2>0, TailHas
    <2> QED
      BY <1>0, <2>0, <2>1, <2>2, <2>3
  <1>15. CASE Lose
    BY <1>0, <1>15, TailHas, TailOrdered, TailFacts DEF PhaseInv, LastInv, Lose
  <1>16. CASE UNCHANGED vars
    BY <1>0, <1>16
  <1> QED
    BY <1>1, <1>2, <1>3, <1>4, <1>5, <1>6, <1>7, <1>8, <1>9, <1>10, <1>11,
       <1>12, <1>13, <1>14, <1>15, <1>16 DEF Next, Closed

---------------------------------------------------------------------------
(* Theorems *)

\* Every step preserves the invariant.
LEMMA StepInv == IInv /\ [Next]_vars => IInv'
  BY DriverStep, OwnerStep, BusStep, PhaseStep, LastStep, QueueStep, AckStep
     DEF IInv, TypeOK

\* The inductive invariant holds in every reachable state.
THEOREM Inductive == Spec => []IInv
  BY InitInv, StepInv, PTL DEF Spec

\* Every variable keeps its type; in particular the count of consecutive
\* timeouts never passes its limit.
THEOREM TypeCorrect == Spec => []TypeOK
  <1>1. IInv => TypeOK
    BY DEF IInv
  <1> QED
    BY <1>1, Inductive, PTL

\* No call and no late reply brings a latched driver back.
THEOREM SafeStopFinal == Spec => SafeStopIsFinal
  <1>1. ASSUME IInv, [Next]_vars
        PROVE  [state = "kSafeStopped" => state' = "kSafeStopped"]_vars
    <2> SUFFICES ASSUME state = "kSafeStopped" PROVE state' = "kSafeStopped"
      OBVIOUS
    <2>1. waiting = "none"
      BY <1>1 DEF IInv, PhaseInv
    <2> QED
      BY <1>1, <2>1
         DEF Next, Enable, EnableFailed, InitialControl, StartupDeadline, SendControl,
             StartStream, StreamControl, LatchCommunicationFault, Answered, TimedOut, Stop,
             DisableOnFault, Release, MotorStep, Lose, Closed, Transact, DisableLatched,
             LatchSafeStop, Reply, Timeout, driverVars, vars
  <1> QED
    BY <1>1, Inductive, PTL DEF Spec, SafeStopIsFinal

\* A latched driver and a closed activation have tried nothing after a disable.
THEOREM DisableLast == Spec => []DisableIsLast
  <1>1. IInv => DisableIsLast
    BY DEF IInv, LastInv, DisableIsLast
  <1> QED
    BY <1>1, Inductive, PTL

\* A control frame only reaches a motor in Motor Mode, whatever is lost.
THEOREM ControlInMotorMode == Spec => []ControlNeedsMotorMode
  <1>1. IInv => ControlNeedsMotorMode
    BY TailHas DEF IInv, TypeOK, BusOK, QueueInv, ControlNeedsMotorMode
  <1> QED
    BY <1>1, Inductive, PTL

\* Without loss the motor that disableAxes() skips has left Motor Mode, or is
\* about to, though the reply it took for an acknowledgement may be older.
THEOREM Acknowledged == Spec => []AcknowledgedUnlessLost
  <1>1. IInv => AcknowledgedUnlessLost
    BY DEF IInv, AckInv, Has, Skips, AcknowledgedUnlessLost, AcknowledgedMeansDisabled
  <1> QED
    BY <1>1, Inductive, PTL

---------------------------------------------------------------------------
(* The contract of a driver *)

\* An attempt to send a frame while the driver is in use is a step of the contract.
LEMMA ContractStep == IInv /\ [Next]_vars => [Contract!Next]_(Contract!contractVars)
  <1> SUFFICES ASSUME IInv, [Next]_vars
               PROVE  [Contract!Next]_(Contract!contractVars)
    OBVIOUS
  <1> USE DEF Contract!contractVars, Contract!Next, configVars, driverVars, ownerVars,
              busVars, vars
  <1>0. PhaseInv /\ LastInv /\ DriverOK /\ OwnerOK
    BY DEF IInv, TypeOK
  <1>1. ASSUME LatchSafeStop PROVE Contract!Latch
    BY <1>1 DEF LatchSafeStop, Send, Contract!Latch
  <1>2. CASE Enable
    BY <1>0, <1>1, <1>2 DEF Enable, Transact, PhaseInv, LastInv, DriverOK, States,
       Contract!Enable
  <1>3. CASE InitialControl \/ SendControl
    BY <1>0, <1>1, <1>3 DEF InitialControl, SendControl, Transact, Encodes, LastInv,
       Contract!Control
  <1>4. CASE StreamControl
    BY <1>0, <1>1, <1>4 DEF StreamControl, Encodes, LastInv, Contract!Control
  <1>5. CASE LatchCommunicationFault
    BY <1>1, <1>5 DEF LatchCommunicationFault
  <1>6. CASE Answered
    <2>1. AnsweredEffect
      BY <1>0, <1>6, AnsweredCases
    <2>2. waiting = lastTried
      BY <1>0, <2>1 DEF AnsweredEffect, PhaseInv
    <2> QED
      BY <1>0, <2>1, <2>2 DEF AnsweredEffect, PhaseInv, DriverOK, States,
         Contract!Enabled, Contract!Disable
  <1>7. CASE TimedOut
    <2>1. TimedOutEffect
      BY <1>0, <1>7, TimedOutCases
    <2> QED
      BY <1>1, <2>1 DEF TimedOutEffect
  <1>8. CASE DisableOnFault
    BY <1>0, <1>1, <1>8 DEF DisableOnFault, DisableLatched, Transact, Send, DriverOK,
       States, Contract!Disable
  <1>9. CASE Release
    BY <1>0, <1>1, <1>9 DEF Release, DisableLatched, Transact, Send, DriverOK, States,
       Contract!Disable
  <1>10. CASE EnableFailed \/ StartupDeadline \/ StartStream \/ MotorStep \/ Lose
    BY <1>10 DEF EnableFailed, StartupDeadline, StartStream, MotorStep, Lose
  <1>11. ASSUME NEW fault \in BOOLEAN, Stop(fault) PROVE UNCHANGED <<state, lastTried>>
    BY <1>11 DEF Stop
  <1>12. CASE UNCHANGED vars
    BY <1>12
  <1> QED
    BY <1>2, <1>3, <1>4, <1>5, <1>6, <1>7, <1>8, <1>9, <1>10, <1>11, <1>12
       DEF Next, Closed

\* The driver, request by request, implements the contract that SystemStop has
\* for its driver calls.
THEOREM KeepsContract == Spec => ImplementsContract
  <1>1. Init => Contract!Init
    BY DEF Init, Contract!Init
  <1>2. Spec => Contract!Spec
    BY <1>1, ContractStep, Inductive, PTL DEF Spec, Contract!Spec
  <1> QED
    BY <1>2 DEF ImplementsContract
===========================================================================
