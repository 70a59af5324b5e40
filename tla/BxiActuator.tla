---------------------------- MODULE BxiActuator ----------------------------
(***************************************************************************)
(* BxiActuatorDriver (src/bxi_actuator.cpp) with its motor at the other    *)
(* end of a CAN bus that delays frames without bound and may lose them,    *)
(* driven the way BxiSystemInterface drives it in one activation: enable   *)
(* with retries, the initial control frame, control frames, then one or    *)
(* two rounds of disable.  In G mode ActivationStartup waits before the    *)
(* initial control frame and repeats an unanswered one once, as far as its *)
(* budget goes.                                                            *)
(*                                                                         *)
(* On a sequential bus workerLoop() sends every control frame as a         *)
(* transaction.  On a streamed bus the send thread queues control frames   *)
(* without waiting, replies go to another socket, and stopStream() turns   *)
(* receiving on again before disable() waits for its acknowledgement.      *)
(*                                                                         *)
(* A reply frame carries no request number: transact() takes the first     *)
(* reply of its motor for the answer to the request it has just sent.  Two *)
(* frames of one direction never overtake each other (one CAN id).  Frames *)
(* of other motors are skipped by transact() and are not modelled.         *)
(***************************************************************************)
EXTENDS Naturals, Sequences

CONSTANTS
    Limits,        \* values of maximum_consecutive_timeouts_
    MaxControls,   \* bound on control frames
    Losses         \* whether an accepted frame may miss the motor: the cases

ASSUME LimitsAssumption == Limits \subseteq Nat \ {0}
ASSUME MaxControlsAssumption == MaxControls \in Nat \ {0}
ASSUME LossAssumption == Losses \subseteq BOOLEAN

EnableRetries == 3     \* kEnableRetries
InitialAttempts == 2   \* ActivationPolicy::attempts
Requests == {"enable", "control", "disable"}
States == {"kDisabled", "kEnabled", "kSafeStopped"}

VARIABLES
    state,      \* state_
    limit,      \* maximum_consecutive_timeouts_
    timeouts,   \* consecutive_timeouts_
    waiting,    \* the request transact() waits for, "none" outside
    streamed,   \* rx_mode of the bus: separate
    pair,       \* pair_mode_, on a streamed bus
    phase,      \* where the owner of the driver is
    live,       \* the joint is in live_joints_
    tries,      \* enable attempts made
    initials,   \* initial control attempts made
    controls,   \* control frames given to the bus
    receiving,  \* the send socket receives replies
    fedBack,    \* the stream has had a reply since its first frame
    toMotor,    \* requests accepted by the bus, not yet at the motor
    toHost,     \* the requests answered by the replies not yet read
    lossy,      \* the bus may lose a request
    motor,      \* "menu" or "motor" (Motor Mode)
    lastTried,  \* history: the last frame the driver tried to send
    refused     \* history: the bus refused that frame

configVars == <<streamed, pair, limit, lossy>>
driverVars == <<state, timeouts, waiting, lastTried, refused>>
ownerVars == <<configVars, live, tries, initials, controls, receiving, fedBack>>
busVars == <<toMotor, toHost, motor>>
vars == <<driverVars, ownerVars, phase, busVars>>

Init ==
    /\ state = "kDisabled" /\ timeouts = 0 /\ waiting = "none"
    /\ streamed \in BOOLEAN /\ pair \in {FALSE, streamed} /\ limit \in Limits /\ lossy \in Losses
    /\ phase = "enable" /\ live = FALSE
    /\ tries = 0 /\ initials = 0 /\ controls = 0
    /\ receiving = TRUE /\ fedBack = FALSE
    /\ toMotor = <<>> /\ toHost = <<>> /\ motor = "menu"
    /\ lastTried = "none" /\ refused = FALSE

---------------------------------------------------------------------------
(* Driver *)

\* CanBus::send(): the bus takes the frame, or refuses it.
Send(request) ==
    /\ lastTried' = request
    /\ \/ toMotor' = Append(toMotor, request) /\ refused' = FALSE
       \/ UNCHANGED toMotor /\ refused' = TRUE

\* Mutant: the latch alone, without the disable frame.
LatchOnly ==
    /\ state' = "kSafeStopped"
    /\ waiting' = "none"
    /\ UNCHANGED <<toMotor, lastTried, refused>>

\* latchSafeStop() and trySendDisable(): "A lost reply does not prove the
\* request was lost."
LatchSafeStop ==
    /\ state' = "kSafeStopped"
    /\ waiting' = "none"
    /\ Send("disable")

\* transact() up to the wait.  A refused request latches.
Transact(request) ==
    /\ waiting = "none" /\ state # "kSafeStopped"
    /\ \/ /\ toMotor' = Append(toMotor, request)
          /\ lastTried' = request /\ refused' = FALSE
          /\ waiting' = request
          /\ UNCHANGED state
       \/ LatchSafeStop
    /\ UNCHANGED <<timeouts, toHost, motor>>

\* Mutant: every answered request but enable means disabled.
StateAfterConfused == IF waiting = "enable" THEN "kEnabled" ELSE "kDisabled"

\* sendSpecial(): an answered special command moves the state.
StateAfter ==
    CASE waiting = "enable" -> "kEnabled"
      [] waiting = "disable" -> "kDisabled"
      [] OTHER -> state

\* A reply of this motor before the deadline ends the transaction.
Reply ==
    /\ waiting # "none" /\ toHost # <<>>
    /\ toHost' = Tail(toHost)
    /\ timeouts' = 0
    /\ state' = StateAfter
    /\ waiting' = "none"
    /\ UNCHANGED <<toMotor, motor, lastTried, refused>>

\* The number of timeouts in a row that latches safe-stop.
TimesOut == timeouts + 1 >= limit

\* The deadline passes first.
Timeout ==
    /\ waiting # "none"
    /\ timeouts' = timeouts + 1
    /\ IF TimesOut
       THEN LatchSafeStop
       ELSE waiting' = "none" /\ UNCHANGED <<state, toMotor, lastTried, refused>>
    /\ UNCHANGED <<toHost, motor>>

---------------------------------------------------------------------------
(* The owner: on_activate(), the worker or send thread, releaseResources() *)

\* on_activate(): one enable attempt; a latched driver returns at once.
Enable ==
    /\ phase = "enable" /\ waiting = "none" /\ tries < EnableRetries
    /\ tries' = tries + 1
    /\ \/ Transact("enable")
       \/ state = "kSafeStopped" /\ UNCHANGED <<driverVars, busVars>>
    /\ UNCHANGED <<configVars, phase, live, initials, controls, receiving, fedBack>>

EnableFailed ==
    /\ phase = "enable" /\ waiting = "none" /\ tries = EnableRetries
    /\ phase' = "release"
    /\ UNCHANGED <<driverVars, busVars, ownerVars>>

\* encodeControlBlock() refuses unless the driver is enabled.
Encodes == state = "kEnabled"

\* The initial control frame, which must be answered.
InitialControl ==
    /\ phase = "initial" /\ waiting = "none"
    /\ Encodes
    /\ Transact("control")
    /\ phase' = IF waiting' = "none" THEN "release" ELSE phase
    /\ initials' = initials + 1
    /\ UNCHANGED <<configVars, live, tries, controls, receiving, fedBack>>

\* ActivationStartup: no room() before the settling or before an attempt.
StartupDeadline ==
    /\ phase = "initial" /\ waiting = "none" /\ pair
    /\ phase' = "release"
    /\ UNCHANGED <<driverVars, busVars, ownerVars>>

\* initial() repeats an attempt that has timed out, once.
Repeats == pair /\ initials < InitialAttempts /\ state' = "kEnabled"

\* workerLoop(): sendControl() in every period.
SendControl ==
    /\ phase = "run" /\ ~streamed
    /\ controls < MaxControls
    /\ Encodes
    /\ Transact("control")
    /\ controls' = controls + 1
    /\ UNCHANGED <<configVars, phase, live, tries, initials, receiving, fedBack>>

\* startStream(): the send socket is flushed and no longer receives.
StartStream ==
    /\ phase = "run" /\ streamed /\ receiving
    /\ receiving' = FALSE /\ toHost' = <<>>
    /\ UNCHANGED <<driverVars, toMotor, motor, configVars, phase, live, tries, initials,
                   controls, fedBack>>

\* The send thread of a streamed bus; a refused frame latches the driver.
StreamControl ==
    /\ phase = "run" /\ ~receiving
    /\ controls < MaxControls
    /\ Encodes
    /\ controls' = controls + 1
    /\ \/ /\ toMotor' = Append(toMotor, "control")
          /\ lastTried' = "control" /\ refused' = FALSE
          /\ UNCHANGED <<state, waiting>>
       \/ LatchSafeStop
    /\ UNCHANGED <<timeouts, configVars, phase, live, tries, initials, receiving, fedBack,
                   toHost, motor>>

\* latchCommunicationFault(): stale feedback on a streamed bus.
LatchCommunicationFault ==
    /\ phase = "run" /\ ~receiving /\ state = "kEnabled"
    /\ LatchSafeStop
    /\ UNCHANGED <<timeouts, ownerVars, phase, toHost, motor>>

\* How the owner goes on after a reply: a reply whose temperatures both fail,
\* or another axis, may still end the activation.
AfterReply ==
    /\ phase' \in CASE phase = "enable" -> {"initial", "release"}
                    [] phase = "initial" -> {"run", "release"}
                    [] phase = "disable" -> {"release"}
                    [] phase = "releasing" -> {"closed"}
                    [] OTHER -> {phase}
    /\ live' = (phase' = "run" \/ live)

\* ... and after a timeout.
AfterTimeout ==
    phase' = CASE phase = "initial" -> IF Repeats THEN "initial" ELSE "release"
               [] phase = "disable" -> "release"
               [] phase = "releasing" -> "closed"
               [] OTHER -> phase

Answered ==
    /\ Reply
    /\ AfterReply
    /\ UNCHANGED <<configVars, tries, initials, controls, receiving, fedBack>>

TimedOut ==
    /\ Timeout
    /\ AfterTimeout
    /\ UNCHANGED ownerVars

\* streamMonitorLoop() exists once waitForFirstFeedback() has succeeded; a
\* worker exists from the start.
Attended == streamed => ~receiving /\ fedBack

\* The system stops, by a fault anywhere or by deactivation; stopStream()
\* turns receiving on again and flushes.  On a fault the worker or the
\* monitor disables first, if there is one, otherwise releaseResources()
\* alone does.
Stop(fault) ==
    /\ phase = "run" /\ waiting = "none"
    /\ fault => Attended
    /\ phase' = IF fault THEN "disable" ELSE "release"
    /\ receiving' = TRUE
    /\ toHost' = IF receiving THEN toHost ELSE <<>>
    /\ UNCHANGED <<driverVars, configVars, live, tries, initials, controls, fedBack,
                   toMotor, motor>>

\* disable() of a latched driver does not wait for an acknowledgement.
DisableLatched(next) ==
    /\ state = "kSafeStopped"
    /\ phase' = next
    /\ Send("disable")
    /\ UNCHANGED <<state, timeouts, waiting, toHost, motor>>

\* The disable round of workerLoop() and of the monitor's disableAxes().
DisableOnFault ==
    /\ phase = "disable" /\ waiting = "none"
    /\ \/ /\ state = "kSafeStopped" /\ ~streamed
          /\ phase' = "release"
          /\ UNCHANGED <<driverVars, busVars>>
       \/ /\ streamed
          /\ DisableLatched("release")
       \/ /\ Transact("disable")
          /\ phase' = IF waiting' = "none" THEN "release" ELSE phase
    /\ UNCHANGED ownerVars

\* Mutant: disableAxes() also for joints that never became live.
SkipsAnyDisabled == state = "kDisabled" /\ streamed

\* disableAxes() skips a disabled driver: "Already acknowledged."
Skips == state = "kDisabled" /\ streamed /\ live

\* releaseResources(): disableAxes() on a streamed bus, disable() of every
\* other motor.
Release ==
    /\ phase = "release" /\ waiting = "none"
    /\ \/ /\ Skips
          /\ phase' = "closed"
          /\ UNCHANGED <<driverVars, busVars>>
       \/ DisableLatched("closed")
       \/ /\ ~Skips
          /\ Transact("disable")
          /\ phase' = IF waiting' = "none" THEN "closed" ELSE "releasing"
    /\ UNCHANGED ownerVars

---------------------------------------------------------------------------
(* The bus and the motor: not part of the repository *)

\* The motor executes the next request and answers it; the reply may be lost
\* on the way.  While the send socket does not receive, the stream does: "A
\* reply that arrived before the first streamed send does not count."
MotorStep ==
    /\ toMotor # <<>>
    /\ toMotor' = Tail(toMotor)
    /\ motor' = CASE Head(toMotor) = "enable" -> "motor"
                  [] Head(toMotor) = "disable" -> "menu"
                  [] OTHER -> motor
    /\ \/ receiving /\ toHost' = Append(toHost, Head(toMotor)) /\ UNCHANGED fedBack
       \/ ~receiving /\ controls > 0 /\ fedBack' = TRUE /\ UNCHANGED toHost
       \/ UNCHANGED <<toHost, fedBack>>
    /\ UNCHANGED <<driverVars, configVars, live, tries, initials, controls, receiving, phase>>

Lose ==
    /\ lossy
    /\ toMotor # <<>>
    /\ toMotor' = Tail(toMotor)
    /\ UNCHANGED <<driverVars, ownerVars, phase, toHost, motor>>

---------------------------------------------------------------------------

\* The activation is over.
Closed == phase = "closed" /\ UNCHANGED vars

Next ==
    \/ Enable \/ EnableFailed \/ InitialControl \/ StartupDeadline
    \/ SendControl \/ StartStream \/ StreamControl \/ LatchCommunicationFault
    \/ Answered \/ TimedOut
    \/ \E fault \in BOOLEAN : Stop(fault)
    \/ DisableOnFault \/ Release
    \/ MotorStep \/ Lose
    \/ Closed

Spec == Init /\ [][Next]_vars

\* The motor executes what reached it.
FairSpec == Spec /\ WF_vars(MotorStep)

---------------------------------------------------------------------------
(* Properties *)

DriverOK ==
    /\ state \in States
    /\ timeouts \in 0 .. limit
    /\ waiting \in Requests \cup {"none"}
    /\ lastTried \in Requests \cup {"none"}
    /\ refused \in BOOLEAN

OwnerOK ==
    /\ limit \in Limits /\ lossy \in Losses
    /\ streamed \in BOOLEAN /\ pair \in BOOLEAN /\ live \in BOOLEAN
    /\ receiving \in BOOLEAN /\ fedBack \in BOOLEAN
    /\ phase \in {"enable", "initial", "run", "disable", "release", "releasing",
                  "closed"}
    /\ tries \in 0 .. EnableRetries
    /\ initials \in 0 .. InitialAttempts
    /\ controls \in 0 .. MaxControls

BusOK ==
    /\ toMotor \in Seq(Requests) /\ toHost \in Seq(Requests)
    /\ motor \in {"menu", "motor"}

(* Every variable keeps its type; consecutive_timeouts_ stays within its
   configured limit, also over the disable rounds of a dying link. *)
TypeOK == DriverOK /\ OwnerOK /\ BusOK

(* Safe-stop is never left: no late reply to an earlier request brings a
   latched driver back, whatever the owner calls afterwards. *)
SafeStopIsFinal ==
    [][state = "kSafeStopped" => state' = "kSafeStopped"]_vars

(* A latched driver, and the owner of any driver at the end of an activation,
   has tried to send nothing after a disable: a refused frame, a timeout in
   the middle of the enable retries and a rollback all end with one, also for
   a motor whose enable was never acknowledged. *)
DisableIsLast ==
    state = "kSafeStopped" \/ phase = "closed" => lastTried = "disable"

(* A control frame never reaches a motor outside Motor Mode: replies may be
   late, but the first one of an activation answers an enable. *)
ControlNeedsMotorMode ==
    toMotor # <<>> /\ Head(toMotor) = "control" => motor = "motor"

(* On a bus that loses nothing, a motor whose last disable was accepted by
   the bus ends outside Motor Mode. *)
MotorEndsDisabled == (phase = "closed" /\ ~refused /\ ~lossy) ~> motor = "menu"

(* disableAxes() takes kDisabled for "Already acknowledged." and sends
   nothing: the motor it skips has left Motor Mode, or its disable is still
   on the way. *)
AcknowledgedMeansDisabled ==
    phase = "release" /\ Skips =>
        motor = "menu" \/ \E i \in 1 .. Len(toMotor) : toMotor[i] = "disable"

(* This is so when no request is lost: a reply that answers an earlier frame
   only says that the disable is behind it. *)
AcknowledgedUnlessLost == ~lossy => AcknowledgedMeansDisabled

(* Request by request, with its timeouts, retries and late replies, the
   driver and its owner keep the contract of a driver: no enable or control
   frame follows a disable, and kDisabled follows nothing else. *)
Contract == INSTANCE DriverContract WITH
    last <- IF lastTried \in {"enable", "control"} THEN "drive" ELSE lastTried
ImplementsContract == Contract!Spec
===========================================================================
