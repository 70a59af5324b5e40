---------------------------- MODULE SystemStop ----------------------------
(***************************************************************************)
(* Starting and stopping the whole hardware interface on several CAN buses *)
(* (src/bxi_system_interface.cpp, the periodic BxiBusStreamer::sendLoop()  *)
(* of src/bus_streamer.cpp).  A sequential bus has a worker thread that    *)
(* owns its drivers; a streamed bus has a send thread that owns them while *)
(* it runs, and a monitor that disables the motors after a fault.  The     *)
(* lifecycle thread runs on_activate() and releaseResources().  They share *)
(* safe_stopped_, running_, each stream's tx_running_ and                  *)
(* stream_stop_mutex_.                                                     *)
(*                                                                         *)
(* A driver transaction is one step with the outcomes BxiActuator allows.  *)
(* One activation is modelled.                                             *)
(***************************************************************************)
EXTENDS Naturals

CONSTANTS
    Sequential,   \* buses with rx_mode: shared
    Streamed,     \* buses with rx_mode: separate
    Broadcast,    \* the streamed buses that send one frame for all motors
    Axes,         \* positions of a motor on its bus
    Wirings       \* the configurations to look at: sets of motors

Buses == Sequential \cup Streamed
Motors == Buses \X Axes

ASSUME BusAssumption == Sequential \cap Streamed = {} /\ Broadcast \subseteq Streamed
ASSUME WiringAssumption == Wirings \subseteq SUBSET Motors

VARIABLES
    motors,       \* the configured motors
    running,      \* running_
    safeStopped,  \* safe_stopped_
    drv,          \* the state of each motor's driver, "none": not constructed
    last,         \* history: the last frame tried for each motor, "drive" for
                  \* an enable or a control frame
    live,         \* live_joints_: buses whose motors all answered
    lpc,          \* where the lifecycle thread is
    ltodo,        \* ... the buses or motors of the loop it is in
    tpc,          \* each bus's worker or send thread
    todo,         \* ... the motors left in its loop
    txRun,        \* tx_running_ of each stream
    mpc, mtodo,   \* each streamed bus's monitor
    stopLock,     \* stream_stop_mutex_
    zeroGain,     \* command_stale of the send thread's cycle
    commandOld,   \* the last write() is older than max_command_age
    stalled,      \* history: write() stopped coming while active
    staleFault,   \* history: some stream stopped with kCommandStale
    late          \* history: control frames sent after safe_stopped_

flagVars == <<running, txRun, live>>
driverVars == <<drv, last>>
lifeVars == <<lpc, ltodo>>
busVars == <<tpc, todo, zeroGain, staleFault, late>>
monitorVars == <<mpc, mtodo>>
ageVars == <<commandOld, stalled, motors>>
vars == <<flagVars, safeStopped, driverVars, lifeVars, busVars, monitorVars,
          stopLock, ageVars>>

\* The motors of a bus, and the buses that have some.
On(b) == {m \in motors : m[1] = b}
InUse(buses) == {b \in buses : On(b) # {}}

\* The buses and motors are visited in one fixed order, that of the
\* configuration: x is the next of those left.
Turn(x, left) == left # {} /\ x = CHOOSE y \in left : TRUE

Init ==
    /\ motors \in Wirings
    /\ running = FALSE /\ safeStopped = FALSE
    /\ drv = [m \in Motors |-> "none"] /\ last = [m \in Motors |-> "none"]
    /\ live = {}
    /\ lpc = "open" /\ ltodo = InUse(Buses)
    /\ tpc = [b \in Buses |-> "off"] /\ todo = [b \in Buses |-> {}]
    /\ txRun = [b \in Streamed |-> FALSE]
    /\ mpc = [b \in Streamed |-> "off"] /\ mtodo = [b \in Streamed |-> {}]
    /\ stopLock = "free"
    /\ zeroGain = [b \in Streamed |-> FALSE]
    /\ commandOld = FALSE /\ stalled = FALSE
    /\ staleFault = FALSE /\ late = [b \in Buses |-> 0]

---------------------------------------------------------------------------
(* What a driver call leaves behind: see BxiActuator *)

\* latchSafeStop(), which ends in a disable frame.
Latch(ms) ==
    /\ drv' = [m \in Motors |-> IF m \in ms THEN "kSafeStopped" ELSE drv[m]]
    /\ last' = [m \in Motors |-> IF m \in ms THEN "disable" ELSE last[m]]

\* disable(): a latched driver does not wait; otherwise the motor answers,
\* does not answer, or the driver latches.
Disable(m) ==
    /\ last' = [last EXCEPT ![m] = "disable"]
    /\ drv' \in {[drv EXCEPT ![m] = s] :
                   s \in IF drv[m] = "kSafeStopped" THEN {"kSafeStopped"}
                         ELSE {drv[m], "kDisabled", "kSafeStopped"}}

\* One motor in disableAxes(): a disabled driver is skipped.
DisableAxis(m) ==
    IF drv[m] = "kDisabled" THEN UNCHANGED driverVars ELSE Disable(m)

---------------------------------------------------------------------------
(* Lifecycle thread: on_activate() *)

notLife == <<busVars, monitorVars, ageVars>>

Loop(pc, set) == lpc' = pc /\ ltodo' = set

\* One bus: open, enable every motor, initial control frame of every motor.
OpenBus(b) ==
    /\ lpc = "open" /\ Turn(b, ltodo)
    /\ drv' = [m \in Motors |-> IF m \in On(b) THEN "kEnabled" ELSE drv[m]]
    /\ last' = [m \in Motors |-> IF m \in On(b) THEN "drive" ELSE last[m]]
    /\ live' = live \cup {b}
    /\ ltodo' = ltodo \ {b}
    /\ UNCHANGED <<notLife, lpc, running, txRun, safeStopped, stopLock>>

\* ... or some motor is the first to fail: an open or spec error before its
\* driver exists, no answer, or a latched driver.
OpenFails(b) ==
    /\ lpc = "open" /\ Turn(b, ltodo)
    /\ \E done \in SUBSET On(b), m \in On(b) :
         /\ m \notin done
         /\ \E s \in {"none", "kDisabled", "kEnabled", "kSafeStopped"} :
              drv' = [x \in Motors |-> IF x \in done THEN "kEnabled"
                                       ELSE IF x = m THEN s ELSE drv[x]]
         /\ last' = [x \in Motors |->
                       IF x \in done \/ (x = m /\ drv'[m] \in {"kDisabled", "kEnabled"})
                       THEN "drive"
                       ELSE IF x = m /\ drv'[m] = "kSafeStopped" THEN "disable"
                       ELSE last[x]]
    /\ Loop("release", {})
    /\ UNCHANGED <<notLife, flagVars, safeStopped, stopLock>>

Opened ==
    /\ lpc = "open" /\ ltodo = {}
    /\ running' = TRUE
    /\ Loop("start", InUse(Buses))
    /\ UNCHANGED <<notLife, driverVars, txRun, live, safeStopped, stopLock>>

\* startStream() or a worker thread.
StartBus(b) ==
    /\ lpc = "start" /\ Turn(b, ltodo)
    /\ tpc' = [tpc EXCEPT ![b] = "top"]
    /\ txRun' = IF b \in Streamed THEN [txRun EXCEPT ![b] = TRUE] ELSE txRun
    /\ ltodo' = ltodo \ {b}
    /\ UNCHANGED <<lpc, driverVars, running, live, safeStopped, stopLock, todo,
                   zeroGain, staleFault, late, monitorVars, ageVars>>

\* ... fails, or a thread cannot be created.
StartFails(b) ==
    /\ lpc = "start" /\ Turn(b, ltodo)
    /\ Loop("release", {})
    /\ UNCHANGED <<notLife, driverVars, flagVars, safeStopped, stopLock>>

Started ==
    /\ lpc = "start" /\ ltodo = {}
    /\ Loop("await", InUse(Streamed))
    /\ UNCHANGED <<notLife, driverVars, flagVars, safeStopped, stopLock>>

\* Mutant: the error path forgets releaseResources().
AwaitFeedbackNoRelease(b) ==
    /\ lpc = "await" /\ Turn(b, ltodo)
    /\ \/ /\ ~safeStopped
          /\ Loop("await", ltodo \ {b})
       \/ Loop("closed", {})
    /\ UNCHANGED <<notLife, driverVars, flagVars, safeStopped, stopLock>>

\* waitForFirstFeedback() of one stream: all motors answered, or not in time
\* (also when the send thread has ended).
AwaitFeedback(b) ==
    /\ lpc = "await" /\ Turn(b, ltodo)
    /\ \/ /\ ~safeStopped
          /\ Loop("await", ltodo \ {b})
       \/ Loop("release", {})
    /\ UNCHANGED <<notLife, driverVars, flagVars, safeStopped, stopLock>>

\* The monitors start, one after the other.
StartMonitors ==
    /\ lpc = "await" /\ ltodo = {}
    /\ Loop("monitor", InUse(Streamed))
    /\ UNCHANGED <<notLife, driverVars, flagVars, safeStopped, stopLock>>

StartMonitor(b) ==
    /\ lpc = "monitor" /\ Turn(b, ltodo)
    /\ mpc' = [mpc EXCEPT ![b] = "poll"]
    /\ ltodo' = ltodo \ {b}
    /\ UNCHANGED <<lpc, driverVars, flagVars, safeStopped, stopLock, busVars,
                   mtodo, ageVars>>

\* A monitor's thread cannot be created, or armWrites() throws.
MonitorFails ==
    /\ lpc = "monitor"
    /\ Loop("release", {})
    /\ UNCHANGED <<notLife, driverVars, flagVars, safeStopped, stopLock>>

\* Mutant: a fault since the streams' own checks goes unnoticed.
ActivatedUnchecked ==
    /\ lpc = "monitor" /\ ltodo = {}
    /\ Loop("active", {})
    /\ UNCHANGED <<notLife, driverVars, flagVars, safeStopped, stopLock>>

\* "never report a stopped system as active"
Activated ==
    /\ lpc = "monitor" /\ ltodo = {}
    /\ Loop(IF safeStopped THEN "release" ELSE "active", {})
    /\ UNCHANGED <<notLife, driverVars, flagVars, safeStopped, stopLock>>

---------------------------------------------------------------------------
(* Lifecycle thread: releaseResources() *)

Deactivate ==
    /\ lpc = "active"
    /\ Loop("release", {})
    /\ UNCHANGED <<notLife, driverVars, flagVars, safeStopped, stopLock>>

\* Mutant: the send threads are asked to stop one by one, with their join.
ReleaseNoRequest ==
    /\ lpc = "release"
    /\ running' = FALSE
    /\ Loop("stop", InUse(Streamed))
    /\ UNCHANGED <<notLife, driverVars, txRun, live, safeStopped, stopLock>>

\* running_ = false, then requestStop() on every stream before any join.
ReleaseBegin ==
    /\ lpc = "release"
    /\ running' = FALSE
    /\ Loop("request", InUse(Streamed))
    /\ UNCHANGED <<notLife, driverVars, txRun, live, safeStopped, stopLock>>

RequestStop(b) ==
    /\ lpc = "request" /\ Turn(b, ltodo)
    /\ txRun' = [txRun EXCEPT ![b] = FALSE]
    /\ ltodo' = ltodo \ {b}
    /\ UNCHANGED <<notLife, lpc, driverVars, running, live, safeStopped, stopLock>>

Requested ==
    /\ lpc = "request" /\ ltodo = {}
    /\ Loop("stop", InUse(Streamed))
    /\ UNCHANGED <<notLife, driverVars, flagVars, safeStopped, stopLock>>

Ended(b) == tpc[b] \in {"off", "done"}

\* stopStream() takes the lock, stops the stream and joins its threads.
StopStream(b) ==
    /\ lpc = "stop" /\ Turn(b, ltodo) /\ stopLock = "free"
    /\ stopLock' = "lifecycle"
    /\ Loop("joining", ltodo \ {b})
    /\ txRun' = [txRun EXCEPT ![b] = FALSE]
    /\ UNCHANGED <<notLife, driverVars, running, live, safeStopped>>

StreamStopped ==
    /\ lpc = "joining" /\ \A b \in Streamed \ ltodo : Ended(b)
    /\ stopLock' = "free"
    /\ lpc' = "stop"
    /\ UNCHANGED <<notLife, ltodo, driverVars, flagVars, safeStopped>>

\* Mutant: the monitors are not joined.
JoinWorkersOnly ==
    /\ lpc = "stop" /\ ltodo = {}
    /\ \A b \in Buses : Ended(b)
    /\ Loop("disable", UNION {On(b) : b \in Streamed \cap live})
    /\ UNCHANGED <<notLife, driverVars, flagVars, safeStopped, stopLock>>

\* Mutant: the workers are not joined.
JoinMonitorsOnly ==
    /\ lpc = "stop" /\ ltodo = {}
    /\ \A b \in Streamed : mpc[b] \in {"off", "done"}
    /\ Loop("disable", UNION {On(b) : b \in Streamed \cap live})
    /\ UNCHANGED <<notLife, driverVars, flagVars, safeStopped, stopLock>>

\* stopWorkers() joins the workers and the monitors.
JoinWorkers ==
    /\ lpc = "stop" /\ ltodo = {}
    /\ \A b \in Buses : Ended(b)
    /\ \A b \in Streamed : mpc[b] \in {"off", "done"}
    /\ Loop("disable", UNION {On(b) : b \in Streamed \cap live})
    /\ UNCHANGED <<notLife, driverVars, flagVars, safeStopped, stopLock>>

\* disableAxes() of the streamed buses that went live ...
ReleaseAxis(m) ==
    /\ lpc = "disable" /\ Turn(m, ltodo)
    /\ DisableAxis(m)
    /\ ltodo' = ltodo \ {m}
    /\ UNCHANGED <<notLife, lpc, flagVars, safeStopped, stopLock>>

\* Mutant: a driver that never left kDisabled is taken for disabled, though
\* its enable frame may have been sent.
ReleaseRestSkipsDisabled ==
    /\ lpc = "disable" /\ ltodo = {}
    /\ Loop("rest", {m \in Motors : /\ drv[m] \notin {"none", "kDisabled"}
                                   /\ m[1] \notin Streamed \cap live})
    /\ UNCHANGED <<notLife, driverVars, flagVars, safeStopped, stopLock>>

ReleaseRest ==
    /\ lpc = "disable" /\ ltodo = {}
    /\ Loop("rest", {m \in Motors : drv[m] # "none" /\ m[1] \notin Streamed \cap live})
    /\ UNCHANGED <<notLife, driverVars, flagVars, safeStopped, stopLock>>

\* ... and disable() of every other motor that has a driver.
ReleaseMotor(m) ==
    /\ lpc = "rest" /\ Turn(m, ltodo)
    /\ Disable(m)
    /\ ltodo' = ltodo \ {m}
    /\ UNCHANGED <<notLife, lpc, flagVars, safeStopped, stopLock>>

Released ==
    /\ lpc = "rest" /\ ltodo = {}
    /\ Loop("closed", {})
    /\ UNCHANGED <<notLife, driverVars, flagVars, safeStopped, stopLock>>

LifeStep ==
    \/ \E b \in Buses : OpenBus(b) \/ OpenFails(b) \/ StartBus(b) \/ StartFails(b)
    \/ Opened \/ Started \/ StartMonitors \/ MonitorFails \/ Activated
    \/ \E b \in Streamed :
         AwaitFeedback(b) \/ StartMonitor(b) \/ RequestStop(b) \/ StopStream(b)
    \/ ReleaseBegin \/ Requested \/ StreamStopped \/ JoinWorkers
    \/ ReleaseRest \/ Released
    \/ \E m \in Motors : ReleaseAxis(m) \/ ReleaseMotor(m)

---------------------------------------------------------------------------
(* The worker of a sequential bus: workerLoop() *)

notThread == <<lifeVars, flagVars, monitorVars, stopLock, ageVars, zeroGain, staleFault>>

At(b, pc) == tpc[b] = pc
Go(b, pc) == tpc' = [tpc EXCEPT ![b] = pc]

LateCount(b) == [late EXCEPT ![b] = IF safeStopped THEN @ + 1 ELSE @]

\* The history of a frame given to the bus for the motors ms.
Frame(b, ms) ==
    /\ last' = [m \in Motors |-> IF m \in ms THEN "drive" ELSE last[m]]
    /\ late' = LateCount(b)

WorkerTop(b) ==
    /\ At(b, "top")
    /\ IF running /\ ~safeStopped
       THEN Go(b, "cycle") /\ todo' = [todo EXCEPT ![b] = On(b)]
       ELSE Go(b, "exit") /\ UNCHANGED todo
    /\ UNCHANGED <<notThread, driverVars, safeStopped, late>>

\* Mutant: one check for all transactions of a cycle.
WorkerCheckFirst(b) ==
    /\ At(b, "cycle")
    /\ Go(b, IF todo[b] = {} THEN "top"
             ELSE IF safeStopped /\ todo[b] = On(b) THEN "exit" ELSE "send")
    /\ UNCHANGED <<notThread, todo, driverVars, safeStopped, late>>

\* The check before every transaction, and the one that ends the cycle.
WorkerCheck(b) ==
    /\ At(b, "cycle")
    /\ Go(b, IF safeStopped THEN "exit" ELSE IF todo[b] = {} THEN "top" ELSE "send")
    /\ UNCHANGED <<notThread, todo, driverVars, safeStopped, late>>

\* sendControl() of one motor: refused before any frame, sent (answered or
\* not), answered with a thermal fault, or the driver latches.
WorkerSend(b, m) ==
    /\ At(b, "send") /\ Turn(m, todo[b])
    /\ todo' = [todo EXCEPT ![b] = @ \ {m}]
    /\ Go(b, "cycle")
    /\ \/ UNCHANGED <<driverVars, late, safeStopped>>
       \/ Frame(b, {m}) /\ safeStopped' \in {safeStopped, TRUE} /\ UNCHANGED drv
       \/ Latch({m}) /\ safeStopped' = TRUE /\ late' \in {late, LateCount(b)}
    /\ UNCHANGED notThread

WorkerExit(b) ==
    /\ At(b, "exit")
    /\ IF safeStopped
       THEN Go(b, "disable") /\ todo' = [todo EXCEPT ![b] = On(b)]
       ELSE Go(b, "done") /\ UNCHANGED todo
    /\ UNCHANGED <<notThread, driverVars, safeStopped, late>>

\* A latched driver "already sent a best-effort disable".
WorkerDisable(b) ==
    /\ At(b, "disable")
    /\ \/ \E m \in todo[b] :
            /\ Turn(m, todo[b])
            /\ IF drv[m] = "kSafeStopped" THEN UNCHANGED driverVars ELSE Disable(m)
            /\ todo' = [todo EXCEPT ![b] = @ \ {m}]
            /\ UNCHANGED tpc
       \/ todo[b] = {} /\ Go(b, "done") /\ UNCHANGED <<todo, driverVars>>
    /\ UNCHANGED <<notThread, safeStopped, late>>

Worker(b) ==
    \/ WorkerTop(b) \/ WorkerCheck(b) \/ WorkerExit(b) \/ WorkerDisable(b)
    \/ \E m \in On(b) : WorkerSend(b, m)

---------------------------------------------------------------------------
(* The send thread of a streamed bus: BxiBusStreamer::sendLoop() *)

txFrame == <<lifeVars, flagVars, monitorVars, stopLock, ageVars>>

\* Mutant: only a fault ends the loop.
TxTopFaultOnly(b) ==
    /\ At(b, "top")
    /\ Go(b, IF ~safeStopped THEN "cycle" ELSE "done")
    /\ UNCHANGED <<txFrame, todo, zeroGain, staleFault, late, driverVars, safeStopped>>

TxTop(b) ==
    /\ At(b, "top")
    /\ Go(b, IF txRun[b] /\ ~safeStopped THEN "cycle" ELSE "done")
    /\ UNCHANGED <<txFrame, todo, zeroGain, staleFault, late, driverVars, safeStopped>>

\* One cycle up to its frames: stale feedback latches one driver; a
\* temperature, a forbidden reply, the owner's hook or an encode failure
\* stops without a latch; a late slot or a burst is skipped unless the
\* command is old.
TxCycle(b) ==
    /\ At(b, "cycle")
    /\ \/ /\ \E m \in On(b) : Latch({m})
          /\ safeStopped' = TRUE /\ Go(b, "done") /\ UNCHANGED <<todo, zeroGain>>
       \/ /\ safeStopped' = TRUE /\ Go(b, "done")
          /\ UNCHANGED <<driverVars, todo, zeroGain>>
       \/ /\ ~commandOld /\ Go(b, "top")
          /\ UNCHANGED <<driverVars, todo, zeroGain, safeStopped>>
       \/ /\ Go(b, "frame")
          /\ zeroGain' = [zeroGain EXCEPT ![b] = commandOld]
          /\ todo' = [todo EXCEPT ![b] = On(b)]
          /\ UNCHANGED <<driverVars, safeStopped>>
    /\ UNCHANGED <<txFrame, staleFault, late>>

\* may_send(), without the slot's deadline.
MaySend(b) == txRun[b] /\ ~safeStopped

\* The check before every frame.  A closed window ends the cycle.
TxCheck(b) ==
    /\ At(b, "frame") /\ todo[b] # {}
    /\ \/ MaySend(b) /\ Go(b, "send")
       \/ MaySend(b) /\ ~zeroGain[b] /\ Go(b, "top")  \* the slot has expired
       \/ ~MaySend(b) /\ Go(b, IF zeroGain[b] \/ safeStopped THEN "done" ELSE "top")
    /\ UNCHANGED <<txFrame, todo, zeroGain, staleFault, late, driverVars, safeStopped>>

\* One frame for one motor, or for all of a broadcast bus.  A refused frame
\* latches the drivers it was for.
TxSend(b) ==
    /\ At(b, "send")
    /\ \E ms \in IF b \in Broadcast THEN {todo[b]}
                 ELSE {{m} : m \in {x \in todo[b] : Turn(x, todo[b])}} :
         \/ /\ Frame(b, ms) /\ Go(b, "frame")
            /\ todo' = [todo EXCEPT ![b] = @ \ ms]
            /\ UNCHANGED <<drv, safeStopped>>
         \/ /\ Latch(ms) /\ safeStopped' = TRUE /\ Go(b, "done")
            /\ UNCHANGED <<todo, late>>
    /\ UNCHANGED <<txFrame, zeroGain, staleFault>>

\* All frames have been sent: a cycle of zero-gain frames ends in kCommandStale.
TxCycleEnds(b) ==
    /\ At(b, "frame") /\ todo[b] = {}
    /\ Go(b, IF zeroGain[b] THEN "done" ELSE "top")
    /\ safeStopped' = (safeStopped \/ zeroGain[b])
    /\ staleFault' = (staleFault \/ zeroGain[b])
    /\ UNCHANGED <<txFrame, todo, zeroGain, late, driverVars>>

Sender(b) == TxTop(b) \/ TxCycle(b) \/ TxCheck(b) \/ TxSend(b) \/ TxCycleEnds(b)

---------------------------------------------------------------------------
(* The monitor of a streamed bus: streamMonitorLoop() *)

notMonitor == <<lifeVars, flagVars, busVars, ageVars, safeStopped>>

\* The poll ends when running_ is cleared or the send thread has ended ...
MonitorPoll(b) ==
    /\ mpc[b] = "poll" /\ (~running \/ Ended(b))
    /\ mpc' = [mpc EXCEPT ![b] = "decide"]
    /\ UNCHANGED <<notMonitor, mtodo, stopLock, driverVars>>

\* ... and only a safe-stop of a running system is the monitor's to handle.
MonitorDecide(b) ==
    /\ mpc[b] = "decide"
    /\ mpc' = [mpc EXCEPT ![b] = IF running /\ safeStopped THEN "stop" ELSE "done"]
    /\ UNCHANGED <<notMonitor, mtodo, stopLock, driverVars>>

\* stopStream(): the send thread has ended, so its join returns at once.
MonitorStop(b) ==
    /\ mpc[b] = "stop" /\ stopLock = "free"
    /\ stopLock' = b
    /\ mpc' = [mpc EXCEPT ![b] = "joining"]
    /\ UNCHANGED <<notMonitor, mtodo, driverVars>>

MonitorStopped(b) ==
    /\ mpc[b] = "joining" /\ Ended(b)
    /\ stopLock' = "free"
    /\ mpc' = [mpc EXCEPT ![b] = "disable"]
    /\ mtodo' = [mtodo EXCEPT ![b] = On(b)]
    /\ UNCHANGED <<notMonitor, driverVars>>

\* disableAxes()
MonitorDisable(b) ==
    /\ mpc[b] = "disable"
    /\ \/ \E m \in mtodo[b] :
            /\ Turn(m, mtodo[b])
            /\ DisableAxis(m)
            /\ mtodo' = [mtodo EXCEPT ![b] = @ \ {m}]
            /\ UNCHANGED mpc
       \/ /\ mtodo[b] = {} /\ mpc' = [mpc EXCEPT ![b] = "done"]
          /\ UNCHANGED <<mtodo, driverVars>>
    /\ UNCHANGED <<notMonitor, stopLock>>

Monitor(b) ==
    \/ MonitorPoll(b) \/ MonitorDecide(b) \/ MonitorStop(b)
    \/ MonitorStopped(b) \/ MonitorDisable(b)

---------------------------------------------------------------------------
(* The age of the last write() *)

notAge == <<motors, flagVars, safeStopped, driverVars, lifeVars, busVars, monitorVars, stopLock>>

\* The owner's loop stalls, or resumes, while the system is active.
OwnerStalls ==
    /\ lpc = "active"
    /\ commandOld' = TRUE /\ stalled' = TRUE
    /\ UNCHANGED notAge

OwnerWrites ==
    /\ lpc = "active" /\ commandOld /\ ~safeStopped
    /\ commandOld' = FALSE
    /\ UNCHANGED <<notAge, stalled>>

\* No write() comes during releaseResources(); a join takes long enough for
\* the last one to grow old.
CommandAges ==
    /\ lpc \in {"joining", "disable", "rest"} /\ ~commandOld
    /\ commandOld' = TRUE
    /\ UNCHANGED <<notAge, stalled>>

Terminated == lpc = "closed" /\ UNCHANGED vars

Next ==
    \/ LifeStep \/ Deactivate
    \/ \E b \in Sequential : Worker(b)
    \/ \E b \in Streamed : Sender(b) \/ Monitor(b)
    \/ OwnerStalls \/ OwnerWrites \/ CommandAges
    \/ Terminated

Spec == Init /\ [][Next]_vars

\* Every thread keeps running; nothing forces a deactivation or a fault.
Fairness ==
    /\ WF_vars(LifeStep)
    /\ \A b \in Sequential : WF_vars(Worker(b))
    /\ \A b \in Streamed : WF_vars(Sender(b)) /\ WF_vars(Monitor(b))

FairSpec == Spec /\ Fairness

---------------------------------------------------------------------------
(* Properties *)

DriverStates == {"none", "kDisabled", "kEnabled", "kSafeStopped"}

LifePlaces ==
    {"open", "start", "await", "monitor", "active", "release", "request", "stop", "joining",
     "disable", "rest", "closed"}
ThreadPlaces == {"off", "top", "cycle", "frame", "send", "exit", "disable", "done"}
MonitorPlaces == {"off", "poll", "decide", "stop", "joining", "disable", "done"}

FlagsOK ==
    /\ running \in BOOLEAN /\ safeStopped \in BOOLEAN /\ commandOld \in BOOLEAN
    /\ stalled \in BOOLEAN /\ staleFault \in BOOLEAN
    /\ txRun \in [Streamed -> BOOLEAN] /\ zeroGain \in [Streamed -> BOOLEAN]

DriversOK ==
    /\ motors \in Wirings /\ live \subseteq Buses
    /\ drv \in [Motors -> DriverStates]
    /\ last \in [Motors -> {"none", "drive", "disable"}]

ThreadsOK ==
    /\ lpc \in LifePlaces /\ ltodo \subseteq Buses \cup Motors
    /\ tpc \in [Buses -> ThreadPlaces] /\ todo \in [Buses -> SUBSET Motors]
    /\ mpc \in [Streamed -> MonitorPlaces] /\ mtodo \in [Streamed -> SUBSET Motors]
    /\ stopLock \in {"free", "lifecycle"} \cup Streamed
    /\ late \in [Buses -> Nat]

\* Every variable keeps its type.
TypeOK == FlagsOK /\ DriversOK /\ ThreadsOK

\* After safe_stopped_ is set, by whatever thread, a bus sends at most one more
\* control frame: the one whose check had already passed.
OneLateFrame == \A b \in Buses : late[b] <= 1

\* The threads that use the drivers of bus b.
Users(b) ==
    (IF At(b, "off") \/ At(b, "done") THEN {} ELSE {"thread"})
    \cup (IF b \in Streamed /\ mpc[b] = "disable" THEN {"monitor"} ELSE {})
    \cup (IF lpc = IF b \in Streamed \cap live THEN "disable" ELSE "rest"
          THEN {"lifecycle"} ELSE {})

\* A driver is not thread-safe: at no time do two threads use the drivers of
\* one bus (send thread, monitor and releaseResources() hand them over by
\* joining).
DriversHaveOneUser == \A b \in Buses : \A u, v \in Users(b) : u = v

\* When releaseResources() has closed the buses, whatever failed and wherever
\* activation stopped, the last frame tried for every motor that had been
\* enabled is a disable.
ReleasedMeansDisabled ==
    lpc = "closed" => \A m \in Motors : last[m] # "drive"

\* on_activate() never reports "a stopped system as active": at the moment it
\* succeeds no bus thread has left its loop, whichever of them may have met a
\* fault since its own start-up check, and every stream is watched.
ActiveMeansRunning ==
    [][lpc # "active" /\ lpc' = "active" =>
         /\ \A b \in InUse(Buses) : tpc[b] \in {"top", "cycle", "frame", "send"}
         /\ \A b \in InUse(Streamed) : mpc[b] = "poll"]_vars

\* A normal deactivation never reports a stalled control loop: kCommandStale
\* needs write() to have stalled while the system was active.
StaleFaultNeedsStall == staleFault => stalled

\* A safe-stop raised on one bus disables the motors of every bus without
\* waiting for controller_manager to deactivate the component.
StopFansOut == safeStopped ~> \A m \in Motors : last[m] # "drive"

\* releaseResources() returns: nobody waits for a thread that waits for it.
ReleaseReturns == lpc = "release" ~> lpc = "closed"

\* Where the thread of bus b has a step it may take at once.
ThreadMoves(b) ==
    \/ tpc[b] \in {"top", "cycle"}
    \/ tpc[b] = "send" /\ todo[b] # {}
    \/ tpc[b] \in IF b \in Streamed THEN {"frame"} ELSE {"exit", "disable"}

\* Nobody waits in a circle: a bus thread waits for nobody; who holds
\* stream_stop_mutex_ is releaseResources() joining bus threads, or a monitor
\* whose join returns at once; and whomever releaseResources() waits for has
\* been told to stop.
WaitsAreLayered ==
    /\ \A b \in Buses : Ended(b) \/ ThreadMoves(b)
    /\ \/ stopLock = "free" \/ lpc = "joining"
       \/ \E b \in Streamed : stopLock = b /\ mpc[b] = "joining" /\ Ended(b)
    /\ lpc \in {"stop", "joining"} => ~running /\ \A b \in Streamed : ~txRun[b]

\* Whichever threads call it, and whatever fails, each motor's driver keeps
\* the contract of a driver: a control frame only goes to an enabled motor,
\* and once some thread has disabled it none drives it again.
MotorContract(m) == INSTANCE DriverContract WITH state <- drv[m], last <- last[m]
ImplementsContract ==
    /\ \A m \in Motors : MotorContract(m)!Init
    /\ [][\A m \in Motors : [MotorContract(m)!Next]_<<drv[m], last[m]>>]_driverVars
===========================================================================
