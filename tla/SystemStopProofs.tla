-------------------------- MODULE SystemStopProofs --------------------------
(***************************************************************************)
(* Proofs about SystemStop, for any number of buses and motors.            *)
(***************************************************************************)
EXTENDS SystemStop, TLAPS

---------------------------------------------------------------------------
(* The inductive invariant *)

Stopping == {"stop", "joining", "disable", "rest", "closed"}

\* Which threads exist at which place of the lifecycle thread, and what the loops
\* have left.
StageInv ==
    /\ lpc = "open" => /\ ltodo \subseteq InUse(Buses) /\ InUse(Buses) \ ltodo \subseteq live
                       /\ live \cap ltodo = {}
                       /\ \A b \in Buses : tpc[b] = "off"
    /\ lpc = "start" => /\ ltodo \subseteq InUse(Buses) \cap live
                        /\ \A b \in ltodo : tpc[b] = "off"
    /\ lpc \in {"open", "start", "await"} => \A b \in Streamed : mpc[b] = "off"
    /\ lpc \in {"disable", "rest", "closed"} =>
          /\ \A b \in Buses : Ended(b)
          /\ \A b \in Streamed : mpc[b] \in {"off", "done"}
    /\ \A b \in Streamed : mpc[b] = "disable" => Ended(b)
    /\ \A b \in Buses : tpc[b] # "off" => b \in live /\ On(b) # {}
    /\ \A b \in Buses : todo[b] \subseteq On(b)
    /\ \A b \in Streamed : mtodo[b] \subseteq On(b)

\* A control frame after the stop leaves the thread in front of its next check.
LateInv ==
    \A b \in Buses : late[b] <= 1 /\ (late[b] # 0 => safeStopped /\ tpc[b] # "send")

\* A command that has grown old during releaseResources() never reaches the end
\* of a zero-gain cycle, because every stream has been asked to stop.
StaleInv ==
    /\ \A b \in Streamed : txRun[b] => On(b) # {}
    /\ lpc = "request" => \A b \in Streamed : txRun[b] => b \in ltodo
    /\ lpc \in Stopping => \A b \in Streamed : ~txRun[b]
    /\ commandOld => stalled \/ lpc \in Stopping
    /\ \A b \in Streamed :
          zeroGain[b] /\ tpc[b] \in {"frame", "send"} =>
             stalled \/ (lpc \in Stopping /\ tpc[b] = "frame" /\ todo[b] # {})
    /\ staleFault => stalled

\* A motor whose last frame was no disable has a driver, and on a live stream
\* that driver does not take it for disabled.
DriveInv ==
    /\ \A m \in Motors : last[m] = "drive" => drv[m] # "none" /\ m \in motors
    /\ lpc = "open" => \A m \in Motors : m[1] \notin live => drv[m] = "none"
    /\ \A m \in motors : m[1] \in live => drv[m] # "none"
    /\ \A m \in Motors :
          m[1] \in Streamed \cap live /\ drv[m] = "kDisabled" =>
             last[m] # "drive" /\ Ended(m[1]) /\ lpc \notin {"open", "start"}

\* What releaseResources() has disabled stays so.
ReleaseInv ==
    /\ lpc = "disable" =>
          \A m \in Motors : last[m] = "drive" => m \in ltodo \/ m[1] \notin Streamed \cap live
    /\ lpc = "rest" => \A m \in Motors : last[m] = "drive" => m \in ltodo
    /\ lpc = "closed" => \A m \in Motors : last[m] # "drive"

IInv == TypeOK /\ StageInv /\ LateInv /\ StaleInv /\ DriveInv /\ ReleaseInv

---------------------------------------------------------------------------
(* Facts about the operators *)

\* A motor of the configuration is on one of the buses.
LEMMA MotorFacts ==
    ASSUME DriversOK
    PROVE  /\ motors \subseteq Motors
           /\ \A m \in Motors : m[1] \in Buses
           /\ \A b : On(b) \subseteq Motors /\ \A m \in On(b) : m[1] = b /\ m \in motors
           /\ \A m \in motors : m \in On(m[1])
  BY WiringAssumption DEF DriversOK, Motors, On

\* The one whose turn it is is among those left.
LEMMA TurnFacts ==
    ASSUME NEW left, NEW x, Turn(x, left)
    PROVE  x \in left
  BY DEF Turn

\* latchSafeStop() of some drivers.
LEMMA LatchFacts ==
    ASSUME DriversOK, NEW ms \in SUBSET Motors, Latch(ms)
    PROVE  /\ drv' \in [Motors -> DriverStates] /\ last' \in [Motors -> {"none", "drive", "disable"}]
           /\ \A m \in ms : drv'[m] = "kSafeStopped" /\ last'[m] = "disable"
           /\ \A m \in Motors \ ms : drv'[m] = drv[m] /\ last'[m] = last[m]
  BY DEF Latch, DriversOK, DriverStates

\* disable() of one driver.
LEMMA DisableFacts ==
    ASSUME DriversOK, NEW m \in Motors, Disable(m)
    PROVE  /\ drv' \in [Motors -> DriverStates] /\ last' \in [Motors -> {"none", "drive", "disable"}]
           /\ last'[m] = "disable" /\ (drv[m] # "none" => drv'[m] # "none")
           /\ \A x \in Motors \ {m} : drv'[x] = drv[x] /\ last'[x] = last[x]
  <1>1. PICK s \in {drv[m], "kDisabled", "kSafeStopped"} : drv' = [drv EXCEPT ![m] = s]
    BY DEF Disable
  <1>2. last' = [last EXCEPT ![m] = "disable"]
    BY DEF Disable
  <1> QED
    BY <1>1, <1>2 DEF DriversOK, DriverStates

\* A driver that disableAxes() takes for disabled keeps its last frame.
LEMMA DisableAxisFacts ==
    ASSUME DriversOK, NEW m \in Motors, DisableAxis(m)
    PROVE  /\ drv' \in [Motors -> DriverStates] /\ last' \in [Motors -> {"none", "drive", "disable"}]
           /\ last'[m] = "disable" \/ (drv[m] = "kDisabled" /\ last'[m] = last[m])
           /\ drv[m] # "none" => drv'[m] # "none"
           /\ \A x \in Motors \ {m} : drv'[x] = drv[x] /\ last'[x] = last[x]
  <1>1. CASE drv[m] = "kDisabled"
    BY <1>1 DEF DisableAxis, driverVars, DriversOK
  <1>2. CASE drv[m] # "kDisabled"
    BY <1>2, DisableFacts DEF DisableAxis
  <1> QED
    BY <1>1, <1>2

\* A frame is given to the bus.
LEMMA FrameFacts ==
    ASSUME DriversOK, ThreadsOK, NEW b \in Buses, NEW ms \in SUBSET Motors, Frame(b, ms)
    PROVE  /\ last' \in [Motors -> {"none", "drive", "disable"}]
           /\ \A m \in ms : last'[m] = "drive"
           /\ \A m \in Motors \ ms : last'[m] = last[m]
           /\ late' = LateCount(b)
  BY DEF Frame, DriversOK

\* A frame is late if it follows safe_stopped_.
LEMMA LateCountFacts ==
    ASSUME ThreadsOK, NEW b \in Buses
    PROVE  /\ LateCount(b) \in [Buses -> Nat]
           /\ LateCount(b)[b] = IF safeStopped THEN late[b] + 1 ELSE late[b]
           /\ \A c \in Buses \ {b} : LateCount(b)[c] = late[c]
  BY DEF LateCount, ThreadsOK

\* A step of the thread of bus b, as the other parts of the invariant see it.
ThreadStep(b) ==
    /\ ~Ended(b) /\ tpc' \in [Buses -> ThreadPlaces] /\ tpc'[b] # "off"
    /\ todo' \in [Buses -> SUBSET Motors] /\ todo'[b] \subseteq On(b)
    /\ \A c \in Buses \ {b} : tpc'[c] = tpc[c] /\ todo'[c] = todo[c]
    /\ UNCHANGED <<motors, live, lpc, ltodo, mpc, mtodo>>

\* A step of a bus's thread keeps the stages.
LEMMA ThreadStage ==
    ASSUME StageInv, ThreadsOK, NEW b \in Buses, ThreadStep(b)
    PROVE  StageInv'
  <1>1. \A c \in Buses : On(c)' = On(c)
    BY DEF ThreadStep, On
  <1>2. InUse(Buses)' = InUse(Buses)
    BY <1>1 DEF InUse
  <1>3. /\ \A c \in Buses : tpc[c] = "off" => c # b /\ tpc'[c] = "off"
        /\ \A c \in Buses : Ended(c) => c # b /\ Ended(c)'
        /\ \A c \in Buses : tpc'[c] # "off" => tpc[c] # "off"
    BY DEF ThreadStep, Ended
  <1>4. \A c \in Buses : todo'[c] \subseteq On(c)
    BY DEF ThreadStep, StageInv
  <1>5. Streamed \subseteq Buses
    BY DEF Buses
  <1>6. lpc = "start" => ltodo \subseteq Buses
    BY DEF StageInv, InUse
  <1> QED
    BY <1>1, <1>2, <1>3, <1>4, <1>5, <1>6 DEF StageInv, ThreadStep

\* The thread of a sequential bus has no part in a stream's stale command.
LEMMA WorkerStale ==
    ASSUME StaleInv, NEW b \in Buses, b \notin Streamed, ThreadStep(b),
           UNCHANGED <<txRun, commandOld, stalled, zeroGain, staleFault>>
    PROVE  StaleInv'
  BY DEF StaleInv, ThreadStep, On, Buses

\* Drivers of bus b that are only disabled or latched; others are left alone.
OnlyStops(b) ==
    /\ DriversOK'
    /\ \A x \in Motors : x \notin On(b) => drv'[x] = drv[x] /\ last'[x] = last[x]
    /\ \A x \in Motors : last'[x] \in {last[x], "disable"} /\ (drv[x] # "none" => drv'[x] # "none")
    /\ \A x \in Motors : drv'[x] = "kDisabled" /\ last'[x] = "drive" => drv[x] = "kDisabled"

\* A step that touches no driver only stops drivers.
LEMMA IdleDrivers ==
    ASSUME NEW b, DriversOK, UNCHANGED <<motors, live, drv, last>>
    PROVE  OnlyStops(b)
  <1>1. DriversOK'
    BY DEF DriversOK
  <1>2. \A x \in Motors : drv'[x] = drv[x] /\ last'[x] = last[x]
    OBVIOUS
  <1> QED
    BY <1>1, <1>2 DEF OnlyStops

\* The invariant holds initially.
LEMMA InitInv == Init => IInv
  <1> SUFFICES ASSUME Init PROVE IInv
    OBVIOUS
  <1>1. FlagsOK
    BY DEF Init, FlagsOK
  <1>2. DriversOK
    BY DEF Init, DriversOK, DriverStates
  <1>3. ThreadsOK
    BY DEF Init, ThreadsOK, LifePlaces, ThreadPlaces, MonitorPlaces, InUse, Buses
  <1>4. StageInv
    BY DEF Init, StageInv, InUse, Buses
  <1>5. LateInv /\ StaleInv
    BY DEF Init, LateInv, StaleInv, Stopping
  <1>6. DriveInv /\ ReleaseInv
    BY <1>2, MotorFacts DEF Init, DriveInv, ReleaseInv
  <1> QED
    BY <1>1, <1>2, <1>3, <1>4, <1>5, <1>6 DEF IInv, TypeOK

---------------------------------------------------------------------------
(* Every step preserves the invariant *)

\* One bus opens.
LEMMA OpenBusInv ==
    ASSUME IInv, NEW b \in Buses, OpenBus(b)
    PROVE  IInv'
  <1>0. /\ FlagsOK /\ DriversOK /\ ThreadsOK
        /\ StageInv /\ LateInv /\ StaleInv /\ DriveInv /\ ReleaseInv
    BY DEF IInv, TypeOK
  <1>1. /\ lpc = "open" /\ b \in ltodo
        /\ drv' = [m \in Motors |-> IF m \in On(b) THEN "kEnabled" ELSE drv[m]]
        /\ last' = [m \in Motors |-> IF m \in On(b) THEN "drive" ELSE last[m]]
        /\ live' = live \cup {b} /\ ltodo' = ltodo \ {b}
        /\ UNCHANGED <<motors, running, safeStopped, lpc, tpc, todo, txRun, mpc, mtodo,
           stopLock, zeroGain, commandOld, stalled, staleFault, late>>
    BY TurnFacts DEF OpenBus, flagVars, driverVars, lifeVars, busVars, monitorVars,
       ageVars, notLife, notThread, notMonitor, notAge, txFrame, Loop, Go, At
  <1>2. /\ motors \subseteq Motors /\ \A x \in Motors : x[1] \in Buses
        /\ \A c : On(c) \subseteq Motors /\ \A x \in On(c) : x[1] = c /\ x \in motors
        /\ \A x \in motors : x \in On(x[1])
    BY <1>0, MotorFacts
  <1>3. FlagsOK'
    BY <1>0, <1>1, <1>2 DEF FlagsOK
  <1>4. DriversOK'
    BY <1>0, <1>1, <1>2 DEF DriversOK, DriverStates
  <1>5. ThreadsOK'
    BY <1>0, <1>1, <1>2 DEF ThreadsOK, LifePlaces, ThreadPlaces, MonitorPlaces
  <1>6. StageInv'
    BY <1>0, <1>1, <1>2 DEF StageInv, Ended, On, InUse
  <1>7. LateInv'
    BY <1>0, <1>1, <1>2 DEF LateInv
  <1>8. StaleInv'
    BY <1>0, <1>1, <1>2 DEF StaleInv, Stopping, On
  <1>9. DriveInv'
    BY <1>0, <1>1, <1>2 DEF DriveInv, Ended, StageInv
  <1>10. ReleaseInv'
    BY <1>0, <1>1, <1>2 DEF ReleaseInv
  <1> QED
    BY <1>3, <1>4, <1>5, <1>6, <1>7, <1>8, <1>9, <1>10 DEF IInv, TypeOK

\* A bus fails to open.
LEMMA OpenFailsInv ==
    ASSUME IInv, NEW b \in Buses, OpenFails(b)
    PROVE  IInv'
  <1>0. /\ FlagsOK /\ DriversOK /\ ThreadsOK
        /\ StageInv /\ LateInv /\ StaleInv /\ DriveInv /\ ReleaseInv
    BY DEF IInv, TypeOK
  <1>1. /\ lpc = "open" /\ b \in ltodo /\ lpc' = "release" /\ ltodo' = {}
        /\ \A m \in Motors \ On(b) : drv'[m] = drv[m] /\ last'[m] = last[m]
        /\ \A m \in On(b) : last'[m] = "drive" => drv'[m] # "none" \/ last[m] = "drive"
        /\ drv' \in [Motors -> DriverStates] /\ last' \in [Motors -> {"none", "drive", "disable"}]
        /\ UNCHANGED <<motors, running, safeStopped, live, tpc, todo, txRun, mpc, mtodo,
           stopLock, zeroGain, commandOld, stalled, staleFault, late>>
    <2>1. PICK done \in SUBSET On(b), m \in On(b) :
            /\ \E s \in {"none", "kDisabled", "kEnabled", "kSafeStopped"} :
                 drv' = [x \in Motors |-> IF x \in done THEN "kEnabled"
                                         ELSE IF x = m THEN s ELSE drv[x]]
            /\ last' = [x \in Motors |->
                          IF x \in done \/ (x = m /\ drv'[m] \in {"kDisabled", "kEnabled"})
                          THEN "drive"
                          ELSE IF x = m /\ drv'[m] = "kSafeStopped" THEN "disable"
                          ELSE last[x]]
      BY DEF OpenFails
    <2>2. PICK s \in DriverStates :
            drv' = [x \in Motors |-> IF x \in done THEN "kEnabled"
                                    ELSE IF x = m THEN s ELSE drv[x]]
      BY <2>1 DEF DriverStates
    <2>3. /\ lpc = "open" /\ b \in ltodo /\ lpc' = "release" /\ ltodo' = {}
          /\ UNCHANGED <<motors, running, safeStopped, live, tpc, todo, txRun, mpc, mtodo,
             stopLock, zeroGain, commandOld, stalled, staleFault, late>>
      BY TurnFacts DEF OpenFails, flagVars, busVars, monitorVars, ageVars, notLife, Loop
    <2>4. drv' \in [Motors -> DriverStates] /\ last' \in [Motors -> {"none", "drive", "disable"}]
      BY <1>0, <2>1, <2>2 DEF DriversOK, DriverStates
    <2>5. \A x \in Motors \ On(b) : drv'[x] = drv[x] /\ last'[x] = last[x]
      BY <2>1, <2>2
    <2>6. \A x \in On(b) : last'[x] = "drive" => drv'[x] # "none" \/ last[x] = "drive"
      BY <1>0, <2>1, <2>2, MotorFacts
    <2> QED
      BY <2>3, <2>4, <2>5, <2>6
  <1>2. /\ motors \subseteq Motors /\ \A x \in Motors : x[1] \in Buses
        /\ \A c : On(c) \subseteq Motors /\ \A x \in On(c) : x[1] = c /\ x \in motors
        /\ \A x \in motors : x \in On(x[1])
    BY <1>0, MotorFacts
  <1>3. FlagsOK'
    BY <1>0, <1>1, <1>2 DEF FlagsOK
  <1>4. DriversOK'
    BY <1>0, <1>1, <1>2 DEF DriversOK, DriverStates
  <1>5. ThreadsOK'
    BY <1>0, <1>1, <1>2 DEF ThreadsOK, LifePlaces, ThreadPlaces, MonitorPlaces
  <1>6. StageInv'
    BY <1>0, <1>1, <1>2 DEF StageInv, Ended, On, InUse
  <1>7. LateInv'
    BY <1>0, <1>1, <1>2 DEF LateInv
  <1>8. StaleInv'
    BY <1>0, <1>1, <1>2 DEF StaleInv, Stopping, On
  <1>9. DriveInv'
    BY <1>0, <1>1, <1>2 DEF DriveInv, Ended, StageInv
  <1>10. ReleaseInv'
    BY <1>0, <1>1, <1>2 DEF ReleaseInv
  <1> QED
    BY <1>3, <1>4, <1>5, <1>6, <1>7, <1>8, <1>9, <1>10 DEF IInv, TypeOK

\* All buses are open.
LEMMA OpenedInv ==
    ASSUME IInv, Opened
    PROVE  IInv'
  <1>0. /\ FlagsOK /\ DriversOK /\ ThreadsOK
        /\ StageInv /\ LateInv /\ StaleInv /\ DriveInv /\ ReleaseInv
    BY DEF IInv, TypeOK
  <1>1. /\ lpc = "open" /\ ltodo = {} /\ running' = TRUE
        /\ lpc' = "start" /\ ltodo' = InUse(Buses)
        /\ UNCHANGED <<motors, safeStopped, drv, last, live, tpc, todo, txRun, mpc,
           mtodo, stopLock, zeroGain, commandOld, stalled, staleFault, late>>
    BY DEF Opened, flagVars, driverVars, lifeVars, busVars, monitorVars, ageVars,
       notLife, notThread, notMonitor, notAge, txFrame, Loop, Go, At
  <1>2. /\ motors \subseteq Motors /\ \A x \in Motors : x[1] \in Buses
        /\ \A c : On(c) \subseteq Motors /\ \A x \in On(c) : x[1] = c /\ x \in motors
        /\ \A x \in motors : x \in On(x[1])
    BY <1>0, MotorFacts
  <1>3. FlagsOK'
    BY <1>0, <1>1, <1>2 DEF FlagsOK
  <1>4. DriversOK'
    BY <1>0, <1>1, <1>2 DEF DriversOK, DriverStates
  <1>5. ThreadsOK'
    BY <1>0, <1>1, <1>2 DEF ThreadsOK, LifePlaces, ThreadPlaces, MonitorPlaces, InUse
  <1>6. StageInv'
    BY <1>0, <1>1, <1>2 DEF StageInv, Ended, On, InUse
  <1>7. LateInv'
    BY <1>0, <1>1, <1>2 DEF LateInv
  <1>8. StaleInv'
    BY <1>0, <1>1, <1>2 DEF StaleInv, Stopping, On
  <1>9. DriveInv'
    BY <1>0, <1>1, <1>2 DEF DriveInv, Ended
  <1>10. ReleaseInv'
    BY <1>0, <1>1, <1>2 DEF ReleaseInv
  <1> QED
    BY <1>3, <1>4, <1>5, <1>6, <1>7, <1>8, <1>9, <1>10 DEF IInv, TypeOK

\* A bus's thread starts.
LEMMA StartBusInv ==
    ASSUME IInv, NEW b \in Buses, StartBus(b)
    PROVE  IInv'
  <1>0. /\ FlagsOK /\ DriversOK /\ ThreadsOK
        /\ StageInv /\ LateInv /\ StaleInv /\ DriveInv /\ ReleaseInv
    BY DEF IInv, TypeOK
  <1>1. /\ lpc = "start" /\ b \in ltodo
        /\ tpc' = [tpc EXCEPT ![b] = "top"] /\ ltodo' = ltodo \ {b}
        /\ txRun' = IF b \in Streamed THEN [txRun EXCEPT ![b] = TRUE] ELSE txRun
        /\ UNCHANGED <<motors, running, safeStopped, drv, last, live, lpc, todo, mpc,
           mtodo, stopLock, zeroGain, commandOld, stalled, staleFault, late>>
    BY TurnFacts DEF StartBus, flagVars, driverVars, lifeVars, busVars, monitorVars,
       ageVars, notLife, notThread, notMonitor, notAge, txFrame, Loop, Go, At
  <1>2. /\ motors \subseteq Motors /\ \A x \in Motors : x[1] \in Buses
        /\ \A c : On(c) \subseteq Motors /\ \A x \in On(c) : x[1] = c /\ x \in motors
        /\ \A x \in motors : x \in On(x[1])
    BY <1>0, MotorFacts
  <1>3. FlagsOK'
    BY <1>0, <1>1, <1>2 DEF FlagsOK
  <1>4. DriversOK'
    BY <1>0, <1>1, <1>2 DEF DriversOK, DriverStates
  <1>5. ThreadsOK'
    BY <1>0, <1>1, <1>2 DEF ThreadsOK, LifePlaces, ThreadPlaces, MonitorPlaces
  <1>6. StageInv'
    BY <1>0, <1>1, <1>2 DEF StageInv, Ended, On, InUse, ThreadsOK
  <1>7. LateInv'
    BY <1>0, <1>1, <1>2 DEF LateInv, ThreadsOK
  <1>8. StaleInv'
    BY <1>0, <1>1, <1>2 DEF StaleInv, Stopping, On, StageInv, InUse, FlagsOK, ThreadsOK
  <1>9. DriveInv'
    BY <1>0, <1>1, <1>2 DEF DriveInv, Ended, ThreadsOK
  <1>10. ReleaseInv'
    BY <1>0, <1>1, <1>2 DEF ReleaseInv
  <1> QED
    BY <1>3, <1>4, <1>5, <1>6, <1>7, <1>8, <1>9, <1>10 DEF IInv, TypeOK

\* A thread cannot be started.
LEMMA StartFailsInv ==
    ASSUME IInv, NEW b \in Buses, StartFails(b)
    PROVE  IInv'
  <1>0. /\ FlagsOK /\ DriversOK /\ ThreadsOK
        /\ StageInv /\ LateInv /\ StaleInv /\ DriveInv /\ ReleaseInv
    BY DEF IInv, TypeOK
  <1>1. /\ lpc = "start" /\ lpc' = "release" /\ ltodo' = {}
        /\ UNCHANGED <<motors, running, safeStopped, drv, last, live, tpc, todo, txRun,
           mpc, mtodo, stopLock, zeroGain, commandOld, stalled, staleFault, late>>
    BY DEF StartFails, flagVars, driverVars, lifeVars, busVars, monitorVars, ageVars,
       notLife, notThread, notMonitor, notAge, txFrame, Loop, Go, At
  <1>2. /\ motors \subseteq Motors /\ \A x \in Motors : x[1] \in Buses
        /\ \A c : On(c) \subseteq Motors /\ \A x \in On(c) : x[1] = c /\ x \in motors
        /\ \A x \in motors : x \in On(x[1])
    BY <1>0, MotorFacts
  <1>3. FlagsOK'
    BY <1>0, <1>1, <1>2 DEF FlagsOK
  <1>4. DriversOK'
    BY <1>0, <1>1, <1>2 DEF DriversOK, DriverStates
  <1>5. ThreadsOK'
    BY <1>0, <1>1, <1>2 DEF ThreadsOK, LifePlaces, ThreadPlaces, MonitorPlaces
  <1>6. StageInv'
    BY <1>0, <1>1, <1>2 DEF StageInv, Ended, On, InUse
  <1>7. LateInv'
    BY <1>0, <1>1, <1>2 DEF LateInv
  <1>8. StaleInv'
    BY <1>0, <1>1, <1>2 DEF StaleInv, Stopping, On
  <1>9. DriveInv'
    BY <1>0, <1>1, <1>2 DEF DriveInv, Ended
  <1>10. ReleaseInv'
    BY <1>0, <1>1, <1>2 DEF ReleaseInv
  <1> QED
    BY <1>3, <1>4, <1>5, <1>6, <1>7, <1>8, <1>9, <1>10 DEF IInv, TypeOK

\* A monitor cannot be started.
LEMMA MonitorFailsInv ==
    ASSUME IInv, MonitorFails
    PROVE  IInv'
  <1>0. /\ FlagsOK /\ DriversOK /\ ThreadsOK
        /\ StageInv /\ LateInv /\ StaleInv /\ DriveInv /\ ReleaseInv
    BY DEF IInv, TypeOK
  <1>1. /\ lpc = "monitor" /\ lpc' = "release" /\ ltodo' = {}
        /\ UNCHANGED <<motors, running, safeStopped, drv, last, live, tpc, todo, txRun,
           mpc, mtodo, stopLock, zeroGain, commandOld, stalled, staleFault, late>>
    BY DEF MonitorFails, flagVars, driverVars, lifeVars, busVars, monitorVars, ageVars,
       notLife, notThread, notMonitor, notAge, txFrame, Loop, Go, At
  <1>2. /\ motors \subseteq Motors /\ \A x \in Motors : x[1] \in Buses
        /\ \A c : On(c) \subseteq Motors /\ \A x \in On(c) : x[1] = c /\ x \in motors
        /\ \A x \in motors : x \in On(x[1])
    BY <1>0, MotorFacts
  <1>3. FlagsOK'
    BY <1>0, <1>1, <1>2 DEF FlagsOK
  <1>4. DriversOK'
    BY <1>0, <1>1, <1>2 DEF DriversOK, DriverStates
  <1>5. ThreadsOK'
    BY <1>0, <1>1, <1>2 DEF ThreadsOK, LifePlaces, ThreadPlaces, MonitorPlaces
  <1>6. StageInv'
    BY <1>0, <1>1, <1>2 DEF StageInv, Ended, On, InUse
  <1>7. LateInv'
    BY <1>0, <1>1, <1>2 DEF LateInv
  <1>8. StaleInv'
    BY <1>0, <1>1, <1>2 DEF StaleInv, Stopping, On
  <1>9. DriveInv'
    BY <1>0, <1>1, <1>2 DEF DriveInv, Ended
  <1>10. ReleaseInv'
    BY <1>0, <1>1, <1>2 DEF ReleaseInv
  <1> QED
    BY <1>3, <1>4, <1>5, <1>6, <1>7, <1>8, <1>9, <1>10 DEF IInv, TypeOK

\* All threads have started.
LEMMA StartedInv ==
    ASSUME IInv, Started
    PROVE  IInv'
  <1>0. /\ FlagsOK /\ DriversOK /\ ThreadsOK
        /\ StageInv /\ LateInv /\ StaleInv /\ DriveInv /\ ReleaseInv
    BY DEF IInv, TypeOK
  <1>1. /\ lpc = "start" /\ lpc' = "await" /\ ltodo' = InUse(Streamed)
        /\ UNCHANGED <<motors, running, safeStopped, drv, last, live, tpc, todo, txRun,
           mpc, mtodo, stopLock, zeroGain, commandOld, stalled, staleFault, late>>
    BY DEF Started, flagVars, driverVars, lifeVars, busVars, monitorVars, ageVars,
       notLife, notThread, notMonitor, notAge, txFrame, Loop, Go, At
  <1>2. /\ motors \subseteq Motors /\ \A x \in Motors : x[1] \in Buses
        /\ \A c : On(c) \subseteq Motors /\ \A x \in On(c) : x[1] = c /\ x \in motors
        /\ \A x \in motors : x \in On(x[1])
    BY <1>0, MotorFacts
  <1>3. FlagsOK'
    BY <1>0, <1>1, <1>2 DEF FlagsOK
  <1>4. DriversOK'
    BY <1>0, <1>1, <1>2 DEF DriversOK, DriverStates
  <1>5. ThreadsOK'
    BY <1>0, <1>1, <1>2 DEF ThreadsOK, LifePlaces, ThreadPlaces, MonitorPlaces, InUse,
       Buses
  <1>6. StageInv'
    BY <1>0, <1>1, <1>2 DEF StageInv, Ended, On, InUse
  <1>7. LateInv'
    BY <1>0, <1>1, <1>2 DEF LateInv
  <1>8. StaleInv'
    BY <1>0, <1>1, <1>2 DEF StaleInv, Stopping, On
  <1>9. DriveInv'
    BY <1>0, <1>1, <1>2 DEF DriveInv, Ended
  <1>10. ReleaseInv'
    BY <1>0, <1>1, <1>2 DEF ReleaseInv
  <1> QED
    BY <1>3, <1>4, <1>5, <1>6, <1>7, <1>8, <1>9, <1>10 DEF IInv, TypeOK

\* waitForFirstFeedback() of one stream.
LEMMA AwaitFeedbackInv ==
    ASSUME IInv, NEW b \in Streamed, AwaitFeedback(b)
    PROVE  IInv'
  <1>0. /\ FlagsOK /\ DriversOK /\ ThreadsOK
        /\ StageInv /\ LateInv /\ StaleInv /\ DriveInv /\ ReleaseInv
    BY DEF IInv, TypeOK
  <1>1. /\ lpc = "await" /\ lpc' \in {"await", "release"} /\ ltodo' \subseteq ltodo
        /\ UNCHANGED <<motors, running, safeStopped, drv, last, live, tpc, todo, txRun,
           mpc, mtodo, stopLock, zeroGain, commandOld, stalled, staleFault, late>>
    BY DEF AwaitFeedback, flagVars, driverVars, lifeVars, busVars, monitorVars, ageVars,
       notLife, notThread, notMonitor, notAge, txFrame, Loop, Go, At
  <1>2. /\ motors \subseteq Motors /\ \A x \in Motors : x[1] \in Buses
        /\ \A c : On(c) \subseteq Motors /\ \A x \in On(c) : x[1] = c /\ x \in motors
        /\ \A x \in motors : x \in On(x[1])
    BY <1>0, MotorFacts
  <1>3. FlagsOK'
    BY <1>0, <1>1, <1>2 DEF FlagsOK
  <1>4. DriversOK'
    BY <1>0, <1>1, <1>2 DEF DriversOK, DriverStates
  <1>5. ThreadsOK'
    BY <1>0, <1>1, <1>2 DEF ThreadsOK, LifePlaces, ThreadPlaces, MonitorPlaces
  <1>6. StageInv'
    BY <1>0, <1>1, <1>2 DEF StageInv, Ended, On, InUse
  <1>7. LateInv'
    BY <1>0, <1>1, <1>2 DEF LateInv
  <1>8. StaleInv'
    BY <1>0, <1>1, <1>2 DEF StaleInv, Stopping, On
  <1>9. DriveInv'
    BY <1>0, <1>1, <1>2 DEF DriveInv, Ended
  <1>10. ReleaseInv'
    BY <1>0, <1>1, <1>2 DEF ReleaseInv
  <1> QED
    BY <1>3, <1>4, <1>5, <1>6, <1>7, <1>8, <1>9, <1>10 DEF IInv, TypeOK

\* The monitors are next.
LEMMA StartMonitorsInv ==
    ASSUME IInv, StartMonitors
    PROVE  IInv'
  <1>0. /\ FlagsOK /\ DriversOK /\ ThreadsOK
        /\ StageInv /\ LateInv /\ StaleInv /\ DriveInv /\ ReleaseInv
    BY DEF IInv, TypeOK
  <1>1. /\ lpc = "await" /\ lpc' = "monitor" /\ ltodo' = InUse(Streamed)
        /\ UNCHANGED <<motors, running, safeStopped, drv, last, live, tpc, todo, txRun,
           mpc, mtodo, stopLock, zeroGain, commandOld, stalled, staleFault, late>>
    BY DEF StartMonitors, flagVars, driverVars, lifeVars, busVars, monitorVars, ageVars,
       notLife, notThread, notMonitor, notAge, txFrame, Loop, Go, At
  <1>2. /\ motors \subseteq Motors /\ \A x \in Motors : x[1] \in Buses
        /\ \A c : On(c) \subseteq Motors /\ \A x \in On(c) : x[1] = c /\ x \in motors
        /\ \A x \in motors : x \in On(x[1])
    BY <1>0, MotorFacts
  <1>3. FlagsOK'
    BY <1>0, <1>1, <1>2 DEF FlagsOK
  <1>4. DriversOK'
    BY <1>0, <1>1, <1>2 DEF DriversOK, DriverStates
  <1>5. ThreadsOK'
    BY <1>0, <1>1, <1>2 DEF ThreadsOK, LifePlaces, ThreadPlaces, MonitorPlaces, InUse,
       Buses
  <1>6. StageInv'
    BY <1>0, <1>1, <1>2 DEF StageInv, Ended, On, InUse
  <1>7. LateInv'
    BY <1>0, <1>1, <1>2 DEF LateInv
  <1>8. StaleInv'
    BY <1>0, <1>1, <1>2 DEF StaleInv, Stopping, On
  <1>9. DriveInv'
    BY <1>0, <1>1, <1>2 DEF DriveInv, Ended
  <1>10. ReleaseInv'
    BY <1>0, <1>1, <1>2 DEF ReleaseInv
  <1> QED
    BY <1>3, <1>4, <1>5, <1>6, <1>7, <1>8, <1>9, <1>10 DEF IInv, TypeOK

\* A monitor starts.
LEMMA StartMonitorInv ==
    ASSUME IInv, NEW b \in Streamed, StartMonitor(b)
    PROVE  IInv'
  <1>0. /\ FlagsOK /\ DriversOK /\ ThreadsOK
        /\ StageInv /\ LateInv /\ StaleInv /\ DriveInv /\ ReleaseInv
    BY DEF IInv, TypeOK
  <1>1. /\ lpc = "monitor" /\ ltodo' = ltodo \ {b} /\ mpc' = [mpc EXCEPT ![b] = "poll"]
        /\ UNCHANGED <<motors, running, safeStopped, drv, last, live, lpc, tpc, todo,
           txRun, mtodo, stopLock, zeroGain, commandOld, stalled, staleFault, late>>
    BY DEF StartMonitor, flagVars, driverVars, lifeVars, busVars, monitorVars, ageVars,
       notLife, notThread, notMonitor, notAge, txFrame, Loop, Go, At
  <1>2. /\ motors \subseteq Motors /\ \A x \in Motors : x[1] \in Buses
        /\ \A c : On(c) \subseteq Motors /\ \A x \in On(c) : x[1] = c /\ x \in motors
        /\ \A x \in motors : x \in On(x[1])
    BY <1>0, MotorFacts
  <1>3. FlagsOK'
    BY <1>0, <1>1, <1>2 DEF FlagsOK
  <1>4. DriversOK'
    BY <1>0, <1>1, <1>2 DEF DriversOK, DriverStates
  <1>5. ThreadsOK'
    BY <1>0, <1>1, <1>2 DEF ThreadsOK, LifePlaces, ThreadPlaces, MonitorPlaces
  <1>6. StageInv'
    BY <1>0, <1>1, <1>2 DEF StageInv, Ended, On, InUse, ThreadsOK
  <1>7. LateInv'
    BY <1>0, <1>1, <1>2 DEF LateInv
  <1>8. StaleInv'
    BY <1>0, <1>1, <1>2 DEF StaleInv, Stopping, On
  <1>9. DriveInv'
    BY <1>0, <1>1, <1>2 DEF DriveInv, Ended
  <1>10. ReleaseInv'
    BY <1>0, <1>1, <1>2 DEF ReleaseInv
  <1> QED
    BY <1>3, <1>4, <1>5, <1>6, <1>7, <1>8, <1>9, <1>10 DEF IInv, TypeOK

\* The system is active, or has stopped already.
LEMMA ActivatedInv ==
    ASSUME IInv, Activated
    PROVE  IInv'
  <1>0. /\ FlagsOK /\ DriversOK /\ ThreadsOK
        /\ StageInv /\ LateInv /\ StaleInv /\ DriveInv /\ ReleaseInv
    BY DEF IInv, TypeOK
  <1>1. /\ lpc = "monitor" /\ lpc' \in {"release", "active"} /\ ltodo' = {}
        /\ UNCHANGED <<motors, running, safeStopped, drv, last, live, tpc, todo, txRun,
           mpc, mtodo, stopLock, zeroGain, commandOld, stalled, staleFault, late>>
    BY DEF Activated, flagVars, driverVars, lifeVars, busVars, monitorVars, ageVars,
       notLife, notThread, notMonitor, notAge, txFrame, Loop, Go, At
  <1>2. /\ motors \subseteq Motors /\ \A x \in Motors : x[1] \in Buses
        /\ \A c : On(c) \subseteq Motors /\ \A x \in On(c) : x[1] = c /\ x \in motors
        /\ \A x \in motors : x \in On(x[1])
    BY <1>0, MotorFacts
  <1>3. FlagsOK'
    BY <1>0, <1>1, <1>2 DEF FlagsOK
  <1>4. DriversOK'
    BY <1>0, <1>1, <1>2 DEF DriversOK, DriverStates
  <1>5. ThreadsOK'
    BY <1>0, <1>1, <1>2 DEF ThreadsOK, LifePlaces, ThreadPlaces, MonitorPlaces
  <1>6. StageInv'
    BY <1>0, <1>1, <1>2 DEF StageInv, Ended, On, InUse
  <1>7. LateInv'
    BY <1>0, <1>1, <1>2 DEF LateInv
  <1>8. StaleInv'
    BY <1>0, <1>1, <1>2 DEF StaleInv, Stopping, On
  <1>9. DriveInv'
    BY <1>0, <1>1, <1>2 DEF DriveInv, Ended
  <1>10. ReleaseInv'
    BY <1>0, <1>1, <1>2 DEF ReleaseInv
  <1> QED
    BY <1>3, <1>4, <1>5, <1>6, <1>7, <1>8, <1>9, <1>10 DEF IInv, TypeOK

\* on_deactivate().
LEMMA DeactivateInv ==
    ASSUME IInv, Deactivate
    PROVE  IInv'
  <1>0. /\ FlagsOK /\ DriversOK /\ ThreadsOK
        /\ StageInv /\ LateInv /\ StaleInv /\ DriveInv /\ ReleaseInv
    BY DEF IInv, TypeOK
  <1>1. /\ lpc = "active" /\ lpc' = "release" /\ ltodo' = {}
        /\ UNCHANGED <<motors, running, safeStopped, drv, last, live, tpc, todo, txRun,
           mpc, mtodo, stopLock, zeroGain, commandOld, stalled, staleFault, late>>
    BY DEF Deactivate, flagVars, driverVars, lifeVars, busVars, monitorVars, ageVars,
       notLife, notThread, notMonitor, notAge, txFrame, Loop, Go, At
  <1>2. /\ motors \subseteq Motors /\ \A x \in Motors : x[1] \in Buses
        /\ \A c : On(c) \subseteq Motors /\ \A x \in On(c) : x[1] = c /\ x \in motors
        /\ \A x \in motors : x \in On(x[1])
    BY <1>0, MotorFacts
  <1>3. FlagsOK'
    BY <1>0, <1>1, <1>2 DEF FlagsOK
  <1>4. DriversOK'
    BY <1>0, <1>1, <1>2 DEF DriversOK, DriverStates
  <1>5. ThreadsOK'
    BY <1>0, <1>1, <1>2 DEF ThreadsOK, LifePlaces, ThreadPlaces, MonitorPlaces
  <1>6. StageInv'
    BY <1>0, <1>1, <1>2 DEF StageInv, Ended, On, InUse
  <1>7. LateInv'
    BY <1>0, <1>1, <1>2 DEF LateInv
  <1>8. StaleInv'
    BY <1>0, <1>1, <1>2 DEF StaleInv, Stopping, On
  <1>9. DriveInv'
    BY <1>0, <1>1, <1>2 DEF DriveInv, Ended
  <1>10. ReleaseInv'
    BY <1>0, <1>1, <1>2 DEF ReleaseInv
  <1> QED
    BY <1>3, <1>4, <1>5, <1>6, <1>7, <1>8, <1>9, <1>10 DEF IInv, TypeOK

\* releaseResources() begins.
LEMMA ReleaseBeginInv ==
    ASSUME IInv, ReleaseBegin
    PROVE  IInv'
  <1>0. /\ FlagsOK /\ DriversOK /\ ThreadsOK
        /\ StageInv /\ LateInv /\ StaleInv /\ DriveInv /\ ReleaseInv
    BY DEF IInv, TypeOK
  <1>1. /\ lpc = "release" /\ running' = FALSE
        /\ lpc' = "request" /\ ltodo' = InUse(Streamed)
        /\ UNCHANGED <<motors, safeStopped, drv, last, live, tpc, todo, txRun, mpc,
           mtodo, stopLock, zeroGain, commandOld, stalled, staleFault, late>>
    BY DEF ReleaseBegin, flagVars, driverVars, lifeVars, busVars, monitorVars, ageVars,
       notLife, notThread, notMonitor, notAge, txFrame, Loop, Go, At
  <1>2. /\ motors \subseteq Motors /\ \A x \in Motors : x[1] \in Buses
        /\ \A c : On(c) \subseteq Motors /\ \A x \in On(c) : x[1] = c /\ x \in motors
        /\ \A x \in motors : x \in On(x[1])
    BY <1>0, MotorFacts
  <1>3. FlagsOK'
    BY <1>0, <1>1, <1>2 DEF FlagsOK
  <1>4. DriversOK'
    BY <1>0, <1>1, <1>2 DEF DriversOK, DriverStates
  <1>5. ThreadsOK'
    BY <1>0, <1>1, <1>2 DEF ThreadsOK, LifePlaces, ThreadPlaces, MonitorPlaces, InUse,
       Buses
  <1>6. StageInv'
    BY <1>0, <1>1, <1>2 DEF StageInv, Ended, On, InUse
  <1>7. LateInv'
    BY <1>0, <1>1, <1>2 DEF LateInv
  <1>8. StaleInv'
    BY <1>0, <1>1, <1>2 DEF StaleInv, Stopping, On, InUse
  <1>9. DriveInv'
    BY <1>0, <1>1, <1>2 DEF DriveInv, Ended
  <1>10. ReleaseInv'
    BY <1>0, <1>1, <1>2 DEF ReleaseInv
  <1> QED
    BY <1>3, <1>4, <1>5, <1>6, <1>7, <1>8, <1>9, <1>10 DEF IInv, TypeOK

\* A stream is asked to stop.
LEMMA RequestStopInv ==
    ASSUME IInv, NEW b \in Streamed, RequestStop(b)
    PROVE  IInv'
  <1>0. /\ FlagsOK /\ DriversOK /\ ThreadsOK
        /\ StageInv /\ LateInv /\ StaleInv /\ DriveInv /\ ReleaseInv
    BY DEF IInv, TypeOK
  <1>1. /\ lpc = "request" /\ ltodo' = ltodo \ {b} /\ txRun' = [txRun EXCEPT ![b] = FALSE]
        /\ UNCHANGED <<motors, running, safeStopped, drv, last, live, lpc, tpc, todo,
           mpc, mtodo, stopLock, zeroGain, commandOld, stalled, staleFault, late>>
    BY DEF RequestStop, flagVars, driverVars, lifeVars, busVars, monitorVars, ageVars,
       notLife, notThread, notMonitor, notAge, txFrame, Loop, Go, At
  <1>2. /\ motors \subseteq Motors /\ \A x \in Motors : x[1] \in Buses
        /\ \A c : On(c) \subseteq Motors /\ \A x \in On(c) : x[1] = c /\ x \in motors
        /\ \A x \in motors : x \in On(x[1])
    BY <1>0, MotorFacts
  <1>3. FlagsOK'
    BY <1>0, <1>1, <1>2 DEF FlagsOK
  <1>4. DriversOK'
    BY <1>0, <1>1, <1>2 DEF DriversOK, DriverStates
  <1>5. ThreadsOK'
    BY <1>0, <1>1, <1>2 DEF ThreadsOK, LifePlaces, ThreadPlaces, MonitorPlaces
  <1>6. StageInv'
    BY <1>0, <1>1, <1>2 DEF StageInv, Ended, On, InUse
  <1>7. LateInv'
    BY <1>0, <1>1, <1>2 DEF LateInv
  <1>8. StaleInv'
    BY <1>0, <1>1, <1>2 DEF StaleInv, Stopping, On, FlagsOK
  <1>9. DriveInv'
    BY <1>0, <1>1, <1>2 DEF DriveInv, Ended
  <1>10. ReleaseInv'
    BY <1>0, <1>1, <1>2 DEF ReleaseInv
  <1> QED
    BY <1>3, <1>4, <1>5, <1>6, <1>7, <1>8, <1>9, <1>10 DEF IInv, TypeOK

\* All streams have been asked.
LEMMA RequestedInv ==
    ASSUME IInv, Requested
    PROVE  IInv'
  <1>0. /\ FlagsOK /\ DriversOK /\ ThreadsOK
        /\ StageInv /\ LateInv /\ StaleInv /\ DriveInv /\ ReleaseInv
    BY DEF IInv, TypeOK
  <1>1. /\ lpc = "request" /\ ltodo = {} /\ lpc' = "stop" /\ ltodo' = InUse(Streamed)
        /\ UNCHANGED <<motors, running, safeStopped, drv, last, live, tpc, todo, txRun,
           mpc, mtodo, stopLock, zeroGain, commandOld, stalled, staleFault, late>>
    BY DEF Requested, flagVars, driverVars, lifeVars, busVars, monitorVars, ageVars,
       notLife, notThread, notMonitor, notAge, txFrame, Loop, Go, At
  <1>2. /\ motors \subseteq Motors /\ \A x \in Motors : x[1] \in Buses
        /\ \A c : On(c) \subseteq Motors /\ \A x \in On(c) : x[1] = c /\ x \in motors
        /\ \A x \in motors : x \in On(x[1])
    BY <1>0, MotorFacts
  <1>3. FlagsOK'
    BY <1>0, <1>1, <1>2 DEF FlagsOK
  <1>4. DriversOK'
    BY <1>0, <1>1, <1>2 DEF DriversOK, DriverStates
  <1>5. ThreadsOK'
    BY <1>0, <1>1, <1>2 DEF ThreadsOK, LifePlaces, ThreadPlaces, MonitorPlaces, InUse,
       Buses
  <1>6. StageInv'
    BY <1>0, <1>1, <1>2 DEF StageInv, Ended, On, InUse
  <1>7. LateInv'
    BY <1>0, <1>1, <1>2 DEF LateInv
  <1>8. StaleInv'
    BY <1>0, <1>1, <1>2 DEF StaleInv, Stopping, On
  <1>9. DriveInv'
    BY <1>0, <1>1, <1>2 DEF DriveInv, Ended
  <1>10. ReleaseInv'
    BY <1>0, <1>1, <1>2 DEF ReleaseInv
  <1> QED
    BY <1>3, <1>4, <1>5, <1>6, <1>7, <1>8, <1>9, <1>10 DEF IInv, TypeOK

\* stopStream() of one stream.
LEMMA StopStreamInv ==
    ASSUME IInv, NEW b \in Streamed, StopStream(b)
    PROVE  IInv'
  <1>0. /\ FlagsOK /\ DriversOK /\ ThreadsOK
        /\ StageInv /\ LateInv /\ StaleInv /\ DriveInv /\ ReleaseInv
    BY DEF IInv, TypeOK
  <1>1. /\ lpc = "stop" /\ stopLock' = "lifecycle" /\ lpc' = "joining"
        /\ ltodo' = ltodo \ {b} /\ txRun' = [txRun EXCEPT ![b] = FALSE]
        /\ UNCHANGED <<motors, running, safeStopped, drv, last, live, tpc, todo, mpc,
           mtodo, zeroGain, commandOld, stalled, staleFault, late>>
    BY DEF StopStream, flagVars, driverVars, lifeVars, busVars, monitorVars, ageVars,
       notLife, notThread, notMonitor, notAge, txFrame, Loop, Go, At
  <1>2. /\ motors \subseteq Motors /\ \A x \in Motors : x[1] \in Buses
        /\ \A c : On(c) \subseteq Motors /\ \A x \in On(c) : x[1] = c /\ x \in motors
        /\ \A x \in motors : x \in On(x[1])
    BY <1>0, MotorFacts
  <1>3. FlagsOK'
    BY <1>0, <1>1, <1>2 DEF FlagsOK
  <1>4. DriversOK'
    BY <1>0, <1>1, <1>2 DEF DriversOK, DriverStates
  <1>5. ThreadsOK'
    BY <1>0, <1>1, <1>2 DEF ThreadsOK, LifePlaces, ThreadPlaces, MonitorPlaces
  <1>6. StageInv'
    BY <1>0, <1>1, <1>2 DEF StageInv, Ended, On, InUse
  <1>7. LateInv'
    BY <1>0, <1>1, <1>2 DEF LateInv
  <1>8. StaleInv'
    BY <1>0, <1>1, <1>2 DEF StaleInv, Stopping, On, FlagsOK
  <1>9. DriveInv'
    BY <1>0, <1>1, <1>2 DEF DriveInv, Ended
  <1>10. ReleaseInv'
    BY <1>0, <1>1, <1>2 DEF ReleaseInv
  <1> QED
    BY <1>3, <1>4, <1>5, <1>6, <1>7, <1>8, <1>9, <1>10 DEF IInv, TypeOK

\* Its threads have been joined.
LEMMA StreamStoppedInv ==
    ASSUME IInv, StreamStopped
    PROVE  IInv'
  <1>0. /\ FlagsOK /\ DriversOK /\ ThreadsOK
        /\ StageInv /\ LateInv /\ StaleInv /\ DriveInv /\ ReleaseInv
    BY DEF IInv, TypeOK
  <1>1. /\ lpc = "joining" /\ stopLock' = "free" /\ lpc' = "stop"
        /\ UNCHANGED <<motors, running, safeStopped, drv, last, live, ltodo, tpc, todo,
           txRun, mpc, mtodo, zeroGain, commandOld, stalled, staleFault, late>>
    BY DEF StreamStopped, flagVars, driverVars, lifeVars, busVars, monitorVars, ageVars,
       notLife, notThread, notMonitor, notAge, txFrame, Loop, Go, At
  <1>2. /\ motors \subseteq Motors /\ \A x \in Motors : x[1] \in Buses
        /\ \A c : On(c) \subseteq Motors /\ \A x \in On(c) : x[1] = c /\ x \in motors
        /\ \A x \in motors : x \in On(x[1])
    BY <1>0, MotorFacts
  <1>3. FlagsOK'
    BY <1>0, <1>1, <1>2 DEF FlagsOK
  <1>4. DriversOK'
    BY <1>0, <1>1, <1>2 DEF DriversOK, DriverStates
  <1>5. ThreadsOK'
    BY <1>0, <1>1, <1>2 DEF ThreadsOK, LifePlaces, ThreadPlaces, MonitorPlaces
  <1>6. StageInv'
    BY <1>0, <1>1, <1>2 DEF StageInv, Ended, On, InUse
  <1>7. LateInv'
    BY <1>0, <1>1, <1>2 DEF LateInv
  <1>8. StaleInv'
    BY <1>0, <1>1, <1>2 DEF StaleInv, Stopping, On
  <1>9. DriveInv'
    BY <1>0, <1>1, <1>2 DEF DriveInv, Ended
  <1>10. ReleaseInv'
    BY <1>0, <1>1, <1>2 DEF ReleaseInv
  <1> QED
    BY <1>3, <1>4, <1>5, <1>6, <1>7, <1>8, <1>9, <1>10 DEF IInv, TypeOK

\* stopWorkers() has joined every thread that uses a driver.
LEMMA JoinWorkersInv ==
    ASSUME IInv, JoinWorkers
    PROVE  IInv'
  <1>0. /\ FlagsOK /\ DriversOK /\ ThreadsOK
        /\ StageInv /\ LateInv /\ StaleInv /\ DriveInv /\ ReleaseInv
    BY DEF IInv, TypeOK
  <1>1. /\ lpc = "stop" /\ lpc' = "disable" /\ ltodo' = UNION {On(b) : b \in Streamed \cap live}
        /\ \A b \in Buses : Ended(b)
        /\ \A b \in Streamed : mpc[b] \in {"off", "done"}
        /\ UNCHANGED <<motors, running, safeStopped, drv, last, live, tpc, todo, txRun,
           mpc, mtodo, stopLock, zeroGain, commandOld, stalled, staleFault, late>>
    BY DEF JoinWorkers, flagVars, driverVars, lifeVars, busVars, monitorVars, ageVars,
       notLife, notThread, notMonitor, notAge, txFrame, Loop, Go, At
  <1>2. /\ motors \subseteq Motors /\ \A x \in Motors : x[1] \in Buses
        /\ \A c : On(c) \subseteq Motors /\ \A x \in On(c) : x[1] = c /\ x \in motors
        /\ \A x \in motors : x \in On(x[1])
    BY <1>0, MotorFacts
  <1>3. FlagsOK'
    BY <1>0, <1>1, <1>2 DEF FlagsOK
  <1>4. DriversOK'
    BY <1>0, <1>1, <1>2 DEF DriversOK, DriverStates
  <1>5. ThreadsOK'
    BY <1>0, <1>1, <1>2 DEF ThreadsOK, LifePlaces, ThreadPlaces, MonitorPlaces
  <1>6. StageInv'
    BY <1>0, <1>1, <1>2 DEF StageInv, Ended, On, InUse
  <1>7. LateInv'
    BY <1>0, <1>1, <1>2 DEF LateInv
  <1>8. StaleInv'
    BY <1>0, <1>1, <1>2 DEF StaleInv, Stopping, On
  <1>9. DriveInv'
    BY <1>0, <1>1, <1>2 DEF DriveInv, Ended
  <1>10. ReleaseInv'
    BY <1>0, <1>1, <1>2 DEF ReleaseInv, DriveInv
  <1> QED
    BY <1>3, <1>4, <1>5, <1>6, <1>7, <1>8, <1>9, <1>10 DEF IInv, TypeOK

\* One motor of disableAxes().
LEMMA ReleaseAxisInv ==
    ASSUME IInv, NEW m \in Motors, ReleaseAxis(m)
    PROVE  IInv'
  <1>0. /\ FlagsOK /\ DriversOK /\ ThreadsOK
        /\ StageInv /\ LateInv /\ StaleInv /\ DriveInv /\ ReleaseInv
    BY DEF IInv, TypeOK
  <1>1. /\ lpc = "disable" /\ m \in ltodo /\ ltodo' = ltodo \ {m} /\ DisableAxis(m)
        /\ UNCHANGED <<motors, running, safeStopped, live, lpc, tpc, todo, txRun, mpc,
           mtodo, stopLock, zeroGain, commandOld, stalled, staleFault, late>>
    BY TurnFacts DEF ReleaseAxis, flagVars, driverVars, lifeVars, busVars, monitorVars,
       ageVars, notLife, notThread, notMonitor, notAge, txFrame, Loop, Go, At
  <1>2. /\ motors \subseteq Motors /\ \A x \in Motors : x[1] \in Buses
        /\ \A c : On(c) \subseteq Motors /\ \A x \in On(c) : x[1] = c /\ x \in motors
        /\ \A x \in motors : x \in On(x[1])
    BY <1>0, MotorFacts
  <1>3. /\ drv' \in [Motors -> DriverStates] /\ last' \in [Motors -> {"none", "drive", "disable"}]
        /\ last'[m] = "disable" \/ (drv[m] = "kDisabled" /\ last'[m] = last[m])
        /\ drv[m] # "none" => drv'[m] # "none"
        /\ \A x \in Motors \ {m} : drv'[x] = drv[x] /\ last'[x] = last[x]
    BY <1>0, <1>1, DisableAxisFacts
  <1>4. FlagsOK'
    BY <1>0, <1>1, <1>2, <1>3 DEF FlagsOK
  <1>5. DriversOK'
    BY <1>0, <1>1, <1>2, <1>3 DEF DriversOK, DriverStates
  <1>6. ThreadsOK'
    BY <1>0, <1>1, <1>2, <1>3 DEF ThreadsOK, LifePlaces, ThreadPlaces, MonitorPlaces
  <1>7. StageInv'
    BY <1>0, <1>1, <1>2, <1>3 DEF StageInv, Ended, On, InUse
  <1>8. LateInv'
    BY <1>0, <1>1, <1>2, <1>3 DEF LateInv
  <1>9. StaleInv'
    BY <1>0, <1>1, <1>2, <1>3 DEF StaleInv, Stopping, On
  <1>10. DriveInv'
    BY <1>0, <1>1, <1>2, <1>3 DEF DriveInv, Ended, StageInv
  <1>11. ReleaseInv'
    BY <1>0, <1>1, <1>2, <1>3 DEF ReleaseInv, DriveInv
  <1> QED
    BY <1>4, <1>5, <1>6, <1>7, <1>8, <1>9, <1>10, <1>11 DEF IInv, TypeOK

\* The other motors are next.
LEMMA ReleaseRestInv ==
    ASSUME IInv, ReleaseRest
    PROVE  IInv'
  <1>0. /\ FlagsOK /\ DriversOK /\ ThreadsOK
        /\ StageInv /\ LateInv /\ StaleInv /\ DriveInv /\ ReleaseInv
    BY DEF IInv, TypeOK
  <1>1. /\ lpc = "disable" /\ ltodo = {} /\ lpc' = "rest"
        /\ ltodo' = {m \in Motors : drv[m] # "none" /\ m[1] \notin Streamed \cap live}
        /\ UNCHANGED <<motors, running, safeStopped, drv, last, live, tpc, todo, txRun,
           mpc, mtodo, stopLock, zeroGain, commandOld, stalled, staleFault, late>>
    BY DEF ReleaseRest, flagVars, driverVars, lifeVars, busVars, monitorVars, ageVars,
       notLife, notThread, notMonitor, notAge, txFrame, Loop, Go, At
  <1>2. /\ motors \subseteq Motors /\ \A x \in Motors : x[1] \in Buses
        /\ \A c : On(c) \subseteq Motors /\ \A x \in On(c) : x[1] = c /\ x \in motors
        /\ \A x \in motors : x \in On(x[1])
    BY <1>0, MotorFacts
  <1>3. FlagsOK'
    BY <1>0, <1>1, <1>2 DEF FlagsOK
  <1>4. DriversOK'
    BY <1>0, <1>1, <1>2 DEF DriversOK, DriverStates
  <1>5. ThreadsOK'
    BY <1>0, <1>1, <1>2 DEF ThreadsOK, LifePlaces, ThreadPlaces, MonitorPlaces
  <1>6. StageInv'
    BY <1>0, <1>1, <1>2 DEF StageInv, Ended, On, InUse
  <1>7. LateInv'
    BY <1>0, <1>1, <1>2 DEF LateInv
  <1>8. StaleInv'
    BY <1>0, <1>1, <1>2 DEF StaleInv, Stopping, On
  <1>9. DriveInv'
    BY <1>0, <1>1, <1>2 DEF DriveInv, Ended
  <1>10. ReleaseInv'
    BY <1>0, <1>1, <1>2 DEF ReleaseInv, DriveInv
  <1> QED
    BY <1>3, <1>4, <1>5, <1>6, <1>7, <1>8, <1>9, <1>10 DEF IInv, TypeOK

\* disable() of another motor.
LEMMA ReleaseMotorInv ==
    ASSUME IInv, NEW m \in Motors, ReleaseMotor(m)
    PROVE  IInv'
  <1>0. /\ FlagsOK /\ DriversOK /\ ThreadsOK
        /\ StageInv /\ LateInv /\ StaleInv /\ DriveInv /\ ReleaseInv
    BY DEF IInv, TypeOK
  <1>1. /\ lpc = "rest" /\ m \in ltodo /\ ltodo' = ltodo \ {m} /\ Disable(m)
        /\ UNCHANGED <<motors, running, safeStopped, live, lpc, tpc, todo, txRun, mpc,
           mtodo, stopLock, zeroGain, commandOld, stalled, staleFault, late>>
    BY TurnFacts DEF ReleaseMotor, flagVars, driverVars, lifeVars, busVars, monitorVars,
       ageVars, notLife, notThread, notMonitor, notAge, txFrame, Loop, Go, At
  <1>2. /\ motors \subseteq Motors /\ \A x \in Motors : x[1] \in Buses
        /\ \A c : On(c) \subseteq Motors /\ \A x \in On(c) : x[1] = c /\ x \in motors
        /\ \A x \in motors : x \in On(x[1])
    BY <1>0, MotorFacts
  <1>3. /\ drv' \in [Motors -> DriverStates] /\ last' \in [Motors -> {"none", "drive", "disable"}]
        /\ last'[m] = "disable" /\ (drv[m] # "none" => drv'[m] # "none")
        /\ \A x \in Motors \ {m} : drv'[x] = drv[x] /\ last'[x] = last[x]
    BY <1>0, <1>1, DisableFacts
  <1>4. FlagsOK'
    BY <1>0, <1>1, <1>2, <1>3 DEF FlagsOK
  <1>5. DriversOK'
    BY <1>0, <1>1, <1>2, <1>3 DEF DriversOK, DriverStates
  <1>6. ThreadsOK'
    BY <1>0, <1>1, <1>2, <1>3 DEF ThreadsOK, LifePlaces, ThreadPlaces, MonitorPlaces
  <1>7. StageInv'
    BY <1>0, <1>1, <1>2, <1>3 DEF StageInv, Ended, On, InUse
  <1>8. LateInv'
    BY <1>0, <1>1, <1>2, <1>3 DEF LateInv
  <1>9. StaleInv'
    BY <1>0, <1>1, <1>2, <1>3 DEF StaleInv, Stopping, On
  <1>10. DriveInv'
    BY <1>0, <1>1, <1>2, <1>3 DEF DriveInv, Ended, StageInv
  <1>11. ReleaseInv'
    BY <1>0, <1>1, <1>2, <1>3 DEF ReleaseInv
  <1> QED
    BY <1>4, <1>5, <1>6, <1>7, <1>8, <1>9, <1>10, <1>11 DEF IInv, TypeOK

\* The buses are closed.
LEMMA ReleasedInv ==
    ASSUME IInv, Released
    PROVE  IInv'
  <1>0. /\ FlagsOK /\ DriversOK /\ ThreadsOK
        /\ StageInv /\ LateInv /\ StaleInv /\ DriveInv /\ ReleaseInv
    BY DEF IInv, TypeOK
  <1>1. /\ lpc = "rest" /\ ltodo = {} /\ lpc' = "closed" /\ ltodo' = {}
        /\ UNCHANGED <<motors, running, safeStopped, drv, last, live, tpc, todo, txRun,
           mpc, mtodo, stopLock, zeroGain, commandOld, stalled, staleFault, late>>
    BY DEF Released, flagVars, driverVars, lifeVars, busVars, monitorVars, ageVars,
       notLife, notThread, notMonitor, notAge, txFrame, Loop, Go, At
  <1>2. /\ motors \subseteq Motors /\ \A x \in Motors : x[1] \in Buses
        /\ \A c : On(c) \subseteq Motors /\ \A x \in On(c) : x[1] = c /\ x \in motors
        /\ \A x \in motors : x \in On(x[1])
    BY <1>0, MotorFacts
  <1>3. FlagsOK'
    BY <1>0, <1>1, <1>2 DEF FlagsOK
  <1>4. DriversOK'
    BY <1>0, <1>1, <1>2 DEF DriversOK, DriverStates
  <1>5. ThreadsOK'
    BY <1>0, <1>1, <1>2 DEF ThreadsOK, LifePlaces, ThreadPlaces, MonitorPlaces
  <1>6. StageInv'
    BY <1>0, <1>1, <1>2 DEF StageInv, Ended, On, InUse
  <1>7. LateInv'
    BY <1>0, <1>1, <1>2 DEF LateInv
  <1>8. StaleInv'
    BY <1>0, <1>1, <1>2 DEF StaleInv, Stopping, On
  <1>9. DriveInv'
    BY <1>0, <1>1, <1>2 DEF DriveInv, Ended
  <1>10. ReleaseInv'
    BY <1>0, <1>1, <1>2 DEF ReleaseInv
  <1> QED
    BY <1>3, <1>4, <1>5, <1>6, <1>7, <1>8, <1>9, <1>10 DEF IInv, TypeOK

\* The worker's loop condition.
LEMMA WorkerTopInv ==
    ASSUME IInv, NEW b \in Sequential, WorkerTop(b)
    PROVE  IInv'
  <1>0. /\ FlagsOK /\ DriversOK /\ ThreadsOK
        /\ StageInv /\ LateInv /\ StaleInv /\ DriveInv /\ ReleaseInv
    BY DEF IInv, TypeOK
  <1>1. /\ b \in Buses /\ b \notin Streamed /\ tpc[b] = "top"
        /\ \/ tpc' = [tpc EXCEPT ![b] = "cycle"] /\ todo' = [todo EXCEPT ![b] = On(b)]
           \/ tpc' = [tpc EXCEPT ![b] = "exit"] /\ UNCHANGED todo
        /\ UNCHANGED <<motors, running, safeStopped, drv, last, live, lpc, ltodo, txRun,
           mpc, mtodo, stopLock, zeroGain, commandOld, stalled, staleFault, late>>
    BY BusAssumption DEF WorkerTop, Buses, flagVars, driverVars, lifeVars, busVars,
       monitorVars, ageVars, notLife, notThread, notMonitor, notAge, txFrame, Loop, Go,
       At
  <1>2. /\ motors \subseteq Motors /\ \A x \in Motors : x[1] \in Buses
        /\ \A c : On(c) \subseteq Motors /\ \A x \in On(c) : x[1] = c /\ x \in motors
        /\ \A x \in motors : x \in On(x[1])
    BY <1>0, MotorFacts
  <1>3. ThreadStep(b)
    BY <1>0, <1>1, <1>2 DEF ThreadStep, ThreadsOK, ThreadPlaces, StageInv, Ended
  <1>4. FlagsOK'
    BY <1>0, <1>1, <1>2, <1>3 DEF FlagsOK
  <1>5. DriversOK'
    BY <1>0, <1>1, <1>2, <1>3 DEF DriversOK, DriverStates
  <1>6. ThreadsOK'
    BY <1>0, <1>1, <1>2, <1>3 DEF ThreadsOK, LifePlaces, ThreadPlaces, MonitorPlaces,
       ThreadStep
  <1>7. StageInv'
    BY <1>0, <1>1, <1>3, ThreadStage
  <1>8. LateInv'
    BY <1>0, <1>1, <1>2, <1>3 DEF LateInv, ThreadStep
  <1>9. StaleInv'
    BY <1>0, <1>1, <1>3, WorkerStale
  <1>10. DriveInv'
    BY <1>0, <1>1, <1>2, <1>3 DEF DriveInv, Ended, ThreadStep, StageInv
  <1>11. ReleaseInv'
    BY <1>0, <1>1, <1>2, <1>3 DEF ReleaseInv, ThreadStep, StageInv, Ended
  <1> QED
    BY <1>4, <1>5, <1>6, <1>7, <1>8, <1>9, <1>10, <1>11 DEF IInv, TypeOK

\* The worker's check before a transaction.
LEMMA WorkerCheckInv ==
    ASSUME IInv, NEW b \in Sequential, WorkerCheck(b)
    PROVE  IInv'
  <1>0. /\ FlagsOK /\ DriversOK /\ ThreadsOK
        /\ StageInv /\ LateInv /\ StaleInv /\ DriveInv /\ ReleaseInv
    BY DEF IInv, TypeOK
  <1>1. /\ b \in Buses /\ b \notin Streamed /\ tpc[b] = "cycle"
        /\ \/ tpc' \in {[tpc EXCEPT ![b] = "exit"], [tpc EXCEPT ![b] = "top"]}
           \/ ~safeStopped /\ tpc' = [tpc EXCEPT ![b] = "send"]
        /\ UNCHANGED <<motors, running, safeStopped, drv, last, live, lpc, ltodo, todo,
           txRun, mpc, mtodo, stopLock, zeroGain, commandOld, stalled, staleFault,
           late>>
    BY BusAssumption DEF WorkerCheck, Buses, flagVars, driverVars, lifeVars, busVars,
       monitorVars, ageVars, notLife, notThread, notMonitor, notAge, txFrame, Loop, Go,
       At
  <1>2. /\ motors \subseteq Motors /\ \A x \in Motors : x[1] \in Buses
        /\ \A c : On(c) \subseteq Motors /\ \A x \in On(c) : x[1] = c /\ x \in motors
        /\ \A x \in motors : x \in On(x[1])
    BY <1>0, MotorFacts
  <1>3. ThreadStep(b)
    BY <1>0, <1>1, <1>2 DEF ThreadStep, ThreadsOK, ThreadPlaces, StageInv, Ended
  <1>4. FlagsOK'
    BY <1>0, <1>1, <1>2, <1>3 DEF FlagsOK
  <1>5. DriversOK'
    BY <1>0, <1>1, <1>2, <1>3 DEF DriversOK, DriverStates
  <1>6. ThreadsOK'
    BY <1>0, <1>1, <1>2, <1>3 DEF ThreadsOK, LifePlaces, ThreadPlaces, MonitorPlaces,
       ThreadStep
  <1>7. StageInv'
    BY <1>0, <1>1, <1>3, ThreadStage
  <1>8. LateInv'
    BY <1>0, <1>1, <1>2, <1>3 DEF LateInv, ThreadStep, ThreadsOK
  <1>9. StaleInv'
    BY <1>0, <1>1, <1>3, WorkerStale
  <1>10. DriveInv'
    BY <1>0, <1>1, <1>2, <1>3 DEF DriveInv, Ended, ThreadStep, StageInv
  <1>11. ReleaseInv'
    BY <1>0, <1>1, <1>2, <1>3 DEF ReleaseInv, ThreadStep, StageInv, Ended
  <1> QED
    BY <1>4, <1>5, <1>6, <1>7, <1>8, <1>9, <1>10, <1>11 DEF IInv, TypeOK

\* A transaction of the worker.
LEMMA WorkerSendInv ==
    ASSUME IInv, NEW b \in Sequential, NEW m \in On(b), WorkerSend(b, m)
    PROVE  IInv'
  <1>0. /\ FlagsOK /\ DriversOK /\ ThreadsOK
        /\ StageInv /\ LateInv /\ StaleInv /\ DriveInv /\ ReleaseInv
    BY DEF IInv, TypeOK
  <1>1. /\ b \in Buses /\ b \notin Streamed /\ tpc[b] = "send" /\ m \in todo[b]
        /\ todo' = [todo EXCEPT ![b] = @ \ {m}] /\ tpc' = [tpc EXCEPT ![b] = "cycle"]
        /\ \/ UNCHANGED <<driverVars, late, safeStopped>>
           \/ Frame(b, {m}) /\ safeStopped' \in {safeStopped, TRUE} /\ UNCHANGED drv
           \/ Latch({m}) /\ safeStopped' = TRUE /\ late' \in {late, LateCount(b)}
        /\ UNCHANGED <<motors, running, live, lpc, ltodo, txRun, mpc, mtodo, stopLock,
           zeroGain, commandOld, stalled, staleFault>>
    BY BusAssumption, TurnFacts DEF WorkerSend, Buses, flagVars, driverVars, lifeVars,
       busVars, monitorVars, ageVars, notLife, notThread, notMonitor, notAge, txFrame,
       Loop, Go, At
  <1>2. /\ motors \subseteq Motors /\ \A x \in Motors : x[1] \in Buses
        /\ \A c : On(c) \subseteq Motors /\ \A x \in On(c) : x[1] = c /\ x \in motors
        /\ \A x \in motors : x \in On(x[1])
    BY <1>0, MotorFacts
  <1>3. /\ ThreadStep(b) /\ DriversOK'
        /\ \A x \in Motors : x \notin On(b) => drv'[x] = drv[x] /\ last'[x] = last[x]
        /\ \A x \in Motors : drv'[x] \in {drv[x], "kSafeStopped"}
        /\ late' \in [Buses -> Nat] /\ (safeStopped => safeStopped') /\ safeStopped' \in BOOLEAN
        /\ late'[b] = late[b] \/ (safeStopped' /\ late'[b] = late[b] + 1)
        /\ \A c \in Buses \ {b} : late'[c] = late[c]
    <2>0. ThreadStep(b)
      BY <1>0, <1>1, <1>2 DEF ThreadStep, ThreadsOK, ThreadPlaces, StageInv, Ended
    <2>1. {m} \in SUBSET Motors /\ m \in On(b)
      BY <1>2
    <2>2. /\ LateCount(b) \in [Buses -> Nat]
          /\ LateCount(b)[b] = IF safeStopped THEN late[b] + 1 ELSE late[b]
          /\ \A c \in Buses \ {b} : LateCount(b)[c] = late[c]
      BY <1>0, <1>1, LateCountFacts
    <2>3. CASE UNCHANGED <<driverVars, late, safeStopped>>
      BY <1>0, <1>1, <2>0, <2>3 DEF driverVars, DriversOK, ThreadsOK, FlagsOK
    <2>4. CASE Frame(b, {m}) /\ safeStopped' \in {safeStopped, TRUE} /\ UNCHANGED drv
      <3>1. /\ last' \in [Motors -> {"none", "drive", "disable"}]
            /\ \A x \in Motors \ {m} : last'[x] = last[x]
            /\ late' = LateCount(b)
        BY <1>0, <1>1, <2>1, <2>4, FrameFacts
      <3>2. DriversOK'
        BY <1>0, <1>1, <2>4, <3>1 DEF DriversOK
      <3>3. safeStopped' \in BOOLEAN /\ (safeStopped => safeStopped')
        <4>1. CASE safeStopped' = TRUE
          BY <4>1
        <4>2. CASE safeStopped' = safeStopped
          BY <1>0, <4>2 DEF FlagsOK
        <4> QED
          BY <2>4, <4>1, <4>2
      <3> QED
        BY <2>0, <2>1, <2>2, <2>4, <3>1, <3>2, <3>3
    <2>5. CASE Latch({m}) /\ safeStopped' = TRUE /\ late' \in {late, LateCount(b)}
      <3>1. /\ drv' \in [Motors -> DriverStates]
            /\ last' \in [Motors -> {"none", "drive", "disable"}]
            /\ drv'[m] = "kSafeStopped"
            /\ \A x \in Motors \ {m} : drv'[x] = drv[x] /\ last'[x] = last[x]
        BY <1>0, <2>1, <2>5, LatchFacts
      <3>2. DriversOK'
        BY <1>0, <1>1, <3>1 DEF DriversOK
      <3>3. late' \in [Buses -> Nat]
        BY <1>0, <2>2, <2>5 DEF ThreadsOK
      <3>4. safeStopped' \in BOOLEAN /\ (safeStopped => safeStopped')
        BY <2>5
      <3> QED
        BY <2>0, <2>1, <2>2, <2>5, <3>1, <3>2, <3>3, <3>4
    <2> QED
      BY <1>1, <2>3, <2>4, <2>5
  <1>4. FlagsOK'
    BY <1>0, <1>1, <1>2, <1>3 DEF FlagsOK
  <1>5. DriversOK'
    BY <1>3
  <1>6. ThreadsOK'
    BY <1>0, <1>1, <1>2, <1>3 DEF ThreadsOK, LifePlaces, ThreadPlaces, MonitorPlaces,
       ThreadStep
  <1>7. StageInv'
    BY <1>0, <1>1, <1>3, ThreadStage
  <1>8. LateInv'
    BY <1>0, <1>1, <1>2, <1>3 DEF LateInv, ThreadStep, ThreadsOK
  <1>9. StaleInv'
    BY <1>0, <1>1, <1>3, WorkerStale
  <1>10. DriveInv'
    BY <1>0, <1>1, <1>2, <1>3 DEF DriveInv, Ended, ThreadStep, StageInv
  <1>11. ReleaseInv'
    BY <1>0, <1>1, <1>2, <1>3 DEF ReleaseInv, ThreadStep, StageInv, Ended
  <1> QED
    BY <1>4, <1>5, <1>6, <1>7, <1>8, <1>9, <1>10, <1>11 DEF IInv, TypeOK

\* The worker leaves its loop.
LEMMA WorkerExitInv ==
    ASSUME IInv, NEW b \in Sequential, WorkerExit(b)
    PROVE  IInv'
  <1>0. /\ FlagsOK /\ DriversOK /\ ThreadsOK
        /\ StageInv /\ LateInv /\ StaleInv /\ DriveInv /\ ReleaseInv
    BY DEF IInv, TypeOK
  <1>1. /\ b \in Buses /\ b \notin Streamed /\ tpc[b] = "exit"
        /\ \/ tpc' = [tpc EXCEPT ![b] = "disable"] /\ todo' = [todo EXCEPT ![b] = On(b)]
           \/ tpc' = [tpc EXCEPT ![b] = "done"] /\ UNCHANGED todo
        /\ UNCHANGED <<motors, running, safeStopped, drv, last, live, lpc, ltodo, txRun,
           mpc, mtodo, stopLock, zeroGain, commandOld, stalled, staleFault, late>>
    BY BusAssumption DEF WorkerExit, Buses, flagVars, driverVars, lifeVars, busVars,
       monitorVars, ageVars, notLife, notThread, notMonitor, notAge, txFrame, Loop, Go,
       At
  <1>2. /\ motors \subseteq Motors /\ \A x \in Motors : x[1] \in Buses
        /\ \A c : On(c) \subseteq Motors /\ \A x \in On(c) : x[1] = c /\ x \in motors
        /\ \A x \in motors : x \in On(x[1])
    BY <1>0, MotorFacts
  <1>3. ThreadStep(b)
    BY <1>0, <1>1, <1>2 DEF ThreadStep, ThreadsOK, ThreadPlaces, StageInv, Ended
  <1>4. FlagsOK'
    BY <1>0, <1>1, <1>2, <1>3 DEF FlagsOK
  <1>5. DriversOK'
    BY <1>0, <1>1, <1>2, <1>3 DEF DriversOK, DriverStates
  <1>6. ThreadsOK'
    BY <1>0, <1>1, <1>2, <1>3 DEF ThreadsOK, LifePlaces, ThreadPlaces, MonitorPlaces,
       ThreadStep
  <1>7. StageInv'
    BY <1>0, <1>1, <1>3, ThreadStage
  <1>8. LateInv'
    BY <1>0, <1>1, <1>2, <1>3 DEF LateInv, ThreadStep
  <1>9. StaleInv'
    BY <1>0, <1>1, <1>3, WorkerStale
  <1>10. DriveInv'
    BY <1>0, <1>1, <1>2, <1>3 DEF DriveInv, Ended, ThreadStep, StageInv
  <1>11. ReleaseInv'
    BY <1>0, <1>1, <1>2, <1>3 DEF ReleaseInv, ThreadStep, StageInv, Ended
  <1> QED
    BY <1>4, <1>5, <1>6, <1>7, <1>8, <1>9, <1>10, <1>11 DEF IInv, TypeOK

\* The worker disables its motors.
LEMMA WorkerDisableInv ==
    ASSUME IInv, NEW b \in Sequential, WorkerDisable(b)
    PROVE  IInv'
  <1>0. /\ FlagsOK /\ DriversOK /\ ThreadsOK
        /\ StageInv /\ LateInv /\ StaleInv /\ DriveInv /\ ReleaseInv
    BY DEF IInv, TypeOK
  <1>1. /\ b \in Buses /\ b \notin Streamed /\ tpc[b] = "disable"
        /\ \/ \E m \in todo[b] :
                /\ UNCHANGED driverVars \/ Disable(m)
                /\ todo' = [todo EXCEPT ![b] = @ \ {m}] /\ UNCHANGED tpc
           \/ tpc' = [tpc EXCEPT ![b] = "done"] /\ UNCHANGED <<todo, driverVars>>
        /\ UNCHANGED <<motors, running, safeStopped, live, lpc, ltodo, txRun, mpc,
           mtodo, stopLock, zeroGain, commandOld, stalled, staleFault, late>>
    BY BusAssumption DEF WorkerDisable, Buses, flagVars, driverVars, lifeVars, busVars,
       monitorVars, ageVars, notLife, notThread, notMonitor, notAge, txFrame, Loop, Go,
       At
  <1>2. /\ motors \subseteq Motors /\ \A x \in Motors : x[1] \in Buses
        /\ \A c : On(c) \subseteq Motors /\ \A x \in On(c) : x[1] = c /\ x \in motors
        /\ \A x \in motors : x \in On(x[1])
    BY <1>0, MotorFacts
  <1>3. ThreadStep(b) /\ OnlyStops(b)
    <2>1. ThreadStep(b)
      BY <1>0, <1>1, <1>2 DEF ThreadStep, ThreadsOK, ThreadPlaces, StageInv, Ended
    <2>2. ASSUME UNCHANGED driverVars PROVE OnlyStops(b)
      BY <1>0, <1>1, <2>2, IdleDrivers DEF driverVars
    <2>3. ASSUME NEW m \in todo[b], Disable(m) PROVE OnlyStops(b)
      <3>1. m \in Motors /\ m \in On(b)
        BY <1>0, <1>1, <1>2 DEF StageInv
      <3>2. /\ drv' \in [Motors -> DriverStates]
            /\ last' \in [Motors -> {"none", "drive", "disable"}]
            /\ last'[m] = "disable" /\ (drv[m] # "none" => drv'[m] # "none")
            /\ \A x \in Motors \ {m} : drv'[x] = drv[x] /\ last'[x] = last[x]
        BY <1>0, <2>3, <3>1, DisableFacts
      <3>3. DriversOK'
        BY <1>0, <1>1, <3>2 DEF DriversOK
      <3> QED
        BY <3>1, <3>2, <3>3 DEF OnlyStops
    <2> QED
      BY <1>1, <2>1, <2>2, <2>3
  <1>4. FlagsOK'
    BY <1>0, <1>1, <1>2, <1>3 DEF FlagsOK
  <1>5. DriversOK'
    BY <1>3 DEF OnlyStops
  <1>6. ThreadsOK'
    BY <1>0, <1>1, <1>2, <1>3 DEF ThreadsOK, LifePlaces, ThreadPlaces, MonitorPlaces,
       ThreadStep
  <1>7. StageInv'
    BY <1>0, <1>1, <1>3, ThreadStage
  <1>8. LateInv'
    BY <1>0, <1>1, <1>2, <1>3 DEF LateInv, ThreadStep
  <1>9. StaleInv'
    BY <1>0, <1>1, <1>3, WorkerStale
  <1>10. DriveInv'
    BY <1>0, <1>1, <1>2, <1>3 DEF DriveInv, Ended, ThreadStep, StageInv, OnlyStops
  <1>11. ReleaseInv'
    BY <1>0, <1>1, <1>2, <1>3 DEF ReleaseInv, ThreadStep, StageInv, Ended, OnlyStops
  <1> QED
    BY <1>4, <1>5, <1>6, <1>7, <1>8, <1>9, <1>10, <1>11 DEF IInv, TypeOK

\* The send thread's loop condition.
LEMMA TxTopInv ==
    ASSUME IInv, NEW b \in Streamed, TxTop(b)
    PROVE  IInv'
  <1>0. /\ FlagsOK /\ DriversOK /\ ThreadsOK
        /\ StageInv /\ LateInv /\ StaleInv /\ DriveInv /\ ReleaseInv
    BY DEF IInv, TypeOK
  <1>1. /\ b \in Buses /\ tpc[b] = "top"
        /\ tpc' \in {[tpc EXCEPT ![b] = "cycle"], [tpc EXCEPT ![b] = "done"]}
        /\ UNCHANGED <<motors, running, safeStopped, drv, last, live, lpc, ltodo, todo,
           txRun, mpc, mtodo, stopLock, zeroGain, commandOld, stalled, staleFault,
           late>>
    BY DEF TxTop, Buses, flagVars, driverVars, lifeVars, busVars, monitorVars, ageVars,
       notLife, notThread, notMonitor, notAge, txFrame, Loop, Go, At
  <1>2. /\ motors \subseteq Motors /\ \A x \in Motors : x[1] \in Buses
        /\ \A c : On(c) \subseteq Motors /\ \A x \in On(c) : x[1] = c /\ x \in motors
        /\ \A x \in motors : x \in On(x[1])
    BY <1>0, MotorFacts
  <1>3. ThreadStep(b)
    BY <1>0, <1>1, <1>2 DEF ThreadStep, ThreadsOK, ThreadPlaces, StageInv, Ended
  <1>4. FlagsOK'
    BY <1>0, <1>1, <1>2, <1>3 DEF FlagsOK
  <1>5. DriversOK'
    BY <1>0, <1>1, <1>2, <1>3 DEF DriversOK, DriverStates
  <1>6. ThreadsOK'
    BY <1>0, <1>1, <1>2, <1>3 DEF ThreadsOK, LifePlaces, ThreadPlaces, MonitorPlaces,
       ThreadStep
  <1>7. StageInv'
    BY <1>0, <1>1, <1>3, ThreadStage
  <1>8. LateInv'
    BY <1>0, <1>1, <1>2, <1>3 DEF LateInv, ThreadStep
  <1>9. StaleInv'
    <2>1. tpc'[b] \notin {"frame", "send"}
      BY <1>0, <1>1 DEF ThreadsOK
    <2>2. \A c \in Streamed : On(c)' = On(c)
      BY <1>1 DEF On
    <2> QED
      BY <1>0, <1>1, <1>3, <2>1, <2>2 DEF StaleInv, ThreadStep, Buses
  <1>10. DriveInv'
    BY <1>0, <1>1, <1>2, <1>3 DEF DriveInv, Ended, ThreadStep, StageInv
  <1>11. ReleaseInv'
    BY <1>0, <1>1, <1>2, <1>3 DEF ReleaseInv, ThreadStep, StageInv, Ended
  <1> QED
    BY <1>4, <1>5, <1>6, <1>7, <1>8, <1>9, <1>10, <1>11 DEF IInv, TypeOK

\* A cycle of the send thread up to its frames.
LEMMA TxCycleInv ==
    ASSUME IInv, NEW b \in Streamed, TxCycle(b)
    PROVE  IInv'
  <1>0. /\ FlagsOK /\ DriversOK /\ ThreadsOK
        /\ StageInv /\ LateInv /\ StaleInv /\ DriveInv /\ ReleaseInv
    BY DEF IInv, TypeOK
  <1>1. /\ b \in Buses /\ tpc[b] = "cycle"
        /\ \/ /\ \E m \in On(b) : Latch({m})
              /\ safeStopped' = TRUE /\ tpc' = [tpc EXCEPT ![b] = "done"]
              /\ UNCHANGED <<todo, zeroGain>>
           \/ /\ safeStopped' = TRUE /\ tpc' = [tpc EXCEPT ![b] = "done"]
              /\ UNCHANGED <<drv, last, todo, zeroGain>>
           \/ /\ tpc' = [tpc EXCEPT ![b] = "top"]
              /\ UNCHANGED <<drv, last, todo, zeroGain, safeStopped>>
           \/ /\ tpc' = [tpc EXCEPT ![b] = "frame"]
              /\ zeroGain' = [zeroGain EXCEPT ![b] = commandOld]
              /\ todo' = [todo EXCEPT ![b] = On(b)]
              /\ UNCHANGED <<drv, last, safeStopped>>
        /\ UNCHANGED <<motors, running, live, lpc, ltodo, txRun, mpc, mtodo, stopLock,
           commandOld, stalled, staleFault, late>>
    BY DEF TxCycle, Buses, flagVars, driverVars, lifeVars, busVars, monitorVars,
       ageVars, notLife, notThread, notMonitor, notAge, txFrame, Loop, Go, At
  <1>2. /\ motors \subseteq Motors /\ \A x \in Motors : x[1] \in Buses
        /\ \A c : On(c) \subseteq Motors /\ \A x \in On(c) : x[1] = c /\ x \in motors
        /\ \A x \in motors : x \in On(x[1])
    BY <1>0, MotorFacts
  <1>3. /\ ThreadStep(b) /\ OnlyStops(b) /\ safeStopped' \in {safeStopped, TRUE}
        /\ \A x \in Motors : drv'[x] \in {drv[x], "kSafeStopped"}
        /\ tpc'[b] # "send" /\ zeroGain' \in [Streamed -> BOOLEAN]
        /\ tpc'[b] = "frame" => zeroGain'[b] = commandOld /\ todo'[b] = On(b)
        /\ \A c \in Streamed \ {b} : zeroGain'[c] = zeroGain[c]
    <2>1. ThreadStep(b)
      BY <1>0, <1>1, <1>2 DEF ThreadStep, ThreadsOK, ThreadPlaces, StageInv, Ended
    <2>2. ASSUME UNCHANGED <<drv, last>>
          PROVE  OnlyStops(b) /\ \A x \in Motors : drv'[x] \in {drv[x], "kSafeStopped"}
      BY <1>0, <1>1, <2>2, IdleDrivers
    <2>3. ASSUME NEW m \in On(b), Latch({m})
          PROVE  OnlyStops(b) /\ \A x \in Motors : drv'[x] \in {drv[x], "kSafeStopped"}
      <3>1. {m} \in SUBSET Motors /\ m \in On(b)
        BY <1>2
      <3>2. /\ drv' \in [Motors -> DriverStates]
            /\ last' \in [Motors -> {"none", "drive", "disable"}]
            /\ drv'[m] = "kSafeStopped" /\ last'[m] = "disable"
            /\ \A x \in Motors \ {m} : drv'[x] = drv[x] /\ last'[x] = last[x]
        BY <1>0, <2>3, <3>1, LatchFacts
      <3>3. DriversOK'
        BY <1>0, <1>1, <3>2 DEF DriversOK
      <3> QED
        BY <3>1, <3>2, <3>3 DEF OnlyStops
    <2>4. OnlyStops(b) /\ \A x \in Motors : drv'[x] \in {drv[x], "kSafeStopped"}
      BY <1>1, <2>2, <2>3
    <2>5. /\ tpc'[b] # "send" /\ zeroGain' \in [Streamed -> BOOLEAN]
          /\ tpc'[b] = "frame" => zeroGain'[b] = commandOld /\ todo'[b] = On(b)
          /\ \A c \in Streamed \ {b} : zeroGain'[c] = zeroGain[c]
      BY <1>0, <1>1 DEF FlagsOK, ThreadsOK
    <2>6. safeStopped' \in {safeStopped, TRUE}
      BY <1>1
    <2> QED
      BY <2>1, <2>4, <2>5, <2>6
  <1>4. FlagsOK'
    BY <1>0, <1>1, <1>3 DEF FlagsOK
  <1>5. DriversOK'
    BY <1>3 DEF OnlyStops
  <1>6. ThreadsOK'
    BY <1>0, <1>1, <1>2, <1>3 DEF ThreadsOK, LifePlaces, ThreadPlaces, MonitorPlaces,
       ThreadStep
  <1>7. StageInv'
    BY <1>0, <1>1, <1>3, ThreadStage
  <1>8. LateInv'
    BY <1>0, <1>1, <1>2, <1>3 DEF LateInv, ThreadStep
  <1>9. StaleInv'
    <2>1. On(b) # {} /\ (commandOld => stalled \/ lpc \in Stopping)
      BY <1>0, <1>1 DEF StageInv, StaleInv
    <2>2. \A c \in Streamed : On(c)' = On(c)
      BY <1>1 DEF On
    <2> QED
      BY <1>0, <1>1, <1>3, <2>1, <2>2 DEF StaleInv, ThreadStep, Buses
  <1>10. DriveInv'
    BY <1>0, <1>1, <1>2, <1>3 DEF DriveInv, Ended, ThreadStep, StageInv, OnlyStops
  <1>11. ReleaseInv'
    BY <1>0, <1>1, <1>2, <1>3 DEF ReleaseInv, ThreadStep, StageInv, Ended, OnlyStops
  <1> QED
    BY <1>4, <1>5, <1>6, <1>7, <1>8, <1>9, <1>10, <1>11 DEF IInv, TypeOK

\* The send thread's check before a frame.
LEMMA TxCheckInv ==
    ASSUME IInv, NEW b \in Streamed, TxCheck(b)
    PROVE  IInv'
  <1>0. /\ FlagsOK /\ DriversOK /\ ThreadsOK
        /\ StageInv /\ LateInv /\ StaleInv /\ DriveInv /\ ReleaseInv
    BY DEF IInv, TypeOK
  <1>1. /\ b \in Buses /\ tpc[b] = "frame" /\ todo[b] # {}
        /\ \/ txRun[b] /\ ~safeStopped /\ tpc' = [tpc EXCEPT ![b] = "send"]
           \/ tpc' \in {[tpc EXCEPT ![b] = "done"], [tpc EXCEPT ![b] = "top"]}
        /\ UNCHANGED <<motors, running, safeStopped, drv, last, live, lpc, ltodo, todo,
           txRun, mpc, mtodo, stopLock, zeroGain, commandOld, stalled, staleFault,
           late>>
    BY DEF TxCheck, Buses, MaySend, flagVars, driverVars, lifeVars, busVars, monitorVars,
       ageVars, notLife, notThread, notMonitor, notAge, txFrame, Loop, Go, At
  <1>2. /\ motors \subseteq Motors /\ \A x \in Motors : x[1] \in Buses
        /\ \A c : On(c) \subseteq Motors /\ \A x \in On(c) : x[1] = c /\ x \in motors
        /\ \A x \in motors : x \in On(x[1])
    BY <1>0, MotorFacts
  <1>3. ThreadStep(b)
    BY <1>0, <1>1, <1>2 DEF ThreadStep, ThreadsOK, ThreadPlaces, StageInv, Ended
  <1>4. FlagsOK'
    BY <1>0, <1>1, <1>2, <1>3 DEF FlagsOK
  <1>5. DriversOK'
    BY <1>0, <1>1, <1>2, <1>3 DEF DriversOK, DriverStates
  <1>6. ThreadsOK'
    BY <1>0, <1>1, <1>2, <1>3 DEF ThreadsOK, LifePlaces, ThreadPlaces, MonitorPlaces,
       ThreadStep
  <1>7. StageInv'
    BY <1>0, <1>1, <1>3, ThreadStage
  <1>8. LateInv'
    BY <1>0, <1>1, <1>2, <1>3 DEF LateInv, ThreadStep, ThreadsOK
  <1>9. StaleInv'
    <2>1. tpc'[b] # "frame" /\ (tpc'[b] = "send" => txRun[b])
      BY <1>0, <1>1 DEF ThreadsOK
    <2>2. \A c \in Streamed : On(c)' = On(c)
      BY <1>1 DEF On
    <2> QED
      BY <1>0, <1>1, <1>3, <2>1, <2>2 DEF StaleInv, ThreadStep, Buses
  <1>10. DriveInv'
    BY <1>0, <1>1, <1>2, <1>3 DEF DriveInv, Ended, ThreadStep, StageInv
  <1>11. ReleaseInv'
    BY <1>0, <1>1, <1>2, <1>3 DEF ReleaseInv, ThreadStep, StageInv, Ended
  <1> QED
    BY <1>4, <1>5, <1>6, <1>7, <1>8, <1>9, <1>10, <1>11 DEF IInv, TypeOK

\* A frame of the send thread.
LEMMA TxSendInv ==
    ASSUME IInv, NEW b \in Streamed, TxSend(b)
    PROVE  IInv'
  <1>0. /\ FlagsOK /\ DriversOK /\ ThreadsOK
        /\ StageInv /\ LateInv /\ StaleInv /\ DriveInv /\ ReleaseInv
    BY DEF IInv, TypeOK
  <1>1. /\ b \in Buses /\ tpc[b] = "send"
        /\ \E ms \in SUBSET todo[b] :
             \/ /\ Frame(b, ms) /\ tpc' = [tpc EXCEPT ![b] = "frame"]
                /\ todo' = [todo EXCEPT ![b] = @ \ ms]
                /\ UNCHANGED <<drv, safeStopped>>
             \/ /\ Latch(ms) /\ safeStopped' = TRUE /\ tpc' = [tpc EXCEPT ![b] = "done"]
                /\ UNCHANGED <<todo, late>>
        /\ UNCHANGED <<motors, running, live, lpc, ltodo, txRun, mpc, mtodo, stopLock,
           zeroGain, commandOld, stalled, staleFault>>
    BY DEF TxSend, Buses, flagVars, driverVars, lifeVars, busVars, monitorVars, ageVars,
       notLife, notThread, notMonitor, notAge, txFrame, Loop, Go, At
  <1>2. /\ motors \subseteq Motors /\ \A x \in Motors : x[1] \in Buses
        /\ \A c : On(c) \subseteq Motors /\ \A x \in On(c) : x[1] = c /\ x \in motors
        /\ \A x \in motors : x \in On(x[1])
    BY <1>0, MotorFacts
  <1>3. /\ ThreadStep(b) /\ DriversOK'
        /\ \A x \in Motors : x \notin On(b) => drv'[x] = drv[x] /\ last'[x] = last[x]
        /\ \A x \in Motors : drv'[x] \in {drv[x], "kSafeStopped"}
        /\ late' \in [Buses -> Nat] /\ tpc'[b] # "send"
        /\ late'[b] = late[b] \/ (safeStopped' /\ late'[b] = late[b] + 1)
        /\ \A c \in Buses \ {b} : late'[c] = late[c]
        /\ safeStopped' \in {safeStopped, TRUE}
    <2>1. PICK ms \in SUBSET todo[b] :
             \/ /\ Frame(b, ms) /\ tpc' = [tpc EXCEPT ![b] = "frame"]
                /\ todo' = [todo EXCEPT ![b] = @ \ ms]
                /\ UNCHANGED <<drv, safeStopped>>
             \/ /\ Latch(ms) /\ safeStopped' = TRUE /\ tpc' = [tpc EXCEPT ![b] = "done"]
                /\ UNCHANGED <<todo, late>>
      BY <1>1
    <2>2. ms \in SUBSET Motors /\ ms \subseteq On(b)
      BY <1>0, <1>1, <1>2 DEF StageInv
    <2>3. /\ LateCount(b) \in [Buses -> Nat]
          /\ LateCount(b)[b] = IF safeStopped THEN late[b] + 1 ELSE late[b]
          /\ \A c \in Buses \ {b} : LateCount(b)[c] = late[c]
      BY <1>0, <1>1, LateCountFacts
    <2>4. ThreadStep(b) /\ tpc'[b] # "send" /\ safeStopped' \in {safeStopped, TRUE}
      <3>1. /\ todo' \in [Buses -> SUBSET Motors] /\ todo'[b] \subseteq todo[b]
            /\ \A c \in Buses \ {b} : todo'[c] = todo[c]
        BY <1>0, <1>1, <2>1, <2>2 DEF ThreadsOK
      <3>2. /\ tpc' \in [Buses -> ThreadPlaces] /\ tpc'[b] \in {"frame", "done"}
            /\ \A c \in Buses \ {b} : tpc'[c] = tpc[c]
        BY <1>0, <1>1, <2>1 DEF ThreadsOK, ThreadPlaces
      <3>3. safeStopped' \in {safeStopped, TRUE}
        BY <2>1
      <3> QED
        BY <1>0, <1>1, <3>1, <3>2, <3>3 DEF ThreadStep, StageInv, Ended
    <2>5. CASE Frame(b, ms) /\ UNCHANGED <<drv, safeStopped>>
      <3>1. /\ last' \in [Motors -> {"none", "drive", "disable"}]
            /\ \A m \in Motors \ ms : last'[m] = last[m]
            /\ late' = LateCount(b)
        BY <1>0, <1>1, <2>2, <2>5, FrameFacts
      <3>2. DriversOK'
        BY <1>0, <1>1, <2>5, <3>1 DEF DriversOK
      <3> QED
        BY <2>2, <2>3, <2>4, <2>5, <3>1, <3>2
    <2>6. CASE Latch(ms) /\ UNCHANGED late
      <3>1. /\ drv' \in [Motors -> DriverStates]
            /\ last' \in [Motors -> {"none", "drive", "disable"}]
            /\ \A x \in ms : drv'[x] = "kSafeStopped"
            /\ \A x \in Motors \ ms : drv'[x] = drv[x] /\ last'[x] = last[x]
        BY <1>0, <2>2, <2>6, LatchFacts
      <3>2. DriversOK'
        BY <1>0, <1>1, <3>1 DEF DriversOK
      <3>3. late' \in [Buses -> Nat]
        BY <1>0, <2>6 DEF ThreadsOK
      <3> QED
        BY <2>2, <2>4, <2>6, <3>1, <3>2, <3>3
    <2> QED
      BY <2>1, <2>5, <2>6
  <1>4. FlagsOK'
    BY <1>0, <1>1, <1>3 DEF FlagsOK
  <1>5. DriversOK'
    BY <1>3
  <1>6. ThreadsOK'
    BY <1>0, <1>1, <1>2, <1>3 DEF ThreadsOK, LifePlaces, ThreadPlaces, MonitorPlaces,
       ThreadStep
  <1>7. StageInv'
    BY <1>0, <1>1, <1>3, ThreadStage
  <1>8. LateInv'
    BY <1>0, <1>1, <1>2, <1>3 DEF LateInv, ThreadStep, ThreadsOK
  <1>9. StaleInv'
    <2>1. zeroGain[b] => stalled
      BY <1>0, <1>1 DEF StaleInv
    <2>2. \A c \in Streamed : On(c)' = On(c)
      BY <1>1 DEF On
    <2> QED
      BY <1>0, <1>1, <1>3, <2>1, <2>2 DEF StaleInv, ThreadStep, Buses
  <1>10. DriveInv'
    BY <1>0, <1>1, <1>2, <1>3 DEF DriveInv, Ended, ThreadStep, StageInv
  <1>11. ReleaseInv'
    BY <1>0, <1>1, <1>2, <1>3 DEF ReleaseInv, ThreadStep, StageInv, Ended
  <1> QED
    BY <1>4, <1>5, <1>6, <1>7, <1>8, <1>9, <1>10, <1>11 DEF IInv, TypeOK

\* The end of a cycle of frames.
LEMMA TxCycleEndsInv ==
    ASSUME IInv, NEW b \in Streamed, TxCycleEnds(b)
    PROVE  IInv'
  <1>0. /\ FlagsOK /\ DriversOK /\ ThreadsOK
        /\ StageInv /\ LateInv /\ StaleInv /\ DriveInv /\ ReleaseInv
    BY DEF IInv, TypeOK
  <1>1. /\ b \in Buses /\ tpc[b] = "frame" /\ todo[b] = {}
        /\ tpc' \in {[tpc EXCEPT ![b] = "done"], [tpc EXCEPT ![b] = "top"]}
        /\ safeStopped' = (safeStopped \/ zeroGain[b])
        /\ staleFault' = (staleFault \/ zeroGain[b])
        /\ UNCHANGED <<motors, running, drv, last, live, lpc, ltodo, todo, txRun, mpc,
           mtodo, stopLock, zeroGain, commandOld, stalled, late>>
    BY DEF TxCycleEnds, Buses, flagVars, driverVars, lifeVars, busVars, monitorVars,
       ageVars, notLife, notThread, notMonitor, notAge, txFrame, Loop, Go, At
  <1>2. /\ motors \subseteq Motors /\ \A x \in Motors : x[1] \in Buses
        /\ \A c : On(c) \subseteq Motors /\ \A x \in On(c) : x[1] = c /\ x \in motors
        /\ \A x \in motors : x \in On(x[1])
    BY <1>0, MotorFacts
  <1>3. ThreadStep(b)
    BY <1>0, <1>1, <1>2 DEF ThreadStep, ThreadsOK, ThreadPlaces, StageInv, Ended
  <1>4. FlagsOK'
    BY <1>0, <1>1, <1>2, <1>3 DEF FlagsOK
  <1>5. DriversOK'
    BY <1>0, <1>1, <1>2, <1>3 DEF DriversOK, DriverStates
  <1>6. ThreadsOK'
    BY <1>0, <1>1, <1>2, <1>3 DEF ThreadsOK, LifePlaces, ThreadPlaces, MonitorPlaces,
       ThreadStep
  <1>7. StageInv'
    BY <1>0, <1>1, <1>3, ThreadStage
  <1>8. LateInv'
    BY <1>0, <1>1, <1>2, <1>3 DEF LateInv, ThreadStep, ThreadsOK
  <1>9. StaleInv'
    <2>1. tpc'[b] \notin {"frame", "send"} /\ (staleFault' => stalled)
      BY <1>0, <1>1 DEF ThreadsOK, StaleInv, FlagsOK
    <2>2. \A c \in Streamed : On(c)' = On(c)
      BY <1>1 DEF On
    <2> QED
      BY <1>0, <1>1, <1>3, <2>1, <2>2 DEF StaleInv, ThreadStep, Buses
  <1>10. DriveInv'
    BY <1>0, <1>1, <1>2, <1>3 DEF DriveInv, Ended, ThreadStep, StageInv
  <1>11. ReleaseInv'
    BY <1>0, <1>1, <1>2, <1>3 DEF ReleaseInv, ThreadStep, StageInv, Ended
  <1> QED
    BY <1>4, <1>5, <1>6, <1>7, <1>8, <1>9, <1>10, <1>11 DEF IInv, TypeOK

\* The monitor stops polling.
LEMMA MonitorPollInv ==
    ASSUME IInv, NEW b \in Streamed, MonitorPoll(b)
    PROVE  IInv'
  <1>0. /\ FlagsOK /\ DriversOK /\ ThreadsOK
        /\ StageInv /\ LateInv /\ StaleInv /\ DriveInv /\ ReleaseInv
    BY DEF IInv, TypeOK
  <1>1. /\ mpc[b] = "poll" /\ mpc' = [mpc EXCEPT ![b] = "decide"]
        /\ UNCHANGED <<motors, running, safeStopped, drv, last, live, lpc, ltodo, tpc,
           todo, txRun, mtodo, stopLock, zeroGain, commandOld, stalled, staleFault,
           late>>
    BY DEF MonitorPoll, flagVars, driverVars, lifeVars, busVars, monitorVars, ageVars,
       notLife, notThread, notMonitor, notAge, txFrame, Loop, Go, At
  <1>2. /\ motors \subseteq Motors /\ \A x \in Motors : x[1] \in Buses
        /\ \A c : On(c) \subseteq Motors /\ \A x \in On(c) : x[1] = c /\ x \in motors
        /\ \A x \in motors : x \in On(x[1])
    BY <1>0, MotorFacts
  <1>3. FlagsOK'
    BY <1>0, <1>1, <1>2 DEF FlagsOK
  <1>4. DriversOK'
    BY <1>0, <1>1, <1>2 DEF DriversOK, DriverStates
  <1>5. ThreadsOK'
    BY <1>0, <1>1, <1>2 DEF ThreadsOK, LifePlaces, ThreadPlaces, MonitorPlaces
  <1>6. StageInv'
    BY <1>0, <1>1, <1>2 DEF StageInv, Ended, On, InUse, ThreadsOK
  <1>7. LateInv'
    BY <1>0, <1>1, <1>2 DEF LateInv
  <1>8. StaleInv'
    BY <1>0, <1>1, <1>2 DEF StaleInv, Stopping, On
  <1>9. DriveInv'
    BY <1>0, <1>1, <1>2 DEF DriveInv, Ended
  <1>10. ReleaseInv'
    BY <1>0, <1>1, <1>2 DEF ReleaseInv
  <1> QED
    BY <1>3, <1>4, <1>5, <1>6, <1>7, <1>8, <1>9, <1>10 DEF IInv, TypeOK

\* The monitor decides whether the stop is its own to handle.
LEMMA MonitorDecideInv ==
    ASSUME IInv, NEW b \in Streamed, MonitorDecide(b)
    PROVE  IInv'
  <1>0. /\ FlagsOK /\ DriversOK /\ ThreadsOK
        /\ StageInv /\ LateInv /\ StaleInv /\ DriveInv /\ ReleaseInv
    BY DEF IInv, TypeOK
  <1>1. /\ mpc[b] = "decide"
        /\ mpc' \in {[mpc EXCEPT ![b] = "stop"], [mpc EXCEPT ![b] = "done"]}
        /\ UNCHANGED <<motors, running, safeStopped, drv, last, live, lpc, ltodo, tpc,
           todo, txRun, mtodo, stopLock, zeroGain, commandOld, stalled, staleFault,
           late>>
    BY DEF MonitorDecide, flagVars, driverVars, lifeVars, busVars, monitorVars, ageVars,
       notLife, notThread, notMonitor, notAge, txFrame, Loop, Go, At
  <1>2. /\ motors \subseteq Motors /\ \A x \in Motors : x[1] \in Buses
        /\ \A c : On(c) \subseteq Motors /\ \A x \in On(c) : x[1] = c /\ x \in motors
        /\ \A x \in motors : x \in On(x[1])
    BY <1>0, MotorFacts
  <1>3. FlagsOK'
    BY <1>0, <1>1, <1>2 DEF FlagsOK
  <1>4. DriversOK'
    BY <1>0, <1>1, <1>2 DEF DriversOK, DriverStates
  <1>5. ThreadsOK'
    BY <1>0, <1>1, <1>2 DEF ThreadsOK, LifePlaces, ThreadPlaces, MonitorPlaces
  <1>6. StageInv'
    BY <1>0, <1>1, <1>2 DEF StageInv, Ended, On, InUse, ThreadsOK
  <1>7. LateInv'
    BY <1>0, <1>1, <1>2 DEF LateInv
  <1>8. StaleInv'
    BY <1>0, <1>1, <1>2 DEF StaleInv, Stopping, On
  <1>9. DriveInv'
    BY <1>0, <1>1, <1>2 DEF DriveInv, Ended
  <1>10. ReleaseInv'
    BY <1>0, <1>1, <1>2 DEF ReleaseInv
  <1> QED
    BY <1>3, <1>4, <1>5, <1>6, <1>7, <1>8, <1>9, <1>10 DEF IInv, TypeOK

\* The monitor takes stream_stop_mutex_.
LEMMA MonitorStopInv ==
    ASSUME IInv, NEW b \in Streamed, MonitorStop(b)
    PROVE  IInv'
  <1>0. /\ FlagsOK /\ DriversOK /\ ThreadsOK
        /\ StageInv /\ LateInv /\ StaleInv /\ DriveInv /\ ReleaseInv
    BY DEF IInv, TypeOK
  <1>1. /\ mpc[b] = "stop" /\ stopLock' = b /\ mpc' = [mpc EXCEPT ![b] = "joining"]
        /\ UNCHANGED <<motors, running, safeStopped, drv, last, live, lpc, ltodo, tpc,
           todo, txRun, mtodo, zeroGain, commandOld, stalled, staleFault, late>>
    BY DEF MonitorStop, flagVars, driverVars, lifeVars, busVars, monitorVars, ageVars,
       notLife, notThread, notMonitor, notAge, txFrame, Loop, Go, At
  <1>2. /\ motors \subseteq Motors /\ \A x \in Motors : x[1] \in Buses
        /\ \A c : On(c) \subseteq Motors /\ \A x \in On(c) : x[1] = c /\ x \in motors
        /\ \A x \in motors : x \in On(x[1])
    BY <1>0, MotorFacts
  <1>3. FlagsOK'
    BY <1>0, <1>1, <1>2 DEF FlagsOK
  <1>4. DriversOK'
    BY <1>0, <1>1, <1>2 DEF DriversOK, DriverStates
  <1>5. ThreadsOK'
    BY <1>0, <1>1, <1>2 DEF ThreadsOK, LifePlaces, ThreadPlaces, MonitorPlaces
  <1>6. StageInv'
    BY <1>0, <1>1, <1>2 DEF StageInv, Ended, On, InUse, ThreadsOK
  <1>7. LateInv'
    BY <1>0, <1>1, <1>2 DEF LateInv
  <1>8. StaleInv'
    BY <1>0, <1>1, <1>2 DEF StaleInv, Stopping, On
  <1>9. DriveInv'
    BY <1>0, <1>1, <1>2 DEF DriveInv, Ended
  <1>10. ReleaseInv'
    BY <1>0, <1>1, <1>2 DEF ReleaseInv
  <1> QED
    BY <1>3, <1>4, <1>5, <1>6, <1>7, <1>8, <1>9, <1>10 DEF IInv, TypeOK

\* The monitor has joined the send thread.
LEMMA MonitorStoppedInv ==
    ASSUME IInv, NEW b \in Streamed, MonitorStopped(b)
    PROVE  IInv'
  <1>0. /\ FlagsOK /\ DriversOK /\ ThreadsOK
        /\ StageInv /\ LateInv /\ StaleInv /\ DriveInv /\ ReleaseInv
    BY DEF IInv, TypeOK
  <1>1. /\ mpc[b] = "joining" /\ Ended(b) /\ stopLock' = "free"
        /\ mpc' = [mpc EXCEPT ![b] = "disable"] /\ mtodo' = [mtodo EXCEPT ![b] = On(b)]
        /\ UNCHANGED <<motors, running, safeStopped, drv, last, live, lpc, ltodo, tpc,
           todo, txRun, zeroGain, commandOld, stalled, staleFault, late>>
    BY DEF MonitorStopped, flagVars, driverVars, lifeVars, busVars, monitorVars,
       ageVars, notLife, notThread, notMonitor, notAge, txFrame, Loop, Go, At
  <1>2. /\ motors \subseteq Motors /\ \A x \in Motors : x[1] \in Buses
        /\ \A c : On(c) \subseteq Motors /\ \A x \in On(c) : x[1] = c /\ x \in motors
        /\ \A x \in motors : x \in On(x[1])
    BY <1>0, MotorFacts
  <1>3. FlagsOK'
    BY <1>0, <1>1, <1>2 DEF FlagsOK
  <1>4. DriversOK'
    BY <1>0, <1>1, <1>2 DEF DriversOK, DriverStates
  <1>5. ThreadsOK'
    BY <1>0, <1>1, <1>2 DEF ThreadsOK, LifePlaces, ThreadPlaces, MonitorPlaces
  <1>6. StageInv'
    BY <1>0, <1>1, <1>2 DEF StageInv, Ended, On, InUse, ThreadsOK
  <1>7. LateInv'
    BY <1>0, <1>1, <1>2 DEF LateInv
  <1>8. StaleInv'
    BY <1>0, <1>1, <1>2 DEF StaleInv, Stopping, On
  <1>9. DriveInv'
    BY <1>0, <1>1, <1>2 DEF DriveInv, Ended
  <1>10. ReleaseInv'
    BY <1>0, <1>1, <1>2 DEF ReleaseInv
  <1> QED
    BY <1>3, <1>4, <1>5, <1>6, <1>7, <1>8, <1>9, <1>10 DEF IInv, TypeOK

\* The monitor disables the motors of its bus.
LEMMA MonitorDisableInv ==
    ASSUME IInv, NEW b \in Streamed, MonitorDisable(b)
    PROVE  IInv'
  <1>0. /\ FlagsOK /\ DriversOK /\ ThreadsOK
        /\ StageInv /\ LateInv /\ StaleInv /\ DriveInv /\ ReleaseInv
    BY DEF IInv, TypeOK
  <1>1. /\ mpc[b] = "disable"
        /\ \/ \E m \in mtodo[b] : /\ DisableAxis(m) /\ UNCHANGED mpc
                                  /\ mtodo' = [mtodo EXCEPT ![b] = @ \ {m}]
           \/ mpc' = [mpc EXCEPT ![b] = "done"] /\ UNCHANGED <<mtodo, drv, last>>
        /\ UNCHANGED <<motors, running, safeStopped, live, lpc, ltodo, tpc, todo, txRun,
           stopLock, zeroGain, commandOld, stalled, staleFault, late>>
    BY DEF MonitorDisable, flagVars, driverVars, lifeVars, busVars, monitorVars,
       ageVars, notLife, notThread, notMonitor, notAge, txFrame, Loop, Go, At
  <1>2. /\ motors \subseteq Motors /\ \A x \in Motors : x[1] \in Buses
        /\ \A c : On(c) \subseteq Motors /\ \A x \in On(c) : x[1] = c /\ x \in motors
        /\ \A x \in motors : x \in On(x[1])
    BY <1>0, MotorFacts
  <1>3. /\ OnlyStops(b)
        /\ mpc' \in [Streamed -> MonitorPlaces] /\ mpc'[b] \in {"disable", "done"}
        /\ \A c \in Streamed \ {b} : mpc'[c] = mpc[c] /\ mtodo'[c] = mtodo[c]
        /\ mtodo' \in [Streamed -> SUBSET Motors] /\ mtodo'[b] \subseteq On(b)
    <2>1. ASSUME UNCHANGED <<drv, last>> PROVE OnlyStops(b)
      BY <1>0, <1>1, <2>1, IdleDrivers
    <2>2. ASSUME NEW m \in mtodo[b], DisableAxis(m) PROVE OnlyStops(b)
      <3>1. m \in Motors /\ m \in On(b)
        BY <1>0, <1>2 DEF StageInv
      <3>2. /\ drv' \in [Motors -> DriverStates]
            /\ last' \in [Motors -> {"none", "drive", "disable"}]
            /\ last'[m] = "disable" \/ (drv[m] = "kDisabled" /\ last'[m] = last[m])
            /\ drv[m] # "none" => drv'[m] # "none"
            /\ \A x \in Motors \ {m} : drv'[x] = drv[x] /\ last'[x] = last[x]
        BY <1>0, <2>2, <3>1, DisableAxisFacts
      <3>3. DriversOK'
        BY <1>0, <1>1, <3>2 DEF DriversOK
      <3> QED
        BY <3>1, <3>2, <3>3 DEF OnlyStops
    <2>3. OnlyStops(b)
      BY <1>1, <2>1, <2>2
    <2>4. /\ mpc' \in [Streamed -> MonitorPlaces] /\ mpc'[b] \in {"disable", "done"}
          /\ \A c \in Streamed \ {b} : mpc'[c] = mpc[c] /\ mtodo'[c] = mtodo[c]
          /\ mtodo' \in [Streamed -> SUBSET Motors] /\ mtodo'[b] \subseteq On(b)
      BY <1>0, <1>1, <1>2 DEF ThreadsOK, MonitorPlaces, StageInv
    <2> QED
      BY <2>3, <2>4
  <1>4. FlagsOK'
    BY <1>0, <1>1, <1>2, <1>3 DEF FlagsOK
  <1>5. DriversOK'
    BY <1>3 DEF OnlyStops
  <1>6. ThreadsOK'
    BY <1>0, <1>1, <1>2, <1>3 DEF ThreadsOK, LifePlaces, ThreadPlaces, MonitorPlaces
  <1>7. StageInv'
    BY <1>0, <1>1, <1>2, <1>3 DEF StageInv, Ended, On, InUse
  <1>8. LateInv'
    BY <1>0, <1>1, <1>2, <1>3 DEF LateInv
  <1>9. StaleInv'
    BY <1>0, <1>1, <1>2, <1>3 DEF StaleInv, Stopping, On
  <1>10. DriveInv'
    BY <1>0, <1>1, <1>2, <1>3 DEF DriveInv, Ended, StageInv, OnlyStops
  <1>11. ReleaseInv'
    BY <1>0, <1>1, <1>2, <1>3 DEF ReleaseInv, OnlyStops, StageInv
  <1> QED
    BY <1>4, <1>5, <1>6, <1>7, <1>8, <1>9, <1>10, <1>11 DEF IInv, TypeOK

\* write() stops coming.
LEMMA OwnerStallsInv ==
    ASSUME IInv, OwnerStalls
    PROVE  IInv'
  <1>0. /\ FlagsOK /\ DriversOK /\ ThreadsOK
        /\ StageInv /\ LateInv /\ StaleInv /\ DriveInv /\ ReleaseInv
    BY DEF IInv, TypeOK
  <1>1. /\ commandOld' = TRUE /\ stalled' = TRUE
        /\ UNCHANGED <<motors, running, safeStopped, drv, last, live, lpc, ltodo, tpc,
           todo, txRun, mpc, mtodo, stopLock, zeroGain, staleFault, late>>
    BY DEF OwnerStalls, flagVars, driverVars, lifeVars, busVars, monitorVars, ageVars,
       notLife, notThread, notMonitor, notAge, txFrame, Loop, Go, At
  <1>2. /\ motors \subseteq Motors /\ \A x \in Motors : x[1] \in Buses
        /\ \A c : On(c) \subseteq Motors /\ \A x \in On(c) : x[1] = c /\ x \in motors
        /\ \A x \in motors : x \in On(x[1])
    BY <1>0, MotorFacts
  <1>3. FlagsOK'
    BY <1>0, <1>1, <1>2 DEF FlagsOK
  <1>4. DriversOK'
    BY <1>0, <1>1, <1>2 DEF DriversOK, DriverStates
  <1>5. ThreadsOK'
    BY <1>0, <1>1, <1>2 DEF ThreadsOK, LifePlaces, ThreadPlaces, MonitorPlaces
  <1>6. StageInv'
    BY <1>0, <1>1, <1>2 DEF StageInv, Ended, On, InUse
  <1>7. LateInv'
    BY <1>0, <1>1, <1>2 DEF LateInv
  <1>8. StaleInv'
    BY <1>0, <1>1, <1>2 DEF StaleInv, Stopping, On
  <1>9. DriveInv'
    BY <1>0, <1>1, <1>2 DEF DriveInv, Ended
  <1>10. ReleaseInv'
    BY <1>0, <1>1, <1>2 DEF ReleaseInv
  <1> QED
    BY <1>3, <1>4, <1>5, <1>6, <1>7, <1>8, <1>9, <1>10 DEF IInv, TypeOK

\* write() comes again.
LEMMA OwnerWritesInv ==
    ASSUME IInv, OwnerWrites
    PROVE  IInv'
  <1>0. /\ FlagsOK /\ DriversOK /\ ThreadsOK
        /\ StageInv /\ LateInv /\ StaleInv /\ DriveInv /\ ReleaseInv
    BY DEF IInv, TypeOK
  <1>1. /\ commandOld' = FALSE
        /\ UNCHANGED <<motors, running, safeStopped, drv, last, live, lpc, ltodo, tpc,
           todo, txRun, mpc, mtodo, stopLock, zeroGain, stalled, staleFault, late>>
    BY DEF OwnerWrites, flagVars, driverVars, lifeVars, busVars, monitorVars, ageVars,
       notLife, notThread, notMonitor, notAge, txFrame, Loop, Go, At
  <1>2. /\ motors \subseteq Motors /\ \A x \in Motors : x[1] \in Buses
        /\ \A c : On(c) \subseteq Motors /\ \A x \in On(c) : x[1] = c /\ x \in motors
        /\ \A x \in motors : x \in On(x[1])
    BY <1>0, MotorFacts
  <1>3. FlagsOK'
    BY <1>0, <1>1, <1>2 DEF FlagsOK
  <1>4. DriversOK'
    BY <1>0, <1>1, <1>2 DEF DriversOK, DriverStates
  <1>5. ThreadsOK'
    BY <1>0, <1>1, <1>2 DEF ThreadsOK, LifePlaces, ThreadPlaces, MonitorPlaces
  <1>6. StageInv'
    BY <1>0, <1>1, <1>2 DEF StageInv, Ended, On, InUse
  <1>7. LateInv'
    BY <1>0, <1>1, <1>2 DEF LateInv
  <1>8. StaleInv'
    BY <1>0, <1>1, <1>2 DEF StaleInv, Stopping, On
  <1>9. DriveInv'
    BY <1>0, <1>1, <1>2 DEF DriveInv, Ended
  <1>10. ReleaseInv'
    BY <1>0, <1>1, <1>2 DEF ReleaseInv
  <1> QED
    BY <1>3, <1>4, <1>5, <1>6, <1>7, <1>8, <1>9, <1>10 DEF IInv, TypeOK

\* The last command grows old during the release.
LEMMA CommandAgesInv ==
    ASSUME IInv, CommandAges
    PROVE  IInv'
  <1>0. /\ FlagsOK /\ DriversOK /\ ThreadsOK
        /\ StageInv /\ LateInv /\ StaleInv /\ DriveInv /\ ReleaseInv
    BY DEF IInv, TypeOK
  <1>1. /\ lpc \in {"joining", "disable", "rest"} /\ commandOld' = TRUE
        /\ UNCHANGED <<motors, running, safeStopped, drv, last, live, lpc, ltodo, tpc,
           todo, txRun, mpc, mtodo, stopLock, zeroGain, stalled, staleFault, late>>
    BY DEF CommandAges, flagVars, driverVars, lifeVars, busVars, monitorVars, ageVars,
       notLife, notThread, notMonitor, notAge, txFrame, Loop, Go, At
  <1>2. /\ motors \subseteq Motors /\ \A x \in Motors : x[1] \in Buses
        /\ \A c : On(c) \subseteq Motors /\ \A x \in On(c) : x[1] = c /\ x \in motors
        /\ \A x \in motors : x \in On(x[1])
    BY <1>0, MotorFacts
  <1>3. FlagsOK'
    BY <1>0, <1>1, <1>2 DEF FlagsOK
  <1>4. DriversOK'
    BY <1>0, <1>1, <1>2 DEF DriversOK, DriverStates
  <1>5. ThreadsOK'
    BY <1>0, <1>1, <1>2 DEF ThreadsOK, LifePlaces, ThreadPlaces, MonitorPlaces
  <1>6. StageInv'
    BY <1>0, <1>1, <1>2 DEF StageInv, Ended, On, InUse
  <1>7. LateInv'
    BY <1>0, <1>1, <1>2 DEF LateInv
  <1>8. StaleInv'
    BY <1>0, <1>1, <1>2 DEF StaleInv, Stopping, On
  <1>9. DriveInv'
    BY <1>0, <1>1, <1>2 DEF DriveInv, Ended
  <1>10. ReleaseInv'
    BY <1>0, <1>1, <1>2 DEF ReleaseInv
  <1> QED
    BY <1>3, <1>4, <1>5, <1>6, <1>7, <1>8, <1>9, <1>10 DEF IInv, TypeOK

\* Every step preserves the invariant.
LEMMA StepInv == IInv /\ [Next]_vars => IInv'
  <1> SUFFICES ASSUME IInv, [Next]_vars PROVE IInv'
    OBVIOUS
  <1> USE DEF vars, flagVars, driverVars, lifeVars, busVars, monitorVars, ageVars
  <1>1. CASE UNCHANGED vars
    <2>1. TypeOK'
      BY <1>1 DEF IInv, TypeOK, FlagsOK, DriversOK, ThreadsOK
    <2>2. StageInv' /\ LateInv'
      BY <1>1 DEF IInv, StageInv, LateInv, InUse, On, Ended
    <2>3. StaleInv' /\ DriveInv' /\ ReleaseInv'
      BY <1>1 DEF IInv, StaleInv, DriveInv, ReleaseInv, On, Ended
    <2> QED
      BY <2>1, <2>2, <2>3 DEF IInv
  <1>2. CASE LifeStep
    BY <1>2, OpenBusInv, OpenFailsInv, StartBusInv, StartFailsInv, OpenedInv, StartedInv,
       StartMonitorsInv, MonitorFailsInv, ActivatedInv, AwaitFeedbackInv, StartMonitorInv, RequestStopInv,
       StopStreamInv, ReleaseBeginInv, RequestedInv, StreamStoppedInv, JoinWorkersInv,
       ReleaseRestInv, ReleasedInv, ReleaseAxisInv, ReleaseMotorInv DEF LifeStep
  <1>3. ASSUME NEW b \in Sequential, Worker(b) PROVE IInv'
    BY <1>3, WorkerTopInv, WorkerCheckInv, WorkerSendInv, WorkerExitInv, WorkerDisableInv
       DEF Worker
  <1>4. ASSUME NEW b \in Streamed, Sender(b) PROVE IInv'
    BY <1>4, TxTopInv, TxCycleInv, TxCheckInv, TxSendInv, TxCycleEndsInv DEF Sender
  <1>5. ASSUME NEW b \in Streamed, Monitor(b) PROVE IInv'
    BY <1>5, MonitorPollInv, MonitorDecideInv, MonitorStopInv, MonitorStoppedInv,
       MonitorDisableInv DEF Monitor
  <1> QED
    BY <1>1, <1>2, <1>3, <1>4, <1>5, DeactivateInv, OwnerStallsInv, OwnerWritesInv,
       CommandAgesInv DEF Next, Terminated

---------------------------------------------------------------------------
(* The theorems *)

\* The invariant holds in every state that the threads reach.
THEOREM Inductive == Spec => []IInv
  BY InitInv, StepInv, PTL DEF Spec

\* Every variable keeps its type.
THEOREM TypeCorrect == Spec => []TypeOK
  <1>1. IInv => TypeOK
    BY DEF IInv
  <1> QED
    BY <1>1, Inductive, PTL

\* At most one control frame leaves a bus after the stop flag is set.
THEOREM OneLate == Spec => []OneLateFrame
  <1>1. IInv => OneLateFrame
    BY DEF IInv, LateInv, OneLateFrame
  <1> QED
    BY <1>1, Inductive, PTL

\* No two threads use the drivers of one bus, on any number of buses.
THEOREM OneUser == Spec => []DriversHaveOneUser
  <1>1. ASSUME IInv PROVE DriversHaveOneUser
    <2> SUFFICES ASSUME NEW b \in Buses, NEW u \in Users(b), NEW v \in Users(b)
                 PROVE  u = v
      BY DEF DriversHaveOneUser
    <2>1. /\ "thread" \in Users(b) => ~Ended(b)
          /\ "monitor" \in Users(b) => b \in Streamed /\ mpc[b] = "disable"
          /\ "lifecycle" \in Users(b) => lpc \in {"disable", "rest"}
          /\ Users(b) \subseteq {"thread", "monitor", "lifecycle"}
      BY DEF Users, Ended, At
    <2>2. /\ b \in Streamed /\ mpc[b] = "disable" => Ended(b)
          /\ lpc \in {"disable", "rest"} => Ended(b) /\ ~(b \in Streamed /\ mpc[b] = "disable")
      BY <1>1 DEF IInv, StageInv
    <2> QED
      BY <2>1, <2>2
  <1> QED
    BY <1>1, Inductive, PTL

\* releaseResources() leaves no motor that was driven last.
THEOREM AllDisabled == Spec => []ReleasedMeansDisabled
  <1>1. IInv => ReleasedMeansDisabled
    BY DEF IInv, ReleaseInv, ReleasedMeansDisabled
  <1> QED
    BY <1>1, Inductive, PTL

\* A deactivation never reports a stalled control loop.
THEOREM NoFalseStale == Spec => []StaleFaultNeedsStall
  <1>1. IInv => StaleFaultNeedsStall
    BY DEF IInv, StaleInv, StaleFaultNeedsStall
  <1> QED
    BY <1>1, Inductive, PTL
---------------------------------------------------------------------------
(* Each motor's driver keeps its contract *)

\* A motor that may be given a control frame.
Ready(m) == drv[m] = "kEnabled" /\ last[m] = "drive"

\* A thread that may still send finds every motor of its bus enabled; a worker
\* that has seen a driver latch is stopped by its next check.
ThreadReady ==
    \A m \in motors :
       \/ tpc[m[1]] \in {"top", "frame", "send"}
       \/ tpc[m[1]] = "cycle" /\ (m[1] \in Streamed \/ ~safeStopped)
       => Ready(m)

\* Until its thread starts, a bus that is open has all its motors enabled and
\* one that is not has none of its drivers.
StartReady ==
    /\ lpc = "open" =>
          \A m \in motors :
             IF m[1] \in live THEN Ready(m) ELSE drv[m] = "none" /\ last[m] = "none"
    /\ lpc = "start" => \A m \in motors : tpc[m[1]] = "off" => Ready(m)

\* Whoever is about to disable a motor finds its driver.
HasDriver ==
    /\ lpc \in {"start", "await", "monitor"} => InUse(Buses) \subseteq live
    /\ lpc = "monitor" => ltodo \subseteq InUse(Streamed)
    /\ \A b \in Streamed : mpc[b] # "off" => b \in live
    /\ lpc = "disable" => \A m \in ltodo : m \in motors /\ m[1] \in live
    /\ lpc = "rest" => \A m \in ltodo : m \in Motors /\ drv[m] # "none"

ReadyInv == ThreadReady /\ StartReady /\ HasDriver

\* What the contract allows one step to do to the drivers.
MotorStep == \A m \in Motors : [MotorContract(m)!Next]_<<drv[m], last[m]>>

\* latchSafeStop() is a step of the contract.
LEMMA LatchContract ==
    ASSUME DriversOK, NEW ms \in SUBSET Motors, Latch(ms)
    PROVE  MotorStep
  BY LatchFacts DEF MotorStep, MotorContract!Next, MotorContract!Latch

\* disable() of a driver that exists is a step of the contract.
LEMMA DisableContract ==
    ASSUME DriversOK, NEW m \in Motors, drv[m] # "none", Disable(m)
    PROVE  MotorStep
  <1> SUFFICES ASSUME NEW x \in Motors
               PROVE  [MotorContract(x)!Next]_<<drv[x], last[x]>>
    BY DEF MotorStep
  <1>1. CASE x # m
    BY <1>1, DisableFacts
  <1>2. CASE x = m
    <2>1. PICK s \in IF drv[m] = "kSafeStopped" THEN {"kSafeStopped"}
                     ELSE {drv[m], "kDisabled", "kSafeStopped"} : drv' = [drv EXCEPT ![m] = s]
      BY DEF Disable
    <2>2. drv'[m] = s /\ last'[m] = "disable"
      BY <2>1, DisableFacts DEF DriversOK
    <2> QED
      BY <1>2, <2>1, <2>2
         DEF MotorContract!Next, MotorContract!Disable, MotorContract!Latch
  <1> QED
    BY <1>1, <1>2

\* So is one motor of disableAxes().
LEMMA DisableAxisContract ==
    ASSUME DriversOK, NEW m \in Motors, drv[m] # "none", DisableAxis(m)
    PROVE  MotorStep
  <1>1. CASE drv[m] = "kDisabled"
    BY <1>1 DEF DisableAxis, driverVars, MotorStep
  <1>2. CASE drv[m] # "kDisabled"
    BY <1>2, DisableContract DEF DisableAxis
  <1> QED
    BY <1>1, <1>2

\* A frame for motors that are ready.
LEMMA FrameContract ==
    ASSUME DriversOK, ThreadsOK, NEW b \in Buses, NEW ms \in SUBSET Motors,
           \A m \in ms : Ready(m), Frame(b, ms), UNCHANGED drv
    PROVE  MotorStep /\ \A m \in Motors : Ready(m) => Ready(m)'
  <1>1. /\ \A m \in ms : last'[m] = "drive" /\ last[m] = "drive"
        /\ \A m \in Motors : drv'[m] = drv[m] /\ (m \notin ms => last'[m] = last[m])
    BY FrameFacts DEF Ready
  <1> QED
    BY <1>1 DEF MotorStep, Ready

\* A step that touches neither the drivers nor the bus threads, and moves the
\* lifecycle thread on at most.
LEMMA StillReady ==
    ASSUME IInv, ReadyInv, UNCHANGED <<motors, live, drv, last, tpc, safeStopped>>,
           \A b \in Streamed : mpc'[b] # "off" => mpc[b] # "off",
           \/ lpc' = lpc /\ ltodo' \subseteq ltodo
           \/ lpc' \in {"active", "release", "request", "stop", "joining", "closed"}
           \/ lpc = "open" /\ ltodo = {} /\ lpc' = "start"
           \/ lpc = "start" /\ lpc' = "await"
           \/ lpc = "await" /\ lpc' = "monitor" /\ ltodo' = InUse(Streamed)
           \/ lpc' = "disable" /\ ltodo' = UNION {On(b) : b \in Streamed \cap live}
           \/ lpc' = "rest" /\ \A m \in ltodo' : m \in Motors /\ drv[m] # "none"
    PROVE  ReadyInv' /\ MotorStep
  <1>1. DriversOK /\ StageInv
    BY DEF IInv, TypeOK
  <1>2. /\ motors \subseteq Motors /\ \A x \in Motors : x[1] \in Buses
        /\ \A c : On(c) \subseteq Motors /\ \A x \in On(c) : x[1] = c /\ x \in motors
        /\ \A x \in motors : x \in On(x[1])
    BY <1>1, MotorFacts
  <1>3. /\ \A m \in motors : m[1] \in InUse(Buses)
        /\ InUse(Buses)' = InUse(Buses) /\ InUse(Streamed)' = InUse(Streamed)
    BY <1>2 DEF InUse, On
  <1>4. ThreadReady'
    BY DEF ReadyInv, ThreadReady, Ready
  <1>5. StartReady'
    BY <1>1, <1>3 DEF ReadyInv, StartReady, Ready, StageInv
  <1>6. HasDriver'
    BY <1>1, <1>2, <1>3 DEF ReadyInv, HasDriver, StageInv
  <1>7. MotorStep
    BY DEF MotorStep
  <1> QED
    BY <1>4, <1>5, <1>6, <1>7 DEF ReadyInv

\* A step of the thread of bus b that leaves the motors ready where it may
\* still send.
LEMMA ThreadKeepsReady ==
    ASSUME IInv, ReadyInv, NEW b \in Buses, ~Ended(b), tpc'[b] # "off",
           UNCHANGED <<motors, live, lpc, ltodo, mpc>>, safeStopped => safeStopped',
           \A c \in Buses \ {b} : tpc'[c] = tpc[c],
           \A x \in Motors : x \notin On(b) => drv'[x] = drv[x] /\ last'[x] = last[x],
           \/ tpc'[b] \in {"top", "frame", "send"}
           \/ tpc'[b] = "cycle" /\ (b \in Streamed \/ ~safeStopped')
           => \A x \in On(b) : Ready(x)'
    PROVE  ReadyInv'
  <1>1. /\ DriversOK /\ StageInv /\ lpc \notin {"open", "disable", "rest"}
    BY DEF IInv, TypeOK, StageInv, Ended
  <1>2. /\ motors \subseteq Motors /\ \A x \in Motors : x[1] \in Buses
        /\ \A c : On(c) \subseteq Motors /\ \A x \in On(c) : x[1] = c /\ x \in motors
        /\ \A x \in motors : x \in On(x[1])
    BY <1>1, MotorFacts
  <1>3. ThreadReady'
    <2> SUFFICES ASSUME NEW x \in motors,
                        \/ tpc'[x[1]] \in {"top", "frame", "send"}
                        \/ tpc'[x[1]] = "cycle" /\ (x[1] \in Streamed \/ ~safeStopped')
                 PROVE  Ready(x)'
      BY DEF ThreadReady
    <2>1. CASE x[1] = b
      BY <1>2, <2>1
    <2>2. CASE x[1] # b
      BY <1>2, <2>2 DEF ReadyInv, ThreadReady, Ready
    <2> QED
      BY <2>1, <2>2
  <1>4. StartReady'
    <2> SUFFICES ASSUME lpc = "start", NEW x \in motors, tpc'[x[1]] = "off" PROVE Ready(x)'
      BY <1>1 DEF StartReady
    <2>1. x[1] # b
      OBVIOUS
    <2> QED
      BY <1>2, <2>1 DEF ReadyInv, StartReady, Ready
  <1>5. HasDriver'
    BY <1>1 DEF ReadyInv, HasDriver, InUse, On
  <1> QED
    BY <1>3, <1>4, <1>5 DEF ReadyInv

\* A motor is disabled when its bus's thread has ended.
LEMMA EndedKeepsReady ==
    ASSUME IInv, ReadyInv, NEW m \in Motors, Ended(m[1]), lpc \notin {"open", "start"},
           UNCHANGED <<motors, live, lpc, tpc, safeStopped>>, ltodo' \subseteq ltodo,
           \A b \in Streamed : mpc'[b] # "off" => mpc[b] # "off",
           drv[m] # "none" => drv'[m] # "none",
           \A x \in Motors \ {m} : drv'[x] = drv[x] /\ last'[x] = last[x]
    PROVE  ReadyInv'
  <1>1. motors \subseteq Motors /\ \A x \in Motors : x[1] \in Buses
    BY MotorFacts DEF IInv, TypeOK
  <1>2. ThreadReady'
    <2> SUFFICES ASSUME NEW x \in motors,
                        \/ tpc[x[1]] \in {"top", "frame", "send"}
                        \/ tpc[x[1]] = "cycle" /\ (x[1] \in Streamed \/ ~safeStopped)
                 PROVE  Ready(x)'
      BY DEF ThreadReady
    <2>1. x # m
      BY DEF Ended
    <2> QED
      BY <1>1, <2>1 DEF ReadyInv, ThreadReady, Ready
  <1>3. StartReady'
    BY DEF StartReady
  <1>4. HasDriver'
    BY DEF ReadyInv, HasDriver, InUse, On
  <1> QED
    BY <1>2, <1>3, <1>4 DEF ReadyInv

\* The steps of the lifecycle thread that only move it on.
LEMMA LifeMovesReady ==
    ASSUME IInv, ReadyInv,
           \/ Opened \/ Started \/ StartMonitors \/ MonitorFails \/ Activated \/ Deactivate
           \/ \E b \in Buses : StartFails(b)
           \/ \E b \in Streamed : AwaitFeedback(b) \/ RequestStop(b) \/ StopStream(b)
           \/ ReleaseBegin \/ Requested \/ StreamStopped \/ JoinWorkers
           \/ ReleaseRest \/ Released
    PROVE  ReadyInv' /\ MotorStep
  <1> USE DEF notLife, driverVars, flagVars, busVars, monitorVars, ageVars, Loop
  <1>1. CASE Opened
    BY <1>1, StillReady DEF Opened
  <1>2. CASE Started
    BY <1>2, StillReady DEF Started
  <1>3. CASE StartMonitors
    BY <1>3, StillReady DEF StartMonitors
  <1>4. CASE MonitorFails \/ Activated
    BY <1>4, StillReady DEF MonitorFails, Activated
  <1>5. CASE Deactivate
    BY <1>5, StillReady DEF Deactivate
  <1>6. ASSUME NEW b \in Buses, StartFails(b) PROVE ReadyInv' /\ MotorStep
    BY <1>6, StillReady DEF StartFails
  <1>7. ASSUME NEW b \in Streamed, AwaitFeedback(b) PROVE ReadyInv' /\ MotorStep
    BY <1>7, StillReady DEF AwaitFeedback
  <1>8. ASSUME NEW b \in Streamed, RequestStop(b) PROVE ReadyInv' /\ MotorStep
    BY <1>8, StillReady DEF RequestStop
  <1>9. ASSUME NEW b \in Streamed, StopStream(b) PROVE ReadyInv' /\ MotorStep
    BY <1>9, StillReady DEF StopStream
  <1>10. CASE ReleaseBegin
    BY <1>10, StillReady DEF ReleaseBegin
  <1>11. CASE Requested
    BY <1>11, StillReady DEF Requested
  <1>12. CASE StreamStopped
    BY <1>12, StillReady DEF StreamStopped
  <1>13. CASE JoinWorkers
    BY <1>13, StillReady DEF JoinWorkers
  <1>14. CASE ReleaseRest
    BY <1>14, StillReady DEF ReleaseRest
  <1>15. CASE Released
    BY <1>15, StillReady DEF Released
  <1> QED
    BY <1>1, <1>2, <1>3, <1>4, <1>5, <1>6, <1>7, <1>8, <1>9, <1>10, <1>11, <1>12, <1>13,
       <1>14, <1>15

\* The motors of a bus that is about to open have no driver yet.
LEMMA UnopenedFacts ==
    ASSUME IInv, ReadyInv, NEW b \in Buses, lpc = "open", Turn(b, ltodo)
    PROVE  /\ b \in ltodo /\ b \notin live
           /\ \A m \in On(b) : drv[m] = "none" /\ last[m] = "none"
           /\ \A c \in Buses : tpc[c] = "off"
           /\ \A c \in Streamed : mpc[c] = "off"
  <1>1. b \in ltodo
    BY TurnFacts
  <1>2. b \notin live
    BY <1>1 DEF IInv, StageInv
  <1>3. \A m \in On(b) : m \in motors /\ m[1] = b
    BY DEF On
  <1> QED
    BY <1>1, <1>2, <1>3 DEF ReadyInv, StartReady, IInv, StageInv

\* A bus opens: its drivers are constructed and enabled.
LEMMA OpenBusReady ==
    ASSUME IInv, ReadyInv, NEW b \in Buses, OpenBus(b)
    PROVE  ReadyInv' /\ MotorStep
  <1>1. /\ lpc = "open" /\ Turn(b, ltodo) /\ live' = live \cup {b}
        /\ drv' = [m \in Motors |-> IF m \in On(b) THEN "kEnabled" ELSE drv[m]]
        /\ last' = [m \in Motors |-> IF m \in On(b) THEN "drive" ELSE last[m]]
        /\ UNCHANGED <<motors, lpc, tpc, mpc>>
    BY DEF OpenBus, notLife, busVars, monitorVars, ageVars
  <1>2. /\ \A m \in On(b) : drv[m] = "none" /\ last[m] = "none"
        /\ \A c \in Buses : tpc[c] = "off"
        /\ \A c \in Streamed : mpc[c] = "off"
    BY <1>1, UnopenedFacts
  <1>3. /\ motors \subseteq Motors /\ \A x \in Motors : x[1] \in Buses
        /\ \A x \in On(b) : x[1] = b /\ x \in Motors
        /\ \A x \in motors : x[1] = b => x \in On(b)
    BY MotorFacts DEF IInv, TypeOK
  <1>4. ThreadReady'
    BY <1>1, <1>2, <1>3 DEF ThreadReady
  <1>5. StartReady'
    BY <1>1, <1>3 DEF ReadyInv, StartReady, Ready
  <1>6. HasDriver'
    BY <1>1, <1>2 DEF HasDriver
  <1>7. MotorStep
    BY <1>1, <1>2, <1>3 DEF MotorStep, MotorContract!Next, MotorContract!Enable
  <1> QED
    BY <1>4, <1>5, <1>6, <1>7 DEF ReadyInv

\* A bus fails to open: some drivers are enabled, one has failed.
LEMMA OpenFailsReady ==
    ASSUME IInv, ReadyInv, NEW b \in Buses, OpenFails(b)
    PROVE  ReadyInv' /\ MotorStep
  <1>1. /\ lpc = "open" /\ Turn(b, ltodo) /\ lpc' = "release"
        /\ UNCHANGED <<motors, tpc, mpc>>
    BY DEF OpenFails, Loop, notLife, busVars, monitorVars, ageVars
  <1>2. /\ \A m \in On(b) : drv[m] = "none" /\ last[m] = "none"
        /\ \A c \in Buses : tpc[c] = "off"
        /\ \A c \in Streamed : mpc[c] = "off"
    BY <1>1, UnopenedFacts
  <1>3. /\ motors \subseteq Motors /\ \A x \in Motors : x[1] \in Buses
        /\ On(b) \subseteq Motors
    BY MotorFacts DEF IInv, TypeOK
  <1>4. ReadyInv'
    BY <1>1, <1>2, <1>3 DEF ReadyInv, ThreadReady, StartReady, HasDriver
  <1>5. MotorStep
    <2>1. PICK done \in SUBSET On(b), m \in On(b),
               s \in {"none", "kDisabled", "kEnabled", "kSafeStopped"} :
            /\ m \notin done
            /\ drv' = [x \in Motors |-> IF x \in done THEN "kEnabled"
                                        ELSE IF x = m THEN s ELSE drv[x]]
            /\ last' = [x \in Motors |->
                          IF x \in done \/ (x = m /\ drv'[m] \in {"kDisabled", "kEnabled"})
                          THEN "drive"
                          ELSE IF x = m /\ drv'[m] = "kSafeStopped" THEN "disable"
                          ELSE last[x]]
      BY DEF OpenFails
    <2>2. drv'[m] = s
      BY <1>3, <2>1
    <2> SUFFICES ASSUME NEW x \in Motors
                 PROVE  [MotorContract(x)!Next]_<<drv[x], last[x]>>
      BY DEF MotorStep
    <2>3. CASE x \in done
      BY <1>2, <2>1, <2>3 DEF MotorContract!Next, MotorContract!Enable
    <2>4. CASE x = m
      BY <1>2, <2>1, <2>2, <2>4
         DEF MotorContract!Next, MotorContract!Enable, MotorContract!Latch
    <2>5. CASE x \notin done /\ x # m
      BY <2>1, <2>5
    <2> QED
      BY <2>3, <2>4, <2>5
  <1> QED
    BY <1>4, <1>5

\* The thread of a bus starts: the motors have been enabled.
LEMMA StartBusReady ==
    ASSUME IInv, ReadyInv, NEW b \in Buses, StartBus(b)
    PROVE  ReadyInv' /\ MotorStep
  <1>1. /\ lpc = "start" /\ b \in ltodo
        /\ tpc' = [tpc EXCEPT ![b] = "top"]
        /\ UNCHANGED <<motors, live, drv, last, lpc, mpc, safeStopped>>
    BY TurnFacts DEF StartBus, driverVars, monitorVars, ageVars
  <1>2. /\ motors \subseteq Motors /\ \A x \in Motors : x[1] \in Buses
        /\ tpc \in [Buses -> ThreadPlaces] /\ tpc[b] = "off"
    BY <1>1, MotorFacts DEF IInv, TypeOK, StageInv, ThreadsOK
  <1>3. ThreadReady'
    <2> SUFFICES ASSUME NEW x \in motors,
                        \/ tpc'[x[1]] \in {"top", "frame", "send"}
                        \/ tpc'[x[1]] = "cycle" /\ (x[1] \in Streamed \/ ~safeStopped)
                 PROVE  Ready(x)'
      BY <1>1 DEF ThreadReady
    <2>1. CASE x[1] = b
      BY <1>1, <1>2, <2>1 DEF ReadyInv, StartReady, Ready
    <2>2. CASE x[1] # b
      BY <1>1, <1>2, <2>2 DEF ReadyInv, ThreadReady, Ready
    <2> QED
      BY <2>1, <2>2
  <1>4. StartReady'
    <2> SUFFICES ASSUME NEW x \in motors, tpc'[x[1]] = "off" PROVE Ready(x)'
      BY <1>1 DEF StartReady
    <2>1. tpc[x[1]] = "off"
      BY <1>1, <1>2
    <2> QED
      BY <1>1, <2>1 DEF ReadyInv, StartReady, Ready
  <1>5. HasDriver'
    BY <1>1 DEF ReadyInv, HasDriver, InUse, On
  <1>6. MotorStep
    BY <1>1 DEF MotorStep
  <1> QED
    BY <1>3, <1>4, <1>5, <1>6 DEF ReadyInv

\* A monitor starts, on a bus that has drivers.
LEMMA StartMonitorReady ==
    ASSUME IInv, ReadyInv, NEW b \in Streamed, StartMonitor(b)
    PROVE  ReadyInv' /\ MotorStep
  <1>1. /\ lpc = "monitor" /\ b \in ltodo /\ ltodo' = ltodo \ {b}
        /\ mpc' = [mpc EXCEPT ![b] = "poll"]
        /\ UNCHANGED <<motors, live, drv, last, lpc, tpc, safeStopped>>
    BY TurnFacts DEF StartMonitor, driverVars, flagVars, busVars, ageVars
  <1>2. mpc \in [Streamed -> MonitorPlaces]
    BY DEF IInv, TypeOK, ThreadsOK
  <1>3. b \in live
    BY <1>1 DEF ReadyInv, HasDriver, InUse, Buses
  <1>4. ThreadReady' /\ StartReady'
    BY <1>1 DEF ReadyInv, ThreadReady, StartReady, Ready
  <1>5. HasDriver'
    BY <1>1, <1>2, <1>3 DEF ReadyInv, HasDriver, InUse, On
  <1>6. MotorStep
    BY <1>1 DEF MotorStep
  <1> QED
    BY <1>4, <1>5, <1>6 DEF ReadyInv

\* releaseResources() disables a motor of a stream.
LEMMA ReleaseAxisReady ==
    ASSUME IInv, ReadyInv, NEW m \in Motors, ReleaseAxis(m)
    PROVE  ReadyInv' /\ MotorStep
  <1>1. /\ lpc = "disable" /\ m \in ltodo /\ DisableAxis(m) /\ ltodo' \subseteq ltodo
        /\ UNCHANGED <<motors, live, lpc, tpc, mpc, safeStopped>>
    BY TurnFacts DEF ReleaseAxis, notLife, flagVars, busVars, monitorVars, ageVars
  <1>2. DriversOK /\ drv[m] # "none" /\ Ended(m[1])
    BY <1>1, MotorFacts DEF IInv, TypeOK, ReadyInv, HasDriver, DriveInv, StageInv
  <1>3. MotorStep
    BY <1>1, <1>2, DisableAxisContract
  <1>4. /\ drv'[m] # "none"
        /\ \A x \in Motors \ {m} : drv'[x] = drv[x] /\ last'[x] = last[x]
    BY <1>1, <1>2, DisableAxisFacts
  <1>5. ReadyInv'
    BY <1>1, <1>2, <1>4, EndedKeepsReady
  <1> QED
    BY <1>3, <1>5

\* releaseResources() disables any other motor that has a driver.
LEMMA ReleaseMotorReady ==
    ASSUME IInv, ReadyInv, NEW m \in Motors, ReleaseMotor(m)
    PROVE  ReadyInv' /\ MotorStep
  <1>1. /\ lpc = "rest" /\ m \in ltodo /\ Disable(m) /\ ltodo' \subseteq ltodo
        /\ UNCHANGED <<motors, live, lpc, tpc, mpc, safeStopped>>
    BY TurnFacts DEF ReleaseMotor, notLife, flagVars, busVars, monitorVars, ageVars
  <1>2. DriversOK /\ drv[m] # "none" /\ Ended(m[1])
    BY <1>1, MotorFacts DEF IInv, TypeOK, ReadyInv, HasDriver, StageInv
  <1>3. MotorStep
    BY <1>1, <1>2, DisableContract
  <1>4. /\ drv'[m] # "none"
        /\ \A x \in Motors \ {m} : drv'[x] = drv[x] /\ last'[x] = last[x]
    BY <1>1, <1>2, DisableFacts
  <1>5. ReadyInv'
    BY <1>1, <1>2, <1>4, EndedKeepsReady
  <1> QED
    BY <1>3, <1>5

\* What a bus thread that is past its start finds: a driver for every motor of
\* its bus, all of them ready where it may still send.
LEMMA ThreadFinds ==
    ASSUME IInv, ReadyInv, NEW b \in Buses, ~Ended(b)
    PROVE  /\ DriversOK /\ ThreadsOK /\ On(b) \subseteq Motors /\ todo[b] \subseteq On(b)
           /\ \A m \in On(b) : drv[m] # "none"
           /\ \/ tpc[b] \in {"top", "frame", "send"}
              \/ tpc[b] = "cycle" /\ (b \in Streamed \/ ~safeStopped)
              => \A m \in On(b) : Ready(m)
  <1>1. DriversOK /\ ThreadsOK /\ StageInv /\ DriveInv /\ b \in live
    BY DEF IInv, TypeOK, StageInv, Ended
  <1>2. On(b) \subseteq Motors /\ \A m \in On(b) : m[1] = b /\ m \in motors
    BY <1>1, MotorFacts
  <1> QED
    BY <1>1, <1>2 DEF StageInv, DriveInv, ReadyInv, ThreadReady

\* The steps of a worker that touch no driver.
LEMMA WorkerIdleReady ==
    ASSUME IInv, ReadyInv, NEW b \in Sequential,
           WorkerTop(b) \/ WorkerCheck(b) \/ WorkerExit(b)
    PROVE  ReadyInv' /\ MotorStep
  <1> USE DEF notThread, lifeVars, flagVars, monitorVars, ageVars, driverVars, Go, At
  <1>1. b \in Buses /\ b \notin Streamed
    BY BusAssumption DEF Buses
  <1>2. ~Ended(b)
    BY DEF WorkerTop, WorkerCheck, WorkerExit, Ended
  <1>3. /\ tpc \in [Buses -> ThreadPlaces]
        /\ \A m \in On(b) : (tpc[b] = "top" \/ (tpc[b] = "cycle" /\ ~safeStopped)) => Ready(m)
    BY <1>1, <1>2, ThreadFinds DEF ThreadsOK
  <1>4. /\ UNCHANGED <<motors, live, drv, last, lpc, ltodo, mpc, safeStopped>>
        /\ \E pc \in {"top", "cycle", "send", "exit", "disable", "done"} :
              /\ tpc' = [tpc EXCEPT ![b] = pc]
              /\ pc \in {"top", "cycle", "send"} =>
                    tpc[b] = "top" \/ (tpc[b] = "cycle" /\ ~safeStopped)
    <2>1. CASE WorkerTop(b)
      BY <2>1 DEF WorkerTop
    <2>2. CASE WorkerCheck(b)
      BY <2>2 DEF WorkerCheck
    <2>3. CASE WorkerExit(b)
      BY <2>3 DEF WorkerExit
    <2> QED
      BY <2>1, <2>2, <2>3
  <1>5. /\ tpc'[b] # "off" /\ \A c \in Buses \ {b} : tpc'[c] = tpc[c]
        /\ tpc'[b] \in {"top", "frame", "cycle", "send"} => \A m \in On(b) : Ready(m)'
    BY <1>1, <1>3, <1>4 DEF Ready
  <1>6. ReadyInv'
    BY <1>1, <1>2, <1>4, <1>5, ThreadKeepsReady
  <1> QED
    BY <1>4, <1>6 DEF MotorStep

\* A worker sends to one motor.
LEMMA WorkerSendReady ==
    ASSUME IInv, ReadyInv, NEW b \in Sequential, NEW m \in On(b), WorkerSend(b, m)
    PROVE  ReadyInv' /\ MotorStep
  <1>1. /\ tpc[b] = "send" /\ tpc' = [tpc EXCEPT ![b] = "cycle"]
        /\ \/ UNCHANGED <<drv, last, safeStopped>>
           \/ Frame(b, {m}) /\ safeStopped' \in {safeStopped, TRUE} /\ UNCHANGED drv
           \/ Latch({m}) /\ safeStopped' = TRUE
        /\ UNCHANGED <<motors, live, lpc, ltodo, mpc>>
    BY DEF WorkerSend, notThread, lifeVars, flagVars, monitorVars, ageVars, driverVars, Go, At
  <1>2. b \in Buses /\ b \notin Streamed /\ ~Ended(b)
    BY <1>1, BusAssumption DEF Buses, Ended
  <1>3. /\ DriversOK /\ ThreadsOK /\ m \in Motors /\ On(b) \subseteq Motors
        /\ \A x \in On(b) : Ready(x)
    BY <1>1, <1>2, ThreadFinds
  <1>4. tpc'[b] = "cycle" /\ \A c \in Buses \ {b} : tpc'[c] = tpc[c]
    BY <1>1, <1>2, <1>3 DEF ThreadsOK
  <1>5. CASE UNCHANGED <<drv, last, safeStopped>>
    <2>1. \A x \in On(b) : Ready(x)'
      BY <1>3, <1>5 DEF Ready
    <2>2. ReadyInv'
      BY <1>1, <1>2, <1>4, <1>5, <2>1, ThreadKeepsReady
    <2> QED
      BY <1>5, <2>2 DEF MotorStep
  <1>6. CASE Frame(b, {m}) /\ safeStopped' \in {safeStopped, TRUE} /\ UNCHANGED drv
    <2>1. MotorStep /\ \A x \in On(b) : Ready(x)'
      BY <1>2, <1>3, <1>6, FrameContract
    <2>2. \A x \in Motors : x \notin On(b) => drv'[x] = drv[x] /\ last'[x] = last[x]
      BY <1>2, <1>3, <1>6, FrameFacts
    <2>3. safeStopped => safeStopped'
      BY <1>6
    <2>4. ReadyInv'
      BY <1>1, <1>2, <1>4, <2>1, <2>2, <2>3, ThreadKeepsReady
    <2> QED
      BY <2>1, <2>4
  <1>7. CASE Latch({m}) /\ safeStopped' = TRUE
    <2>1. MotorStep
      BY <1>3, <1>7, LatchContract
    <2>2. \A x \in Motors : x \notin On(b) => drv'[x] = drv[x] /\ last'[x] = last[x]
      BY <1>3, <1>7, LatchFacts
    <2>3. ReadyInv'
      BY <1>1, <1>2, <1>4, <1>7, <2>2, ThreadKeepsReady
    <2> QED
      BY <2>1, <2>3
  <1> QED
    BY <1>1, <1>5, <1>6, <1>7

\* A worker disables the motors of its bus.
LEMMA WorkerDisableReady ==
    ASSUME IInv, ReadyInv, NEW b \in Sequential, WorkerDisable(b)
    PROVE  ReadyInv' /\ MotorStep
  <1>1. /\ tpc[b] = "disable" /\ tpc' \in {tpc, [tpc EXCEPT ![b] = "done"]}
        /\ \/ UNCHANGED <<drv, last>>
           \/ \E m \in todo[b] : Disable(m)
        /\ UNCHANGED <<motors, live, lpc, ltodo, mpc, safeStopped>>
    BY DEF WorkerDisable, notThread, lifeVars, flagVars, monitorVars, ageVars, driverVars, Go, At
  <1>2. b \in Buses /\ ~Ended(b)
    BY <1>1 DEF Buses, Ended
  <1>3. /\ DriversOK /\ ThreadsOK /\ On(b) \subseteq Motors /\ todo[b] \subseteq On(b)
        /\ \A m \in On(b) : drv[m] # "none"
    BY <1>2, ThreadFinds
  <1>4. tpc'[b] \in {"disable", "done"} /\ \A c \in Buses \ {b} : tpc'[c] = tpc[c]
    BY <1>1, <1>2, <1>3 DEF ThreadsOK
  <1>5. /\ MotorStep
        /\ \A x \in Motors : x \notin On(b) => drv'[x] = drv[x] /\ last'[x] = last[x]
    <2>1. CASE UNCHANGED <<drv, last>>
      BY <2>1 DEF MotorStep
    <2>2. ASSUME NEW m \in todo[b], Disable(m)
          PROVE  /\ MotorStep
                 /\ \A x \in Motors : x \notin On(b) => drv'[x] = drv[x] /\ last'[x] = last[x]
      BY <1>3, <2>2, DisableContract, DisableFacts
    <2> QED
      BY <1>1, <2>1, <2>2
  <1>6. ReadyInv'
    BY <1>1, <1>2, <1>4, <1>5, ThreadKeepsReady
  <1> QED
    BY <1>5, <1>6

\* The steps of a send thread that touch no driver.
LEMMA TxIdleReady ==
    ASSUME IInv, ReadyInv, NEW b \in Streamed, TxTop(b) \/ TxCheck(b) \/ TxCycleEnds(b)
    PROVE  ReadyInv' /\ MotorStep
  <1> USE DEF txFrame, lifeVars, flagVars, monitorVars, ageVars, driverVars, Go, At
  <1>1. b \in Buses /\ ~Ended(b) /\ tpc[b] \in {"top", "frame"}
    BY DEF Buses, TxTop, TxCheck, TxCycleEnds, Ended
  <1>2. tpc \in [Buses -> ThreadPlaces] /\ \A m \in On(b) : Ready(m)
    BY <1>1, ThreadFinds DEF ThreadsOK
  <1>3. /\ UNCHANGED <<motors, live, drv, last, lpc, ltodo, mpc>> /\ (safeStopped => safeStopped')
        /\ \E pc \in {"top", "cycle", "frame", "send", "done"} : tpc' = [tpc EXCEPT ![b] = pc]
    <2>1. CASE TxTop(b)
      BY <2>1 DEF TxTop
    <2>2. CASE TxCheck(b)
      BY <2>2 DEF TxCheck
    <2>3. CASE TxCycleEnds(b)
      BY <2>3 DEF TxCycleEnds
    <2> QED
      BY <2>1, <2>2, <2>3
  <1>4. /\ tpc'[b] # "off" /\ \A c \in Buses \ {b} : tpc'[c] = tpc[c]
        /\ \A m \in On(b) : Ready(m)'
    BY <1>1, <1>2, <1>3 DEF Ready
  <1>5. ReadyInv'
    BY <1>1, <1>3, <1>4, ThreadKeepsReady
  <1> QED
    BY <1>3, <1>5 DEF MotorStep

\* A cycle up to its frames: at most it latches a driver, and then it ends.
LEMMA TxCycleReady ==
    ASSUME IInv, ReadyInv, NEW b \in Streamed, TxCycle(b)
    PROVE  ReadyInv' /\ MotorStep
  <1>1. /\ tpc[b] = "cycle"
        /\ \/ (\E m \in On(b) : Latch({m})) /\ tpc' = [tpc EXCEPT ![b] = "done"]
           \/ /\ UNCHANGED <<drv, last>>
              /\ \E pc \in {"done", "top", "frame"} : tpc' = [tpc EXCEPT ![b] = pc]
        /\ safeStopped => safeStopped'
        /\ UNCHANGED <<motors, live, lpc, ltodo, mpc>>
    BY DEF TxCycle, txFrame, lifeVars, flagVars, monitorVars, ageVars, driverVars, Go, At
  <1>2. b \in Buses /\ ~Ended(b)
    BY <1>1 DEF Buses, Ended
  <1>3. DriversOK /\ ThreadsOK /\ On(b) \subseteq Motors /\ \A m \in On(b) : Ready(m)
    BY <1>1, <1>2, ThreadFinds
  <1>4. ASSUME NEW m \in On(b), Latch({m}), tpc' = [tpc EXCEPT ![b] = "done"]
        PROVE  ReadyInv' /\ MotorStep
    <2>1. tpc'[b] = "done" /\ \A c \in Buses \ {b} : tpc'[c] = tpc[c]
      BY <1>2, <1>3, <1>4 DEF ThreadsOK
    <2>2. /\ MotorStep
          /\ \A x \in Motors : x \notin On(b) => drv'[x] = drv[x] /\ last'[x] = last[x]
      BY <1>3, <1>4, LatchContract, LatchFacts
    <2>3. ReadyInv'
      BY <1>1, <1>2, <2>1, <2>2, ThreadKeepsReady
    <2> QED
      BY <2>2, <2>3
  <1>5. ASSUME UNCHANGED <<drv, last>>, NEW pc \in {"done", "top", "frame"},
               tpc' = [tpc EXCEPT ![b] = pc]
        PROVE  ReadyInv' /\ MotorStep
    <2>1. tpc'[b] = pc /\ \A c \in Buses \ {b} : tpc'[c] = tpc[c]
      BY <1>2, <1>3, <1>5 DEF ThreadsOK
    <2>2. \A m \in On(b) : Ready(m)'
      BY <1>3, <1>5 DEF Ready
    <2>3. ReadyInv'
      BY <1>1, <1>2, <1>5, <2>1, <2>2, ThreadKeepsReady
    <2> QED
      BY <1>5, <2>3 DEF MotorStep
  <1> QED
    BY <1>1, <1>4, <1>5

\* One frame of a stream.
LEMMA TxSendReady ==
    ASSUME IInv, ReadyInv, NEW b \in Streamed, TxSend(b)
    PROVE  ReadyInv' /\ MotorStep
  <1>1. /\ tpc[b] = "send"
        /\ \E ms \in SUBSET todo[b] :
              \/ Frame(b, ms) /\ tpc' = [tpc EXCEPT ![b] = "frame"] /\ UNCHANGED <<drv, safeStopped>>
              \/ Latch(ms) /\ safeStopped' = TRUE /\ tpc' = [tpc EXCEPT ![b] = "done"]
        /\ UNCHANGED <<motors, live, lpc, ltodo, mpc>>
    BY DEF TxSend, txFrame, lifeVars, flagVars, monitorVars, ageVars, Go, At
  <1>2. b \in Buses /\ ~Ended(b)
    BY <1>1 DEF Buses, Ended
  <1>3. /\ DriversOK /\ ThreadsOK /\ On(b) \subseteq Motors /\ todo[b] \subseteq On(b)
        /\ \A m \in On(b) : Ready(m)
    BY <1>1, <1>2, ThreadFinds
  <1>4. ASSUME NEW ms \in SUBSET todo[b], Frame(b, ms), tpc' = [tpc EXCEPT ![b] = "frame"],
               UNCHANGED <<drv, safeStopped>>
        PROVE  ReadyInv' /\ MotorStep
    <2>1. ms \in SUBSET Motors /\ \A m \in ms : Ready(m) /\ m \in On(b)
      BY <1>3
    <2>2. MotorStep /\ \A m \in On(b) : Ready(m)'
      BY <1>2, <1>3, <1>4, <2>1, FrameContract
    <2>3. \A x \in Motors : x \notin On(b) => drv'[x] = drv[x] /\ last'[x] = last[x]
      BY <1>2, <1>3, <1>4, <2>1, FrameFacts
    <2>4. tpc'[b] = "frame" /\ \A c \in Buses \ {b} : tpc'[c] = tpc[c]
      BY <1>2, <1>3, <1>4 DEF ThreadsOK
    <2>5. ReadyInv'
      BY <1>1, <1>2, <1>4, <2>2, <2>3, <2>4, ThreadKeepsReady
    <2> QED
      BY <2>2, <2>5
  <1>5. ASSUME NEW ms \in SUBSET todo[b], Latch(ms), safeStopped' = TRUE,
               tpc' = [tpc EXCEPT ![b] = "done"]
        PROVE  ReadyInv' /\ MotorStep
    <2>1. ms \in SUBSET Motors /\ \A m \in ms : m \in On(b)
      BY <1>3
    <2>2. /\ MotorStep
          /\ \A x \in Motors : x \notin On(b) => drv'[x] = drv[x] /\ last'[x] = last[x]
      BY <1>3, <1>5, <2>1, LatchContract, LatchFacts
    <2>3. tpc'[b] = "done" /\ \A c \in Buses \ {b} : tpc'[c] = tpc[c]
      BY <1>2, <1>3, <1>5 DEF ThreadsOK
    <2>4. ReadyInv'
      BY <1>1, <1>2, <1>5, <2>2, <2>3, ThreadKeepsReady
    <2> QED
      BY <2>2, <2>4
  <1> QED
    BY <1>1, <1>4, <1>5

\* A monitor moves on or disables a motor of its bus, whose send thread has
\* ended.
LEMMA MonitorReady ==
    ASSUME IInv, ReadyInv, NEW b \in Streamed, Monitor(b)
    PROVE  ReadyInv' /\ MotorStep
  <1> USE DEF notMonitor, lifeVars, flagVars, busVars, ageVars, driverVars
  <1>1. DriversOK /\ ThreadsOK /\ StageInv /\ DriveInv
    BY DEF IInv, TypeOK
  <1>2. UNCHANGED <<motors, live, lpc, ltodo, tpc, safeStopped>>
    BY DEF Monitor, MonitorPoll, MonitorDecide, MonitorStop, MonitorStopped, MonitorDisable
  <1>3. \A c \in Streamed : mpc'[c] # "off" => mpc[c] # "off"
    BY <1>1 DEF ThreadsOK, Monitor, MonitorPoll, MonitorDecide, MonitorStop, MonitorStopped,
       MonitorDisable
  <1>4. CASE UNCHANGED <<drv, last>>
    BY <1>2, <1>3, <1>4, StillReady
  <1>5. ASSUME mpc[b] = "disable", NEW m \in mtodo[b], DisableAxis(m)
        PROVE  ReadyInv' /\ MotorStep
    <2>1. m \in Motors /\ m \in motors /\ m[1] = b
      BY <1>1, MotorFacts DEF StageInv
    <2>2. b \in live /\ Ended(b) /\ lpc \notin {"open", "start"}
      BY <1>1, <1>5 DEF StageInv, ReadyInv, HasDriver
    <2>3. drv[m] # "none"
      BY <1>1, <2>1, <2>2 DEF DriveInv
    <2>4. MotorStep
      BY <1>1, <1>5, <2>1, <2>3, DisableAxisContract
    <2>5. /\ drv'[m] # "none"
          /\ \A x \in Motors \ {m} : drv'[x] = drv[x] /\ last'[x] = last[x]
      BY <1>1, <1>5, <2>1, <2>3, DisableAxisFacts
    <2>6. ReadyInv'
      BY <1>2, <1>3, <2>1, <2>2, <2>5, EndedKeepsReady
    <2> QED
      BY <2>4, <2>6
  <1> QED
    BY <1>4, <1>5
       DEF Monitor, MonitorPoll, MonitorDecide, MonitorStop, MonitorStopped, MonitorDisable

\* No bus is open at the start.
LEMMA InitReady ==
    ASSUME Init
    PROVE  ReadyInv /\ \A m \in Motors : MotorContract(m)!Init
  <1>1. /\ motors \subseteq Motors /\ \A x \in Motors : x[1] \in Buses
    BY InitInv, MotorFacts DEF IInv, TypeOK
  <1>2. ReadyInv
    BY <1>1 DEF Init, ReadyInv, ThreadReady, StartReady, HasDriver
  <1>3. \A m \in Motors : MotorContract(m)!Init
    BY DEF Init, MotorContract!Init
  <1> QED
    BY <1>2, <1>3

\* Every step finds the drivers it needs and keeps each motor's contract.
LEMMA StepReady == IInv /\ ReadyInv /\ [Next]_vars => ReadyInv' /\ MotorStep
  <1> SUFFICES ASSUME IInv, ReadyInv, [Next]_vars PROVE ReadyInv' /\ MotorStep
    OBVIOUS
  <1>1. CASE UNCHANGED vars
    BY <1>1, StillReady DEF vars, flagVars, driverVars, lifeVars, busVars, monitorVars, ageVars
  <1>2. CASE LifeStep
    BY <1>2, LifeMovesReady, OpenBusReady, OpenFailsReady, StartBusReady, StartMonitorReady,
       ReleaseAxisReady, ReleaseMotorReady DEF LifeStep
  <1>3. ASSUME NEW b \in Sequential, Worker(b) PROVE ReadyInv' /\ MotorStep
    BY <1>3, WorkerIdleReady, WorkerSendReady, WorkerDisableReady DEF Worker
  <1>4. ASSUME NEW b \in Streamed, Sender(b) PROVE ReadyInv' /\ MotorStep
    BY <1>4, TxIdleReady, TxCycleReady, TxSendReady DEF Sender
  <1>5. CASE OwnerStalls \/ OwnerWrites \/ CommandAges
    BY <1>5, StillReady DEF OwnerStalls, OwnerWrites, CommandAges, notAge, flagVars, driverVars,
       lifeVars, busVars, monitorVars
  <1> QED
    BY <1>1, <1>2, <1>3, <1>4, <1>5, LifeMovesReady, MonitorReady DEF Next, Terminated

\* Each motor's driver keeps the contract of a driver, whichever of the worker,
\* the send thread, the monitor and releaseResources() calls it, on any number
\* of buses and motors and whatever fails.
THEOREM KeepsContract == Spec => ImplementsContract
  <1>1. Init => ReadyInv /\ \A m \in Motors : MotorContract(m)!Init
    BY InitReady
  <1>2. MotorStep => [\A m \in Motors : [MotorContract(m)!Next]_<<drv[m], last[m]>>]_driverVars
    BY DEF MotorStep
  <1> QED
    BY <1>1, <1>2, StepReady, Inductive, PTL DEF Spec, ImplementsContract

\* In particular every motor, on its own, is driven as the contract says.
THEOREM EachMotorKeepsContract ==
    ASSUME NEW m \in Motors
    PROVE  Spec => MotorContract(m)!Spec
  <1>1. Init => ReadyInv /\ MotorContract(m)!Init
    BY InitReady
  <1>2. IInv /\ ReadyInv /\ [Next]_vars =>
          ReadyInv' /\ [MotorContract(m)!Next]_(MotorContract(m)!contractVars)
    BY StepReady DEF MotorStep, MotorContract!contractVars
  <1> QED
    BY <1>1, <1>2, Inductive, PTL DEF Spec, MotorContract!Spec
---------------------------------------------------------------------------
(* Nobody waits in a circle *)

\* A bus thread is where it has a step to take: it is about to send only while
\* motors are left, and each kind of thread stays in its own loop.
PlaceInv ==
    /\ \A b \in Buses : tpc[b] = "send" => todo[b] # {}
    /\ \A b \in Streamed : tpc[b] \notin {"exit", "disable"}
    /\ \A b \in Sequential : tpc[b] # "frame"

\* A monitor that goes for the lock has seen its send thread end while the system
\* was running; the lock is held only by one that joins.
LockInv ==
    /\ \A b \in Streamed : mpc[b] \in {"stop", "joining"} => Ended(b)
    /\ \A b \in Streamed : mpc[b] = "decide" /\ running => Ended(b)
    /\ \/ stopLock = "free" \/ lpc = "joining"
       \/ \E b \in Streamed : stopLock = b /\ mpc[b] = "joining"
    /\ lpc \in {"request"} \cup Stopping => ~running
    /\ lpc = "monitor" => \A b \in ltodo \cap Streamed : mpc[b] = "off"

\* A step of the lifecycle thread, a monitor or the owner moves no bus thread,
\* except that it may start one.
LEMMA OthersKeepPlaces ==
    ASSUME IInv, PlaceInv, NEW b \in Buses,
           tpc' = [tpc EXCEPT ![b] = "top"] \/ UNCHANGED tpc, UNCHANGED todo
    PROVE  PlaceInv'
  <1>1. tpc \in [Buses -> ThreadPlaces] /\ Streamed \subseteq Buses /\ Sequential \subseteq Buses
    BY DEF IInv, TypeOK, ThreadsOK, Buses
  <1>2. \A c \in Buses : tpc'[c] \in {tpc[c], "top"}
    BY <1>1
  <1> QED
    BY <1>1, <1>2 DEF PlaceInv

\* A worker step leaves its thread at a place of workerLoop().
LEMMA WorkerPlaces ==
    ASSUME IInv, PlaceInv, NEW b \in Sequential, Worker(b)
    PROVE  PlaceInv'
  <1> USE DEF Go, At
  <1>1. /\ tpc \in [Buses -> ThreadPlaces] /\ todo \in [Buses -> SUBSET Motors]
        /\ b \in Buses /\ b \notin Streamed
        /\ Streamed \subseteq Buses /\ Sequential \subseteq Buses
    BY BusAssumption DEF IInv, TypeOK, ThreadsOK, Buses
  <1>2. /\ \A c \in Buses \ {b} : tpc'[c] = tpc[c] /\ todo'[c] = todo[c]
        /\ tpc'[b] # "frame" /\ (tpc'[b] = "send" => todo'[b] # {})
    <2>1. CASE WorkerTop(b)
      BY <1>1, <2>1 DEF WorkerTop
    <2>2. CASE WorkerCheck(b)
      BY <1>1, <2>2 DEF WorkerCheck
    <2>3. ASSUME NEW m \in On(b), WorkerSend(b, m)
          PROVE  /\ \A c \in Buses \ {b} : tpc'[c] = tpc[c] /\ todo'[c] = todo[c]
                 /\ tpc'[b] = "cycle"
      BY <1>1, <2>3 DEF WorkerSend
    <2>4. CASE WorkerExit(b)
      BY <1>1, <2>4 DEF WorkerExit
    <2>5. CASE WorkerDisable(b)
      BY <1>1, <2>5 DEF WorkerDisable
    <2> QED
      BY <2>1, <2>2, <2>3, <2>4, <2>5 DEF Worker
  <1> QED
    BY <1>1, <1>2 DEF PlaceInv

\* A send thread's step leaves it at a place of sendLoop().
LEMMA SenderPlaces ==
    ASSUME IInv, PlaceInv, NEW b \in Streamed, Sender(b)
    PROVE  PlaceInv'
  <1> USE DEF Go, At
  <1>1. /\ tpc \in [Buses -> ThreadPlaces] /\ todo \in [Buses -> SUBSET Motors]
        /\ b \in Buses /\ b \notin Sequential
        /\ Streamed \subseteq Buses /\ Sequential \subseteq Buses
    BY BusAssumption DEF IInv, TypeOK, ThreadsOK, Buses
  <1>2. /\ \A c \in Buses \ {b} : tpc'[c] = tpc[c] /\ todo'[c] = todo[c]
        /\ tpc'[b] \notin {"exit", "disable"} /\ (tpc'[b] = "send" => todo'[b] # {})
    <2>1. CASE TxTop(b)
      BY <1>1, <2>1 DEF TxTop
    <2>2. CASE TxCycle(b)
      BY <1>1, <2>2 DEF TxCycle
    <2>3. CASE TxCheck(b)
      BY <1>1, <2>3 DEF TxCheck
    <2>4. CASE TxSend(b)
      <3>1. PICK ms : \/ Go(b, "frame") /\ todo' = [todo EXCEPT ![b] = @ \ ms]
                      \/ Go(b, "done") /\ UNCHANGED todo
        BY <2>4 DEF TxSend
      <3> QED
        BY <1>1, <3>1
    <2>5. CASE TxCycleEnds(b)
      BY <1>1, <2>5 DEF TxCycleEnds
    <2> QED
      BY <2>1, <2>2, <2>3, <2>4, <2>5 DEF Sender
  <1> QED
    BY <1>1, <1>2 DEF PlaceInv

\* A bus thread that has ended does not run again, so its steps leave the lock and
\* those who wait for it alone.
LEMMA ThreadKeepsLock ==
    ASSUME IInv, LockInv, NEW b \in Buses, ~Ended(b),
           \A c \in Buses \ {b} : tpc'[c] = tpc[c],
           UNCHANGED <<lpc, ltodo, mpc, running, stopLock>>
    PROVE  LockInv'
  <1>1. Streamed \subseteq Buses
    BY DEF Buses
  <1>2. \A c \in Streamed : Ended(c) => Ended(c)'
    BY <1>1 DEF Ended
  <1> QED
    BY <1>2 DEF LockInv

\* The steps of the worker and of the send thread are such steps.
LEMMA BusThreadKeepsLock ==
    ASSUME IInv, LockInv, NEW b \in Buses,
           (b \in Sequential /\ Worker(b)) \/ (b \in Streamed /\ Sender(b))
    PROVE  LockInv'
  <1> USE DEF Go, At
  <1>1. tpc \in [Buses -> ThreadPlaces]
    BY DEF IInv, TypeOK, ThreadsOK
  <1>2. /\ ~Ended(b) /\ \E pc : tpc' = [tpc EXCEPT ![b] = pc]
        /\ UNCHANGED <<lpc, ltodo, mpc, running, stopLock>>
    <2> USE DEF notThread, txFrame, lifeVars, flagVars, monitorVars, Ended
    <2>1. CASE WorkerTop(b)
      BY <2>1 DEF WorkerTop
    <2>2. CASE WorkerCheck(b)
      BY <2>2 DEF WorkerCheck
    <2>3. ASSUME NEW m \in On(b), WorkerSend(b, m)
          PROVE  /\ ~Ended(b) /\ \E pc : tpc' = [tpc EXCEPT ![b] = pc]
                 /\ UNCHANGED <<lpc, ltodo, mpc, running, stopLock>>
      BY <2>3 DEF WorkerSend
    <2>4. CASE WorkerExit(b)
      BY <2>4 DEF WorkerExit
    <2>5. CASE WorkerDisable(b)
      <3>1. tpc' = [tpc EXCEPT ![b] = "disable"] \/ tpc' = [tpc EXCEPT ![b] = "done"]
        BY <1>1, <2>5 DEF WorkerDisable
      <3> QED
        BY <2>5, <3>1 DEF WorkerDisable
    <2>6. CASE TxTop(b)
      BY <2>6 DEF TxTop
    <2>7. CASE TxCycle(b)
      BY <2>7 DEF TxCycle
    <2>8. CASE TxCheck(b)
      BY <2>8 DEF TxCheck
    <2>9. CASE TxSend(b)
      BY <2>9 DEF TxSend
    <2>10. CASE TxCycleEnds(b)
      BY <2>10 DEF TxCycleEnds
    <2> QED
      BY <2>1, <2>2, <2>3, <2>4, <2>5, <2>6, <2>7, <2>8, <2>9, <2>10 DEF Worker, Sender
  <1>3. \A c \in Buses \ {b} : tpc'[c] = tpc[c]
    BY <1>1, <1>2
  <1> QED
    BY <1>2, <1>3, ThreadKeepsLock

\* A monitor takes the lock only for a send thread that has ended.
LEMMA MonitorKeepsLock ==
    ASSUME IInv, LockInv, NEW b \in Streamed, Monitor(b)
    PROVE  LockInv' /\ UNCHANGED <<tpc, todo>>
  <1> USE DEF notMonitor, lifeVars, flagVars, busVars
  <1>1. mpc \in [Streamed -> MonitorPlaces]
    BY DEF IInv, TypeOK, ThreadsOK
  <1>2. UNCHANGED <<lpc, ltodo, running, tpc, todo>>
    BY DEF Monitor, MonitorPoll, MonitorDecide, MonitorStop, MonitorStopped, MonitorDisable
  <1>3. \A c \in Streamed : Ended(c)' <=> Ended(c)
    BY <1>2 DEF Ended
  <1>4. CASE MonitorPoll(b)
    BY <1>1, <1>2, <1>3, <1>4 DEF MonitorPoll, LockInv
  <1>5. CASE MonitorDecide(b)
    BY <1>1, <1>2, <1>3, <1>5 DEF MonitorDecide, LockInv
  <1>6. CASE MonitorStop(b)
    BY <1>1, <1>2, <1>3, <1>6 DEF MonitorStop, LockInv
  <1>7. CASE MonitorStopped(b)
    BY <1>1, <1>2, <1>3, <1>7 DEF MonitorStopped, LockInv
  <1>8. CASE MonitorDisable(b)
    <2>1. \A c \in Streamed : mpc'[c] = mpc[c] \/ (mpc[c] = "disable" /\ mpc'[c] = "done")
      BY <1>1, <1>8 DEF MonitorDisable
    <2>2. UNCHANGED stopLock
      BY <1>8 DEF MonitorDisable
    <2> QED
      BY <1>2, <1>3, <2>1, <2>2 DEF LockInv
  <1> QED
    BY <1>2, <1>4, <1>5, <1>6, <1>7, <1>8 DEF Monitor

\* A step of the lifecycle thread that neither starts a thread nor touches the lock.
LEMMA LifeKeepsLock ==
    ASSUME IInv, LockInv, PlaceInv,
           lpc # "joining", UNCHANGED <<tpc, todo, mpc, running, stopLock>>,
           lpc' \in {"request"} \cup Stopping => lpc \in {"request"} \cup Stopping,
           lpc' = "monitor" => \A b \in Streamed : mpc[b] = "off"
    PROVE  LockInv' /\ PlaceInv'
  <1>1. \A c \in Streamed : Ended(c)' <=> Ended(c)
    BY DEF Ended
  <1>2. LockInv'
    BY <1>1 DEF LockInv
  <1>3. PlaceInv'
    BY DEF PlaceInv
  <1> QED
    BY <1>2, <1>3

\* The lifecycle thread clears running_ before it waits for anybody, and takes
\* the lock only to join.
LEMMA LifeStepKeepsLock ==
    ASSUME IInv, LockInv, PlaceInv, LifeStep \/ Deactivate
    PROVE  LockInv' /\ PlaceInv'
  <1> USE DEF notLife, flagVars, busVars, monitorVars, Loop, Stopping
  <1>1. /\ tpc \in [Buses -> ThreadPlaces] /\ mpc \in [Streamed -> MonitorPlaces]
        /\ Streamed \subseteq Buses
        /\ lpc \in {"open", "start", "await"} => \A c \in Streamed : mpc[c] = "off"
    BY DEF IInv, TypeOK, ThreadsOK, StageInv, Buses
  <1>2. ASSUME NEW b \in Buses, OpenBus(b) \/ OpenFails(b) \/ StartFails(b)
        PROVE  LockInv' /\ PlaceInv'
    BY <1>2, LifeKeepsLock DEF OpenBus, OpenFails, StartFails
  <1>3. CASE Started \/ StartMonitors \/ MonitorFails \/ Activated \/ Deactivate
    BY <1>1, <1>3, LifeKeepsLock DEF Started, StartMonitors, MonitorFails, Activated, Deactivate
  <1>4. ASSUME NEW b \in Streamed, AwaitFeedback(b) \/ RequestStop(b)
        PROVE  LockInv' /\ PlaceInv'
    BY <1>4, LifeKeepsLock DEF AwaitFeedback, RequestStop
  <1>5. CASE Requested \/ JoinWorkers \/ ReleaseRest \/ Released
    BY <1>5, LifeKeepsLock DEF Requested, JoinWorkers, ReleaseRest, Released
  <1>6. ASSUME NEW m \in Motors, ReleaseAxis(m) \/ ReleaseMotor(m)
        PROVE  LockInv' /\ PlaceInv'
    BY <1>6, LifeKeepsLock DEF ReleaseAxis, ReleaseMotor
  <1>7. CASE Opened
    BY <1>1, <1>7 DEF Opened, LockInv, PlaceInv
  <1>8. ASSUME NEW b \in Buses, StartBus(b) PROVE LockInv' /\ PlaceInv'
    <2>1. LockInv'
      BY <1>1, <1>8 DEF StartBus, LockInv
    <2>2. PlaceInv'
      BY <1>8, OthersKeepPlaces DEF StartBus
    <2> QED
      BY <2>1, <2>2
  <1>9. ASSUME NEW b \in Streamed, StartMonitor(b) PROVE LockInv' /\ PlaceInv'
    <2>1. /\ lpc = "monitor" /\ b \in ltodo \cap Streamed /\ ltodo' = ltodo \ {b}
          /\ mpc' = [mpc EXCEPT ![b] = "poll"]
          /\ UNCHANGED <<lpc, tpc, todo, running, stopLock>>
      BY <1>9, TurnFacts DEF StartMonitor
    <2>2. mpc[b] = "off" /\ \A c \in Streamed \ {b} : mpc'[c] = mpc[c]
      BY <1>1, <2>1 DEF LockInv
    <2>3. mpc'[b] = "poll" /\ \A c \in Streamed : Ended(c)' <=> Ended(c)
      BY <1>1, <2>1 DEF Ended
    <2>4. LockInv'
      BY <2>1, <2>2, <2>3 DEF LockInv
    <2>5. PlaceInv'
      BY <2>1 DEF PlaceInv
    <2> QED
      BY <2>4, <2>5
  <1>10. CASE ReleaseBegin
    BY <1>10 DEF ReleaseBegin, LockInv, PlaceInv, Ended
  <1>11. ASSUME NEW b \in Streamed, StopStream(b) PROVE LockInv' /\ PlaceInv'
    BY <1>11 DEF StopStream, LockInv, PlaceInv, Ended
  <1>12. CASE StreamStopped
    BY <1>12 DEF StreamStopped, LockInv, PlaceInv, Ended
  <1> QED
    BY <1>2, <1>3, <1>4, <1>5, <1>6, <1>7, <1>8, <1>9, <1>10, <1>11, <1>12 DEF LifeStep

\* Every step keeps both.
LEMMA StepLock == IInv /\ LockInv /\ PlaceInv /\ [Next]_vars => LockInv' /\ PlaceInv'
  <1> SUFFICES ASSUME IInv, LockInv, PlaceInv, [Next]_vars PROVE LockInv' /\ PlaceInv'
    OBVIOUS
  <1>0. Streamed \subseteq Buses /\ Sequential \subseteq Buses
    BY DEF Buses
  <1>1. CASE UNCHANGED vars \/ OwnerStalls \/ OwnerWrites \/ CommandAges
    <2>1. UNCHANGED <<lpc, ltodo, tpc, todo, mpc, running, stopLock>>
      BY <1>1 DEF OwnerStalls, OwnerWrites, CommandAges, notAge, vars, lifeVars, busVars,
         monitorVars, flagVars
    <2> QED
      BY <2>1 DEF LockInv, PlaceInv, Ended
  <1>2. CASE LifeStep \/ Deactivate
    BY <1>2, LifeStepKeepsLock
  <1>3. ASSUME NEW b \in Sequential, Worker(b) PROVE LockInv' /\ PlaceInv'
    <2>1. PlaceInv'
      BY <1>3, WorkerPlaces
    <2>2. LockInv'
      <3>1. b \in Buses /\ b \in Sequential /\ Worker(b)
        BY <1>0, <1>3
      <3>2. (b \in Sequential /\ Worker(b)) \/ (b \in Streamed /\ Sender(b))
        BY <3>1
      <3> QED
        BY <3>1, <3>2, BusThreadKeepsLock
    <2> QED
      BY <2>1, <2>2
  <1>4. ASSUME NEW b \in Streamed, Sender(b) PROVE LockInv' /\ PlaceInv'
    BY <1>0, <1>4, SenderPlaces, BusThreadKeepsLock
  <1>5. ASSUME NEW b \in Streamed, Monitor(b) PROVE LockInv' /\ PlaceInv'
    BY <1>0, <1>5, MonitorKeepsLock, OthersKeepPlaces
  <1> QED
    BY <1>1, <1>2, <1>3, <1>4, <1>5 DEF Next, Terminated

\* Nobody waits in a circle, on any number of buses and wherever a fault or a
\* deactivation finds the threads: the safety half of "releaseResources()
\* returns", whose fair half is ReleaseReturns.
THEOREM NobodyWaitsInACircle == Spec => []WaitsAreLayered
  <1>1. Init => LockInv /\ PlaceInv
    <2> SUFFICES ASSUME Init PROVE LockInv /\ PlaceInv
      OBVIOUS
    <2>1. /\ \A b \in Buses : tpc[b] = "off"
          /\ \A b \in Streamed : mpc[b] = "off"
          /\ stopLock = "free" /\ lpc = "open"
      BY DEF Init
    <2> QED
      BY <2>1 DEF LockInv, PlaceInv, Stopping, Buses
  <1>2. ASSUME IInv, LockInv, PlaceInv PROVE WaitsAreLayered
    <2>1. \A b \in Buses : Ended(b) \/ ThreadMoves(b)
      <3> SUFFICES ASSUME NEW b \in Buses PROVE Ended(b) \/ ThreadMoves(b)
        OBVIOUS
      <3>1. tpc[b] \in ThreadPlaces /\ (b \in Streamed \/ b \in Sequential)
        BY <1>2 DEF IInv, TypeOK, ThreadsOK, Buses
      <3> QED
        BY <1>2, <3>1, BusAssumption DEF PlaceInv, Ended, ThreadMoves, ThreadPlaces
    <2>2. \/ stopLock = "free" \/ lpc = "joining"
          \/ \E b \in Streamed : stopLock = b /\ mpc[b] = "joining" /\ Ended(b)
      BY <1>2 DEF LockInv
    <2>3. lpc \in {"stop", "joining"} => ~running /\ \A b \in Streamed : ~txRun[b]
      BY <1>2 DEF IInv, StaleInv, LockInv, Stopping
    <2> QED
      BY <2>1, <2>2, <2>3 DEF WaitsAreLayered
  <1> QED
    BY <1>1, <1>2, StepLock, Inductive, PTL DEF Spec

---------------------------------------------------------------------------
(* A stopped system is never reported as active *)

Starting == {"start", "await", "monitor"}
Looping == {"top", "cycle", "frame", "send"}

\* From the first thread on, on_activate() has running_ and the streams' flags
\* set, and a thread leaves its loop only after it has set safe_stopped_; a
\* monitor polls for as long.
ActivationInv ==
    lpc \in Starting =>
      /\ running
      /\ \A b \in InUse(Buses) : tpc[b] # "off" \/ (lpc = "start" /\ b \in ltodo)
      /\ \A b \in Streamed : tpc[b] # "off" => txRun[b]
      /\ ~safeStopped => \A b \in Buses : tpc[b] \in {"off"} \cup Looping
      /\ lpc = "monitor" /\ ~safeStopped =>
            \A b \in InUse(Streamed) : mpc[b] = "poll" \/ b \in ltodo

\* A step that moves no thread, or that stays out of on_activate().
LEMMA StillActivating ==
    ASSUME ActivationInv,
           \/ lpc' \notin Starting
           \/ /\ UNCHANGED <<motors, lpc, ltodo, running, tpc, txRun, mpc>>
              /\ safeStopped => safeStopped'
    PROVE  ActivationInv'
  BY DEF ActivationInv, InUse, On, Starting

\* The lifecycle thread.
LEMMA LifeKeepsActivation ==
    ASSUME IInv, ActivationInv, LifeStep \/ Deactivate
    PROVE  ActivationInv'
  <1> USE DEF notLife, flagVars, busVars, monitorVars, ageVars, Loop, Starting
  <1>1. /\ tpc \in [Buses -> ThreadPlaces] /\ mpc \in [Streamed -> MonitorPlaces]
        /\ txRun \in [Streamed -> BOOLEAN] /\ Streamed \subseteq Buses /\ StageInv
    BY DEF IInv, TypeOK, ThreadsOK, FlagsOK, Buses
  <1>2. ASSUME NEW b \in Buses, OpenBus(b) PROVE ActivationInv'
    BY <1>2 DEF OpenBus, ActivationInv
  <1>3. ASSUME NEW b \in Buses, OpenFails(b) \/ StartFails(b) PROVE ActivationInv'
    BY <1>3 DEF OpenFails, StartFails, ActivationInv
  <1>4. ASSUME NEW b \in Buses, StartBus(b) PROVE ActivationInv'
    <2>1. /\ lpc = "start" /\ lpc' = lpc /\ b \in ltodo /\ ltodo' = ltodo \ {b}
          /\ tpc' = [tpc EXCEPT ![b] = "top"]
          /\ txRun' = IF b \in Streamed THEN [txRun EXCEPT ![b] = TRUE] ELSE txRun
          /\ UNCHANGED <<motors, running, safeStopped>>
      BY <1>4, TurnFacts DEF StartBus
    <2>2. tpc'[b] = "top" /\ \A c \in Buses \ {b} : tpc'[c] = tpc[c]
      BY <1>1, <2>1
    <2>3. \A c \in Streamed : txRun'[c] = IF c = b THEN TRUE ELSE txRun[c]
      BY <1>1, <2>1
    <2> QED
      BY <1>1, <2>1, <2>2, <2>3 DEF ActivationInv, InUse, On, Looping
  <1>5. CASE Opened
    BY <1>1, <1>5 DEF Opened, StageInv, ActivationInv, InUse, On
  <1>6. CASE Started
    BY <1>6 DEF Started, ActivationInv, InUse, On
  <1>7. ASSUME NEW b \in Streamed, AwaitFeedback(b) PROVE ActivationInv'
    BY <1>7 DEF AwaitFeedback, ActivationInv, InUse, On
  <1>8. CASE StartMonitors
    BY <1>8 DEF StartMonitors, ActivationInv, InUse, On
  <1>9. ASSUME NEW b \in Streamed, StartMonitor(b) PROVE ActivationInv'
    <2>1. /\ lpc = "monitor" /\ b \in ltodo /\ ltodo' = ltodo \ {b}
          /\ mpc' = [mpc EXCEPT ![b] = "poll"]
          /\ UNCHANGED <<motors, lpc, running, safeStopped, tpc, txRun>>
      BY <1>9, TurnFacts DEF StartMonitor
    <2>2. mpc'[b] = "poll" /\ \A c \in Streamed \ {b} : mpc'[c] = mpc[c]
      BY <1>1, <2>1
    <2> QED
      BY <2>1, <2>2 DEF ActivationInv, InUse, On
  <1>10. CASE MonitorFails \/ Activated \/ Deactivate \/ ReleaseBegin \/ Requested
    BY <1>10, StillActivating DEF MonitorFails, Activated, Deactivate, ReleaseBegin, Requested
  <1>11. ASSUME NEW b \in Streamed, RequestStop(b) \/ StopStream(b) PROVE ActivationInv'
    BY <1>11, StillActivating DEF RequestStop, StopStream
  <1>12. CASE StreamStopped \/ JoinWorkers \/ ReleaseRest \/ Released
    BY <1>12, StillActivating DEF StreamStopped, JoinWorkers, ReleaseRest, Released
  <1>13. ASSUME NEW m \in Motors, ReleaseAxis(m) \/ ReleaseMotor(m) PROVE ActivationInv'
    BY <1>13, StillActivating DEF ReleaseAxis, ReleaseMotor
  <1> QED
    BY <1>2, <1>3, <1>4, <1>5, <1>6, <1>7, <1>8, <1>9, <1>10, <1>11, <1>12, <1>13 DEF LifeStep

\* A bus thread: while it finds running_ and its stream's flag set, only
\* safe_stopped_ takes it out of its loop.
LEMMA ThreadKeepsActivation ==
    ASSUME IInv, ActivationInv, NEW b \in Buses,
           (b \in Sequential /\ Worker(b)) \/ (b \in Streamed /\ Sender(b))
    PROVE  ActivationInv'
  <1> USE DEF Go, At, Looping
  <1>1. tpc \in [Buses -> ThreadPlaces] /\ Streamed \subseteq Buses
    BY DEF IInv, TypeOK, ThreadsOK, Buses
  <1>2. SUFFICES ASSUME lpc \in Starting PROVE ActivationInv'
    <2>1. UNCHANGED lpc
      BY DEF Worker, WorkerTop, WorkerCheck, WorkerSend, WorkerExit, WorkerDisable, Sender,
         TxTop, TxCycle, TxCheck, TxSend, TxCycleEnds, notThread, txFrame, lifeVars
    <2> QED
      BY <2>1, StillActivating
  <1>3. /\ running /\ (b \in Streamed /\ tpc[b] # "off" => txRun[b])
        /\ ~safeStopped => tpc[b] \in {"off", "top", "cycle", "frame", "send"}
    BY <1>2 DEF ActivationInv
  <1>4. /\ tpc[b] # "off" /\ (safeStopped => safeStopped')
        /\ \E pc \in ThreadPlaces \ {"off"} :
              tpc' = [tpc EXCEPT ![b] = pc] /\ (~safeStopped' => pc \in Looping)
        /\ UNCHANGED <<motors, lpc, ltodo, mpc, running, txRun>>
    <2> USE DEF notThread, txFrame, lifeVars, flagVars, monitorVars, ageVars, ThreadPlaces
    <2>1. CASE WorkerTop(b)
      BY <1>3, <2>1 DEF WorkerTop
    <2>2. CASE WorkerCheck(b)
      BY <1>3, <2>2 DEF WorkerCheck
    <2>3. ASSUME NEW m \in On(b), WorkerSend(b, m)
          PROVE  /\ tpc[b] = "send" /\ (safeStopped => safeStopped')
                 /\ tpc' = [tpc EXCEPT ![b] = "cycle"]
                 /\ UNCHANGED <<motors, lpc, ltodo, mpc, running, txRun>>
      <3>1. safeStopped' = safeStopped \/ safeStopped' = TRUE
        BY <2>3 DEF WorkerSend
      <3>2. /\ tpc[b] = "send" /\ tpc' = [tpc EXCEPT ![b] = "cycle"]
            /\ UNCHANGED <<motors, lpc, ltodo, mpc, running, txRun>>
        BY <2>3 DEF WorkerSend
      <3> QED
        BY <3>1, <3>2
    <2>4. CASE WorkerExit(b)
      BY <1>3, <2>4 DEF WorkerExit
    <2>5. CASE WorkerDisable(b)
      <3>1. tpc' = [tpc EXCEPT ![b] = "disable"] \/ tpc' = [tpc EXCEPT ![b] = "done"]
        BY <1>1, <2>5 DEF WorkerDisable
      <3> QED
        BY <1>3, <2>5, <3>1 DEF WorkerDisable
    <2>6. CASE b \in Streamed /\ TxTop(b)
      BY <1>3, <2>6 DEF TxTop
    <2>7. CASE TxCycle(b)
      BY <2>7 DEF TxCycle
    <2>8. CASE b \in Streamed /\ TxCheck(b)
      BY <1>3, <2>8 DEF TxCheck, MaySend
    <2>9. CASE TxSend(b)
      BY <2>9 DEF TxSend
    <2>10. CASE TxCycleEnds(b)
      BY <2>10 DEF TxCycleEnds
    <2> QED
      BY <2>1, <2>2, <2>3, <2>4, <2>5, <2>6, <2>7, <2>8, <2>9, <2>10 DEF Worker, Sender
  <1>5. PICK pc \in ThreadPlaces \ {"off"} :
          tpc' = [tpc EXCEPT ![b] = pc] /\ (~safeStopped' => pc \in Looping)
    BY <1>4
  <1>6. tpc'[b] = pc /\ pc # "off" /\ \A c \in Buses \ {b} : tpc'[c] = tpc[c]
    BY <1>1, <1>5
  <1> QED
    BY <1>1, <1>2, <1>4, <1>5, <1>6 DEF ActivationInv, InUse, On

\* A monitor leaves its poll only when the system stops or its stream has.
LEMMA MonitorKeepsActivation ==
    ASSUME IInv, ActivationInv, NEW b \in Streamed, Monitor(b)
    PROVE  ActivationInv'
  <1> USE DEF notMonitor, lifeVars, flagVars, busVars, ageVars
  <1>1. mpc \in [Streamed -> MonitorPlaces] /\ b \in Buses /\ Streamed \subseteq Buses
    BY DEF IInv, TypeOK, ThreadsOK, Buses
  <1>2. UNCHANGED <<motors, lpc, ltodo, running, tpc, txRun, safeStopped>>
    BY DEF Monitor, MonitorPoll, MonitorDecide, MonitorStop, MonitorStopped, MonitorDisable
  <1>3. /\ \A c \in Streamed \ {b} : mpc'[c] = mpc[c]
        /\ mpc[b] = "poll" => ~running \/ Ended(b)
    BY <1>1 DEF Monitor, MonitorPoll, MonitorDecide, MonitorStop, MonitorStopped, MonitorDisable
  <1>4. ASSUME lpc = "monitor", ~safeStopped, b \in InUse(Streamed) PROVE mpc[b] # "poll"
    BY <1>1, <1>3, <1>4 DEF ActivationInv, Ended, InUse, Starting, Looping
  <1> QED
    BY <1>2, <1>3, <1>4 DEF ActivationInv, InUse, On, Starting

\* Every step keeps it, and succeeds in activating only what still runs.
LEMMA StepActivation ==
    ASSUME IInv, ActivationInv, [Next]_vars
    PROVE  /\ ActivationInv'
           /\ lpc # "active" /\ lpc' = "active" =>
                /\ \A b \in InUse(Buses) : tpc[b] \in Looping
                /\ \A b \in InUse(Streamed) : mpc[b] = "poll"
  <1>1. CASE UNCHANGED vars \/ OwnerStalls \/ OwnerWrites \/ CommandAges
    <2>1. UNCHANGED <<motors, lpc, ltodo, running, tpc, txRun, mpc, safeStopped>>
      BY <1>1 DEF OwnerStalls, OwnerWrites, CommandAges, notAge, vars, lifeVars, busVars,
         monitorVars, flagVars, ageVars
    <2> QED
      BY <2>1, StillActivating
  <1>2. CASE LifeStep \/ Deactivate
    <2>1. lpc # "active" /\ lpc' = "active" => Activated
      BY <1>2 DEF LifeStep, Deactivate, OpenBus, OpenFails, StartBus, StartFails, Opened,
         Started, StartMonitors, MonitorFails, AwaitFeedback, StartMonitor, RequestStop,
         StopStream, ReleaseBegin, Requested, StreamStopped, JoinWorkers, ReleaseRest,
         Released, ReleaseAxis, ReleaseMotor, Loop
    <2>2. ASSUME Activated, lpc' = "active"
          PROVE  /\ \A b \in InUse(Buses) : tpc[b] \in Looping
                 /\ \A b \in InUse(Streamed) : mpc[b] = "poll"
      BY <2>2 DEF Activated, Loop, ActivationInv, Starting, InUse
    <2> QED
      BY <1>2, <2>1, <2>2, LifeKeepsActivation
  <1>3. ASSUME NEW b \in Sequential, Worker(b) PROVE ActivationInv' /\ lpc' = lpc
    <2>1. UNCHANGED lpc
      BY <1>3 DEF Worker, WorkerTop, WorkerCheck, WorkerSend, WorkerExit, WorkerDisable,
         notThread, lifeVars
    <2>2. b \in Buses
      BY DEF Buses
    <2> QED
      BY <1>3, <2>1, <2>2, ThreadKeepsActivation
  <1>4. ASSUME NEW b \in Streamed, Sender(b) PROVE ActivationInv' /\ lpc' = lpc
    <2>1. UNCHANGED lpc
      BY <1>4 DEF Sender, TxTop, TxCycle, TxCheck, TxSend, TxCycleEnds, txFrame, lifeVars
    <2>2. b \in Buses
      BY DEF Buses
    <2> QED
      BY <1>4, <2>1, <2>2, ThreadKeepsActivation
  <1>5. ASSUME NEW b \in Streamed, Monitor(b) PROVE ActivationInv' /\ lpc' = lpc
    <2>1. UNCHANGED lpc
      BY <1>5 DEF Monitor, MonitorPoll, MonitorDecide, MonitorStop, MonitorStopped,
         MonitorDisable, notMonitor, lifeVars
    <2> QED
      BY <1>5, <2>1, MonitorKeepsActivation
  <1> QED
    BY <1>1, <1>2, <1>3, <1>4, <1>5 DEF Next, Terminated

\* on_activate() never reports a stopped system as active, on any number of
\* buses: when it succeeds every bus thread is in its loop and every stream is
\* watched by its monitor.
THEOREM NeverActiveWhenStopped == Spec => ActiveMeansRunning
  <1>1. Init => ActivationInv
    BY DEF Init, ActivationInv, Starting
  <1>2. IInv /\ ActivationInv /\ [Next]_vars =>
          /\ ActivationInv'
          /\ [lpc # "active" /\ lpc' = "active" =>
                /\ \A b \in InUse(Buses) : tpc[b] \in {"top", "cycle", "frame", "send"}
                /\ \A b \in InUse(Streamed) : mpc[b] = "poll"]_vars
    BY StepActivation DEF Looping
  <1> QED
    BY <1>1, <1>2, Inductive, PTL DEF Spec, ActiveMeansRunning
=============================================================================
