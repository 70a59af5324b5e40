# A formal model of bxi_hardware

`bxi_hardware` is a ros2_control `SystemInterface` for motors that speak the MIT
CAN protocol. controller_manager calls it from its control loop; behind it,
threads of its own send commands to the motors, receive their replies and, when
something goes wrong, disable every motor. What is hard in it is not the
arithmetic but the order of things: several threads, a bus that delays and loses
frames, replies without request numbers, and one aim that every path has to
reach, motors that have been told to disable.

The project models those parts in TLA+, checks them with TLC on small instances
and proves the central claims with TLAPS for every value of the constants.

## Inventory

| Part | State | Operations | Talks to |
|---|---|---|---|
| `AtomicSnapshot` (`atomic_snapshot.hpp`) | version, words | `publish`, `tryRead` (two attempts) | carries commands control → TX and feedback RX → TX, control |
| `PairCommit` (`pair_commit.hpp`) | `last_`, `latched_`, `expired_` | `inspect`, `accept`, `latch`, `reset` | called by `writePair` |
| G interface (`pair_system_interface.cpp`) | `pair_claimed_`, `pair_terminal_`, the staged batch | `writePair`, `on_error`, mode switch, `requestPairSafety` | publishes to TX, registers safety requests |
| `GroupSafety` (`bus_streamer.hpp`) | sources, `error_observed_ns`, result, `abandoned`, `feedback_stopped` | `request`, `observeError`, `ready`, `finished` | shared by control, TX and lifecycle |
| write-triggered TX (`sendWriteLoop`) | schedule, `observed_version`, `snapshot_failed` | one loop: safety, stop flags, snapshot, stop reasons, send, wait | the bus, `GroupSafety`, `safe_stopped_` |
| periodic TX (`sendLoop`) | slots, command age | one cycle per period | the bus, the owner's hook |
| RX (`receiveLoop`) | reply slots, `rx_fault_` | one reply | TX |
| `BxiActuatorDriver` (`bxi_actuator.cpp`) | `state_`, `consecutive_timeouts_` | `transact`, `enable`, `disable`, `sendControl`, `latchSafeStop` | one motor over a `CanBus` |
| lifecycle (`bxi_system_interface.cpp`) | `running_`, `safe_stopped_`, `live_joints_`, threads | `on_activate`, `workerLoop`, `streamMonitorLoop`, `stopStream`, `disableAxes`, `releaseResources` | all of the above |
| `HilTrajectoryController` (`hil_trajectory_controller.cpp`) | `state_`, `run_`, the record, mailboxes and atomics | `update`, `~/start`, `~/finish`, `~/stop`, `~/keepalive`, the status timer, `on_activate`, `on_deactivate` | a controller above the hardware interface; writes its command interfaces |
| `WriteSchedule` (`write_schedule.hpp`) | sequence, `resend_ns`, last send | `published`, `pending`, `earliestSend`, `held`, `resendDue`, `sent` | used by the write-triggered TX |
| `ActivationStartup` (`activation_startup.hpp`) | a time budget | `settle`, `initial` (two attempts) | called by `on_activate()` in G mode |
| `BxiPairAdapter` (`bxi_pair_adapter.cpp`) with `BxiPairMockSystem` | generations of its groups, `terminal_`, the row record | `update_and_write_commands`, `writeBatch`, `record`, `save`, activation and deactivation | a controller above several G hardware groups |
| `NAxisTrajectoryController` (`n_axis_trajectory_controller.cpp`) | `state_`, `generation_`, lease, the row record, mailboxes | `update`, `attempt`, `~/start`, `~/finish`, `~/stop`, `~/keepalive`, the status timer | a controller above one G hardware group |
| codec, `SocketCanBus`, trace I/O, benchmark and stall plugins, tools, scripts | | | see "Not modelled" |

What is hard, and where (the full list, by line, is under `hazards` in
`PROJECT.json`):

- concurrency: torn reads; a safety request that lands between a check and a
  send; the monitor and `releaseResources()` on the same drivers;
- failure: a batch accepted but not published; a frame refused by the bus; one
  bus of several failing, during activation too;
- the real-time controller: a stop and a start between two halves of a cycle, a
  gain left behind by a refused write, the record buffer shared with a timer;
- the command interfaces: each value is written by a call of its own that may be
  refused or not read back, and the generation is written last; a failed cycle
  writes its release over values that are already there;
- ordering: the safety attempt must follow the ERROR return and `on_error()`;
  admission, snapshot and wire must agree on generations;
- time: stale commands and feedback, the drain timeout, replies that arrive
  after their timeout, the age of the last `write()` during a deactivation; one
  timer that has to wake the send thread for five deadlines; a lease that counts by
  the sender's clock although its heartbeats wait in two queues.

## Modules

| Module | Models |
|---|---|
| `SnapshotRegister` | what a snapshot promises: an atomic register |
| `AtomicSnapshot` | the seqlock, word by word; implements `SnapshotRegister` |
| `AtomicSnapshotProofs` | its theorems |
| `DriverContract` | what the driver of one motor promises |
| `GroupAdmission` | what the hardware of a G group promises: whole batches, in order |
| `SupervisedMotion` | what a trajectory controller promises: gains only in a requested run under a live supervisor |
| `PairCommit` | `inspect()` and its effects |
| `PairStream` | G mode: control, TX and lifecycle threads (extends `PairCommit`) |
| `PairStreamProofs` | its theorems |
| `WriteStream` | the write-triggered sender without group safety, with its `WriteSchedule` and its poll |
| `WriteStreamProofs` | its theorems |
| `BxiActuator` | the driver, its owner, the bus and the motor, one activation, `ActivationStartup` included |
| `BxiActuatorProofs` | its theorems |
| `SystemStop` | several buses: start, workers, periodic senders, monitors, release |
| `SystemStopProofs` | its theorems |
| `MCSystemStop` | the wirings TLC looks at |
| `BxiPairAdapter` | the multi-group adapter with the mock hardware below it |
| `BxiPairAdapterProofs` | its theorems |
| `NAxisTrajectory` | the N-axis controller with `writePair()` below it (extends `PairCommit`) |
| `NAxisTrajectoryProofs` | its theorems |
| `HilTrajectory` | the single-joint trajectory controller: `update()` against the node's callbacks |
| `HilTrajectoryProofs` | its theorems |

They abstract each other: `PairStream` uses the snapshot as the atomic register
`AtomicSnapshot` is shown to implement (a read fails while a batch is being stored),
and `SystemStop` uses a driver call as one step with the outcomes that `BxiActuator`
has. `NAxisTrajectory` has the `writePair()` of `PairStream` as one step, since
controller and hardware share a thread; `BxiPairAdapter` instantiates `PairCommit` to
judge what the adapter leaves in each group.

Four abstract specifications say what a part promises to the ones around it, and the
detailed modules are proved to implement them:

- `SnapshotRegister`: `AtomicSnapshot` implements it word by word, and the send thread
  of `PairStream`, which skips an unchanged version and fails on an odd one, reads its
  snapshot as such a register. The first justifies the abstraction, the second shows
  that it is used as one.
- `DriverContract`: no control frame before an enable, nothing but disables after a
  disable, safe-stop never left. `BxiActuator` implements it frame by frame;
  `SystemStop`, where a driver call is one step, implements it for each motor,
  whichever thread makes the call.
- `GroupAdmission`: one whole batch after the other, no gap in the generations, the
  first one and every one after a latch released. `PairStream` implements it with three
  threads and an admission that takes four steps; the one-step hardware of
  `NAxisTrajectory` and the test hardware of `BxiPairAdapter` implement it too, so the
  two controllers are checked above hardware that has the robot's contract.
- `SupervisedMotion`: gains only in a run that was asked for and while its supervisor
  is alive, one run for a request. `HilTrajectory` and `NAxisTrajectory` implement it.

The definitions stand in the modules that
TLC runs; the `.cfg` files only give values to constants.

### State and code

- **AtomicSnapshot.** One action per atomic access. `version`, `data` are the
  object's atomics; `before`, `scratch`, `attempt` are `tryRead()`'s locals.
  All accesses are sequentially consistent in the code, so interleaving is exact.
- **PairStream.** The control thread's `cpc` runs `idle` → `recheck` → `gate` →
  `storing` → `settle` through `writePair()`, cut where another thread may act
  between two reads of shared state: the second inspection is one step, `accept()` with
  the look at the stream's flags the next, so that a feedback stop or the startup
  deadline may still fall between the last check and `accept()`. The TX thread's `tpc` follows
  `sendWriteLoop()`: `top` (safety request?), `flags`, `read`, `decide`, `guard`,
  `fresh`, `send`, and `safety`, `attempt`, `perform`, `finish` for a request.
  `lpc` follows `requestStop()` and `stop()`. A batch is `released` (all gains
  and torques zero), `active` or `invalid`. Time is kept as what the code compares:
  `expiredUpTo` (the newest generation older than `max_command_age`),
  `startupPassed`, `feedbackOld`. `wireSeq`, `lateFrames`, `stopPending` are history.
- **WriteStream.** A deadline is kept as the time that is left to it (`sendIn`,
  `resendIn`, `startIn`, `bootstrapIn`, `wakeIn`), an age up to its limit, so the
  state is finite although time never ends. `tpc` runs `loop` → `send` → `finish` →
  `wait`; `send` is one frame, and time, replies, faults and stop flags may come
  between two frames. `schedule.sent()` is called once, with the time of the first
  frame, so the model updates the schedule there: nothing reads it before the last.
  An ordinary reply does not notify the thread; a fault does, every time. Setting the
  timer, `poll()` and reading its descriptors may fail (`PollFails`, `Wake`), which ends
  the stream with `kNotificationFailed`, at once or at the next look at the flags.
  `got` and `zeroed` are history: how many frames of the held command, and of the
  zero-gain stop, have gone out.
- **BxiActuator.** `toMotor` and `toHost` are the frames under way in each
  direction, FIFO because they carry one CAN id. `waiting` is the request inside
  `transact()`. `phase` is the owner: `on_activate()`, then the worker or send
  thread, then the disable rounds. In G mode (`pair`) an unanswered initial control
  frame is repeated once (`initials`) and the startup budget may end before any
  attempt. A fault is followed by two disable rounds, the worker's or the monitor's and
  that of `releaseResources()`; on a streamed bus the monitor exists only after the
  stream's first feedback (`Attended`, `fedBack`), and without it there is the second
  round only. The limit of timeouts and whether the bus loses requests are chosen in
  the initial state. The motor and the loss of frames are external.
- **SystemStop.** `lpc` runs through `on_activate()` and `releaseResources()`
  with `ltodo` the rest of the loop it is in; `tpc`/`todo` are each bus's worker or
  send thread, `mpc`/`mtodo` its monitor. Which motors exist is chosen initially
  from `Wirings`; buses and motors are visited in one fixed order (`Turn`), that of
  the configuration. `last` remembers whether the last frame tried for a motor may
  leave it driven, `late` counts control frames after `safe_stopped_`. The last
  `write()` grows old in a release from the first join on: the loop of `requestStop()`
  calls before it is taken to be shorter than `stream_command_max_age_ms`, being one
  atomic store and one event per stream. The
  write-triggered sender is not repeated here: in G mode there is one bus only
  (`configurePair()` insists on it).
- **BxiPairAdapter.** `pc` is the place in `update_and_write_commands()`: `values`,
  `commits`, `release`, `releaseCommits`, then `write` for the hardware's turn. One
  axis stands for those of a group, whose checks are the same and are joined; what
  a cycle's checks find in a group is a free choice of one finding. `slots[h]` is
  the set of batches from which the group's command values come: one member when
  a batch has been written whole, two when a write stopped half way. `admitted` is
  history: what `slots` was when the hardware accepted it.
- **NAxisTrajectory.** `pc` is `update` (checks and state change), `attempt` (write,
  read back, commit), `abort` (the release of a failed cycle) and `write` (the
  hardware). The callbacks interleave with all of them. `heart` and `wire` are the
  heartbeats in the mailbox and under way to the node, `beat` the sender's own age
  of its last one (history). A request that arrives after `update()` has read its start
  time but before it looks into the mailbox is dated after the cycle and aborts it
  (`midCycle`); a stop is taken in every state but `kAborted`, after a release too.
  `slots` and `admitted` are as in `BxiPairAdapter`.
- **HilTrajectory.** `rt` walks through `update()`, cut where it reads or writes
  what the callbacks share; what lies between touches only its own state. The node's
  callbacks share one mutually exclusive group, so one is under way at a time:
  `requestFinish()` is two steps (load, store) and `writeCompletedRecord()` has a
  beginning and an end, the others do all their work under one lock. Every `try_lock`
  of `update()` may fail. `kp` stands for the five command interfaces: it may keep a
  gain when a write of the set is refused. Time is kept as ages that stop growing
  just past their limits; it passes between cycles, which are far shorter than a
  lease. `keepalive.after` is the comparison of `keepalive_ns_` with `accepted_ns`.
  The trajectory, the joint state and the period are a choice, in each cycle, of the
  first check that fails. `beat` and `stops` are history. A request is one that
  `validate()` has let through.

## Runs

| Run | Bounds | Shows |
|---|---|---|
| `snapshot` | 2 words, 2 readers, 2 publications | reads return; the register is implemented, so no read is torn |
| `pair_stream` | generations 0..2 and an invalid one | the safety properties of G mode, below |
| `pair_stream_live` | generations 0..1 | requests end the stream; `stop()` returns |
| `pair_stream_stop` | generations 0..1 | **violated**: finding 1 |
| `actuator` | limits of 1, 2 and 4 timeouts, 4 control frames, with and without losses | the driver contract is implemented: a latch ends in a disable, nothing drives a disabled motor; unless a request is lost, a skipped motor is disabled and every motor ends outside Motor Mode |
| `actuator_late_ack` | 3 timeouts, 2 control frames, losses | **violated**: finding 2 |
| `system_stop` | three wirings: a sequential bus with 2 motors beside a stream, a stream with 2 motors, two streams of which one is broadcast | one late frame per bus at most; drivers have one user at a time and each keeps the driver contract; a stopped system is never reported as active; closed means disabled; no stale-command fault in a normal deactivation; a fault on one bus disables the others' motors; `releaseResources()` returns |
| `hil_trajectory` | 2 starts, 1 stop, limits of one tick | gains are accounted for, motion needs a lease, stops and starts stay in order, the record has one owner |
| `hil_trajectory_live` | 1 start, 1 stop, limits of one tick | a stop ends the run; an ended run frees the controller |
| `pair_adapter` | 2 groups, generations 0..3, 2 deviation cycles, 2 rows | no group runs a mixture of batches or runs gains ahead of unprepared groups; nothing the adapter leaves behind would latch the admission |
| `n_axis` | generations 0..3, a lease of 2 ticks, arming, duration and hold of 1, 4 rows | a mixture needs two failed writes in one cycle; an abort releases; the admission is never misused; gains need a lease by the sender's clock; a saved record is whole |
| `write_stream` | batches of 2 frames, period 2, grace 1, greatest age 4, first write within 2 | a batch cut short never waits for a resend; the thread never sleeps on due work; a zero-gain stop reaches every motor; silence of the control thread ends the stream |

The type invariants are proved, for every value of the constants, and stand in no
configuration. Nor do some other properties that are proved and follow from, or lie
near, one that a run checks: `NoTornRead` beside `ImplementsRegister`, `DisableIsLast`
beside `ImplementsContract` and `MotorEndsDisabled`, `PublicationsInOrder` beside
`ImplementsAdmission`, `NoFrameAfterFeedbackStop` beside `AtMostOneLateFrame`,
`WaitsAreLayered` beside `ReleaseReturns`, `SavedEndsWithLastCycle` of the adapter's
record, and the contracts of the two controllers.

Why the bounds are enough to be interesting: two words are what a torn read needs, two
publications make a reader meet two different ones; generations 0..2 contain the first
batch, a successor, a gap, a rollback and the upper limit; against three enable
attempts, a limit of two timeouts is reached by enabling alone, and a limit of four
lets an activation fail with a driver that is not latched; two motors on a bus give a
cycle a middle, two buses a bystander; two groups give the adapter a group that is
committed and one that is not, and three generations boot it, run it and exhaust it;
the four rows of the N-axis record are more than its shortest run needs and fewer than
its longest, so that a record both fits and drops; a lease of two ticks lets a
heartbeat wait one tick and still count; period, grace and age in `write_stream` are
the smallest whose half period, resend and expiry are three different times, and two
frames are what a batch needs to be cut short; two starts let a second run meet what
the first left behind, and limits of one tick let every age be below, at and past its
limit. The generation limit is `MaxGeneration` where the code has 2^53 - 1: the proofs
hold for every limit.

Properties of G mode, in `pair_stream`: at most one normal frame follows a safety
request (`AtMostOneLateFrame`); a generation reported as accepted is published or
the stop is requested (`AcceptedIsPublished`); the attempt for a fault of
`write()` comes after its ERROR return and `on_error()` (`AttemptFollowsError`);
the wire never goes back or ahead of admission (`WireFollowsAdmission`); after a
feedback stop, or a startup deadline that passed without a first batch, only a
`write()` past its last check still admits the batch it carries, one between its two
inspections does not (`LateIsNotAdmitted`); and the threads together implement `GroupAdmission` (`ImplementsAdmission`): the admission of
a batch takes effect when its publication ends or is given up, and what `inspect()`
decided two steps earlier still holds then.

### Fairness

- `snapshot`: a reader inside `tryRead()` goes on. Nothing is assumed of the writer.
- `pair_stream_live`: the TX thread goes on (every poll has a finite timeout and
  the socket is non-blocking in this mode); a `write()` that was entered returns
  and an ERROR is followed by `on_error()` unless the component is torn down
  first; `stop()` goes on, its drain ending by the clock. Nothing is assumed of
  further writes, replies or time.
- `actuator`: the motor executes what has reached it.
- `write_stream`: the send thread goes on and the clock runs. Nothing is assumed of
  writes, replies or notifications.
- `system_stop`: every thread that was started keeps running (its waits are
  timed); `on_activate()` and `releaseResources()` go on. No fault and no
  deactivation is ever forced.
- `hil_trajectory_live`: controller_manager goes on calling `update()`, the clock
  runs, the 20 ms timer gets its turn among the callbacks, and a write of the
  command interfaces or of the file that is tried again and again succeeds some time
  (a refused `set_value()` has lost a lock for a moment; the CSV is retried every
  second). No keepalive, stop or deactivation is assumed.

Deadlock is checked everywhere but in `snapshot`, where the bounded writer and
idle readers may stop.

## Findings

1. `pair_stream_stop`. The send loop's comment says that G requests are handled
   before ordinary stop flags. It reads the request at the head of the loop and
   `tx_running_` a few lines later. A mode switch registers its request in
   between, deactivation clears `tx_running_`, and the thread leaves: the request
   is neither attempted nor abandoned and no fault is recorded. The motors are
   still disabled by `releaseResources()`; what is missing is the zero-gain frame.
2. `actuator_late_ack`. `disableAxes()` skips a driver in `kDisabled` as
   "Already acknowledged." A streamed control frame may be answered after
   `stopStream()` has flushed the socket; the monitor's `disable()` takes that reply
   for its own. Should the disable frame have been lost, the motor stays in Motor
   Mode and `releaseResources()` does not try again. Without loss of requests the
   same claim holds (`AcknowledgedUnlessLost`: checked by run `actuator` and proved).

Some observations have no run of their own. `HilTrajectoryController::on_deactivate()`
writes NaN, ends the run and updates the snapshot's state but not its
`release_write_pending`; when that write is refused, `~/status` shows an aborted run
without a pending release, where `hil/README.md:438` keeps the flag set until all five
values have been written. `PendingIsReported` is therefore stated for an active
controller. A record that completes between the status timer's
`writeCompletedRecord()` and its `snapshot()` is announced once as written with the
CSV path of the run before (`csv_path_` is not modelled). When the N-axis controller
aborts in a cycle that held an already accepted generation, its release carries that
generation too: `inspect()` finds it unchanged, and the last gains stay on the wire
until the mode switch or the stale-command stop. `AbortReleases` states the exception. A valid
start that reaches the mailbox in the middle of a cycle is refused as `kTrajectory`,
because it is dated after the cycle's start; the abort still releases.

## Proofs

All theorems hold for every value of the constants, from the named assumptions
the modules state about them (naturals, positive where the code insists; for
`WriteStream` the inequalities that `start()` checks; for `SystemStop` that a bus is
sequential or streamed, not both, over any set of buses, motors and wirings).

`AtomicSnapshotProofs`. The inductive invariant says which words already belong to
the publication in progress (those before the writer's next word), and that a
reader whose `before` still equals the version holds, in the words it has copied,
exactly that publication; it is needed because "no torn read" alone says nothing
about a read in progress. From it: `TypeCorrect`, `NeverTorn`, and `Refinement`, the
seqlock implements the atomic register (`RegisterInit`, `RegisterStep`): the even
version store is the register's write, the successful second version load its read.

`PairStreamProofs`. `IInv` adds to the type invariant
- `PublishInv`: what the control thread has inspected still holds at each later
  step of `writePair()`, and `last` and the snapshot's generation differ only
  between `accept()` and the end of `publish()`, or after a failure that has been
  reported;
- `OrderInv`: the generations held by the wire, the schedule and the snapshot are
  ordered below `last`;
- `SendInv`: past the first half of the send boundary no feedback stop has been
  raised, and a late frame is counted only once the request can no longer be missed;
- `AttemptInv`: an attempt under way for a fault of `write()` implies that
  `on_error()` has run.

None of the properties is inductive alone: each speaks of one thread's position
while another thread's step would break it. `NextInv` proves the step, one case
per action; `Invariance` and the theorems named in `PROJECT.json` follow. In
`KeepsAdmission` the abstract generation is `last` without the batch that is still
being published: a gap that `inspect()` let through, or a batch that is neither
published nor reported as failed, would be a step the contract does not have.
`FrozenAdmission` (`LateIsNotAdmitted`) needs no invariant, only that the two flags are
never cleared (`FreezeStep`) and that neither inspection passes under them. The contract
does not speak of deadlines, so this is what would notice a dropped second inspection.

`HilTrajectoryProofs`. `IInv` adds to the type invariant `OwnerInv` (a record belongs to
`update()` until it is complete, then to the timer, and no start is accepted before
the timer is done), `LimpInv` (without a record there is no gain: what lets the next
run forget the last one's pending release), `StopInv` (a pending start has seen every
stop), `NumberInv` (an active run is the last accepted request), `BeatInv` (the age
`update()` compares with the lease is never below the age of a real keepalive) and
`ReportInv` (the snapshot is never ahead of the run). There is one lemma per part and
one step per action; `GainsAccountedFor`, `StopAndStartInOrder`, `MovesOnlyWithinLease`,
`StatusIsHonest` and `RecordHasOneOwner` follow. `KeepsMotion` needs no more: a new gain
is a step of the contract only in the moving phase and under a live supervisor, which
is what `BeatInv` says of the cycle's output, and a request is accepted only at rest,
which `OwnerInv` says through `busy_`.

`WriteStreamProofs`. `SleepInv` bounds the timer by each deadline separately
(`wakeIn` by the command's remaining life, by `sendIn`, `resendIn` and `startIn`),
because "there is no due work" is only preserved by the clock if the timer is known
to be the earliest. `CutInv` says that a command marked as sent has been given to every
motor or that the stream is about to end; `ZeroInv` counts the frames of the zero-gain
stop. They give `CutShortIsRecovered`, `NeverSleepsOnWork` and `ZeroStopIsComplete`.

`BxiActuatorProofs`. `PhaseInv` ties the request under way to the owner's phase,
`LastInv` says from where on a disable has been tried, `QueueInv` that nothing follows
a disable in the queue to the motor and that a control frame finds the motor in Motor
Mode, `AckInv` that on a lossless bus a disable waited for or acknowledged is in the
queue or has been executed. The properties speak of endings only; the queue carries
them there. They give `AcknowledgedUnlessLost` and, without a run of their own,
`DisableIsLast`, `SafeStopIsFinal` and `ControlNeedsMotorMode`. `KeepsContract` maps the
driver's `state_` and the last frame tried onto `DriverContract`; a reply that is late
must not take the driver to a state that its last frame does not allow.

`BxiPairAdapterProofs`. `StageInv` relates the three generations of a group (the
adapter's, the committed one, the accepted one) at each stage of a cycle, `WholeInv`
says that a commit the hardware may still admit stands above one batch, `GainInv` that
a batch with gains is never ahead of another group's values, `RecordInv` that every
cycle is a row or has been counted as dropped. A property alone is not inductive
because the hardware admits later what the adapter has written now, perhaps in a cycle
that failed. They give `AdmittedWhole`, `PreparedBeforeCommit`, `NeverRefused`,
`SavedEndsWithLastCycle` and `GainsOneAhead`. `KeepsAdmission` does the same for what
the test hardware below accepts, group by group.

`NAxisTrajectoryProofs`. `NumberingInv` and `AdmissionInv` relate the controller's
generation, the commit interface and `last_`, and say why a commit may still be
unadmitted; `ReleaseInv` follows the release of an abort from the slots to the
hardware; `LeaseInv` says that no copy of a heartbeat is younger than the sender's;
`LifecycleInv` says that a complete record is not written any more. They give all five
properties of run `n_axis`. `KeepsAdmission` adds `Filled` (the slots are never empty),
without which a batch would be released and active at once. `KeepsMotion` rests on
`LeaseInv` and on `OutcomePhases`, what a cycle's checks may lead to: a run is armed by a
request only and does not arm again while it moves.

`SystemStopProofs`. `StageInv` says which threads exist at each place of the lifecycle
thread and what its loops have left; `LateInv` that a late frame leaves its thread in
front of the next check; `StaleInv` that a command grown old during a release never
reaches the end of a zero-gain cycle, since every stream has been asked to stop;
`DriveInv` and `ReleaseInv` that a driven motor has a driver that no loop skips and
that a loop which has passed a motor has disabled it. They give `OneLateFrame`,
`DriversHaveOneUser`, `ReleasedMeansDisabled` and `StaleFaultNeedsStall` for any number
of buses and motors.

Further invariants are proved on top of it. `ReadyInv` says that a thread which is
in front of a frame finds every driver of its bus enabled and driven last
(`ThreadReady`), that a bus about to start has left its initial control frames there
(`StartReady`), and that a motor to be disabled has a driver (`HasDriver`). From it
`KeepsContract` follows, and `EachMotorKeepsContract`, the refinement of `DriverContract`
for a single motor: hand-over by joining is what keeps one thread from driving what
another has disabled. `LockInv` and `PlaceInv` say that a monitor goes for
`stream_stop_mutex_` only after its send thread has ended in a running system, that the
mutex is held only over a join, and that a bus thread is never at a place without a
step. They give `NobodyWaitsInACircle`: the waits of the lifecycle thread, the monitors
and the bus threads form layers, and whoever is joined has been told to stop. That is
the safety half of `ReleaseReturns`; that each layer then really goes on needs fairness.
`ActivationInv` says that from the first thread on `running_` and the streams' flags are
set, so that a thread leaves its loop, and a monitor its poll, only after `safe_stopped_`.
It gives `NeverActiveWhenStopped` (`ActiveMeansRunning`): the one look at `safe_stopped_`
at the end of `on_activate()` is enough for all threads, and without it a stopped system
would be reported as active although its monitors disable the motors.

Only model-checked: liveness (`ReadReturns`, `StopReturns`, `RequestEndsStream`,
`MotorEndsDisabled`, `StopFansOut`, `ReleaseReturns`, `StopReleases`,
`EndedRunFreesController`, `SilenceEndsStream`), which together with ENABLED is out of
the prover's reach. Every invariant and action property of a passing run is proved.

## Not modelled

- `SocketCanBus` is system calls: the models let `send()` refuse a frame and replies
  come late or never.
- The MIT codec scales floats into bit fields; floating point is out of TLC's reach
  and no property tells the encoded values apart. The same holds for clamping, the
  sine and the target arithmetic of the controllers.
- `on_init()`, `on_configure()`, `configurePair()` and the request parsers turn
  parameters into values or refuse them; the models start from accepted ones.
  `read()` only copies feedback into the state interfaces.
- Trace and CSV output happens after the motors have been disabled, or in a timer
  beside the loop; what is modelled is which rows it holds, not its text.
- The benchmark system and the stall controller are test doubles without motors, the
  tools and Python scripts stand-alone programs.
- The receive thread is the age of the feedback, its fault and its notification; its
  decoding and per-axis slots are left out.
- The snapshot's version is a natural number: a reader misled by exactly 2^63
  publications within one read is not modelled. Nor is the order in which the causes
  of a stop overwrite `terminal_fault`.
- One activation is modelled at a time: `on_activate()` resets every flag the models
  start from.

## Plan

Done: the snapshot and its refinement, G mode, the write-triggered stream with its
schedule, the driver with the startup attempts, the multi-bus stop, the three
controllers, the proofs of their safety properties, and the contracts between them.

Left, in this order:

1. A contract for the write-triggered sender (what age of command may still reach a
   motor), and `GroupAdmission` extended by the send thread's side: what may be on the
   wire.
2. `BxiPairAdapter` and `NAxisTrajectory` above the full `PairStream` instead of
   `writePair()` as one step, with the send thread's stale-command stop ending a run
   whose release found its generation unchanged.
3. The order of causes in `GroupSafety` (`terminal_fault`) and what the pair record
   reports of it.
4. The CSV path in the status of the single-joint controller; the trace writer's
   temporary file and rename.
5. The codec's integer fields as operators on bit widths.
