--------------------------- MODULE HilTrajectory ---------------------------
(***************************************************************************)
(* HilTrajectoryController (src/hil_trajectory_controller.cpp): the real-  *)
(* time update() of controller_manager, cut where it touches state shared  *)
(* with the node, against the node's callbacks (~/start, ~/finish, ~/stop, *)
(* ~/keepalive and the timer that writes the record).  The callbacks share *)
(* one mutually exclusive group; on_activate() and on_deactivate() run     *)
(* between two cycles.                                                     *)
(*                                                                         *)
(* Times are ages in ticks, which pass between cycles, each counted up to  *)
(* the first value that its limit tells apart.  The trajectory is a free   *)
(* choice, in every cycle, of what update()'s checks find.  update() only  *)
(* tries its locks: what needs one may be missed in any cycle.             *)
(***************************************************************************)
EXTENDS Naturals

CONSTANTS
    MaxStarts,    \* bound on accepted starts
    MaxStops,     \* bound on stops
    Lease,        \* lease_ns of a request
    ArmTimeout,   \* arm_timeout_s_
    RecordTail    \* record_tail_s_

ASSUME BoundsAssumption == MaxStarts \in Nat \ {0} /\ MaxStops \in Nat \ {0}
ASSUME TimesAssumption ==
    Lease \in Nat \ {0} /\ ArmTimeout \in Nat \ {0} /\ RecordTail \in Nat

VARIABLES
    lifecycle,       \* "inactive", "active" or "finalized"
    rt,              \* where update() is, "idle" between cycles
    state,           \* state_
    run,             \* run_ and record_run_
    appliedStops,    \* applied_stop_count_
    armedAge,        \* age of armed_ns_
    lastAge,         \* age of last_keepalive_ns_, Never for 0
    endAge,          \* age of end_ns_
    recording,       \* recording_
    releasePending,  \* release_write_pending_
    kp,              \* the kp command interface holds a gain
    pending,         \* pending_start_
    nextId,          \* next_id_
    stopCount,       \* stop_count_
    busy,            \* busy_
    rtStops,         \* rt_applied_stop_count_
    rtState,         \* rt_state_id_
    finishFor,       \* finish_for_id_
    keepalive,       \* keepalive_id_, and keepalive_ns_ as an age and whether
                     \* it is after the last acceptance (accepted_ns)
    recordComplete,  \* record_complete_
    snapshot,        \* snapshot_
    callback,        \* the callback that is under way
    finishing,       \* the request number ~/finish has loaded
    beat             \* history: age of the last keepalive of the last
                     \* accepted request since its acceptance

runVars == <<state, run, armedAge, lastAge, endAge, recording, releasePending>>
mailVars == <<pending, nextId, stopCount, finishFor, keepalive, beat>>
callbackVars == <<callback, finishing>>
stopVars == <<appliedStops, rtStops>>
recordVars == <<busy, recordComplete>>
vars == <<lifecycle, rt, runVars, stopVars, kp, mailVars, recordVars, rtState,
          snapshot, callbackVars>>

States == {"kIdle", "kArmed", "kRunning", "kHolding", "kReleased", "kAborted"}
Reasons == {"kRelease", "kFinish", "kStop", "kNoKeepalive", "kLease", "kTorque",
            "kVelocity", "kStateNotFinite", "kPeriod", "kStartRange", "kDuration",
            "kDeactivated", "kWriteFailed"}
Ids == 1 .. MaxStarts
Requests == [id : 0 .. MaxStarts, release : BOOLEAN, stops : 0 .. MaxStops]
NoRequest == [id |-> 0, release |-> FALSE, stops |-> 0]
Never == Lease + 2
Older(age, limit) == IF age < limit THEN age + 1 ELSE age

\* isActive(), and the states whose outputs carry gains.
isActive(s) == s \in {"kArmed", "kRunning", "kHolding"}
Gains(s) == s \in {"kRunning", "kHolding"}
Ended(s) == s \in {"kReleased", "kAborted"}

Init ==
    /\ lifecycle = "inactive" /\ rt = "idle" /\ state = "kIdle" /\ run = NoRequest
    /\ appliedStops = 0 /\ rtStops = 0 /\ stopCount = 0
    /\ armedAge = 0 /\ lastAge = Never /\ endAge = 0
    /\ recording = FALSE /\ releasePending = FALSE /\ kp = FALSE
    /\ pending = NoRequest /\ nextId = 1
    /\ busy = FALSE /\ recordComplete = FALSE
    /\ rtState = [state |-> "kIdle", id |-> 0] /\ finishFor = 0
    /\ keepalive = [id |-> 0, after |-> FALSE, age |-> Lease + 1] /\ beat = Never
    /\ snapshot = [state |-> "kIdle", id |-> 0, releasePending |-> FALSE]
    /\ callback = "none" /\ finishing = 0

---------------------------------------------------------------------------
(* update() *)

\* endRun(): released after release, finish and stop, aborted otherwise.
EndRun(reason) ==
    /\ state' = IF reason \in {"kRelease", "kFinish", "kStop"} THEN "kReleased"
                                                               ELSE "kAborted"
    /\ endAge' = 0
    /\ releasePending' = TRUE

\* publishRtState()
PublishRtState(s, r) ==
    rtState' = [state |-> s, id |-> IF s = "kIdle" THEN 0 ELSE r.id]

\* Mutant: a stop is noted, and ends a run only before it moves.
CycleStopArmedOnly ==
    /\ rt = "idle" /\ lifecycle = "active"
    /\ rt' = "start"
    /\ appliedStops' = stopCount /\ rtStops' = stopCount
    /\ IF stopCount # appliedStops /\ state = "kArmed"
       THEN EndRun("kStop")
       ELSE UNCHANGED <<state, endAge, releasePending>>
    /\ UNCHANGED <<lifecycle, run, armedAge, lastAge, recording, kp, mailVars,
                   recordVars, rtState, snapshot, callbackVars>>

\* 1. A new stop ends any run.
CycleStop ==
    /\ rt = "idle" /\ lifecycle = "active"
    /\ rt' = "start"
    /\ appliedStops' = stopCount /\ rtStops' = stopCount
    /\ IF stopCount # appliedStops /\ isActive(state)
       THEN EndRun("kStop")
       ELSE UNCHANGED <<state, endAge, releasePending>>
    /\ UNCHANGED <<lifecycle, run, armedAge, lastAge, recording, kp, mailVars,
                   recordVars, rtState, snapshot, callbackVars>>

\* 2. A pending start, once the last record has been handed over.
TakeStart ==
    /\ rt = "start" /\ rt' = "keepalive"
    /\ ~isActive(state) /\ ~recording /\ ~recordComplete
    /\ pending # NoRequest
    /\ pending' = NoRequest
    /\ busy' = TRUE
    /\ run' = pending
    /\ state' = "kArmed" /\ PublishRtState("kArmed", pending)
    /\ armedAge' = 0 /\ lastAge' = Never
    /\ recording' = TRUE /\ releasePending' = FALSE
    /\ UNCHANGED <<lifecycle, stopVars, endAge, kp, nextId, stopCount, finishFor,
                   keepalive, beat, recordComplete, snapshot, callbackVars>>

NoStart ==
    /\ rt = "start" /\ rt' = "keepalive"
    /\ UNCHANGED <<lifecycle, runVars, stopVars, kp, mailVars, recordVars, rtState,
                   snapshot, callbackVars>>

\* Mutant: any keepalive of the run's number counts, also an earlier one.
CountsAnyTime == keepalive.id = run.id

\* "Keepalives count only for the applied request and only after it was
\* accepted."
Counts == keepalive.id = run.id /\ keepalive.after

ReadKeepalive ==
    /\ rt = "keepalive" /\ rt' = "compute"
    /\ \/ isActive(state) /\ Counts /\ lastAge' = keepalive.age
       \/ UNCHANGED lastAge
    /\ UNCHANGED <<lifecycle, state, run, armedAge, endAge, recording, releasePending,
                   stopVars, kp, mailVars, recordVars, rtState, snapshot, callbackVars>>

\* 6. Holding, until finish, a lease expiry or a limit.
HoldResults ==
    IF lastAge > Lease THEN {"kLease"}
    ELSE {"kStateNotFinite", "kTorque",
          IF finishFor = run.id THEN "kFinish" ELSE "kHolding"}

\* 5. Running; a trajectory that ends without release holds in the same cycle.
RunResults ==
    IF lastAge > Lease THEN {"kLease"}
    ELSE {"kStateNotFinite", "kVelocity", "kTorque", "kRunning"}
         \cup (IF run.release THEN {"kRelease"} ELSE HoldResults)

\* 4. Armed: the first keepalive starts the trajectory in the same cycle.
ArmResults ==
    IF lastAge # Never
    THEN {"kStateNotFinite", "kStartRange", "kDuration"} \cup RunResults
    ELSE {IF armedAge > ArmTimeout THEN "kNoKeepalive" ELSE "kArmed"}

\* The state the cycle may leave the run in, or why it ends; 3. an implausible
\* period ends a run that moves.
Results ==
    CASE state = "kArmed" -> ArmResults
      [] state = "kRunning" -> RunResults \cup {"kPeriod"}
      [] state = "kHolding" -> HoldResults \cup {"kPeriod"}
      [] OTHER -> {state}

Compute ==
    /\ rt = "compute" /\ rt' = "output"
    /\ \E result \in Results :
          \/ /\ result \in States
             /\ state' = result
             /\ UNCHANGED <<endAge, releasePending>>
          \/ result \in Reasons /\ EndRun(result)
    /\ UNCHANGED <<lifecycle, run, armedAge, lastAge, recording, stopVars, kp,
                   mailVars, recordVars, rtState, snapshot, callbackVars>>

\* writeOutputs(): every value is attempted; of a refused set, kp may be one
\* that was taken.
WriteOutputs(gain, taken) ==
    IF taken THEN kp' = gain ELSE kp' \in {kp, gain}

\* Mutant: the immediate release is taken for granted.
WriteFailedAssumed ==
    /\ Gains(state)
    /\ state' = "kAborted" /\ endAge' = 0
    /\ kp' \in BOOLEAN /\ releasePending' = FALSE

\* A gain that is refused ends the run and is released at once, whichever way
\* the first attempt left the interface.
WriteFailed ==
    /\ Gains(state)
    /\ state' = "kAborted" /\ endAge' = 0
    /\ \/ kp' = FALSE /\ releasePending' = FALSE
       \/ kp' \in BOOLEAN /\ releasePending' = TRUE

\* The outputs of the cycle.
Output(taken) ==
    /\ rt = "output" /\ rt' = "record"
    /\ IF Gains(state) /\ ~taken
       THEN WriteFailed
       ELSE /\ WriteOutputs(Gains(state), taken)
            /\ releasePending' = (releasePending /\ ~(Ended(state) /\ taken))
            /\ UNCHANGED <<state, endAge>>
    /\ UNCHANGED <<lifecycle, run, armedAge, lastAge, recording, stopVars, mailVars,
                   recordVars, rtState, snapshot, callbackVars>>

\* Mutant: the record does not wait for the released outputs.
RecordEndsByTime == recording /\ Ended(state) /\ endAge >= RecordTail

\* The record ends record_tail after a run whose released outputs were taken.
RecordEnds == recording /\ Ended(state) /\ ~releasePending /\ endAge >= RecordTail

Record ==
    /\ rt = "record" /\ rt' = "publish"
    /\ recording' = (recording /\ ~RecordEnds)
    /\ recordComplete' = (recordComplete \/ RecordEnds)
    /\ UNCHANGED <<lifecycle, state, run, armedAge, lastAge, endAge, releasePending,
                   stopVars, kp, mailVars, busy, rtState, snapshot, callbackVars>>

Publish ==
    /\ rt = "publish" /\ rt' = "idle"
    /\ PublishRtState(state, run)
    /\ \/ snapshot' = [state |-> state, id |-> IF state = "kIdle" THEN 0 ELSE run.id,
                       releasePending |-> releasePending]
       \/ UNCHANGED snapshot
    /\ UNCHANGED <<lifecycle, runVars, stopVars, kp, mailVars, recordVars, callbackVars>>

---------------------------------------------------------------------------
(* Lifecycle *)

\* on_activate().  "Stops accepted while inactive do not carry over to the
\* next run."  Refused outputs fail the activation, and the lifecycle node
\* (external) goes from the error to finalized.
OnActivate(taken) ==
    /\ lifecycle = "inactive"
    /\ lifecycle' = IF taken THEN "active" ELSE "finalized"
    /\ state' = "kIdle" /\ releasePending' = FALSE
    /\ appliedStops' = stopCount /\ rtStops' = stopCount
    /\ PublishRtState("kIdle", run)
    /\ WriteOutputs(FALSE, taken)
    /\ snapshot' = IF taken
                   THEN [state |-> "kIdle", id |-> 0, releasePending |-> FALSE]
                   ELSE snapshot
    /\ UNCHANGED <<rt, run, armedAge, lastAge, endAge, recording, mailVars,
                   recordVars, callbackVars>>

\* Mutant: the record is ended but not handed over.
HandOverNothing ==
    /\ recording' = FALSE
    /\ UNCHANGED recordComplete

\* Mutant: the record is handed over and goes on.
HandOverOpen ==
    /\ UNCHANGED recording
    /\ recordComplete' = (recordComplete \/ recording)

\* on_deactivate() ends the record of a run.
HandOver ==
    /\ recording' = FALSE
    /\ recordComplete' = (recordComplete \/ recording)

OnDeactivate(taken) ==
    /\ lifecycle = "active" /\ rt = "idle"
    /\ lifecycle' = "inactive"
    /\ WriteOutputs(FALSE, taken)
    /\ IF isActive(state) THEN EndRun("kDeactivated")
                          ELSE UNCHANGED <<state, endAge, releasePending>>
    /\ PublishRtState(state', run)
    /\ HandOver
    /\ snapshot' = [snapshot EXCEPT !.state = state']
    /\ UNCHANGED <<rt, run, armedAge, lastAge, stopVars, mailVars, busy, callbackVars>>

---------------------------------------------------------------------------
(* The node's callbacks; a refused request changes nothing *)

\* Mutant: ~/start does not wait for a stop to be applied.
AcceptsDuringStop == pending = NoRequest /\ ~busy

\* When requestStart() accepts a valid request.
Accepts == pending = NoRequest /\ ~busy /\ stopCount = rtStops

RequestStart(release) ==
    /\ callback = "none" /\ nextId <= MaxStarts
    /\ Accepts
    /\ pending' = [id |-> nextId, release |-> release, stops |-> stopCount]
    /\ nextId' = nextId + 1
    /\ keepalive' = [keepalive EXCEPT !.after = FALSE]
    /\ beat' = Never
    /\ UNCHANGED <<lifecycle, rt, runVars, stopVars, kp, stopCount, finishFor,
                   recordVars, rtState, snapshot, callbackVars>>

\* requestFinish() loads rt_state_id_ ...
RequestFinish ==
    /\ callback = "none"
    /\ rtState.state = "kHolding"
    /\ callback' = "finish" /\ finishing' = rtState.id
    /\ UNCHANGED <<lifecycle, rt, runVars, stopVars, kp, mailVars, recordVars, rtState,
                   snapshot>>

\* ... and stores the number it found, which may have ended meanwhile.
StoreFinish ==
    /\ callback = "finish"
    /\ finishFor' = finishing
    /\ callback' = "none" /\ finishing' = 0
    /\ UNCHANGED <<lifecycle, rt, runVars, stopVars, kp, pending, nextId, stopCount,
                   keepalive, beat, recordVars, rtState, snapshot>>

RequestStop ==
    /\ callback = "none" /\ stopCount < MaxStops
    /\ pending' = NoRequest
    /\ stopCount' = stopCount + 1
    /\ UNCHANGED <<lifecycle, rt, runVars, stopVars, kp, nextId, finishFor, keepalive,
                   beat, recordVars, rtState, snapshot, callbackVars>>

OnKeepalive(id) ==
    /\ callback = "none"
    /\ keepalive' = [id |-> id, after |-> TRUE, age |-> 0]
    /\ beat' = IF id = nextId - 1 THEN 0 ELSE beat
    /\ UNCHANGED <<lifecycle, rt, runVars, stopVars, kp, pending, nextId, stopCount,
                   finishFor, recordVars, rtState, snapshot, callbackVars>>

\* writeCompletedRecord() reads the rows and the run of a complete record ...
WriteBegin ==
    /\ callback = "none" /\ recordComplete
    /\ callback' = "csv"
    /\ UNCHANGED <<lifecycle, rt, runVars, stopVars, kp, mailVars, recordVars, rtState,
                   snapshot, finishing>>

\* ... and hands the buffer back when the file is written, or when there is no
\* output directory.
WriteDone ==
    /\ callback = "csv"
    /\ callback' = "none"
    /\ recordComplete' = FALSE /\ busy' = FALSE
    /\ UNCHANGED <<lifecycle, rt, runVars, stopVars, kp, mailVars, rtState, snapshot,
                   finishing>>

\* A file that cannot be written keeps the record for a later attempt.
WriteRefused ==
    /\ callback = "csv"
    /\ callback' = "none"
    /\ UNCHANGED <<lifecycle, rt, runVars, stopVars, kp, mailVars, recordVars, rtState,
                   snapshot, finishing>>

\* steady_clock
Tick ==
    /\ rt = "idle"
    /\ armedAge' = Older(armedAge, ArmTimeout + 1)
    /\ lastAge' = Older(lastAge, Lease + 1)
    /\ endAge' = Older(endAge, RecordTail)
    /\ keepalive' = [keepalive EXCEPT !.age = Older(@, Lease + 1)]
    /\ beat' = Older(beat, Lease + 1)
    /\ UNCHANGED <<lifecycle, rt, state, run, recording, releasePending, stopVars, kp,
                   pending, nextId, stopCount, finishFor, recordVars, rtState, snapshot,
                   callbackVars>>

---------------------------------------------------------------------------

Cycle ==
    \/ CycleStop \/ TakeStart \/ NoStart \/ ReadKeepalive \/ Compute
    \/ \E taken \in BOOLEAN : Output(taken)
    \/ Record \/ Publish

Lifecycle == \E taken \in BOOLEAN : OnActivate(taken) \/ OnDeactivate(taken)

Callbacks ==
    \/ \E release \in BOOLEAN : RequestStart(release)
    \/ RequestFinish \/ StoreFinish \/ RequestStop
    \/ \E id \in Ids : OnKeepalive(id)
    \/ WriteBegin \/ WriteDone \/ WriteRefused

Next == Cycle \/ Lifecycle \/ Callbacks \/ Tick

Spec == Init /\ [][Next]_vars

\* controller_manager goes on calling update(), the clock runs, the timer
\* fires between other callbacks, and neither a command interface nor the file
\* system refuses for ever.
FairSpec ==
    /\ Spec
    /\ WF_vars(Cycle) /\ SF_vars(Output(TRUE)) /\ SF_vars(Tick)
    /\ SF_vars(WriteBegin) /\ WF_vars(StoreFinish) /\ SF_vars(WriteDone)

---------------------------------------------------------------------------
(* Properties *)

\* The types of what update() and the lifecycle own ...
RunTypeOK ==
    /\ lifecycle \in {"inactive", "active", "finalized"}
    /\ rt \in {"idle", "start", "keepalive", "compute", "output", "record", "publish"}
    /\ rt # "idle" => lifecycle = "active"
    /\ state \in States /\ run \in Requests
    /\ armedAge \in 0 .. ArmTimeout + 1 /\ endAge \in 0 .. RecordTail
    /\ lastAge \in 0 .. Never
    /\ recording \in BOOLEAN /\ releasePending \in BOOLEAN /\ kp \in BOOLEAN

\* ... and of what it shares with the callbacks.
SharedTypeOK ==
    /\ appliedStops \in 0 .. MaxStops /\ rtStops = appliedStops
    /\ stopCount \in 0 .. MaxStops
    /\ pending \in Requests /\ nextId \in 1 .. MaxStarts + 1
    /\ keepalive \in [id : 0 .. MaxStarts, after : BOOLEAN, age : 0 .. Lease + 1]
    /\ beat \in 0 .. Never
    /\ busy \in BOOLEAN /\ recordComplete \in BOOLEAN
    /\ rtState \in [state : States, id : 0 .. MaxStarts]
    /\ finishFor \in 0 .. MaxStarts /\ finishing \in 0 .. MaxStarts
    /\ snapshot \in [state : States, id : 0 .. MaxStarts, releasePending : BOOLEAN]
    /\ callback \in {"none", "finish", "csv"}

(* Every variable keeps its type, a cycle runs only in an active controller,
   and ~/start sees the number of stops that update() has applied. *)
TypeOK == RunTypeOK /\ SharedTypeOK

(* A command interface keeps a gain only while the run moves or holds, or
   while release_write_pending_ says that the release has not gone through:
   over refused writes, a deactivation, and the start of the next run. *)
LimpUnlessPending ==
    kp => Gains(state) \/ releasePending \/ lifecycle = "finalized"

(* A stop ends every run accepted before it and none accepted after it, in
   whichever order the two callbacks and the two halves of a cycle meet. *)
StopEndsEarlierRuns ==
    /\ isActive(state) => run.stops = appliedStops
    /\ pending # NoRequest => pending.stops = stopCount

(* Gains are written only within the lease of a keepalive that names the run
   and came after its acceptance. *)
GainsNeedLease == rt = "output" /\ Gains(state) => beat <= Lease

(* While the timer reads the rows and the run of a record, update() neither
   adds a row nor starts another run. *)
RecordIsStable == [][callback = "csv" => ~recording /\ run' = run]_vars

(* A stop that finds a run ends it. *)
StopReleases == isActive(state) /\ stopCount # appliedStops ~> ~isActive(state)

(* A run that has ended hands its record over, and the next start is possible
   again, also when the controller is deactivated in between. *)
EndedRunFreesController == Ended(state) /\ busy ~> ~busy

(* While the controller is active, ~/status calls a run ended and its release
   done only when no gain is left on the command interfaces, however many
   snapshots update() had to skip. *)
PendingIsReported ==
    lifecycle = "active" /\ Ended(snapshot.state) /\ snapshot.id = run.id
        /\ ~snapshot.releasePending => ~kp

(* The cycle and the callbacks together keep the motion contract: gains only
   in a requested run under a live supervisor, and an ended run stays ended. *)
Motion ==
    INSTANCE SupervisedMotion
    WITH waiting <- pending # NoRequest,
         phase <- IF Gains(state) THEN "moving"
                  ELSE IF state = "kArmed" THEN "armed" ELSE "rest",
         gains <- kp,
         alive <- beat <= Lease
ImplementsMotion == Motion!Spec
===========================================================================
