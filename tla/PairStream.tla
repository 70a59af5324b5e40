---------------------------- MODULE PairStream ----------------------------
(***************************************************************************)
(* The group ("pair", G) mode of the hardware interface: one CAN bus whose *)
(* axes are commanded together by one broadcast frame per batch.           *)
(*                                                                         *)
(* Three threads meet here:                                                *)
(*   control    controller_manager's loop: write() -> writePair(),         *)
(*              on_error(), the command mode switch                        *)
(*              (src/pair_system_interface.cpp);                           *)
(*   TX         BxiBusStreamer::sendWriteLoop() and performGroupSafety()   *)
(*              (src/bus_streamer.cpp);                                    *)
(*   lifecycle  releaseResources() -> requestStop(), stop() with the       *)
(*              bounded drain of a pending safety request.                 *)
(* They share the GroupSafety record, the command snapshot (an atomic      *)
(* register: see AtomicSnapshot and its refinement) and a few flags.       *)
(*                                                                         *)
(* Time is kept as what the code compares it with: up to which generation  *)
(* commands are older than max_command_age, whether the feedback is older  *)
(* than max_feedback_age, whether the startup deadline has passed.  When a *)
(* frame is due (first write, resend, half-period hold) is left open.  One *)
(* activation is modelled, from the armed stream to the joined thread.     *)
(***************************************************************************)
EXTENDS PairCommit

Sources == {"HwFault", "ModeStop", "Watchdog", "FeedbackStale"}
Results == {"Unattempted", "Processing", "CannotGenerate", "SendFailed",
            "Succeeded", "Incomplete"}
Faults == {"None", "OwnerRequested", "FeedbackStale", "CommandStale",
           "CommandSnapshotUnavailable", "StartupTimeout", "Temperature",
           "EncodeFailed", "SendFailed", "NotificationFailed"}

Versions == 0 .. 2 * MaxGeneration

VARIABLES
    \* control thread
    cpc,          \* where it is in write() / on_error()
    gen, batch,   \* the generation and the batch class write() found staged
    reason,       \* the outcome of the write in progress
    claimed,      \* pair_claimed_
    terminal,     \* pair_terminal_
    \* GroupSafety
    sources, errorObserved, result, abandoned, drainTimedOut,
    feedbackStopped, terminalFault,
    \* the command snapshot: its version, odd while a batch is being stored,
    \* and the last batch published
    version, snapSeq, snapBatch,
    \* TX thread
    tpc,          \* where it is in sendWriteLoop()
    txVersion,    \* the version loaded before the snapshot read
    nowExpired, nowStartup,   \* the clock, read once per iteration
    observed, snapFailed,     \* observed_version, snapshot_failed
    schedSeq,     \* schedule.sequence: the generation in tx_cache
    firstSent,    \* first_stream_send_ns # 0
    fault,        \* tx_stats_.fault
    staleDetected,            \* feedback_stale.detected
    driversLatched,           \* latchCommunicationFault() on every driver
    \* flags shared by all
    txRunning, safeStopped, notifyFailed, rxFault,
    \* lifecycle thread
    lpc,          \* where it is in releaseResources() / stop()
    \* time
    expiredUpTo, startupPassed, feedbackOld,
    \* history
    wireSeq,      \* generation of the last normal frame given to the bus
    lateFrames,   \* normal frames given to the bus since the first request
    stopPending   \* a request was registered when requestStop() was called

controlVars == <<cpc, gen, batch, reason, claimed, terminal>>
drainVars == <<abandoned, drainTimedOut>>
staleVars == <<feedbackStopped, terminalFault, staleDetected>>
snapVars == <<version, snapSeq, snapBatch>>
readVars == <<txVersion, nowExpired, nowStartup, observed, snapFailed,
              schedSeq>>
endVars == <<fault, safeStopped, driversLatched>>
timeVars == <<expiredUpTo, startupPassed, feedbackOld>>
wireVars == <<firstSent, wireSeq, lateFrames>>
vars == <<commitVars, controlVars, sources, errorObserved, result, drainVars,
          staleVars, snapVars, tpc, readVars, endVars, wireVars, txRunning,
          notifyFailed, rxFault, lpc, timeVars, stopPending>>

\* What the control thread, and what the TX thread, never writes.
notControl == <<result, drainVars, staleVars, tpc, readVars, endVars, wireVars,
                txRunning, rxFault, lpc, timeVars, stopPending>>
notTx == <<commitVars, controlVars, errorObserved, drainVars, snapVars,
           txRunning, rxFault, lpc, timeVars, stopPending>>

Init ==
    /\ CommitInit
    /\ cpc = "idle" /\ gen = 0 /\ batch = "released" /\ reason = "BootWait"
    /\ claimed = FALSE /\ terminal = FALSE
    /\ sources = {} /\ errorObserved = FALSE /\ result = "Unattempted"
    /\ abandoned = FALSE /\ drainTimedOut = FALSE
    /\ feedbackStopped = FALSE /\ terminalFault = "OwnerRequested"
    /\ version = 0 /\ snapSeq = 0 /\ snapBatch = "released"
    /\ tpc = "top" /\ txVersion = 0 /\ nowExpired = 0 /\ nowStartup = FALSE
    /\ observed = 0 /\ snapFailed = FALSE /\ schedSeq = 0 /\ firstSent = FALSE
    /\ fault = "None" /\ staleDetected = FALSE /\ driversLatched = FALSE
    /\ txRunning = TRUE /\ safeStopped = FALSE /\ notifyFailed = FALSE
    /\ rxFault = FALSE
    /\ lpc = "active"
    /\ expiredUpTo = 0 /\ startupPassed = FALSE /\ feedbackOld = FALSE
    /\ wireSeq = 0 /\ lateFrames = 0 /\ stopPending = FALSE

\* notify(): writing the event fd may fail, which is remembered.
Notify == notifyFailed' \in BOOLEAN /\ (notifyFailed => notifyFailed')

\* Mutant: only a fault found by write() counts as a request.
RequestedHwOnly == "HwFault" \in sources

\* GroupSafety::requested() and finished()
Requested == sources # {}
Finished == result \notin {"Unattempted", "Processing"}

---------------------------------------------------------------------------
(* Control thread *)

Settle(why) ==
    /\ reason' = why
    /\ cpc' = "settle"

\* Entry of write(): a stopped system is an ERROR; otherwise writePair()
\* inspects what the controller staged, unless the feedback stop or a
\* missing claim comes first.
Write(g, b) ==
    /\ cpc = "idle" /\ lpc = "active"
    /\ \/ /\ safeStopped
          /\ cpc' = "error"
          /\ UNCHANGED <<commitVars, gen, batch, reason>>
       \/ /\ ~safeStopped /\ feedbackStopped
          /\ Settle("FeedbackPending")
          /\ UNCHANGED <<commitVars, gen, batch>>
       \/ /\ ~safeStopped /\ ~feedbackStopped /\ ~claimed
          /\ Settle("NotClaimed")
          /\ UNCHANGED <<commitVars, gen, batch>>
       \/ /\ ~safeStopped /\ ~feedbackStopped /\ claimed
          /\ gen' = g /\ batch' = b
          /\ InspectEffect(g, b, startupPassed)
          /\ reason' = Inspect(g, b, startupPassed)
          /\ cpc' = IF reason' = "Accepted" THEN "recheck" ELSE "settle"
          /\ UNCHANGED last
    /\ UNCHANGED <<claimed, terminal, sources, errorObserved, notifyFailed,
                   snapVars, notControl>>

\* Mutant: what the first inspection found is not looked at again.
RecheckSkipped ==
    /\ cpc = "recheck"
    /\ cpc' = "gate"
    /\ UNCHANGED <<commitVars, gen, batch, reason, claimed, terminal, sources,
                   errorObserved, notifyFailed, snapVars, notControl>>

\* "Recheck the fixed initial deadline at batch completion": the second
\* inspection, at the publication time.
Recheck ==
    /\ cpc = "recheck"
    /\ \/ /\ feedbackStopped
          /\ Settle("FeedbackPending")
          /\ UNCHANGED commitVars
       \/ /\ ~feedbackStopped
          /\ InspectEffect(gen, batch, startupPassed)
          /\ reason' = Inspect(gen, batch, startupPassed)
          /\ cpc' = IF reason' = "Accepted" THEN "gate" ELSE "settle"
          /\ UNCHANGED last
    /\ UNCHANGED <<gen, batch, claimed, terminal, sources, errorObserved,
                   notifyFailed, snapVars, notControl>>

\* Mutant: the batch goes out before it is accepted.
GateWithoutAccept ==
    /\ cpc = "gate"
    /\ IF txRunning /\ ~safeStopped
       THEN /\ cpc' = "storing"
            /\ version' = version + 1
            /\ UNCHANGED <<reason, latched>>
       ELSE /\ Settle("PublishFailed")
            /\ latched' = TRUE
            /\ UNCHANGED version
    /\ UNCHANGED <<last, expired, gen, batch, claimed, terminal, sources,
                   errorObserved, notifyFailed, snapSeq, snapBatch, notControl>>

\* accept(), then publishCommandBatch(): not published once the stream is
\* stopping; else the publication begins.
Gate ==
    /\ cpc = "gate"
    /\ last' = gen
    /\ IF txRunning /\ ~safeStopped
       THEN /\ cpc' = "storing"
            /\ version' = version + 1
            /\ UNCHANGED <<reason, latched>>
       ELSE /\ Settle("PublishFailed")
            /\ latched' = TRUE
            /\ UNCHANGED version
    /\ UNCHANGED <<expired, gen, batch, claimed, terminal, sources,
                   errorObserved, notifyFailed, snapSeq, snapBatch, notControl>>

\* The publication ends, and the TX thread is notified.
Store ==
    /\ cpc = "storing"
    /\ version' = version + 1 /\ snapSeq' = gen /\ snapBatch' = batch
    /\ cpc' = "settle"
    /\ Notify
    /\ reason' = IF notifyFailed' THEN "PublishFailed" ELSE reason
    /\ latched' = (latched \/ notifyFailed')
    /\ UNCHANGED <<last, expired, gen, batch, claimed, terminal, sources,
                   errorObserved, notControl>>

Abnormal(why) ==
    why \in {"InvalidGeneration", "Rollback", "Gap", "InvalidBatch",
             "LatchedNonzero", "StartupExpired", "PublishFailed"}

\* Mutant: a failed publication is not reported as a fault.
SettleForgetsPublishFailure ==
    /\ cpc = "settle"
    /\ IF Abnormal(reason) /\ reason # "PublishFailed"
       THEN sources' = sources \cup {"HwFault"} /\ Notify
       ELSE UNCHANGED <<sources, notifyFailed>>
    /\ cpc' = IF "HwFault" \in sources' THEN "error" ELSE "idle"
    /\ gen' = 0 /\ batch' = "released" /\ reason' = "BootWait"
    /\ UNCHANGED <<commitVars, claimed, terminal, errorObserved, snapVars,
                   notControl>>

\* The end of writePair(): an abnormal outcome requests the group's safety
\* stop, and write() returns ERROR from then on.
Return ==
    /\ cpc = "settle"
    /\ IF Abnormal(reason)
       THEN sources' = sources \cup {"HwFault"} /\ Notify
       ELSE UNCHANGED <<sources, notifyFailed>>
    /\ cpc' = IF "HwFault" \in sources' THEN "error" ELSE "idle"
    /\ gen' = 0 /\ batch' = "released" /\ reason' = "BootWait"
    /\ UNCHANGED <<commitVars, claimed, terminal, errorObserved, snapVars,
                   notControl>>

\* Mutant: the observation of the error is not recorded.
OnErrorUnobserved ==
    /\ cpc = "error" /\ lpc = "active"
    /\ cpc' = "errored"
    /\ gen' = 0 /\ batch' = "released" /\ reason' = "BootWait"
    /\ UNCHANGED <<commitVars, claimed, terminal, sources, errorObserved,
                   notifyFailed, snapVars, notControl>>

\* controller_manager calls on_error() after write() has returned ERROR, and
\* calls write() no more.  If it is torn down in between, the call is lost.
OnError ==
    /\ cpc = "error" /\ lpc = "active"
    /\ cpc' = "errored"
    /\ gen' = 0 /\ batch' = "released" /\ reason' = "BootWait"
    /\ errorObserved' = (errorObserved \/ Requested)
    /\ IF Requested THEN Notify ELSE UNCHANGED notifyFailed
    /\ UNCHANGED <<commitVars, claimed, terminal, sources, snapVars, notControl>>

\* perform_command_mode_switch() with the complete key set to start.
ModeStart ==
    /\ cpc = "idle" /\ lpc = "active"
    /\ ~terminal /\ ~feedbackStopped /\ ~claimed
    /\ claimed' = TRUE
    /\ UNCHANGED <<commitVars, cpc, gen, batch, reason, terminal, sources,
                   errorObserved, notifyFailed, snapVars, notControl>>

\* ... and to stop: the group is stopped for good.
ModeStop ==
    /\ cpc = "idle" /\ lpc = "active"
    /\ claimed
    /\ sources' = sources \cup {"ModeStop"}
    /\ Notify
    /\ claimed' = FALSE /\ terminal' = TRUE /\ latched' = TRUE
    /\ UNCHANGED <<last, expired, cpc, gen, batch, reason, errorObserved,
                   snapVars, notControl>>

---------------------------------------------------------------------------
(* TX thread: sendWriteLoop() *)

Active == schedSeq # 0

\* Where the TX thread goes when it stays in the loop.  The variables local
\* to one iteration are cleared when their scope ends.
Goto(pc) == tpc' = pc

\* fault(): record the reason, stop every stream, leave the loop.
Fault(kind) ==
    /\ fault' = kind
    /\ safeStopped' = TRUE
    /\ tpc' = "done"

\* "G requests are handled before ordinary stop flags."
TxTop ==
    /\ tpc = "top"
    /\ Goto(IF Requested THEN "safety" ELSE "flags")
    /\ UNCHANGED <<notTx, sources, result, staleVars, readVars, endVars, wireVars,
                   notifyFailed>>

\* The ordinary stop flags, then the clock and the snapshot version.
TxFlags ==
    /\ tpc = "flags"
    /\ \/ /\ ~txRunning \/ safeStopped
          /\ tpc' = "done"
          /\ UNCHANGED <<fault, safeStopped, txVersion, nowExpired, nowStartup>>
       \/ /\ txRunning /\ ~safeStopped /\ notifyFailed
          /\ Fault("NotificationFailed")
          /\ UNCHANGED <<txVersion, nowExpired, nowStartup>>
       \/ /\ txRunning /\ ~safeStopped /\ ~notifyFailed
          /\ Goto("read")
          /\ txVersion' = version
          /\ nowExpired' = expiredUpTo /\ nowStartup' = startupPassed
          /\ UNCHANGED <<fault, safeStopped>>
    /\ UNCHANGED <<notTx, sources, result, staleVars, observed, snapFailed,
                   schedSeq, driversLatched, wireVars, notifyFailed>>

\* "Take a whole command batch": tryRead() fails while one is being stored
\* (AtomicSnapshot); a failed read keeps the old batch.
TxRead ==
    /\ tpc = "read"
    /\ Goto("decide")
    /\ IF txVersion = observed /\ ~snapFailed
       THEN UNCHANGED <<schedSeq, observed, snapFailed>>
       ELSE \/ /\ cpc = "storing"
               /\ snapFailed' = TRUE
               /\ UNCHANGED <<schedSeq, observed>>
            \/ /\ cpc # "storing"
               /\ schedSeq' = snapSeq
               /\ observed' = txVersion
               /\ snapFailed' = FALSE
    /\ txVersion' = 0
    /\ UNCHANGED <<notTx, sources, result, staleVars, nowExpired, nowStartup,
                   endVars, wireVars, notifyFailed>>

\* The reason to stop that this iteration finds; command expiry first.
\* "Temperature" stands for either receive fault, kForbiddenReply included.
StopReason ==
    IF Active /\ schedSeq <= nowExpired
    THEN IF snapFailed THEN "CommandSnapshotUnavailable" ELSE "CommandStale"
    ELSE IF rxFault THEN "Temperature"
    ELSE IF ~Active /\ nowStartup THEN "StartupTimeout"
    ELSE "None"

\* collectFeedbackStale() finds the feedback too old for the first time.
StaleNow == feedbackOld /\ firstSent /\ ~staleDetected /\ ~Finished

\* What collectFeedbackStale() does, together with another source that the
\* caller requests.
NoteStale(more) ==
    IF StaleNow
    THEN /\ staleDetected' = TRUE
         /\ feedbackStopped' = TRUE
         /\ sources' = sources \cup {"FeedbackStale"} \cup more
    ELSE /\ sources' = sources \cup more
         /\ UNCHANGED <<staleDetected, feedbackStopped>>

\* Whether a frame is due or the loop waits depends on the schedule (first
\* write, resend, held); with a failed snapshot an active stream only waits.
\* The wait ends by a notification, by its timer, or by a failure of either.
TxDecide ==
    /\ tpc = "decide"
    /\ \/ /\ StopReason = "Temperature"
          /\ Fault("Temperature")
          /\ UNCHANGED <<sources, feedbackStopped, terminalFault, staleDetected,
                         notifyFailed>>
       \/ /\ StopReason = "None"
          /\ NoteStale({})
          /\ terminalFault' = IF StaleNow /\ ~Requested THEN "FeedbackStale"
                              ELSE terminalFault
          /\ \/ /\ staleDetected'
                /\ Goto("top")
                /\ UNCHANGED <<fault, safeStopped, notifyFailed>>
             \/ /\ ~staleDetected' /\ ~(Active /\ snapFailed)
                /\ Goto("guard")
                /\ UNCHANGED <<fault, safeStopped, notifyFailed>>
             \/ /\ ~staleDetected'
                /\ Goto("top") /\ Notify
                /\ UNCHANGED <<fault, safeStopped>>
             \/ /\ ~staleDetected'
                /\ Fault("NotificationFailed")
                /\ UNCHANGED notifyFailed
       \/ /\ StopReason \notin {"None", "Temperature"}
          /\ NoteStale({"Watchdog"})
          /\ terminalFault' = StopReason
          /\ Goto("top")
          /\ UNCHANGED <<fault, safeStopped, notifyFailed>>
    /\ nowExpired' = 0 /\ nowStartup' = FALSE
    /\ UNCHANGED <<notTx, result, txVersion, observed, snapFailed, schedSeq,
                   driversLatched, wireVars>>

\* The batch is encoded, which a driver may refuse; then the send boundary,
\* first half: stop flags and the safety request.
TxGuard ==
    /\ tpc = "guard"
    /\ \/ Fault("EncodeFailed")
       \/ /\ Goto(IF ~txRunning \/ safeStopped \/ Requested THEN "top" ELSE "fresh")
          /\ UNCHANGED <<fault, safeStopped>>
    /\ UNCHANGED <<notTx, sources, result, staleVars, readVars, driversLatched,
                   wireVars, notifyFailed>>

\* Second half: a newer publication (or one being stored) cancels the batch,
\* as do a receive fault and the command's age at this moment.
Cancelled ==
    \/ Active /\ version # observed
    \/ rxFault
    \/ Active /\ schedSeq <= expiredUpTo

TxFresh ==
    /\ tpc = "fresh"
    /\ Goto(IF Cancelled THEN "top" ELSE "send")
    /\ UNCHANGED <<notTx, sources, result, staleVars, readVars, endVars, wireVars,
                   notifyFailed>>

\* The broadcast frame is given to the bus, or the bus refuses it.
TxSend ==
    /\ tpc = "send"
    /\ \/ /\ Goto("top")
          /\ wireSeq' = schedSeq
          /\ firstSent' = TRUE
          /\ lateFrames' = IF sources = {} THEN lateFrames ELSE lateFrames + 1
          /\ UNCHANGED <<fault, safeStopped, driversLatched>>
       \/ /\ Fault("SendFailed")
          /\ driversLatched' = TRUE
          /\ UNCHANGED <<wireSeq, firstSent, lateFrames>>
    /\ UNCHANGED <<notTx, sources, result, staleVars, readVars, notifyFailed>>

\* A request is pending: add what else is wrong by now, stale feedback and
\* an expired command.
TxSafety ==
    /\ tpc = "safety"
    /\ NoteStale(IF Active /\ schedSeq <= expiredUpTo THEN {"Watchdog"} ELSE {})
    /\ Goto("attempt")
    /\ UNCHANGED <<notTx, result, terminalFault, readVars, endVars, wireVars,
                   notifyFailed>>

\* Mutant: an HWIF fault is acted upon without waiting for on_error().
ReadyAtOnce == Requested

\* GroupSafety::ready()
Ready == Requested /\ ("HwFault" \in sources => errorObserved)

\* Mutant: the drain's timeout is not looked at.
TxAttemptNeverAbandons ==
    /\ tpc = "attempt"
    /\ \/ /\ ~Ready
          /\ Goto("top") /\ Notify
          /\ UNCHANGED result
       \/ /\ Ready
          /\ result' = "Processing"
          /\ Goto("perform")
          /\ UNCHANGED notifyFailed
    /\ UNCHANGED <<notTx, sources, staleVars, readVars, endVars, wireVars>>

\* performGroupSafety() up to the claim of the attempt.  "A registered HWIF
\* fault must wait for the post-ERROR observation boundary": the loop polls.
TxAttempt ==
    /\ tpc = "attempt"
    /\ \/ /\ abandoned
          /\ result' = "Incomplete"
          /\ Goto("finish")
          /\ UNCHANGED notifyFailed
       \/ /\ ~abandoned /\ ~Ready
          /\ Goto("top") /\ Notify
          /\ UNCHANGED result
       \/ /\ ~abandoned /\ Ready
          /\ result' = "Processing"
          /\ Goto("perform")
          /\ UNCHANGED notifyFailed
    /\ UNCHANGED <<notTx, sources, staleVars, readVars, endVars, wireVars>>

\* The one attempt: no usable position, a refused frame, or the zero-gain
\* frame at the last known positions.
TxPerform ==
    /\ tpc = "perform"
    /\ result' \in {"CannotGenerate", "SendFailed", "Succeeded"}
    /\ Goto("finish")
    /\ UNCHANGED <<notTx, sources, staleVars, readVars, endVars, wireVars,
                   notifyFailed>>

\* The finished request ends the stream; stale feedback latches the drivers.
TxFinish ==
    /\ tpc = "finish"
    /\ driversLatched' = (driversLatched \/ staleDetected)
    /\ Fault(terminalFault)
    /\ UNCHANGED <<notTx, sources, result, staleVars, readVars, wireVars,
                   notifyFailed>>

TxStep ==
    \/ TxTop \/ TxFlags \/ TxRead \/ TxDecide \/ TxGuard \/ TxFresh \/ TxSend
    \/ TxSafety \/ TxAttempt \/ TxPerform \/ TxFinish

---------------------------------------------------------------------------
(* Lifecycle thread *)

\* What this thread never writes.
notLifecycle == <<commitVars, controlVars, sources, errorObserved, result,
                  staleVars, snapVars, tpc, readVars, endVars, wireVars,
                  rxFault, timeVars>>

\* releaseResources(): controller_manager no longer calls write();
\* requestStop() before any join.
RequestStop ==
    /\ lpc = "active" /\ cpc \in {"idle", "error", "errored"}
    /\ lpc' = "stop"
    /\ txRunning' = FALSE
    /\ Notify
    /\ stopPending' = (Requested /\ tpc # "done")
    /\ UNCHANGED <<notLifecycle, drainVars>>

\* stop(): a pending request gets the drain time, otherwise join at once.
StopBegin ==
    /\ lpc = "stop"
    /\ lpc' = IF Requested /\ tpc # "done" THEN "drain" ELSE "join"
    /\ UNCHANGED <<notLifecycle, drainVars, txRunning, notifyFailed, stopPending>>

Drained ==
    /\ lpc = "drain" /\ tpc = "done"
    /\ lpc' = "join"
    /\ UNCHANGED <<notLifecycle, drainVars, txRunning, notifyFailed, stopPending>>

DrainTimeout ==
    /\ lpc = "drain" /\ tpc # "done"
    /\ lpc' = "join"
    /\ drainTimedOut' = TRUE /\ abandoned' = TRUE
    /\ Notify
    /\ UNCHANGED <<notLifecycle, txRunning, stopPending>>

\* "never detach raw pointers": stop() returns after the join only.
Join ==
    /\ lpc = "join" /\ tpc = "done"
    /\ lpc' = "stopped"
    /\ UNCHANGED <<notLifecycle, drainVars, txRunning, notifyFailed, stopPending>>

LifecycleStep == StopBegin \/ Drained \/ DrainTimeout \/ Join

---------------------------------------------------------------------------
(* Time and the receive thread *)

notTime == <<commitVars, controlVars, sources, errorObserved, result, drainVars,
             staleVars, snapVars, tpc, readVars, endVars, wireVars, txRunning,
             notifyFailed, lpc, stopPending>>

\* One more admitted command becomes older than max_command_age.
CommandAges ==
    /\ expiredUpTo < last
    /\ expiredUpTo' = expiredUpTo + 1
    /\ UNCHANGED <<notTime, rxFault, startupPassed, feedbackOld>>

StartupPasses ==
    /\ ~startupPassed
    /\ startupPassed' = TRUE
    /\ UNCHANGED <<notTime, rxFault, expiredUpTo, feedbackOld>>

FeedbackAges ==
    /\ ~feedbackOld
    /\ feedbackOld' = TRUE
    /\ UNCHANGED <<notTime, rxFault, expiredUpTo, startupPassed>>

\* receiveLoop(): a reply renews the feedback; one with a temperature above
\* the limit, or with no working sensor, raises the receive fault.
Receive ==
    /\ lpc # "stopped"
    /\ feedbackOld' = FALSE
    /\ rxFault' \in BOOLEAN /\ (rxFault => rxFault')
    /\ UNCHANGED <<notTime, expiredUpTo, startupPassed>>

---------------------------------------------------------------------------

\* The activation is over.
Terminated == lpc = "stopped" /\ UNCHANGED vars

ControlReturns == Recheck \/ Gate \/ Store \/ Return \/ OnError

Next ==
    \/ \E g \in Generations \cup {BadGeneration}, b \in Batches : Write(g, b)
    \/ ControlReturns
    \/ ModeStart \/ ModeStop
    \/ TxStep
    \/ RequestStop \/ LifecycleStep
    \/ CommandAges \/ StartupPasses \/ FeedbackAges \/ Receive
    \/ Terminated

Spec == Init /\ [][Next]_vars

(* Fairness.  The TX thread never blocks for good (every poll has a finite
   timeout and the socket is non-blocking in this mode).  A write() that was
   entered returns, and controller_manager calls on_error() after an ERROR.
   stop(), once entered, runs on; its drain ends by the clock.  Nothing is
   assumed of further writes, mode switches, deactivation, time or replies. *)
FairSpec ==
    /\ Spec
    /\ WF_vars(TxStep)
    /\ WF_vars(ControlReturns)
    /\ WF_vars(LifecycleStep)

---------------------------------------------------------------------------
(* Properties *)

FlagsOK ==
    /\ latched \in BOOLEAN /\ expired \in BOOLEAN
    /\ claimed \in BOOLEAN /\ terminal \in BOOLEAN
    /\ errorObserved \in BOOLEAN
    /\ abandoned \in BOOLEAN /\ drainTimedOut \in BOOLEAN
    /\ feedbackStopped \in BOOLEAN /\ staleDetected \in BOOLEAN
    /\ nowStartup \in BOOLEAN /\ snapFailed \in BOOLEAN
    /\ driversLatched \in BOOLEAN
    /\ txRunning \in BOOLEAN /\ safeStopped \in BOOLEAN
    /\ notifyFailed \in BOOLEAN /\ rxFault \in BOOLEAN
    /\ startupPassed \in BOOLEAN /\ feedbackOld \in BOOLEAN
    /\ firstSent \in BOOLEAN
    /\ stopPending \in BOOLEAN

ValuesOK ==
    /\ last \in Generations
    /\ cpc \in {"idle", "recheck", "gate", "storing", "settle", "error", "errored"}
    /\ gen \in Generations \cup {BadGeneration}
    /\ batch \in Batches
    /\ reason \in Reasons
    /\ sources \subseteq Sources
    /\ result \in Results
    /\ terminalFault \in Faults
    /\ version \in Versions /\ snapSeq \in Generations
    /\ snapBatch \in {"released", "active"}
    /\ tpc \in {"top", "flags", "read", "decide", "guard", "fresh", "send",
                "safety", "attempt", "perform", "finish", "done"}
    /\ txVersion \in Versions /\ observed \in Versions
    /\ nowExpired \in Generations
    /\ schedSeq \in Generations
    /\ fault \in Faults
    /\ lpc \in {"active", "stop", "drain", "join", "stopped"}
    /\ expiredUpTo \in Generations
    /\ wireSeq \in Generations
    /\ lateFrames \in Nat

(* Every variable keeps its type; in particular the generation bookkeeping of
   inspect(), the snapshot and the schedule stays within the generations. *)
TypeOK == FlagsOK /\ ValuesOK

(* Once any thread has requested the group's safety stop, at most the one
   frame already past the send boundary still goes out: the TX thread looks
   at the request before every frame (sendWriteLoop) and never sends a
   normal frame again after it has seen it. *)
AtMostOneLateFrame == lateFrames <= 1

(* After stale feedback stopped the group, no normal frame is given to the
   bus at all, although writePair() may still be publishing a batch it
   admitted just before. *)
NoFrameAfterFeedbackStop == tpc = "send" => ~feedbackStopped

(* The snapshot carries every admitted generation once and in order, and a
   batch published first or after a latch is released: what inspect()
   decided still holds when publish() stores the batch, two steps later. *)
PublicationsInOrder ==
    [][version' # version /\ version' % 2 = 0 =>
         /\ snapSeq' = snapSeq + 1
         /\ (latched \/ snapSeq = 0) => snapBatch' = "released"]_vars

(* accept() precedes publish(): when write() has returned, the generation
   reported as accepted is the one the TX thread can see, or the group's
   safety stop has been requested. *)
AcceptedIsPublished ==
    cpc \in {"idle", "error", "errored"} =>
        snapSeq = last \/ "HwFault" \in sources

(* "A frozen L": after a feedback stop, or once the startup deadline has passed
   without a first batch, the admitted generation stands still for good.  Only
   a write() past its last check still admits the batch it carries; one caught
   between its two inspections does not ("Recheck the fixed initial deadline
   at batch completion, not only at write entry"). *)
Frozen == cpc # "gate" /\ (feedbackStopped \/ (last = 0 /\ startupPassed))
LateIsNotAdmitted == [][Frozen => last' = last /\ Frozen']_vars

(* A fault found by write() alone is answered with the safety attempt only
   after that write() has returned ERROR and on_error() has run; what is
   abandoned instead is never attempted. *)
AttemptFollowsError ==
    sources = {"HwFault"} /\ result \notin {"Unattempted", "Incomplete"} =>
        cpc = "errored"

(* A frame only ever carries a generation that was admitted, and generations
   on the bus never go back. *)
WireFollowsAdmission ==
    [][wireSeq' >= wireSeq /\ wireSeq' <= last]_vars

(* stop() returns: a request that waits for an on_error() which never comes
   is abandoned by the drain's timeout. *)
StopReturns == lpc = "stop" ~> lpc = "stopped"

(* A registered safety request always ends the stream, with or without a
   stop(). *)
RequestEndsStream == Requested ~> tpc = "done"

(* The comment at the head of the send loop, "G requests are handled before
   ordinary stop flags": a request registered before requestStop() is
   attempted, or ends in a recorded fault, before the thread exits. *)
RequestBeforeStopIsHandled ==
    tpc = "done" /\ stopPending => Finished \/ fault # "None"

(* The three threads together implement the group's admission contract: the
   admission of a batch takes effect when its publication ends or is given
   up, and the checks made two steps earlier still hold then. *)
Admission ==
    INSTANCE GroupAdmission
    WITH generation <- IF cpc = "storing" THEN last - 1 ELSE last,
         kind <- IF snapSeq = 0 THEN "none" ELSE snapBatch
ImplementsAdmission == Admission!Spec

(* To the TX thread the snapshot is a register: a batch it takes over is the
   one published last at that moment, whole; a read that the publication in
   progress disturbs, or that is skipped because the version has not changed,
   leaves it the batch it had. *)
Register ==
    INSTANCE SnapshotRegister
    WITH Readers <- {"tx"}, current <- snapSeq, cache <- [r \in {"tx"} |-> schedSeq]
TxReadsRegister == Register!Spec
===========================================================================
