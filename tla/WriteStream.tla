---------------------------- MODULE WriteStream ----------------------------
(***************************************************************************)
(* The write-triggered stream of a bus without group safety: sendWriteLoop *)
(* (src/bus_streamer.cpp) with its WriteSchedule, against the control      *)
(* thread's publishCommandBatch(), the receive thread and the clock.       *)
(*                                                                         *)
(* A new command is sent at once, but at least half a period after the     *)
(* last batch; without a new one the last is sent again; one that reaches  *)
(* its greatest age stops the motors with zero gains.  A batch is one      *)
(* frame per motor (one frame in all for a broadcast bus).                 *)
(*                                                                         *)
(* Time passes anywhere.  A deadline is kept as the time that is left to   *)
(* it, an age up to its limit; a command is known by whether it is the one *)
(* that the schedule holds.  The schedule is updated with the first frame  *)
(* of a batch, whose time it takes: nothing reads it before the last.      *)
(***************************************************************************)
EXTENDS Naturals

CONSTANTS
    Frames,      \* frames of a batch
    Period,      \* config_.period
    Grace,       \* config_.write_grace
    MaxAge,      \* config_.max_command_age
    FirstWrite   \* config_.first_write_timeout

ASSUME FramesAssumption == Frames \in Nat \ {0}
\* What start() insists on.
ASSUME TimesAssumption ==
    /\ Period \in Nat \ {0} /\ Grace \in Nat \ {0} /\ MaxAge \in Nat
    /\ Period + Grace < MaxAge /\ 2 * Period <= MaxAge
    /\ FirstWrite \in Nat \ {0}

VARIABLES
    running,       \* tx_running_
    stopAll,       \* *stop_all_
    rxFault,       \* rx_fault_ is set
    feedbackOld,   \* a motor's last reply is max_feedback_age old
    armed,         \* writes_armed_ns_ is set
    startIn,       \* time left for the first write
    writing,       \* publish() of the commands snapshot is under way
    fresh,         \* the snapshot holds a command the thread has not read
    boxAge,        \* age of the snapshot's command
    notified,      \* event_fd is readable
    notifyFailed,  \* notification_failed_
    tpc,           \* where the send thread is
    unread,        \* snapshot_failed
    active,        \* schedule.sequence # 0
    pending,       \* schedule.pending()
    pubAge,        \* age of schedule.published_ns
    sendIn,        \* time to schedule.earliestSend()
    resendIn,      \* time to schedule.resend_ns
    bootstrapIn,   \* time to bootstrap_due
    started,       \* first_send # 0
    kind,          \* row->send_kind of the batch
    sent,          \* its frames given to the bus
    reason,        \* stop_reason, then tx_stats_.fault
    wakeIn,        \* time to the timer
    got,           \* history: frames the schedule's command has been sent in
    zeroed         \* history: zero-gain frames of the stop

flagVars == <<running, stopAll, rxFault, feedbackOld, armed>>
boxVars == <<writing, fresh, boxAge, notified, notifyFailed>>
scheduleVars == <<active, pending, pubAge, sendIn, resendIn, bootstrapIn, started>>
batchVars == <<kind, sent, got, zeroed>>
vars == <<flagVars, startIn, boxVars, tpc, unread, scheduleVars, batchVars,
          reason, wakeIn>>

Half == Period \div 2
Least(S) == CHOOSE t \in S : \A u \in S : t <= u
Left(limit, age) == IF age < limit THEN limit - age ELSE 0

ZeroReasons == {"kCommandStale", "kCommandSnapshotUnavailable", "kStartupTimeout"}
Reasons == ZeroReasons \cup {"kNone", "kReceive", "kFeedbackStale", "kEncodeFailed",
                             "kSendFailed", "kNotificationFailed"}

Init ==
    /\ running = TRUE /\ stopAll = FALSE /\ rxFault = FALSE /\ feedbackOld = FALSE
    /\ armed = FALSE /\ startIn = FirstWrite
    /\ writing = FALSE /\ fresh = FALSE /\ boxAge = 0
    /\ notified = FALSE /\ notifyFailed = FALSE
    /\ tpc = "loop" /\ unread = FALSE
    /\ active = FALSE /\ pending = FALSE /\ pubAge = 0
    /\ sendIn = 0 /\ resendIn = 0 /\ bootstrapIn = 0 /\ started = FALSE
    /\ kind = "none" /\ sent = 0 /\ got = 0 /\ zeroed = 0
    /\ reason = "kNone" /\ wakeIn = 0

---------------------------------------------------------------------------
(* The other threads *)

Notify ==
    \/ notified' = TRUE /\ UNCHANGED notifyFailed
    \/ notifyFailed' = TRUE /\ UNCHANGED notified

ArmWrites ==
    /\ ~armed /\ armed' = TRUE
    /\ Notify
    /\ UNCHANGED <<running, stopAll, rxFault, feedbackOld, startIn, writing, fresh, boxAge,
                   tpc, unread, scheduleVars, batchVars, reason, wakeIn>>

\* publishCommandBatch(): the command's time is taken first.
PublishBegin ==
    /\ ~writing /\ armed /\ running /\ ~stopAll
    /\ writing' = TRUE /\ boxAge' = 0
    /\ UNCHANGED <<flagVars, startIn, fresh, notified, notifyFailed, tpc, unread,
                   scheduleVars, batchVars, reason, wakeIn>>

PublishEnd ==
    /\ writing
    /\ writing' = FALSE /\ fresh' = TRUE
    /\ Notify
    /\ UNCHANGED <<flagVars, startIn, boxAge, tpc, unread, scheduleVars,
                   batchVars, reason, wakeIn>>

RequestStop ==
    /\ running /\ running' = FALSE
    /\ Notify
    /\ UNCHANGED <<stopAll, rxFault, feedbackOld, armed, startIn, writing, fresh, boxAge,
                   tpc, unread, scheduleVars, batchVars, reason, wakeIn>>

\* fault() of another bus writes to this one's event_fd, or fails to.
StopAll ==
    /\ ~stopAll /\ stopAll' = TRUE
    /\ notified' \in {notified, TRUE}
    /\ UNCHANGED <<running, rxFault, feedbackOld, armed, startIn, writing, fresh, boxAge,
                   notifyFailed,
                   tpc, unread, scheduleVars, batchVars, reason, wakeIn>>

\* A reply that is too hot, or a forbidden one, notifies every time.
ReceiveFault ==
    /\ rxFault' = TRUE
    /\ Notify
    /\ UNCHANGED <<running, stopAll, feedbackOld, armed, startIn, writing, fresh, boxAge,
                   tpc, unread, scheduleVars, batchVars, reason, wakeIn>>

\* The reply of the motor that was waited for; nobody is notified.
ReceiveReply ==
    /\ feedbackOld /\ feedbackOld' = FALSE
    /\ UNCHANGED <<running, stopAll, rxFault, armed, startIn, boxVars, tpc, unread,
                   scheduleVars, batchVars, reason, wakeIn>>

---------------------------------------------------------------------------
(* The send thread *)

\* fault()
Fault(f) == tpc' = "done" /\ reason' = f /\ stopAll' = TRUE

Leave ==
    /\ tpc = "loop" /\ (~running \/ stopAll \/ notifyFailed)
    /\ IF running /\ ~stopAll
       THEN Fault("kNotificationFailed")
       ELSE tpc' = "done" /\ UNCHANGED <<reason, stopAll>>
    /\ UNCHANGED <<running, rxFault, feedbackOld, armed, startIn, boxVars, unread,
                   scheduleVars, batchVars, wakeIn>>

\* The snapshot is read when its version is new or the last read failed; a
\* new command goes to schedule.published().
Takes == fresh /\ ~writing
Unread == writing
Active == active \/ Takes
Pending == pending \/ Takes
PubAge == IF Takes THEN boxAge ELSE pubAge
ResendIn == IF Takes THEN Left(Period + Grace, boxAge) ELSE resendIn

Stale == Active /\ PubAge >= MaxAge
StartupExpired == ~Active /\ armed /\ startIn = 0

\* stop_reason: command expiry takes precedence, then what was received.
StopReason ==
    IF Stale THEN IF Unread THEN "kCommandSnapshotUnavailable" ELSE "kCommandStale"
    ELSE IF rxFault THEN "kReceive"
    ELSE IF StartupExpired THEN "kStartupTimeout"
    ELSE IF feedbackOld THEN "kFeedbackStale"
    ELSE "kNone"
ZeroStop == StopReason \in ZeroReasons

\* WriteSchedule
ResendDue == Active /\ ~Unread /\ ~Pending /\ ResendIn = 0
Due ==
    \/ ZeroStop
    \/ ~Active /\ bootstrapIn = 0
    \/ Active /\ ~Unread /\ (Pending \/ ResendDue)
Held == started /\ sendIn > 0

SendKind ==
    IF ZeroStop THEN "zero" ELSE IF ~Active THEN "bootstrap"
    ELSE IF ResendDue THEN "resend" ELSE "command"

\* Mutant: a command that is held waits for the resend.
DeadlineOfResend ==
    Least(IF Active
          THEN {Left(MaxAge, PubAge), IF Unread THEN 1 ELSE ResendIn}
          ELSE {bootstrapIn} \cup (IF Unread THEN {1} ELSE {})
                             \cup (IF armed THEN {startIn} ELSE {}))

\* The timer's deadline; retry_due is one tick away.
Deadline ==
    Least(IF Active
          THEN {Left(MaxAge, PubAge),
                IF Unread THEN 1 ELSE IF Pending \/ ResendDue THEN sendIn ELSE ResendIn}
          ELSE {bootstrapIn} \cup (IF Unread THEN {1} ELSE {})
                             \cup (IF armed THEN {startIn} ELSE {}))

\* One turn of the loop, up to the batch or the poll.
Turn ==
    /\ tpc = "loop" /\ running /\ ~stopAll /\ ~notifyFailed
    /\ unread' = Unread /\ fresh' = (fresh /\ writing)
    /\ active' = Active /\ pending' = Pending
    /\ pubAge' = PubAge /\ resendIn' = ResendIn
    /\ got' = IF Takes THEN 0 ELSE got
    /\ IF StopReason # "kNone" /\ ~ZeroStop
       THEN Fault(StopReason) /\ UNCHANGED <<kind, sent, wakeIn>>
       ELSE IF Due /\ (ZeroStop \/ ~Held)
       THEN /\ kind' = SendKind /\ sent' = 0
            /\ \/ tpc' = "send" /\ reason' = StopReason /\ UNCHANGED stopAll
               \/ Fault("kEncodeFailed")
            /\ UNCHANGED wakeIn
       ELSE /\ tpc' = "wait"
            /\ wakeIn' = IF Deadline = 0 THEN 1 ELSE Deadline
            /\ UNCHANGED <<reason, stopAll, kind, sent>>
    /\ UNCHANGED <<running, rxFault, feedbackOld, armed, startIn, writing, boxAge, notified,
                   notifyFailed, sendIn, bootstrapIn, started, zeroed>>

\* Mutant: a publication cancels the batch at any frame.
CancelledAnytime == active /\ kind # "zero" /\ (fresh \/ writing)

\* A publication cancels the batch before its first frame.
Cancelled == active /\ kind # "zero" /\ sent = 0 /\ (fresh \/ writing)

\* Mutant: a receive fault also ends the zero-gain batch.
CutsAnyKind == rxFault

\* A receive fault and the age end a batch of commands at any frame.
Cuts == kind # "zero" /\ (rxFault \/ (active /\ pubAge >= MaxAge))

CutShort ==
    /\ tpc = "send"
    /\ ~running \/ stopAll \/ Cancelled \/ Cuts
    /\ tpc' = "finish"
    /\ UNCHANGED <<flagVars, startIn, boxVars, unread, scheduleVars, batchVars,
                   reason, wakeIn>>

\* Mutant: a resend extends the life of the command.
AgeWhenResent == IF kind = "resend" THEN 0 ELSE pubAge

\* sent() leaves published_ns alone.
AgeWhenSent == pubAge

\* One frame; the first one stands for schedule.sent().
SendFrame ==
    /\ tpc = "send"
    /\ running /\ ~stopAll /\ ~Cancelled /\ ~Cuts
    /\ \/ Fault("kSendFailed") /\ UNCHANGED <<sent, got, zeroed, scheduleVars>>
       \/ /\ sent' = sent + 1
          /\ tpc' = IF sent' = Frames THEN "finish" ELSE "send"
          /\ got' = IF active /\ kind # "zero" /\ sent >= got THEN sent + 1 ELSE got
          /\ zeroed' = IF kind = "zero" THEN zeroed + 1 ELSE zeroed
          /\ started' = TRUE /\ pending' = FALSE
          /\ sendIn' = IF sent = 0 THEN Half ELSE sendIn
          /\ bootstrapIn' = IF sent = 0 THEN Period ELSE bootstrapIn
          /\ resendIn' = IF sent = 0 /\ kind = "resend" THEN Period ELSE resendIn
          /\ pubAge' = AgeWhenSent
          /\ UNCHANGED <<active, reason, stopAll>>
    /\ UNCHANGED <<running, rxFault, feedbackOld, armed, startIn, boxVars, unread,
                   kind, wakeIn>>

\* The end of the batch; a zero-gain batch ends the stream.
Finish ==
    /\ tpc = "finish"
    /\ IF kind # "zero" THEN tpc' = "loop" /\ UNCHANGED <<reason, stopAll>>
       ELSE IF running /\ ~stopAll THEN Fault(reason)
       ELSE tpc' = "done" /\ reason' = "kNone" /\ UNCHANGED stopAll
    /\ UNCHANGED <<running, rxFault, feedbackOld, armed, startIn, boxVars, unread,
                   scheduleVars, batchVars, wakeIn>>

\* poll() returns; the read of the event or of the timer may fail.
Wake ==
    /\ tpc = "wait" /\ (notified \/ wakeIn = 0)
    /\ tpc' = "loop" /\ notified' = FALSE
    /\ notifyFailed' \in {notifyFailed, TRUE}
    /\ UNCHANGED <<flagVars, startIn, writing, fresh, boxAge, unread, scheduleVars,
                   batchVars, reason, wakeIn>>

\* timerfd_settime() or poll() fails, or a signal interrupts poll().
PollFails ==
    /\ tpc = "wait"
    /\ \/ Fault("kNotificationFailed")
       \/ tpc' = "loop" /\ UNCHANGED <<reason, stopAll>>
    /\ UNCHANGED <<running, rxFault, feedbackOld, armed, startIn, boxVars, unread,
                   scheduleVars, batchVars, wakeIn>>

---------------------------------------------------------------------------

Older(age) == IF age < MaxAge THEN age + 1 ELSE age
Sooner(time) == IF time > 0 THEN time - 1 ELSE 0

\* Time passes.  feedback_due is one of the timer's deadlines.
Tick ==
    /\ tpc # "done"
    /\ boxAge' = Older(boxAge) /\ pubAge' = Older(pubAge)
    /\ sendIn' = Sooner(sendIn) /\ resendIn' = Sooner(resendIn)
    /\ bootstrapIn' = Sooner(bootstrapIn)
    /\ startIn' = IF armed THEN Sooner(startIn) ELSE startIn
    /\ \/ wakeIn' = Sooner(wakeIn) /\ UNCHANGED feedbackOld
       \/ started /\ feedbackOld' = TRUE /\ wakeIn' = 0
    /\ UNCHANGED <<running, stopAll, rxFault, armed, writing, fresh, notified, notifyFailed,
                   tpc, unread, active, pending, started, batchVars, reason>>

Done == tpc = "done" /\ UNCHANGED vars

Send == Leave \/ Turn \/ CutShort \/ SendFrame \/ Finish \/ Wake

Next ==
    \/ ArmWrites \/ PublishBegin \/ PublishEnd \/ RequestStop \/ StopAll
    \/ ReceiveFault \/ ReceiveReply
    \/ Leave \/ Turn \/ CutShort \/ SendFrame \/ Finish \/ Wake
    \/ PollFails
    \/ Tick \/ Done

Spec == Init /\ [][Next]_vars

\* The thread is scheduled, and the clock runs; no signal need ever wake it.
FairSpec == Spec /\ WF_vars(Send) /\ WF_vars(Tick)

---------------------------------------------------------------------------
(* Properties *)

FlagsOK ==
    /\ running \in BOOLEAN /\ stopAll \in BOOLEAN /\ rxFault \in BOOLEAN
    /\ feedbackOld \in BOOLEAN /\ armed \in BOOLEAN
    /\ writing \in BOOLEAN /\ fresh \in BOOLEAN
    /\ notified \in BOOLEAN /\ notifyFailed \in BOOLEAN /\ unread \in BOOLEAN
    /\ active \in BOOLEAN /\ pending \in BOOLEAN /\ started \in BOOLEAN

TimesOK ==
    /\ startIn \in 0 .. FirstWrite /\ boxAge \in 0 .. MaxAge /\ pubAge \in 0 .. MaxAge
    /\ sendIn \in 0 .. Half /\ bootstrapIn \in 0 .. Period
    /\ resendIn \in 0 .. Period + Grace /\ wakeIn \in 0 .. MaxAge

BatchOK ==
    /\ tpc \in {"loop", "send", "finish", "wait", "done"}
    /\ kind \in {"none", "bootstrap", "command", "resend", "zero"}
    /\ sent \in 0 .. Frames /\ got \in 0 .. Frames /\ zeroed \in 0 .. Frames
    /\ reason \in Reasons

\* Every variable has its type; the thread never sleeps longer than a command
\* lives.
TypeOK == FlagsOK /\ TimesOK /\ BatchOK

\* schedule.sent() marks the whole sequence after any frame.  A motor that
\* missed a command this way never waits for a resend: the stream is about to
\* end, or to take a newer command because this one has expired.
CutShortIsRecovered ==
    tpc \in {"loop", "wait"} /\ active /\ ~pending =>
        got = Frames \/ pubAge >= MaxAge \/ rxFault \/ ~running \/ stopAll

\* The thread never sleeps on work: while neither the event nor the timer is
\* due there is no command to read, none that may be sent, no resend that is
\* due, and no command or first write that has expired.
NeverSleepsOnWork ==
    tpc = "wait" /\ ~notified /\ ~notifyFailed /\ wakeIn > 0 =>
        /\ ~Takes
        /\ pending => unread \/ sendIn > 0
        /\ active /\ ~unread /\ ~pending /\ resendIn = 0 => sendIn > 0
        /\ active => pubAge < MaxAge
        /\ ~active /\ armed => startIn > 0

\* A stream that ends for an old command, an unreadable one or a missing first
\* one has sent every motor its zero-gain frame.
ZeroStopIsComplete == tpc = "done" /\ reason \in ZeroReasons => zeroed = Frames

\* Once writes are armed the stream ends unless commands keep coming: no
\* resend keeps an old command alive.
SilenceEndsStream == armed ~> (writing \/ fresh \/ tpc = "done")
===========================================================================
