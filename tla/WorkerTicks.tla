----------------------------- MODULE WorkerTicks -----------------------------
(***************************************************************************)
(* The background ticks: services/worker, which posts the names of tasks   *)
(* to the API from pg-boss jobs, and the part of services/api/src/index.ts *)
(* that runs them, for a worker's request or for its own intervals.        *)
(*                                                                         *)
(* Two tasks of the minute lane stand for the ten: follow-ups, which has   *)
(* an overlap lock, and appt-confirm, which has none.  One follow-up may   *)
(* be due, one appointment may be waiting for its reminder.                *)
(***************************************************************************)
EXTENDS Naturals, Sequences

CONSTANTS
  Execs,         \* bound on the executions under way in the API
  WorkerDriven,  \* WORKER_DRIVEN_TICKS
  RetryLimit,    \* WORKER_RETRY_LIMIT
  MaxSends       \* bound on the reminders counted

ASSUME TickAssumption ==
  /\ "none" \notin Execs
  /\ WorkerDriven \in BOOLEAN
  /\ RetryLimit \in Nat
  /\ MaxSends \in Nat

VARIABLES
  apiUp,
  followUpsRunning,  \* the lock of processDueFollowUps
  intervalDue,       \* tasks that runBackgroundTask is about to start
  exec,              \* what each execution still has to run, and its step
  job,               \* the pg-boss job: "none", "waiting", "active"
  tries,             \* its failed attempts
  awaiting,          \* the execution the worker waits for
  due,               \* a follow-up is due
  inWindow,          \* the appointment is 23 to 24 hours away
  asked,             \* confirmation.sentAt is set
  sends,             \* reminders the customer was sent
  overlapped,        \* two runs of appt-confirm waited for Twilio at once
  excused            \* a mark was lost: by a crash, or with Twilio's answer

apiVars == <<apiUp, followUpsRunning, intervalDue, exec>>
jobVars == <<job, tries, awaiting>>
reminderVars == <<asked, sends, overlapped, excused>>
vars == <<apiVars, jobVars, due, inWindow, reminderVars>>

None == "none"
Lane == <<"follow-ups", "appt-confirm">>
Tasks == {"follow-ups", "appt-confirm"}
Todos == {<<>>, Lane} \cup {<<t>> : t \in Tasks}

Executions == [from : {None, "interval", "worker"}, todo : Todos,
               step : {"start", "sweep", "send"},
               sees : BOOLEAN, failed : BOOLEAN]
Idle == [from |-> None, todo |-> <<>>, step |-> "start",
         sees |-> FALSE, failed |-> FALSE]

TypeOK ==
  /\ apiUp \in BOOLEAN
  /\ followUpsRunning \in BOOLEAN
  /\ intervalDue \subseteq Tasks
  /\ exec \in [Execs -> Executions]
  /\ job \in {"none", "waiting", "active"}
  /\ tries \in 0..RetryLimit
  /\ awaiting \in Execs \cup {None}
  /\ due \in BOOLEAN
  /\ inWindow \in BOOLEAN
  /\ asked \in BOOLEAN
  /\ sends \in 0..MaxSends
  /\ overlapped \in BOOLEAN /\ excused \in BOOLEAN

Init ==
  /\ apiUp = TRUE
  /\ followUpsRunning = FALSE
  /\ intervalDue = {}
  /\ exec = [x \in Execs |-> Idle]
  /\ job = "none" /\ tries = 0 /\ awaiting = None
  /\ due = FALSE
  /\ inWindow = TRUE
  /\ asked = FALSE /\ sends = 0
  /\ overlapped = FALSE /\ excused = FALSE

-----------------------------------------------------------------------------
(* setInterval: every task of the minute lane, side by side. *)
IntervalTick ==
  /\ apiUp /\ ~WorkerDriven
  /\ intervalDue' = Tasks
  /\ UNCHANGED <<apiUp, followUpsRunning, exec, jobVars, due, inWindow,
                 reminderVars>>

(* The bound on the executions leaves the worker a slot: the API always     *)
(* takes its request.                                                      *)
RunBackgroundTask(t, x) ==
  /\ t \in intervalDue
  /\ exec[x] = Idle
  /\ \E y \in Execs \ {x} : exec[y] = Idle
  /\ intervalDue' = intervalDue \ {t}
  /\ exec' = [exec EXCEPT ![x] = [Idle EXCEPT !.from = "interval", !.todo = <<t>>]]
  /\ UNCHANGED <<apiUp, followUpsRunning, jobVars, due, inWindow, reminderVars>>

(* The handler of /internal/worker/tick goes on with its next task whether *)
(* this one threw or not; a task of an interval is on its own.             *)
AfterTask(e, ok) ==
  IF e.from = "interval"
    THEN Idle
    ELSE [e EXCEPT !.todo = Tail(@), !.step = "start", !.sees = FALSE,
                   !.failed = @ \/ ~ok]

At(x, task, step) ==
  /\ exec[x].todo # <<>>
  /\ Head(exec[x].todo) = task
  /\ exec[x].step = step

-----------------------------------------------------------------------------
(* processDueFollowUps *)
SkipOverlappingSweep(x) ==
  /\ At(x, "follow-ups", "start")
  /\ followUpsRunning
  /\ exec' = [exec EXCEPT ![x] = AfterTask(@, TRUE)]
  /\ UNCHANGED <<apiUp, followUpsRunning, intervalDue, jobVars, due, inWindow,
                 reminderVars>>

(* Mutant: the lock is read, and taken only after the first await. *)
Mut_SweepStarts(x) ==
  /\ At(x, "follow-ups", "start")
  /\ followUpsRunning' = TRUE
  /\ exec' = [exec EXCEPT ![x] = [@ EXCEPT !.step = "sweep", !.sees = due]]
  /\ UNCHANGED <<apiUp, intervalDue, jobVars, due, inWindow, reminderVars>>

SweepStarts(x) ==
  /\ At(x, "follow-ups", "start")
  /\ ~followUpsRunning
  /\ followUpsRunning' = TRUE
  /\ exec' = [exec EXCEPT ![x] = [@ EXCEPT !.step = "sweep", !.sees = due]]
  /\ UNCHANGED <<apiUp, intervalDue, jobVars, due, inWindow, reminderVars>>

(* Mutant: without the finally, a sweep that throws keeps the lock. *)
Mut_Released(ok) == IF ok THEN FALSE ELSE TRUE

Released(ok) == FALSE

(* A sweep that does not throw handles what was due when it began. *)
SweepEnds(x, ok) ==
  /\ At(x, "follow-ups", "sweep")
  /\ followUpsRunning' = Released(ok)
  /\ due' = (due /\ ~(ok /\ exec[x].sees))
  /\ exec' = [exec EXCEPT ![x] = AfterTask(@, ok)]
  /\ UNCHANGED <<apiUp, intervalDue, jobVars, inWindow, reminderVars>>

-----------------------------------------------------------------------------
(* processAppointmentConfirmations: is the reminder to be sent? *)
ReminderIsDue == inWindow /\ ~asked

NothingToConfirm(x) ==
  /\ At(x, "appt-confirm", "start")
  /\ ~ReminderIsDue
  /\ exec' = [exec EXCEPT ![x] = AfterTask(@, TRUE)]
  /\ UNCHANGED <<apiUp, followUpsRunning, intervalDue, jobVars, due, inWindow,
                 reminderVars>>

(* A draft in suggest mode, a message that stays undelivered without       *)
(* Twilio's credentials: marked in the same turn of the loop.              *)
ConfirmByDraft(x) ==
  /\ At(x, "appt-confirm", "start")
  /\ ReminderIsDue
  /\ asked' = TRUE
  /\ exec' = [exec EXCEPT ![x] = AfterTask(@, TRUE)]
  /\ UNCHANGED <<apiUp, followUpsRunning, intervalDue, jobVars, due, inWindow,
                 sends, overlapped, excused>>

(* The call of Twilio is awaited, and nothing is marked before its answer. *)
ConfirmBySms(x) ==
  /\ At(x, "appt-confirm", "start")
  /\ ReminderIsDue
  /\ exec' = [exec EXCEPT ![x].step = "send"]
  /\ overlapped' = (overlapped \/ \E y \in Execs \ {x} : At(y, "appt-confirm", "send"))
  /\ UNCHANGED <<apiUp, followUpsRunning, intervalDue, jobVars, due, inWindow,
                 asked, sends, excused>>

(* Mutant: the reminder goes out and is not marked. *)
Mut_MarkedAfter(answered) == asked

MarkedAfter(answered) == asked \/ answered

(* Twilio answers, or the call fails before or after the message went out. *)
SmsReturns(x, gone, answered) ==
  /\ At(x, "appt-confirm", "send")
  /\ answered => gone
  /\ IF gone THEN sends < MaxSends /\ sends' = sends + 1 ELSE UNCHANGED sends
  /\ asked' = MarkedAfter(answered)
  /\ excused' = (excused \/ (gone /\ ~answered))
  /\ exec' = [exec EXCEPT ![x] = AfterTask(@, TRUE)]
  /\ UNCHANGED <<apiUp, followUpsRunning, intervalDue, jobVars, due, inWindow,
                 overlapped>>

-----------------------------------------------------------------------------
(* pg-boss *)
CronFires ==
  /\ job = "none"
  /\ job' = "waiting" /\ tries' = 0
  /\ UNCHANGED <<apiVars, awaiting, due, inWindow, reminderVars>>

JobFails ==
  /\ awaiting' = None
  /\ IF tries < RetryLimit
       THEN job' = "waiting" /\ tries' = tries + 1
       ELSE job' = "none" /\ tries' = 0

(* dispatchTick *)
Dispatch(x) ==
  /\ job = "waiting"
  /\ awaiting = None
  /\ apiUp
  /\ exec[x] = Idle
  /\ exec' = [exec EXCEPT ![x] = [Idle EXCEPT !.from = "worker", !.todo = Lane]]
  /\ job' = "active"
  /\ awaiting' = x
  /\ UNCHANGED <<apiUp, followUpsRunning, intervalDue, tries, due, inWindow,
                 reminderVars>>

DispatchFails ==
  /\ job = "waiting"
  /\ ~apiUp
  /\ JobFails
  /\ UNCHANGED <<apiVars, due, inWindow, reminderVars>>

(* The API answers: 500 if a task threw, to nobody if the worker gave up.  *)
Respond(x) ==
  /\ exec[x].from = "worker"
  /\ exec[x].todo = <<>>
  /\ exec' = [exec EXCEPT ![x] = Idle]
  /\ IF awaiting # x
       THEN UNCHANGED jobVars
       ELSE IF exec[x].failed
              THEN JobFails
              ELSE job' = "none" /\ tries' = 0 /\ awaiting' = None
  /\ UNCHANGED <<apiUp, followUpsRunning, intervalDue, due, inWindow,
                 reminderVars>>

(* requestTimeoutMs: the worker gives up, the API goes on. *)
Abort ==
  /\ awaiting # None
  /\ JobFails
  /\ UNCHANGED <<apiVars, due, inWindow, reminderVars>>

(* The worker dies: its job stays active until it expires. *)
WorkerDies ==
  /\ awaiting # None
  /\ awaiting' = None
  /\ UNCHANGED <<apiVars, job, tries, due, inWindow, reminderVars>>

JobExpires ==
  /\ job = "active"
  /\ awaiting = None
  /\ JobFails
  /\ UNCHANGED <<apiVars, due, inWindow, reminderVars>>

-----------------------------------------------------------------------------
(* A mark that the conversation store has not saved yet is lost. *)
ApiDies ==
  /\ apiUp
  /\ apiUp' = FALSE
  /\ followUpsRunning' = FALSE
  /\ intervalDue' = {}
  /\ exec' = [x \in Execs |-> Idle]
  /\ asked' \in {asked, FALSE}
  /\ excused' = (excused \/ asked' # asked \/ \E x \in Execs : At(x, "appt-confirm", "send"))
  /\ IF awaiting = None THEN UNCHANGED jobVars ELSE JobFails
  /\ UNCHANGED <<due, inWindow, sends, overlapped>>

ApiStarts ==
  /\ ~apiUp
  /\ apiUp' = TRUE
  /\ UNCHANGED <<followUpsRunning, intervalDue, exec, jobVars, due, inWindow,
                 reminderVars>>

FollowUpFallsDue ==
  /\ ~due
  /\ due' = TRUE
  /\ UNCHANGED <<apiVars, jobVars, inWindow, reminderVars>>

TimePasses ==
  /\ inWindow
  /\ inWindow' = FALSE
  /\ UNCHANGED <<apiVars, jobVars, due, reminderVars>>

Confirms(x) ==
  \/ NothingToConfirm(x) \/ ConfirmByDraft(x) \/ ConfirmBySms(x)
  \/ \E gone, answered \in BOOLEAN : SmsReturns(x, gone, answered)

(* The next step of an execution of the API. *)
Progress(x) ==
  \/ SkipOverlappingSweep(x) \/ SweepStarts(x)
  \/ \E ok \in BOOLEAN : SweepEnds(x, ok)
  \/ Confirms(x) \/ Respond(x)

Next ==
  \/ IntervalTick
  \/ \E t \in Tasks, x \in Execs : RunBackgroundTask(t, x)
  \/ \E x \in Execs : Progress(x) \/ Dispatch(x)
  \/ CronFires \/ DispatchFails \/ Abort \/ WorkerDies \/ JobExpires
  \/ ApiDies \/ ApiStarts
  \/ FollowUpFallsDue \/ TimePasses

Spec == Init /\ [][Next]_vars

(* The worker's cron fires, calls return, pm2 starts a dead process again, *)
(* and a sweep does not throw for ever.  The API's intervals are owed      *)
(* nothing.                                                                *)
Fairness ==
  /\ WF_vars(CronFires)
  /\ WF_vars(JobExpires)
  /\ WF_vars(ApiStarts)
  /\ WF_vars(\E x \in Execs : Dispatch(x))
  /\ \A x \in Execs : WF_vars(Progress(x))
  /\ SF_vars(\E x \in Execs : SweepEnds(x, TRUE))

FairSpec == Spec /\ Fairness

-----------------------------------------------------------------------------
Sweeping(x) == At(x, "follow-ups", "sweep")

(* "double ticking is prevented by the API's overlap locks": two sweeps of *)
(* the follow-ups never run side by side, whichever of intervals, worker,  *)
(* retry after a timeout or request the worker gave up on started them.    *)
FollowUpsAlone ==
  \A x, y \in Execs : Sweeping(x) /\ Sweeping(y) => x = y

(* The lock does not outlive its sweep: while it is set, one is running.   *)
LockHasOwner == followUpsRunning => \E x \in Execs : Sweeping(x)

(* A second reminder for one appointment takes two runs of the task that   *)
(* wait for Twilio at once, a call that failed after the message went out, *)
(* or a crash.                                                             *)
SecondReminderHasReason ==
  sends > 1 => overlapped \/ excused

(* "an API restart or crash never threatens due follow-ups": once the      *)
(* crashes end, what falls due is swept, through timeouts, retries,        *)
(* skipped runs and failed ones.                                           *)
DueIsSwept == <>[]apiUp => (due ~> ~due)
============================================================================
