-------------------------- MODULE WorkerTicksProofs --------------------------
(***************************************************************************)
(* Theorems about WorkerTicks: the types, and that the overlap lock of the *)
(* follow-up sweep excludes a second sweep and never outlives its own, and *)
(* what a second reminder takes where there is no such lock.               *)
(***************************************************************************)
EXTENDS WorkerTicks, SequenceTheorems, TLAPS

(* Only the first task of a list can be swept. *)
IsSweep(e) == e.todo # <<>> /\ Head(e.todo) = "follow-ups" /\ e.step = "sweep"

(* The lock is set exactly while a sweep is under way, and there is never  *)
(* more than one.                                                          *)
LockIsSweep ==
  /\ followUpsRunning <=> \E x \in Execs : IsSweep(exec[x])
  /\ \A x, y \in Execs : IsSweep(exec[x]) /\ IsSweep(exec[y]) => x = y

IsSend(e) == e.todo # <<>> /\ Head(e.todo) = "appt-confirm" /\ e.step = "send"

Reason == overlapped \/ excused

(* How a second reminder comes about: a run waits for Twilio after one     *)
(* went out, because it waited beside the first or the mark was lost.      *)
SendsExplained ==
  /\ sends > 0 => asked \/ excused
  /\ sends > 0 /\ (\E x \in Execs : IsSend(exec[x])) => Reason
  /\ \A x, y \in Execs : IsSend(exec[x]) /\ IsSend(exec[y]) => x = y \/ Reason
  /\ sends > 1 => Reason

IndInv == TypeOK /\ LockIsSweep /\ SendsExplained

-----------------------------------------------------------------------------
(* What remains of a list of tasks is a list of tasks. *)
LEMMA TailOfTodo ==
  ASSUME NEW s \in Todos, s # <<>>
  PROVE  Tail(s) \in Todos
  <1>1. CASE s = Lane
    <2>1. Tail(s) = <<"appt-confirm">>  BY <1>1 DEF Lane
    <2> QED  BY <2>1 DEF Todos, Tasks
  <1>2. CASE \E t \in Tasks : s = <<t>>
    <2>1. PICK t \in Tasks : s = <<t>>  BY <1>2
    <2>2. Tail(s) = <<>>  BY <2>1
    <2> QED  BY <2>2 DEF Todos
  <1> QED  BY <1>1, <1>2 DEF Todos

(* After a task an execution is at the start of the next one. *)
LEMMA AfterTaskType ==
  ASSUME NEW e \in Executions, e.todo # <<>>, NEW ok \in BOOLEAN
  PROVE  AfterTask(e, ok) \in Executions /\ AfterTask(e, ok).step = "start"
  <1>1. Tail(e.todo) \in Todos  BY TailOfTodo DEF Executions
  <1> QED  BY <1>1 DEF AfterTask, Executions, Idle, Todos, None

LEMMA IdleType == Idle \in Executions /\ Idle.step = "start"
  BY DEF Idle, Executions, Todos, None

(* A failed job waits again or is dropped, within its retries. *)
LEMMA JobFailsType ==
  ASSUME TypeOK, JobFails
  PROVE  /\ job' \in {"none", "waiting", "active"}
         /\ tries' \in 0..RetryLimit
         /\ awaiting' \in Execs \cup {None}
  BY TickAssumption DEF TypeOK, JobFails

-----------------------------------------------------------------------------
LEMMA InitTyped == Init => TypeOK
  <1> SUFFICES ASSUME Init PROVE TypeOK  OBVIOUS
  <1>1. 0 \in 0..RetryLimit /\ 0 \in 0..MaxSends  BY TickAssumption
  <1>2. exec \in [Execs -> Executions]  BY IdleType DEF Init
  <1> QED  BY <1>1, <1>2 DEF Init, TypeOK

LEMMA StepTyped == TypeOK /\ [Next]_vars => TypeOK'
  <1> SUFFICES ASSUME TypeOK, [Next]_vars PROVE TypeOK'  OBVIOUS
  <1> USE TickAssumption
  <1>1. CASE IntervalTick
    BY <1>1 DEF IntervalTick, TypeOK, jobVars, reminderVars
  <1>2. ASSUME NEW t \in Tasks, NEW x \in Execs, RunBackgroundTask(t, x)
        PROVE  TypeOK'
    <2>1. [Idle EXCEPT !.from = "interval", !.todo = <<t>>] \in Executions
      BY DEF Idle, Executions, Todos, None
    <2> QED
      BY <1>2, <2>1 DEF RunBackgroundTask, TypeOK, jobVars, reminderVars
  <1>3. ASSUME NEW x \in Execs, SkipOverlappingSweep(x) PROVE TypeOK'
    <2>1. AfterTask(exec[x], TRUE) \in Executions
      BY <1>3, AfterTaskType DEF SkipOverlappingSweep, At, TypeOK
    <2> QED
      BY <1>3, <2>1 DEF SkipOverlappingSweep, TypeOK, jobVars, reminderVars
  <1>4. ASSUME NEW x \in Execs, SweepStarts(x) PROVE TypeOK'
    <2>1. exec' \in [Execs -> Executions]
      BY <1>4 DEF SweepStarts, TypeOK, Executions
    <2> QED
      BY <1>4, <2>1 DEF SweepStarts, TypeOK, jobVars, reminderVars
  <1>5. ASSUME NEW x \in Execs, NEW ok \in BOOLEAN, SweepEnds(x, ok)
        PROVE  TypeOK'
    <2>1. AfterTask(exec[x], ok) \in Executions
      BY <1>5, AfterTaskType DEF SweepEnds, At, TypeOK
    <2>2. exec[x].sees \in BOOLEAN  BY DEF TypeOK, Executions
    <2>3. due' \in BOOLEAN  BY <1>5 DEF SweepEnds
    <2>4. exec' \in [Execs -> Executions]
      BY <1>5, <2>1 DEF SweepEnds, TypeOK
    <2> QED
      BY <1>5, <2>3, <2>4 DEF SweepEnds, Released, TypeOK, jobVars, reminderVars
  <1>6. ASSUME NEW x \in Execs, NothingToConfirm(x) PROVE TypeOK'
    <2>1. AfterTask(exec[x], TRUE) \in Executions
      BY <1>6, AfterTaskType DEF NothingToConfirm, At, TypeOK
    <2> QED
      BY <1>6, <2>1 DEF NothingToConfirm, TypeOK, jobVars, reminderVars
  <1>7. ASSUME NEW x \in Execs, ConfirmByDraft(x) PROVE TypeOK'
    <2>1. AfterTask(exec[x], TRUE) \in Executions
      BY <1>7, AfterTaskType DEF ConfirmByDraft, At, TypeOK
    <2> QED
      BY <1>7, <2>1 DEF ConfirmByDraft, TypeOK, jobVars
  <1>8. ASSUME NEW x \in Execs, ConfirmBySms(x) PROVE TypeOK'
    <2>1. exec' \in [Execs -> Executions]
      BY <1>8 DEF ConfirmBySms, TypeOK, Executions
    <2>2. overlapped' \in BOOLEAN
      BY <1>8 DEF ConfirmBySms
    <2> QED
      BY <1>8, <2>1, <2>2 DEF ConfirmBySms, TypeOK, jobVars
  <1>9. ASSUME NEW x \in Execs, NEW gone \in BOOLEAN, NEW answered \in BOOLEAN,
               SmsReturns(x, gone, answered)
        PROVE  TypeOK'
    <2>1. AfterTask(exec[x], TRUE) \in Executions
      BY <1>9, AfterTaskType DEF SmsReturns, At, TypeOK
    <2>2. exec' \in [Execs -> Executions]
      BY <1>9, <2>1 DEF SmsReturns, TypeOK
    <2>3. sends' \in 0..MaxSends  BY <1>9 DEF SmsReturns, TypeOK
    <2>4. asked' \in BOOLEAN /\ excused' \in BOOLEAN
      BY <1>9 DEF SmsReturns, MarkedAfter, TypeOK
    <2> QED
      BY <1>9, <2>2, <2>3, <2>4 DEF SmsReturns, TypeOK, jobVars
  <1>10. ASSUME NEW x \in Execs, Respond(x) PROVE TypeOK'
    <2>1. exec' \in [Execs -> Executions]
      BY <1>10, IdleType DEF Respond, TypeOK
    <2>2. /\ job' \in {"none", "waiting", "active"}
          /\ tries' \in 0..RetryLimit
          /\ awaiting' \in Execs \cup {None}
      BY <1>10, JobFailsType DEF Respond, TypeOK, jobVars
    <2> QED
      BY <1>10, <2>1, <2>2 DEF Respond, TypeOK, reminderVars
  <1>11. ASSUME NEW x \in Execs, Dispatch(x) PROVE TypeOK'
    <2>1. [Idle EXCEPT !.from = "worker", !.todo = Lane] \in Executions
      BY DEF Idle, Executions, Todos, None
    <2> QED
      BY <1>11, <2>1 DEF Dispatch, TypeOK, reminderVars
  <1>12. CASE CronFires
    BY <1>12 DEF CronFires, TypeOK, apiVars, reminderVars
  <1>13. CASE DispatchFails \/ Abort \/ JobExpires
    BY <1>13, JobFailsType
    DEF DispatchFails, Abort, JobExpires, TypeOK, apiVars, reminderVars
  <1>14. CASE WorkerDies
    BY <1>14 DEF WorkerDies, TypeOK, apiVars, reminderVars
  <1>15. CASE ApiDies
    <2>1. /\ job' \in {"none", "waiting", "active"}
          /\ tries' \in 0..RetryLimit
          /\ awaiting' \in Execs \cup {None}
      BY <1>15, JobFailsType DEF ApiDies, TypeOK, jobVars
    <2>2. asked' \in BOOLEAN /\ excused' \in BOOLEAN
      BY <1>15 DEF ApiDies, TypeOK
    <2> QED
      BY <1>15, <2>1, <2>2, IdleType DEF ApiDies, TypeOK
  <1>16. CASE ApiStarts
    BY <1>16 DEF ApiStarts, TypeOK, jobVars, reminderVars
  <1>17. CASE FollowUpFallsDue \/ TimePasses
    BY <1>17
    DEF FollowUpFallsDue, TimePasses, TypeOK, apiVars, jobVars, reminderVars
  <1>18. CASE UNCHANGED vars
    BY <1>18 DEF TypeOK, vars, apiVars, jobVars, reminderVars
  <1> QED
    BY <1>1, <1>2, <1>3, <1>4, <1>5, <1>6, <1>7, <1>8, <1>9, <1>10, <1>11,
       <1>12, <1>13, <1>14, <1>15, <1>16, <1>17, <1>18
    DEF Next, Progress, Confirms

(* The types: every variable keeps its type, whatever the number of        *)
(* executions, retries and reminders.                                      *)
THEOREM TypeCorrect == Spec => []TypeOK
  BY InitTyped, StepTyped, PTL DEF Spec

-----------------------------------------------------------------------------
(* An execution that goes from one state without a sweep to another leaves *)
(* the lock and the sweeps as they were.                                   *)
LEMMA SweepsUnchanged ==
  ASSUME TypeOK, LockIsSweep, NEW x \in Execs, NEW e,
         ~IsSweep(exec[x]), e.step # "sweep",
         exec' = [exec EXCEPT ![x] = e],
         UNCHANGED followUpsRunning
  PROVE  LockIsSweep'
  <1>1. \A y \in Execs : IsSweep(exec'[y]) <=> IsSweep(exec[y])
    BY DEF IsSweep, TypeOK
  <1> QED  BY <1>1 DEF LockIsSweep

LEMMA InitLocked == Init => LockIsSweep
  BY IdleType DEF Init, LockIsSweep, IsSweep

LEMMA StepLocked == TypeOK /\ LockIsSweep /\ [Next]_vars => LockIsSweep'
  <1> SUFFICES ASSUME TypeOK, LockIsSweep, [Next]_vars PROVE LockIsSweep'
    OBVIOUS
  <1> DEFINE Quiet == UNCHANGED <<followUpsRunning, exec>>
  <1>1. ASSUME Quiet PROVE LockIsSweep'
    BY <1>1 DEF LockIsSweep
  <1>2. ASSUME NEW t \in Tasks, NEW x \in Execs, RunBackgroundTask(t, x)
        PROVE  LockIsSweep'
    <2>1. ~IsSweep(exec[x])  BY <1>2, IdleType DEF RunBackgroundTask, IsSweep
    <2>2. [Idle EXCEPT !.from = "interval", !.todo = <<t>>].step # "sweep"
      BY DEF Idle
    <2> QED  BY <1>2, <2>1, <2>2, SweepsUnchanged DEF RunBackgroundTask
  <1>3. ASSUME NEW x \in Execs, SkipOverlappingSweep(x) PROVE LockIsSweep'
    <2>1. AfterTask(exec[x], TRUE).step = "start"
      BY <1>3, AfterTaskType DEF SkipOverlappingSweep, At, TypeOK
    <2> QED
      BY <1>3, <2>1, SweepsUnchanged DEF SkipOverlappingSweep, At, IsSweep
  <1>4. ASSUME NEW x \in Execs, SweepStarts(x) PROVE LockIsSweep'
    <2>1. \A y \in Execs : ~IsSweep(exec[y])
      BY <1>4 DEF SweepStarts, LockIsSweep
    <2>2. \A y \in Execs : IsSweep(exec'[y]) <=> y = x
      BY <1>4, <2>1 DEF SweepStarts, At, IsSweep, TypeOK, Executions
    <2> QED  BY <1>4, <2>2 DEF SweepStarts, LockIsSweep
  <1>5. ASSUME NEW x \in Execs, NEW ok \in BOOLEAN, SweepEnds(x, ok)
        PROVE  LockIsSweep'
    <2>1. AfterTask(exec[x], ok).step = "start"
      BY <1>5, AfterTaskType DEF SweepEnds, At, TypeOK
    <2>2. \A y \in Execs : IsSweep(exec[y]) => y = x
      BY <1>5 DEF SweepEnds, At, IsSweep, LockIsSweep
    <2>3. \A y \in Execs : ~IsSweep(exec'[y])
      BY <1>5, <2>1, <2>2 DEF SweepEnds, IsSweep, TypeOK
    <2> QED  BY <1>5, <2>3 DEF SweepEnds, Released, LockIsSweep
  <1>6. ASSUME NEW x \in Execs, Confirms(x) PROVE LockIsSweep'
    <2>1. exec[x] \in Executions  BY DEF TypeOK
    <2>2. CASE NothingToConfirm(x)
      <3>1. AfterTask(exec[x], TRUE).step = "start"
        BY <2>1, <2>2, AfterTaskType DEF NothingToConfirm, At
      <3> QED
        BY <2>2, <3>1, SweepsUnchanged DEF NothingToConfirm, At, IsSweep
    <2>3. CASE ConfirmByDraft(x)
      <3>1. AfterTask(exec[x], TRUE).step = "start"
        BY <2>1, <2>3, AfterTaskType DEF ConfirmByDraft, At
      <3> QED
        BY <2>3, <3>1, SweepsUnchanged DEF ConfirmByDraft, At, IsSweep
    <2>4. CASE ConfirmBySms(x)
      <3>1. /\ ~IsSweep(exec[x])
            /\ [exec[x] EXCEPT !.step = "send"].step # "sweep"
        BY <2>1, <2>4 DEF ConfirmBySms, At, IsSweep, Executions
      <3>2. exec' = [exec EXCEPT ![x] = [exec[x] EXCEPT !.step = "send"]]
        BY <2>4 DEF ConfirmBySms, TypeOK
      <3> QED
        BY <2>4, <3>1, <3>2, SweepsUnchanged DEF ConfirmBySms
    <2>5. ASSUME NEW gone \in BOOLEAN, NEW answered \in BOOLEAN,
                 SmsReturns(x, gone, answered)
          PROVE  LockIsSweep'
      <3>1. AfterTask(exec[x], TRUE).step = "start"
        BY <2>1, <2>5, AfterTaskType DEF SmsReturns, At
      <3> QED
        BY <2>5, <3>1, SweepsUnchanged DEF SmsReturns, At, IsSweep
    <2> QED  BY <1>6, <2>2, <2>3, <2>4, <2>5 DEF Confirms
  <1>7. ASSUME NEW x \in Execs, Respond(x) PROVE LockIsSweep'
    BY <1>7, IdleType, SweepsUnchanged DEF Respond, IsSweep
  <1>8. ASSUME NEW x \in Execs, Dispatch(x) PROVE LockIsSweep'
    <2>1. ~IsSweep(exec[x])  BY <1>8, IdleType DEF Dispatch, IsSweep
    <2>2. [Idle EXCEPT !.from = "worker", !.todo = Lane].step # "sweep"
      BY DEF Idle
    <2> QED  BY <1>8, <2>1, <2>2, SweepsUnchanged DEF Dispatch
  <1>9. CASE ApiDies
    BY <1>9, IdleType DEF ApiDies, LockIsSweep, IsSweep
  <1>10. CASE \/ IntervalTick \/ CronFires \/ DispatchFails \/ Abort
              \/ WorkerDies \/ JobExpires \/ ApiStarts \/ FollowUpFallsDue
              \/ TimePasses \/ UNCHANGED vars
    <2>1. Quiet
      BY <1>10
      DEF IntervalTick, CronFires, DispatchFails, Abort, WorkerDies,
          JobExpires, ApiStarts, FollowUpFallsDue, TimePasses, vars, apiVars
    <2> QED  BY <1>1, <2>1
  <1> QED
    BY <1>2, <1>3, <1>4, <1>5, <1>6, <1>7, <1>8, <1>9, <1>10
    DEF Next, Progress

-----------------------------------------------------------------------------
(* As long as nobody starts to wait for Twilio and no mark is lost without *)
(* an excuse, a step that sends nothing keeps the explanation.             *)
LEMMA NobodySends ==
  ASSUME SendsExplained, sends' = sends,
         \A x \in Execs : IsSend(exec'[x]) => IsSend(exec[x]),
         asked => asked' \/ excused',
         overlapped => overlapped', excused => excused'
  PROVE  SendsExplained'
  BY DEF SendsExplained, Reason

LEMMA OtherStep ==
  ASSUME TypeOK, NEW x \in Execs, NEW e, e.step # "send",
         exec' = [exec EXCEPT ![x] = e]
  PROVE  \A y \in Execs : IsSend(exec'[y]) => IsSend(exec[y])
  BY DEF IsSend, TypeOK

LEMMA InitExplained == Init => SendsExplained
  BY IdleType DEF Init, SendsExplained, IsSend

LEMMA StepExplained == TypeOK /\ SendsExplained /\ [Next]_vars => SendsExplained'
  <1> SUFFICES ASSUME TypeOK, SendsExplained, [Next]_vars
               PROVE  SendsExplained'
    OBVIOUS
  <1>1. ASSUME NEW t \in Tasks, NEW x \in Execs, RunBackgroundTask(t, x)
        PROVE  SendsExplained'
    <2>1. [Idle EXCEPT !.from = "interval", !.todo = <<t>>].step # "send"
      BY DEF Idle
    <2> QED
      BY <1>1, <2>1, OtherStep, NobodySends DEF RunBackgroundTask, reminderVars
  <1>2. ASSUME NEW x \in Execs, SkipOverlappingSweep(x) PROVE SendsExplained'
    <2>1. AfterTask(exec[x], TRUE).step = "start"
      BY <1>2, AfterTaskType DEF SkipOverlappingSweep, At, TypeOK
    <2> QED
      BY <1>2, <2>1, OtherStep, NobodySends
      DEF SkipOverlappingSweep, reminderVars
  <1>3. ASSUME NEW x \in Execs, SweepStarts(x) PROVE SendsExplained'
    <2> DEFINE e == [exec[x] EXCEPT !.step = "sweep", !.sees = due]
    <2>1. e.step # "send"  BY DEF TypeOK, Executions
    <2>2. exec' = [exec EXCEPT ![x] = e]  BY <1>3 DEF SweepStarts, TypeOK
    <2> HIDE DEF e
    <2> QED
      BY <1>3, <2>1, <2>2, OtherStep, NobodySends DEF SweepStarts, reminderVars
  <1>4. ASSUME NEW x \in Execs, NEW ok \in BOOLEAN, SweepEnds(x, ok)
        PROVE  SendsExplained'
    <2>1. AfterTask(exec[x], ok).step = "start"
      BY <1>4, AfterTaskType DEF SweepEnds, At, TypeOK
    <2> QED
      BY <1>4, <2>1, OtherStep, NobodySends DEF SweepEnds, reminderVars
  <1>5. ASSUME NEW x \in Execs, NothingToConfirm(x) \/ ConfirmByDraft(x)
        PROVE  SendsExplained'
    <2>1. AfterTask(exec[x], TRUE).step = "start"
      BY <1>5, AfterTaskType DEF NothingToConfirm, ConfirmByDraft, At, TypeOK
    <2>2. \A y \in Execs : IsSend(exec'[y]) => IsSend(exec[y])
      BY <1>5, <2>1, OtherStep DEF NothingToConfirm, ConfirmByDraft
    <2>3. sends' = sends  BY <1>5 DEF NothingToConfirm, ConfirmByDraft, reminderVars
    <2>4. /\ asked => asked'
          /\ overlapped => overlapped'
          /\ excused => excused'
      <3>1. CASE NothingToConfirm(x)
        BY <3>1 DEF NothingToConfirm, reminderVars
      <3>2. CASE ConfirmByDraft(x)
        BY <3>2 DEF ConfirmByDraft
      <3> QED  BY <1>5, <3>1, <3>2
    <2> QED  BY <2>2, <2>3, <2>4, NobodySends
  <1>6. ASSUME NEW x \in Execs, ConfirmBySms(x) PROVE SendsExplained'
    <2>1. ~asked  BY <1>6 DEF ConfirmBySms, ReminderIsDue
    <2>2. \A y \in Execs \ {x} : exec'[y] = exec[y]
      BY <1>6 DEF ConfirmBySms, TypeOK
    <2>3. overlapped' \/ \A y \in Execs \ {x} : ~IsSend(exec[y])
      BY <1>6 DEF ConfirmBySms, At, IsSend
    <2>4. sends' = sends /\ asked' = asked /\ excused' = excused
      BY <1>6 DEF ConfirmBySms
    <2>5. overlapped => overlapped'  BY <1>6 DEF ConfirmBySms
    <2>6. sends > 0 => excused  BY <2>1 DEF SendsExplained
    <2>7. \A y, z \in Execs : IsSend(exec'[y]) /\ IsSend(exec'[z])
                                => y = z \/ Reason'
      BY <2>2, <2>3, <2>4, <2>5 DEF SendsExplained, Reason
    <2>8. sends > 0 => Reason  BY <2>6 DEF Reason
    <2>9. Reason => Reason'  BY <2>4, <2>5 DEF Reason
    <2> QED  BY <2>4, <2>6, <2>7, <2>8, <2>9 DEF SendsExplained
  <1>7. ASSUME NEW x \in Execs, NEW gone \in BOOLEAN, NEW answered \in BOOLEAN,
               SmsReturns(x, gone, answered)
        PROVE  SendsExplained'
    <2>1. IsSend(exec[x])  BY <1>7 DEF SmsReturns, At, IsSend
    <2>2. AfterTask(exec[x], TRUE).step = "start"
      BY <1>7, AfterTaskType DEF SmsReturns, At, TypeOK
    <2>3. /\ exec'[x].step = "start"
          /\ \A y \in Execs \ {x} : exec'[y] = exec[y]
      BY <1>7, <2>2 DEF SmsReturns, TypeOK
    <2>4. /\ overlapped' = overlapped
          /\ excused => excused'
          /\ asked => asked'
          /\ gone => asked' \/ excused'
      BY <1>7 DEF SmsReturns, MarkedAfter
    <2>5. sends \in Nat /\ (sends' = sends \/ (gone /\ sends' = sends + 1))
      BY <1>7, TickAssumption DEF SmsReturns, TypeOK
    <2>6. (\E y \in Execs : IsSend(exec'[y])) => Reason
      BY <2>1, <2>3 DEF SendsExplained, IsSend
    <2>7. sends' > 1 => Reason
      BY <2>1, <2>5 DEF SendsExplained
    <2>8. Reason => Reason'  BY <2>4 DEF Reason
    <2>9. sends' > 0 => asked' \/ excused'
      BY <2>4, <2>5 DEF SendsExplained
    <2> QED  BY <2>6, <2>7, <2>8, <2>9 DEF SendsExplained
  <1>8. ASSUME NEW x \in Execs, Respond(x) PROVE SendsExplained'
    BY <1>8, IdleType, OtherStep, NobodySends DEF Respond, reminderVars
  <1>9. ASSUME NEW x \in Execs, Dispatch(x) PROVE SendsExplained'
    <2>1. [Idle EXCEPT !.from = "worker", !.todo = Lane].step # "send"
      BY DEF Idle
    <2> QED  BY <1>9, <2>1, OtherStep, NobodySends DEF Dispatch, reminderVars
  <1>10. CASE ApiDies
    <2>1. \A x \in Execs : ~IsSend(exec'[x])
      BY <1>10, IdleType DEF ApiDies, IsSend
    <2>2. (asked => asked' \/ excused') /\ (excused => excused')
      BY <1>10 DEF ApiDies
    <2>3. sends' = sends /\ overlapped' = overlapped  BY <1>10 DEF ApiDies
    <2> QED  BY <2>1, <2>2, <2>3, NobodySends
  <1>11. CASE \/ IntervalTick \/ CronFires \/ DispatchFails \/ Abort
              \/ WorkerDies \/ JobExpires \/ ApiStarts \/ FollowUpFallsDue
              \/ TimePasses \/ UNCHANGED vars
    <2>1. UNCHANGED <<exec, reminderVars>>
      BY <1>11
      DEF IntervalTick, CronFires, DispatchFails, Abort, WorkerDies,
          JobExpires, ApiStarts, FollowUpFallsDue, TimePasses, vars, apiVars
    <2> QED  BY <2>1, NobodySends DEF reminderVars
  <1> QED
    BY <1>1, <1>2, <1>3, <1>4, <1>5, <1>6, <1>7, <1>8, <1>9, <1>10, <1>11
    DEF Next, Progress, Confirms

-----------------------------------------------------------------------------
LEMMA IndInvCorrect == Spec => []IndInv
  <1>1. Init => IndInv
    BY InitTyped, InitLocked, InitExplained DEF IndInv
  <1>2. IndInv /\ [Next]_vars => IndInv'
    BY StepTyped, StepLocked, StepExplained DEF IndInv
  <1> QED  BY <1>1, <1>2, PTL DEF Spec

(* Two sweeps of the follow-ups never run side by side, for any number of  *)
(* executions: intervals, the worker, its retries and the requests it gave *)
(* up on (the followUpsRunning guard of processDueFollowUps).              *)
THEOREM FollowUpsAloneCorrect == Spec => []FollowUpsAlone
  <1>1. IndInv => FollowUpsAlone
    BY DEF IndInv, LockIsSweep, FollowUpsAlone, Sweeping, At, IsSweep
  <1> QED  BY <1>1, IndInvCorrect, PTL

(* The lock never outlives its sweep (the finally of processDueFollowUps). *)
THEOREM LockHasOwnerCorrect == Spec => []LockHasOwner
  <1>1. IndInv => LockHasOwner
    BY DEF IndInv, LockIsSweep, LockHasOwner, Sweeping, At, IsSweep
  <1> QED  BY <1>1, IndInvCorrect, PTL

(* No customer is asked twice about one appointment unless two runs of     *)
(* processAppointmentConfirmations waited for Twilio at once or a mark was *)
(* lost, by a crash or with Twilio's answer.                               *)
THEOREM SecondReminderHasReasonCorrect == Spec => []SecondReminderHasReason
  <1>1. IndInv => SecondReminderHasReason
    BY DEF IndInv, SendsExplained, SecondReminderHasReason, Reason
  <1> QED  BY <1>1, IndInvCorrect, PTL
=============================================================================
