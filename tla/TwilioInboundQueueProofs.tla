----------------------- MODULE TwilioInboundQueueProofs -----------------------
(* Theorems about TwilioInboundQueue for every set of texts and every      *)
(* bound.                                                                  *)
EXTENDS TwilioInboundQueue, TLAPS

(* The jobs the actions write, typed once. *)
LEMMA JobTypes ==
  /\ NoJob \in Jobs
  /\ NewJob \in Jobs
  /\ NoRows \in Rows
  /\ NoWriter \in [who : Sids \cup {None, "timer"}, image : Rows]
<1>1. NoJob \in Jobs
  BY DEF NoJob, Jobs
<1>2. NewJob \in Jobs
  <2>1. NoJob \in [status : {None}, attempts : Nat, answer : BOOLEAN, later : BOOLEAN]
    BY DEF NoJob
  <2>2. NewJob \in StoredJobs
    BY <2>1 DEF NewJob, StoredJobs
  <2> QED
    BY <2>2 DEF Jobs
<1> QED
  BY <1>1, <1>2 DEF NoRows, Rows, NoWriter

LEMMA UpdateType ==
  ASSUME TypeOK, NEW s \in Sids, NEW job, Update(s, job),
         rows[s].status # None => job \in Jobs
  PROVE  rows' \in Rows /\ saveTimer' \in BOOLEAN
<1>1. CASE rows[s].status = None
  BY <1>1 DEF TypeOK, Update
<1>2. CASE rows[s].status # None
  <2>1. rows' = [rows EXCEPT ![s] = job] /\ saveTimer' = TRUE /\ job \in Jobs
    BY <1>2 DEF Update
  <2>2. rows \in [Sids -> Jobs]
    BY DEF TypeOK, Rows
  <2> QED
    BY <2>1, <2>2 DEF Rows
<1> QED
  BY <1>1, <1>2

LEMMA ScheduleType ==
  ASSUME TypeOK, NEW S, Schedule(S)
  PROVE  timers' \in [Sids -> Nat]
  BY DEF TypeOK, Schedule

(* A row is a record; one that is missing is NoJob. *)
LEMMA RowType ==
  ASSUME TypeOK, NEW s \in Sids
  PROVE  /\ rows[s] \in Jobs
         /\ rows[s] \in [status : {None, "queued", "processing", "completed", "failed"},
                          attempts : Nat, answer : BOOLEAN, later : BOOLEAN]
         /\ rows[s].status = None => ~rows[s].answer
<1>1. rows[s] \in Jobs
  BY DEF TypeOK, Rows
<1>2. CASE rows[s] = NoJob
  BY <1>1, <1>2 DEF NoJob
<1>3. CASE rows[s] \in StoredJobs
  BY <1>1, <1>3 DEF StoredJobs, None
<1> QED
  BY <1>1, <1>2, <1>3 DEF Jobs

LEMMA AtRiskType ==
  ASSUME NEW S \in SUBSET Sids
  PROVE  AtRisk(S) \subseteq Sids
  BY DEF AtRisk

(* One step keeps the types. *)
LEMMA TypeStep == TypeOK /\ [Next]_vars => TypeOK'
<1> SUFFICES ASSUME TypeOK, [Next]_vars
             PROVE  TypeOK'
  OBVIOUS
<1> USE DEF storeVars, saveVars, workVars, worldVars
<1>1. ASSUME NEW s \in Sids, Post(s)
      PROVE  TypeOK'
  <2>1. posts' \in [Sids -> 0..MaxPosts]
    BY <1>1, QueueAssumption DEF TypeOK, Post
  <2>2. CASE load = "no"
    BY <1>1, <2>1, <2>2 DEF TypeOK, Post, StartLoad
  <2>3. CASE load # "no"
    BY <1>1, <2>1, <2>3 DEF TypeOK, Post
  <2> QED
    BY <2>2, <2>3
<1>2. ASSUME NEW s \in Sids, Enqueue(s)
      PROVE  TypeOK'
  <2>1. rows' \in Rows
    BY <1>2, JobTypes DEF TypeOK, Enqueue, Rows
  <2>2. timers' \in [Sids -> Nat]
    BY <1>2, ScheduleType DEF Enqueue
  <2>3. exposed' \subseteq Sids
    BY <1>2, AtRiskType DEF TypeOK, Enqueue
  <2> QED
    BY <1>2, <2>1, <2>2, <2>3 DEF TypeOK, Enqueue
<1>3. ASSUME NEW s \in Sids, Fire(s)
      PROVE  TypeOK'
  <2>1. timers' \in [Sids -> Nat]
    BY <1>3 DEF TypeOK, Fire
  <2>2. CASE NothingToDo(s)
    BY <1>3, <2>1, <2>2 DEF TypeOK, Fire
  <2>3. CASE ~NothingToDo(s)
    <3>1. [rows[s] EXCEPT !.status = "processing", !.attempts = @ + 1,
                          !.later = FALSE] \in Jobs
      <4> DEFINE row == rows[s]
      <4>1. /\ row \in [status : {None, "queued", "processing", "completed", "failed"},
                        attempts : Nat, answer : BOOLEAN, later : BOOLEAN]
            /\ row.attempts + 1 \in Nat
        BY RowType
      <4> HIDE DEF row
      <4>2. [row EXCEPT !.status = "processing", !.attempts = @ + 1,
                        !.later = FALSE] \in StoredJobs
        BY <4>1 DEF StoredJobs
      <4> QED
        BY <4>2 DEF Jobs, row
    <3>2. rows' \in Rows /\ saveTimer' \in BOOLEAN
      BY <1>3, <2>3, <3>1, UpdateType DEF Fire
    <3>3. /\ worker' \in [Sids -> {"idle", "replay", "deliver"}]
          /\ part' \in [Sids -> 0..Parts]
      BY <1>3, <2>3, QueueAssumption DEF TypeOK, Fire, FirstStep
    <3> QED
      BY <1>3, <2>1, <3>2, <3>3 DEF TypeOK, Fire
  <2> QED
    BY <2>2, <2>3
<1>4. ASSUME NEW s \in Sids, ReplayAnswered(s)
      PROVE  TypeOK'
  <2>1. rows[s].status # None => [rows[s] EXCEPT !.answer = TRUE] \in Jobs
    BY RowType DEF Jobs, StoredJobs, None
  <2>2. rows' \in Rows /\ saveTimer' \in BOOLEAN
    BY <1>4, <2>1, UpdateType DEF ReplayAnswered
  <2> QED
    BY <1>4, <2>2 DEF TypeOK, ReplayAnswered
<1>5. ASSUME NEW s \in Sids, SendPart(s)
      PROVE  TypeOK'
  <2>1. part' \in [Sids -> 0..Parts] /\ sent' \in [Sids -> Nat]
    BY <1>5, QueueAssumption DEF TypeOK, SendPart
  <2> QED
    BY <1>5, <2>1 DEF TypeOK, SendPart
<1>6. ASSUME NEW s \in Sids, NEW job \in Jobs, Finish(s, job)
      PROVE  /\ rows' \in Rows /\ saveTimer' \in BOOLEAN
             /\ worker' \in [Sids -> {"idle", "replay", "deliver"}]
             /\ part' \in [Sids -> 0..Parts]
  BY <1>6, UpdateType, QueueAssumption DEF TypeOK, Finish
<1>7. ASSUME NEW s \in Sids, Complete(s)
      PROVE  TypeOK'
  <2>1. [rows[s] EXCEPT !.status = "completed"] \in Jobs
    BY RowType DEF Jobs, StoredJobs
  <2> QED
    BY <1>6, <1>7, <2>1 DEF TypeOK, Complete
<1>8. ASSUME NEW s \in Sids, Fails(s)
      PROVE  TypeOK'
  <2> DEFINE retried == rows[s].attempts < MaxAttempts
  <2>1. [rows[s] EXCEPT !.status = "failed", !.later = retried] \in Jobs
    <3>1. retried \in BOOLEAN
      OBVIOUS
    <3> HIDE DEF retried
    <3>2. [rows[s] EXCEPT !.status = "failed", !.later = retried] \in StoredJobs
      BY <3>1, RowType DEF StoredJobs
    <3> QED
      BY <3>2 DEF Jobs
  <2>2. /\ rows' \in Rows /\ saveTimer' \in BOOLEAN
        /\ worker' \in [Sids -> {"idle", "replay", "deliver"}]
        /\ part' \in [Sids -> 0..Parts]
    BY <1>6, <1>8, <2>1 DEF Fails
  <2>3. timers' \in [Sids -> Nat]
    BY <1>8, ScheduleType DEF Fails
  <2>4. sent' \in [Sids -> Nat]
    BY <1>8 DEF TypeOK, Fails
  <2> QED
    BY <1>8, <2>2, <2>3, <2>4 DEF TypeOK, Fails
<1>9. ASSUME NEW w \in Sids \cup {"timer"}, WriteStarts(w)
      PROVE  TypeOK'
  BY <1>9 DEF TypeOK, WriteStarts
<1>10. ASSUME NEW ok \in BOOLEAN, WriteEnds(ok)
       PROVE  TypeOK'
  <2>1. disk' \in Rows /\ writer' \in [who : Sids \cup {None, "timer"}, image : Rows]
    BY <1>10, JobTypes DEF TypeOK, WriteEnds
  <2>2. CASE writer.who \in Sids
    <3>1. acked' = [acked EXCEPT ![writer.who] = @ \/ ok]
      BY <1>10, <2>2 DEF WriteEnds
    <3>2. acked' \in [Sids -> BOOLEAN]
      BY <3>1, <2>2 DEF TypeOK
    <3> QED
      BY <1>10, <2>1, <2>2, <3>2 DEF TypeOK, WriteEnds
  <2>3. CASE writer.who \notin Sids
    BY <1>10, <2>1, <2>3 DEF TypeOK, WriteEnds
  <2> QED
    BY <2>2, <2>3
<1>11. CASE SaveTimerFires
  BY <1>11 DEF TypeOK, SaveTimerFires
<1>12. CASE FinishLoad
  BY <1>12, JobTypes DEF TypeOK, FinishLoad
<1>13. CASE ResumeLoads
  BY <1>13 DEF TypeOK, ResumeLoads, StartLoad
<1>14. CASE ResumePending
  <2>1. timers' \in [Sids -> Nat]
    BY <1>14, ScheduleType DEF ResumePending
  <2>2. exposed' \subseteq Sids
    BY <1>14, AtRiskType DEF TypeOK, ResumePending
  <2> QED
    BY <1>14, <2>1, <2>2 DEF TypeOK, ResumePending
<1>15. ASSUME Restart, disk' \in Rows, exposed' \subseteq Sids
       PROVE  TypeOK'
  <2>1. crashes' \in 0..MaxCrashes
    BY <1>15, QueueAssumption DEF TypeOK, Restart
  <2>2. part' \in [Sids -> 0..Parts]
    BY <1>15, QueueAssumption DEF Restart
  <2> QED
    BY <1>15, <2>1, <2>2, JobTypes DEF TypeOK, Restart
<1>16. CASE Crash
  BY <1>15, <1>16 DEF TypeOK, Crash
<1>17. CASE Shutdown
  BY <1>15, <1>17, AtRiskType DEF TypeOK, Shutdown
<1>18. CASE UNCHANGED vars
  BY <1>18 DEF TypeOK, vars
<1> QED
  BY <1>1, <1>2, <1>3, <1>4, <1>5, <1>7, <1>8, <1>9, <1>10, <1>11, <1>12,
     <1>13, <1>14, <1>16, <1>17, <1>18 DEF Next

LEMMA TypeInit == Init => TypeOK
<1> SUFFICES ASSUME Init
             PROVE  TypeOK
  OBVIOUS
<1>1. part \in [Sids -> 0..Parts] /\ posts \in [Sids -> 0..MaxPosts]
      /\ crashes \in 0..MaxCrashes
  BY QueueAssumption DEF Init
<1>2. acked \in [Sids -> BOOLEAN] /\ saveTimer \in BOOLEAN /\ bootTimer \in BOOLEAN
  BY DEF Init
<1> QED
  BY <1>1, <1>2, JobTypes DEF Init, TypeOK

(* Every variable keeps its type. *)
THEOREM TypeCorrect == Spec => []TypeOK
  BY TypeInit, TypeStep, PTL DEF Spec

-----------------------------------------------------------------------------
(* What the safety of the queue rests on, text by text.  A later copy of   *)
(* the rows keeps a text and its answer if an earlier one has them:        *)
(* nothing is dropped on the way from the rows to the image of a write,    *)
(* nor from there to the file.                                             *)
Keeps(earlier, later, s) ==
  /\ earlier[s].status # None => later[s].status # None
  /\ earlier[s].answer => later[s].answer

NothingUnderWay ==
  /\ waiting = {} /\ writer = NoWriter /\ ~saveTimer
  /\ \A t \in Sids : timers[t] = 0 /\ worker[t] = "idle" /\ rows[t] = NoJob

NothingBeforeLoad ==
  load = "no" => NothingUnderWay /\ \A t \in Sids : webhook[t] # "ready"

(* While the file is read, a text at no risk is nowhere but in the file;   *)
(* and if it is in the file, no call has come in.                          *)
Untouched(s) ==
  /\ s \notin waiting /\ writer.who # s
  /\ timers[s] = 0 /\ worker[s] = "idle"
  /\ rows[s] = NoJob /\ writer.image[s] = NoJob

WhileReading(s) ==
  load = "reading" =>
    /\ Untouched(s)
    /\ loadImage[s] = disk[s]
    /\ disk[s].status # None => NothingUnderWay

OnceLoaded(s) ==
  load = "done" =>
    /\ Keeps(disk, rows, s)
    /\ s \in waiting => rows[s].status # None
    /\ writer # NoWriter => /\ Keeps(disk, writer.image, s)
                            /\ Keeps(writer.image, rows, s)
                            /\ s = writer.who => writer.image[s].status # None

ReplayIsDue(s) == worker[s] = "replay" => ~rows[s].answer

Safe(s) ==
  /\ WhileReading(s)
  /\ OnceLoaded(s)
  /\ ReplayIsDue(s)
  /\ acked[s] => disk[s].status # None

IndInv ==
  /\ NothingBeforeLoad
  /\ \A s \in Sids \ exposed : Safe(s)

LEMMA KeepsIsTransitive ==
  ASSUME NEW s, NEW a, NEW b, NEW c, Keeps(a, b, s), Keeps(b, c, s)
  PROVE  Keeps(a, c, s)
  BY DEF Keeps

LEMMA NoRow ==
  ASSUME NEW job \in Jobs
  PROVE  /\ job.status = None <=> job = NoJob
         /\ ~NoJob.answer /\ NoJob.status = None
  BY DEF Jobs, StoredJobs, NoJob, None

(* A step of the loaded process that only adds to the row of a text. *)
LEMMA GrowStep ==
  ASSUME NEW s \in Sids, Safe(s), load = "done", Keeps(rows, rows', s),
         UNCHANGED <<load, disk, writer, acked>>,
         s \in waiting' => s \in waiting \/ rows'[s].status # None,
         worker'[s] = "replay" => ~rows'[s].answer
  PROVE  Safe(s)'
<1>1. WhileReading(s)' /\ ReplayIsDue(s)' /\ (acked[s] => disk[s].status # None)'
  BY DEF Safe, WhileReading, ReplayIsDue
<1>2. OnceLoaded(s)'
  <2>1. Keeps(disk, rows, s)'
    BY KeepsIsTransitive DEF Safe, OnceLoaded
  <2>2. (s \in waiting => rows[s].status # None)'
    BY DEF Safe, OnceLoaded, Keeps
  <2>3. writer # NoWriter => Keeps(writer.image, rows', s)
    BY KeepsIsTransitive DEF Safe, OnceLoaded
  <2> QED
    BY <2>1, <2>2, <2>3 DEF Safe, OnceLoaded
<1> QED
  BY <1>1, <1>2 DEF Safe

(* A step during the read that does not touch the text. *)
LEMMA ReadStep ==
  ASSUME NEW s \in Sids, Safe(s), load = "reading",
         UNCHANGED <<load, loadImage, disk, acked>>,
         Untouched(s)',
         disk[s].status # None => NothingUnderWay'
  PROVE  Safe(s)'
BY DEF Safe, WhileReading, OnceLoaded, ReplayIsDue, Untouched

(* A step of the worker of t, or of a timer for t. *)
LEMMA WorkerStep ==
  ASSUME TypeOK, NothingBeforeLoad, NEW s \in Sids, Safe(s), NEW t \in Sids,
         timers[t] > 0 \/ worker[t] # "idle",
         \A u \in Sids \ {t} : /\ rows'[u] = rows[u] /\ worker'[u] = worker[u]
                               /\ timers'[u] = timers[u],
         t = s => /\ Keeps(rows, rows', s)
                  /\ worker'[s] = "replay" => ~rows'[s].answer,
         UNCHANGED <<load, loadImage, disk, writer, waiting, acked>>
  PROVE  Safe(s)'
<1>1. load # "no"
  BY DEF TypeOK, NothingBeforeLoad, NothingUnderWay
<1>2. CASE load = "reading"
  <2>1. t # s /\ disk[s].status = None
    BY <1>2 DEF TypeOK, Safe, WhileReading, Untouched, NothingUnderWay
  <2>2. Untouched(s)'
    BY <1>2, <2>1 DEF Safe, WhileReading, Untouched
  <2> QED
    BY <1>2, <2>1, <2>2, ReadStep
<1>3. CASE load = "done"
  <2>1. Keeps(rows, rows', s) /\ (worker'[s] = "replay" => ~rows'[s].answer)
    BY DEF Keeps, Safe, ReplayIsDue
  <2> QED
    BY <1>3, <2>1, GrowStep
<1> QED
  BY <1>1, <1>2, <1>3 DEF TypeOK

(* Writing a job back keeps the text and an answer it has. *)
LEMMA UpdateKeeps ==
  ASSUME TypeOK, NEW s \in Sids, NEW job, Update(s, job),
         rows[s].status # None => job.status # None,
         rows[s].answer => job.answer
  PROVE  /\ Keeps(rows, rows', s)
         /\ \A t \in Sids \ {s} : rows'[t] = rows[t]
         /\ rows'[s].answer => rows[s].answer \/ job.answer
<1>1. CASE rows[s].status = None
  BY <1>1 DEF Update, Keeps
<1>2. CASE rows[s].status # None
  <2>1. rows' = [rows EXCEPT ![s] = job]
    BY <1>2 DEF Update
  <2> QED
    BY <1>2, <2>1 DEF TypeOK, Rows, Keeps
<1> QED
  BY <1>1, <1>2

(* A new process starts from a file that keeps what the last one had. *)
LEMMA RestartStep ==
  ASSUME NEW s \in Sids, Safe(s), Restart, Keeps(disk, disk', s)
  PROVE  Safe(s)'
BY DEF Restart, Safe, WhileReading, OnceLoaded, ReplayIsDue, Keeps

LEMMA IndInit == Init => IndInv
BY DEF Init, IndInv, NothingBeforeLoad, NothingUnderWay, Safe, WhileReading, OnceLoaded,
       ReplayIsDue, NoRows

(* Nothing is under way before the first call reads the file. *)
LEMMA BeforeStep == TypeOK /\ NothingBeforeLoad /\ [Next]_vars => NothingBeforeLoad'
<1> SUFFICES ASSUME TypeOK, NothingBeforeLoad, [Next]_vars, load' = "no"
             PROVE  NothingUnderWay' /\ \A t \in Sids : webhook'[t] # "ready"
  BY DEF NothingBeforeLoad
<1> USE DEF storeVars, saveVars, workVars, worldVars
<1>1. CASE Restart
  BY <1>1 DEF Restart, NothingUnderWay, NoRows
<1>2. CASE ~Restart
  <2>1. /\ load = "no"
        /\ UNCHANGED vars
    <3>1. load = "no"
      BY <1>2 DEF Next, vars, Post, StartLoad, Enqueue, Fire, ReplayAnswered, SendPart,
         Complete, Fails, WriteStarts, WriteEnds, SaveTimerFires, FinishLoad,
         ResumeLoads, ResumePending, Crash, Shutdown
    <3>2. NothingUnderWay /\ \A t \in Sids : webhook[t] # "ready"
      BY <3>1 DEF NothingBeforeLoad
    <3>3. \A t \in Sids : timers[t] = 0 /\ worker[t] = "idle"
      BY <3>2 DEF NothingUnderWay
    <3>4. ASSUME NEW s \in Sids
          PROVE  ~Post(s) /\ ~Enqueue(s)
      BY <3>1, <3>2 DEF Post, StartLoad, Enqueue
    <3>5. ASSUME NEW s \in Sids
          PROVE  /\ ~Fire(s) /\ ~ReplayAnswered(s) /\ ~SendPart(s)
                 /\ ~Complete(s) /\ ~Fails(s)
      BY <3>3 DEF Fire, ReplayAnswered, SendPart, Complete, Fails
    <3>6. /\ ~(\E w \in Sids \cup {"timer"} : WriteStarts(w))
          /\ ~(\E ok \in BOOLEAN : WriteEnds(ok)) /\ ~SaveTimerFires
      BY <3>2 DEF NothingUnderWay, WriteStarts, WriteEnds, SaveTimerFires
    <3>7. ~FinishLoad /\ ~ResumeLoads /\ ~ResumePending
      BY <3>1 DEF FinishLoad, ResumeLoads, StartLoad, ResumePending
    <3> QED
      BY <1>2, <3>1, <3>4, <3>5, <3>6, <3>7 DEF Next, Crash, Shutdown
  <2> QED
    BY <2>1 DEF vars, NothingBeforeLoad, NothingUnderWay
<1> QED
  BY <1>1, <1>2

(* A worker, a timer, a webhook past its load or a save shows that the     *)
(* file is being read or has been.                                         *)
LEMMA WorkMeansRead ==
  ASSUME TypeOK, NothingBeforeLoad,
         \/ \E s \in Sids : timers[s] > 0 \/ worker[s] # "idle" \/ webhook[s] = "ready"
         \/ waiting # {} \/ saveTimer \/ writer # NoWriter
  PROVE  load \in {"reading", "done"}
  BY DEF TypeOK, NothingBeforeLoad, NothingUnderWay

(* One step keeps a text safe that no call puts at risk. *)
LEMMA SafeStep ==
  ASSUME TypeOK, NothingBeforeLoad, [Next]_vars, NEW s \in Sids \ exposed', Safe(s)
  PROVE  Safe(s)'
<1> USE DEF storeVars, saveVars, workVars, worldVars
<1>a. /\ rows[s] \in Jobs /\ disk[s] \in Jobs /\ writer.image[s] \in Jobs
      /\ rows \in [Sids -> Jobs]
  BY DEF TypeOK, Rows
<1>b. NewJob.status # None /\ ~NewJob.answer
  BY DEF NewJob, NoJob, None
<1>1. ASSUME NEW t \in Sids, Post(t)
      PROVE  Safe(s)'
  <2>1. CASE load = "no"
    <3>1. /\ load' = "reading" /\ loadImage' = disk
          /\ UNCHANGED <<rows, disk, saveVars, timers, worker, acked>>
      BY <1>1, <2>1 DEF Post, StartLoad
    <3>2. NothingUnderWay /\ Untouched(s)
      BY <2>1, QueueAssumption DEF NothingBeforeLoad, NothingUnderWay, Untouched, NoWriter,
                                   NoRows, None
    <3>3. WhileReading(s)'
      BY <3>1, <3>2 DEF WhileReading, NothingUnderWay, Untouched
    <3> QED
      BY <3>1, <3>3 DEF Safe, OnceLoaded, ReplayIsDue
  <2>2. CASE load # "no"
    <3>1. UNCHANGED <<load, loadImage, rows, disk, writer, waiting, saveTimer, timers,
                      worker, acked>>
      BY <1>1, <2>2 DEF Post
    <3> QED
      BY <3>1 DEF Safe, WhileReading, OnceLoaded, ReplayIsDue, Untouched, NothingUnderWay,
                  Keeps
  <2> QED
    BY <2>1, <2>2
<1>2. ASSUME NEW t \in Sids, Enqueue(t)
      PROVE  Safe(s)'
  <2>1. /\ UNCHANGED <<load, loadImage, disk, writer, worker, acked>>
        /\ waiting' = waiting \cup {t}
        /\ rows' = IF rows[t].status = None THEN [rows EXCEPT ![t] = NewJob] ELSE rows
    BY <1>2 DEF Enqueue
  <2>2. CASE load = "reading"
    <3>1. t # s /\ disk[s].status = None
      BY <1>2, <2>2 DEF Enqueue, AtRisk
    <3>2. Untouched(s)
      BY <2>2 DEF Safe, WhileReading
    <3>3. timers'[s] = 0
      BY <1>2, <3>1, <3>2 DEF Enqueue, Schedule, Untouched
    <3>4. Untouched(s)'
      BY <1>a, <2>1, <3>1, <3>2, <3>3 DEF Untouched
    <3> QED
      BY <2>1, <2>2, <3>1, <3>4, ReadStep
  <2>3. CASE load = "done"
    <3>1. Keeps(rows, rows', s) /\ rows'[t].status # None
      BY <1>a, <1>b, <2>1, NoRow DEF Keeps
    <3>2. rows'[s].answer => rows[s].answer
      BY <1>a, <1>b, <2>1
    <3> QED
      BY <2>1, <2>3, <3>1, <3>2, GrowStep DEF Safe, ReplayIsDue
  <2> QED
    BY <1>2, <2>2, <2>3, WorkMeansRead DEF Enqueue
<1>3. ASSUME NEW t \in Sids, NEW job, Update(t, job),
             rows[t].status # None => job.status # None,
             rows[t].answer => job.answer,
             timers[t] > 0 \/ worker[t] # "idle",
             worker'[t] = "replay" => ~rows[t].answer /\ ~job.answer,
             \A u \in Sids \ {t} : worker'[u] = worker[u] /\ timers'[u] = timers[u],
             UNCHANGED <<load, loadImage, disk, writer, waiting, acked>>
      PROVE  Safe(s)'
  <2>1. /\ Keeps(rows, rows', t)
        /\ \A u \in Sids \ {t} : rows'[u] = rows[u]
        /\ rows'[t].answer => rows[t].answer \/ job.answer
    BY <1>3, UpdateKeeps
  <2> QED
    BY <1>3, <2>1, WorkerStep
<1>4. ASSUME NEW t \in Sids, Fire(t)
      PROVE  Safe(s)'
  <2>1. /\ timers[t] > 0 /\ timers' = [timers EXCEPT ![t] = @ - 1]
        /\ UNCHANGED <<load, loadImage, disk, writer, waiting, acked>>
    BY <1>4 DEF Fire
  <2>2. CASE NothingToDo(t)
    <3>1. UNCHANGED <<rows, worker>>
      BY <1>4, <2>2 DEF Fire
    <3>2. \A u \in Sids \ {t} : timers'[u] = timers[u]
      BY <2>1 DEF TypeOK
    <3> QED
      BY <2>1, <3>1, <3>2, WorkerStep DEF Keeps, Safe, ReplayIsDue
  <2>3. CASE ~NothingToDo(t)
    <3> DEFINE job == [rows[t] EXCEPT !.status = "processing", !.attempts = @ + 1,
                                      !.later = FALSE]
    <3>1. /\ Update(t, job)
          /\ worker' = [worker EXCEPT ![t] = FirstStep(rows[t])]
      BY <1>4, <2>3 DEF Fire
    <3>2. job.status # None /\ job.answer = rows[t].answer
      BY RowType DEF None
    <3>3. worker'[t] = "replay" => ~rows[t].answer
      BY <3>1 DEF TypeOK, FirstStep
    <3>4. \A u \in Sids \ {t} : worker'[u] = worker[u] /\ timers'[u] = timers[u]
      BY <2>1, <3>1 DEF TypeOK
    <3> HIDE DEF job
    <3> QED
      BY <1>3, <2>1, <3>1, <3>2, <3>3, <3>4
  <2> QED
    BY <2>2, <2>3
<1>5. ASSUME NEW t \in Sids, ReplayAnswered(t)
      PROVE  Safe(s)'
  <2> DEFINE job == [rows[t] EXCEPT !.answer = TRUE]
  <2>1. /\ Update(t, job) /\ worker[t] # "idle"
        /\ worker' = [worker EXCEPT ![t] = "deliver"]
        /\ UNCHANGED <<load, loadImage, disk, writer, waiting, acked, timers>>
    BY <1>5 DEF ReplayAnswered
  <2>2. job.answer /\ job.status = rows[t].status
    BY RowType
  <2>3. worker'[t] # "replay" /\ \A u \in Sids \ {t} : worker'[u] = worker[u]
    BY <2>1 DEF TypeOK
  <2> HIDE DEF job
  <2> QED
    BY <1>3, <2>1, <2>2, <2>3
<1>6. ASSUME NEW t \in Sids, SendPart(t)
      PROVE  Safe(s)'
  <2>1. /\ worker[t] # "idle"
        /\ UNCHANGED <<load, loadImage, rows, disk, writer, waiting, timers, worker, acked>>
    BY <1>6 DEF SendPart
  <2> QED
    BY <2>1, WorkerStep DEF Keeps, Safe, ReplayIsDue
<1>7. ASSUME NEW t \in Sids, NEW job, Finish(t, job), job.status # None,
             rows[t].answer => job.answer, worker[t] # "idle",
             \A u \in Sids \ {t} : timers'[u] = timers[u],
             UNCHANGED <<load, loadImage, disk, writer, waiting, acked>>
      PROVE  Safe(s)'
  <2>1. /\ Update(t, job)
        /\ worker'[t] # "replay"
        /\ \A u \in Sids \ {t} : worker'[u] = worker[u]
    BY <1>7 DEF TypeOK, Finish
  <2> QED
    BY <1>3, <1>7, <2>1
<1>8. ASSUME NEW t \in Sids, Complete(t)
      PROVE  Safe(s)'
  <2> DEFINE job == [rows[t] EXCEPT !.status = "completed"]
  <2>1. job.status # None /\ job.answer = rows[t].answer
    BY RowType DEF None
  <2>2. /\ Finish(t, job) /\ worker[t] # "idle"
        /\ UNCHANGED <<load, loadImage, disk, writer, waiting, acked, timers>>
    BY <1>8 DEF Complete
  <2> HIDE DEF job
  <2> QED
    BY <1>7, <2>1, <2>2
<1>9. ASSUME NEW t \in Sids, Fails(t)
      PROVE  Safe(s)'
  <2> DEFINE retried == rows[t].attempts < MaxAttempts
             job == [rows[t] EXCEPT !.status = "failed", !.later = retried]
  <2>1. /\ Finish(t, job) /\ worker[t] # "idle"
        /\ Schedule(IF retried THEN {t} ELSE {})
        /\ UNCHANGED <<load, loadImage, disk, writer, waiting, acked>>
    BY <1>9 DEF Fails
  <2>2. \A u \in Sids \ {t} : timers'[u] = timers[u]
    BY <2>1 DEF TypeOK, Schedule
  <2> HIDE DEF retried
  <2>3. job.status # None /\ job.answer = rows[t].answer
    BY RowType DEF None
  <2> HIDE DEF job
  <2> QED
    BY <1>7, <2>1, <2>2, <2>3
<1>10. ASSUME NEW w \in Sids \cup {"timer"}, WriteStarts(w)
       PROVE  Safe(s)'
  <2>1. /\ writer' = [who |-> w, image |-> rows]
        /\ waiting' = waiting \ {w} /\ w \in waiting
        /\ UNCHANGED <<load, loadImage, rows, disk, saveTimer, timers, worker, acked>>
    BY <1>10 DEF WriteStarts
  <2>2. CASE load = "reading"
    <3>1. Untouched(s) /\ disk[s].status = None
      BY <2>1, <2>2 DEF Safe, WhileReading, NothingUnderWay
    <3>2. Untouched(s)'
      BY <2>1, <3>1 DEF Untouched
    <3> QED
      BY <2>1, <2>2, <3>1, <3>2, ReadStep
  <2>3. CASE load = "done"
    <3>1. OnceLoaded(s)'
      BY <2>1, <2>3 DEF Safe, OnceLoaded, Keeps
    <3> QED
      BY <2>1, <2>3, <3>1 DEF Safe, WhileReading, ReplayIsDue
  <2> QED
    BY <2>1, <2>2, <2>3, WorkMeansRead
<1>11. ASSUME NEW ok \in BOOLEAN, WriteEnds(ok)
       PROVE  Safe(s)'
  <2>1. /\ writer # NoWriter /\ writer' = NoWriter
        /\ disk' = IF ok THEN writer.image ELSE disk
        /\ UNCHANGED <<load, loadImage, rows, waiting, saveTimer, timers, worker>>
    BY <1>11 DEF WriteEnds
  <2>2. acked'[s] => acked[s] \/ (s = writer.who /\ ok)
    BY <1>11 DEF TypeOK, WriteEnds
  <2>3. CASE load = "reading"
    <3>1. /\ Untouched(s) /\ disk[s] = NoJob /\ loadImage[s] = NoJob
      BY <1>a, <2>1, <2>3, NoRow DEF Safe, WhileReading, NothingUnderWay
    <3>2. disk'[s] = NoJob /\ ~acked'[s]
      BY <1>a, <2>1, <2>2, <3>1, NoRow DEF Untouched, Safe
    <3>3. Untouched(s)'
      BY <2>1, <3>1, QueueAssumption DEF Untouched, NoWriter, NoRows, None
    <3>4. WhileReading(s)'
      BY <1>a, <2>1, <2>3, <3>1, <3>2, <3>3, NoRow DEF WhileReading
    <3> QED
      BY <2>1, <2>3, <3>1, <3>2, <3>4 DEF Safe, OnceLoaded, ReplayIsDue, Untouched
  <2>4. CASE load = "done"
    <3>1. Keeps(disk, disk', s) /\ Keeps(disk', rows, s)
      BY <2>1, <2>4 DEF Safe, OnceLoaded, Keeps
    <3>2. acked'[s] => disk'[s].status # None
      BY <2>1, <2>2, <2>4, <3>1 DEF Safe, OnceLoaded, Keeps
    <3> QED
      BY <2>1, <2>4, <3>1, <3>2 DEF Safe, WhileReading, OnceLoaded, ReplayIsDue, Keeps
  <2> QED
    BY <2>1, <2>3, <2>4, WorkMeansRead
<1>12. CASE SaveTimerFires
  <2>1. /\ saveTimer /\ waiting' = waiting \cup {"timer"} /\ "timer" # s
        /\ UNCHANGED <<load, loadImage, rows, disk, writer, timers, worker, acked>>
    BY <1>12, QueueAssumption DEF SaveTimerFires
  <2>2. CASE load = "reading"
    BY <2>1, <2>2, ReadStep DEF Safe, WhileReading, NothingUnderWay, Untouched
  <2>3. CASE load = "done"
    BY <2>1, <2>3, GrowStep DEF Keeps, Safe, ReplayIsDue
  <2> QED
    BY <2>1, <2>2, <2>3, WorkMeansRead
<1>13. CASE FinishLoad
  <2>1. /\ load = "reading" /\ load' = "done" /\ rows' \in {loadImage, disk}
        /\ UNCHANGED <<disk, waiting, writer, worker, acked>>
    BY <1>13 DEF FinishLoad
  <2>2. /\ rows'[s] = disk[s] /\ Untouched(s)
        /\ disk[s] = NoJob \/ writer = NoWriter
    BY <1>a, <2>1, NoRow DEF Safe, WhileReading, NothingUnderWay
  <2>3. OnceLoaded(s)'
    BY <2>1, <2>2, NoRow DEF OnceLoaded, Keeps, Untouched
  <2> QED
    BY <2>1, <2>2, <2>3 DEF Safe, WhileReading, ReplayIsDue, Untouched
<1>14. CASE ResumeLoads
  <2>1. /\ load = "no" /\ load' = "reading" /\ loadImage' = disk
        /\ UNCHANGED <<rows, disk, saveVars, timers, worker, acked>>
    BY <1>14 DEF ResumeLoads, StartLoad
  <2>2. NothingUnderWay /\ Untouched(s)
    BY <2>1, QueueAssumption DEF NothingBeforeLoad, NothingUnderWay, Untouched, NoWriter,
                                 NoRows, None
  <2>3. WhileReading(s)'
    BY <2>1, <2>2 DEF WhileReading, NothingUnderWay, Untouched
  <2> QED
    BY <2>1, <2>3 DEF Safe, OnceLoaded, ReplayIsDue
<1>15. CASE ResumePending
  <2>1. UNCHANGED <<load, loadImage, rows, disk, writer, waiting, saveTimer, worker, acked>>
    BY <1>15 DEF ResumePending
  <2>2. CASE load = "reading"
    <3>1. Untouched(s) /\ disk[s].status = None
      BY <1>15, <2>2 DEF ResumePending, AtRisk, Safe, WhileReading
    <3>2. rows[s].status \notin {"queued", "failed"}
      BY <1>a, <3>1, NoRow DEF Untouched, None
    <3>3. \A elapsed : s \notin Pending(elapsed)
      BY <3>2 DEF Pending
    <3>4. timers'[s] = timers[s]
      BY <1>15, <3>3 DEF TypeOK, ResumePending, Schedule
    <3>5. Untouched(s)'
      BY <2>1, <3>1, <3>4 DEF Untouched
    <3> QED
      BY <2>1, <2>2, <3>1, <3>5, ReadStep
  <2>3. CASE load = "done"
    BY <2>1, <2>3, GrowStep DEF Keeps, Safe, ReplayIsDue
  <2> QED
    BY <1>15, <2>2, <2>3 DEF ResumePending
<1>16. CASE Crash
  <2>1. Restart /\ disk' \in IF writer = NoWriter THEN {disk} ELSE {disk, writer.image}
    BY <1>16 DEF Crash
  <2>2. CASE load = "no"
    BY <2>1, <2>2, RestartStep DEF Keeps, NothingBeforeLoad, NothingUnderWay
  <2>3. CASE load = "reading"
    <3>1. disk'[s] = disk[s]
      BY <1>a, <2>1, <2>3, NoRow DEF Safe, WhileReading, NothingUnderWay, Untouched
    <3> QED
      BY <2>1, <3>1, RestartStep DEF Keeps
  <2>4. CASE load = "done"
    BY <2>1, <2>4, RestartStep DEF Keeps, Safe, OnceLoaded
  <2> QED
    BY <2>2, <2>3, <2>4 DEF TypeOK
<1>17. CASE Shutdown
  <2>1. Restart /\ disk' \in IF load = "no" THEN {disk} ELSE {disk, rows}
    BY <1>17 DEF Shutdown
  <2>2. CASE load = "no"
    BY <2>1, <2>2, RestartStep DEF Keeps
  <2>3. CASE load = "reading"
    <3>1. disk[s] = NoJob /\ rows[s] = NoJob
      BY <1>17, <1>a, <2>3, NoRow DEF Shutdown, AtRisk, Safe, WhileReading, Untouched
    <3> QED
      BY <2>1, <2>3, <3>1, NoRow, RestartStep DEF Keeps
  <2>4. CASE load = "done"
    BY <2>1, <2>4, RestartStep DEF Keeps, Safe, OnceLoaded
  <2> QED
    BY <2>2, <2>3, <2>4 DEF TypeOK
<1>18. CASE UNCHANGED vars
  BY <1>18 DEF vars, Safe, WhileReading, OnceLoaded, ReplayIsDue, Untouched,
               NothingUnderWay, Keeps
<1> QED
  BY <1>1, <1>2, <1>4, <1>5, <1>6, <1>8, <1>9, <1>10, <1>11, <1>12, <1>13,
     <1>14, <1>15, <1>16, <1>17, <1>18 DEF Next

(* What was put at risk stays so. *)
LEMMA ExposedGrows ==
  ASSUME [Next]_vars
  PROVE  exposed \subseteq exposed'
BY DEF Next, vars, storeVars, saveVars, workVars, worldVars, Post, Enqueue, Fire,
       ReplayAnswered, SendPart, Complete, Fails, WriteStarts, WriteEnds, SaveTimerFires,
       FinishLoad, ResumeLoads, ResumePending, Crash, Shutdown

LEMMA IndStep == TypeOK /\ IndInv /\ [Next]_vars => IndInv'
<1> SUFFICES ASSUME TypeOK, IndInv, [Next]_vars
             PROVE  IndInv'
  OBVIOUS
<1>1. NothingBeforeLoad'
  BY BeforeStep DEF IndInv
<1>2. ASSUME NEW s \in Sids \ exposed'
      PROVE  Safe(s)'
  <2>1. s \notin exposed
    BY ExposedGrows
  <2> QED
    BY <2>1, SafeStep DEF IndInv
<1> QED
  BY <1>1, <1>2 DEF IndInv

LEMMA IndInvCorrect == Spec => []IndInv
<1>1. Spec => []TypeOK
  BY TypeCorrect
<1> QED
  BY <1>1, IndInit, IndStep, PTL DEF Spec

(* An acknowledged text is in the file, for any number of texts, repeats,  *)
(* failed writes and restarts, but for the texts a call put at risk while  *)
(* the file was being read.                                                *)
THEOREM AckedOnDiskCorrect == Spec => []AckedOnDisk
<1>1. IndInv => AckedOnDisk
  BY DEF IndInv, Safe, AckedOnDisk
<1> QED
  BY <1>1, IndInvCorrect, PTL

(* With the same exception the handler is never asked for an answer that   *)
(* is stored.                                                              *)
THEOREM AnswerAskedOnceCorrect == Spec => []AnswerAskedOnce
<1>1. TypeOK /\ IndInv => AnswerAskedOnce
  BY DEF TypeOK, IndInv, NothingBeforeLoad, NothingUnderWay, Safe, WhileReading,
         Untouched, OnceLoaded, ReplayIsDue, AnswerAskedOnce, Keeps
<1> QED
  BY <1>1, IndInvCorrect, TypeCorrect, PTL

-----------------------------------------------------------------------------
(* A message is counted for the customer when it is counted for the        *)
(* delivery, so what a delivery has sent is never more than the customer   *)
(* got; and a job is completed only after that, in each copy of the rows.  *)
AllOut(image, count) ==
  \A s \in Sids : image[s].status = "completed" => count[s] >= Parts

SentFirst ==
  /\ \A s \in Sids : part[s] <= sent[s]
  /\ Rest => /\ AllOut(rows, sent) /\ AllOut(disk, sent)
             /\ AllOut(writer.image, sent) /\ AllOut(loadImage, sent)

LEMMA SentInit == Init => SentFirst
BY DEF Init, SentFirst, AllOut, NoWriter, NoRows, NoJob, None

(* Messages that are out stay out. *)
LEMMA OutStaysOut ==
  ASSUME TypeOK, TypeOK', NEW image, AllOut(image, sent),
         \A s \in Sids : sent'[s] >= sent[s]
  PROVE  AllOut(image, sent')
BY QueueAssumption DEF AllOut, TypeOK

(* A step of a worker on one text, which counts nothing it has not sent.   *)
LEMMA WorkerCounts ==
  ASSUME TypeOK, TypeOK', SentFirst, NEW s \in Sids, NEW job, Update(s, job),
         \A t \in Sids : sent'[t] >= sent[t],
         \A t \in Sids : part'[t] <= sent'[t],
         Rest /\ job.status = "completed" => sent[s] >= Parts,
         UNCHANGED <<disk, writer, loadImage>>
  PROVE  SentFirst'
<1> SUFFICES ASSUME Rest
             PROVE  /\ AllOut(rows', sent') /\ AllOut(disk, sent')
                    /\ AllOut(writer.image, sent') /\ AllOut(loadImage, sent')
  BY DEF SentFirst
<1>1. AllOut(rows', sent)
  <2>1. CASE rows[s].status = None
    BY <2>1 DEF Update, SentFirst
  <2>2. CASE rows[s].status # None
    <3>1. rows' = [rows EXCEPT ![s] = job]
      BY <2>2 DEF Update
    <3>2. \A t \in Sids : rows'[t] = IF t = s THEN job ELSE rows[t]
      BY <3>1 DEF TypeOK, Rows
    <3> QED
      BY <3>2 DEF SentFirst, AllOut
  <2> QED
    BY <2>1, <2>2
<1>2. AllOut(disk, sent) /\ AllOut(writer.image, sent) /\ AllOut(loadImage, sent)
  BY DEF SentFirst
<1> QED
  BY <1>1, <1>2, OutStaysOut

(* A step that sends nothing and copies rows from where they were. *)
LEMMA CopiesCount ==
  ASSUME SentFirst, sent' = sent, \A s \in Sids : part'[s] <= sent[s],
         Rest => AllOut(rows', sent),
         disk' \in {disk, rows, writer.image},
         writer'.image \in {writer.image, rows, NoRows},
         loadImage' \in {loadImage, disk, NoRows}
  PROVE  SentFirst'
<1>1. AllOut(NoRows, sent)
  BY DEF AllOut, NoRows, NoJob, None
<1> QED
  BY <1>1 DEF SentFirst

LEMMA SentStep == TypeOK /\ TypeOK' /\ SentFirst /\ [Next]_vars => SentFirst'
<1> SUFFICES ASSUME TypeOK, TypeOK', SentFirst, [Next]_vars
             PROVE  SentFirst'
  OBVIOUS
<1> USE DEF storeVars, saveVars, workVars, worldVars
<1>0. /\ sent \in [Sids -> Nat] /\ part \in [Sids -> 0..Parts] /\ Parts \in Nat
      /\ sent' \in [Sids -> Nat] /\ part' \in [Sids -> 0..Parts]
      /\ Rest => AllOut(rows, sent)
      /\ \A s \in Sids : part[s] <= sent[s]
  BY QueueAssumption DEF TypeOK, SentFirst
<1>1. ASSUME NEW s \in Sids, Post(s)
      PROVE  SentFirst'
  <2>1. /\ UNCHANGED <<sent, part, rows, disk, writer>>
        /\ loadImage' \in {loadImage, disk}
    BY <1>1 DEF Post, StartLoad
  <2> QED
    BY <1>0, <2>1, CopiesCount
<1>2. ASSUME NEW s \in Sids, Enqueue(s)
      PROVE  SentFirst'
  <2>1. /\ UNCHANGED <<sent, part, disk, writer, loadImage>>
        /\ rows' = rows \/ rows' = [rows EXCEPT ![s] = NewJob]
    BY <1>2 DEF Enqueue
  <2>2. \A t \in Sids : rows'[t] = rows[t] \/ rows'[t].status = "queued"
    BY <2>1 DEF TypeOK, Rows, NewJob, NoJob
  <2>3. Rest => AllOut(rows', sent)
    BY <1>0, <2>2 DEF AllOut
  <2> QED
    BY <1>0, <2>1, <2>3, CopiesCount
<1>3. ASSUME NEW s \in Sids, Fire(s)
      PROVE  SentFirst'
  <2>1. UNCHANGED <<sent, disk, writer, loadImage>>
    BY <1>3 DEF Fire
  <2>2. CASE NothingToDo(s)
    <3>1. UNCHANGED <<rows, part>>
      BY <1>3, <2>2 DEF Fire
    <3> QED
      BY <1>0, <2>1, <3>1, CopiesCount
  <2>3. CASE ~NothingToDo(s)
    <3> DEFINE job == [rows[s] EXCEPT !.status = "processing", !.attempts = @ + 1,
                                      !.later = FALSE]
    <3>1. Update(s, job) /\ part' = [part EXCEPT ![s] = 0]
      BY <1>3, <2>3 DEF Fire
    <3>2. job.status # "completed"
      BY RowType
    <3>3. \A t \in Sids : sent'[t] >= sent[t] /\ part'[t] <= sent'[t]
      BY <1>0, <2>1, <3>1
    <3> HIDE DEF job
    <3> QED
      BY <2>1, <3>1, <3>2, <3>3, WorkerCounts
  <2> QED
    BY <2>2, <2>3
<1>4. ASSUME NEW s \in Sids, ReplayAnswered(s)
      PROVE  SentFirst'
  <2>1. /\ UNCHANGED <<sent, part, disk, writer, loadImage>>
        /\ Update(s, [rows[s] EXCEPT !.answer = TRUE])
    BY <1>4 DEF ReplayAnswered
  <2>2. [rows[s] EXCEPT !.answer = TRUE].status = rows[s].status
    BY RowType
  <2>3. Rest /\ rows[s].status = "completed" => sent[s] >= Parts
    BY <1>0 DEF AllOut
  <2>4. \A t \in Sids : sent'[t] >= sent[t] /\ part'[t] <= sent'[t]
    BY <1>0, <2>1
  <2> QED
    BY <2>1, <2>2, <2>3, <2>4, WorkerCounts
<1>5. ASSUME NEW s \in Sids, SendPart(s)
      PROVE  SentFirst'
  <2>1. /\ UNCHANGED <<rows, disk, writer, loadImage>>
        /\ part' = [part EXCEPT ![s] = @ + 1]
        /\ sent' = [sent EXCEPT ![s] = @ + 1]
    BY <1>5 DEF SendPart
  <2>2. \A t \in Sids : sent'[t] >= sent[t] /\ part'[t] <= sent'[t]
    BY <1>0, <2>1
  <2> QED
    BY <2>1, <2>2, OutStaysOut DEF SentFirst
<1>6. ASSUME NEW s \in Sids, Complete(s)
      PROVE  SentFirst'
  <2> DEFINE job == [rows[s] EXCEPT !.status = "completed"]
  <2>1. /\ Update(s, job) /\ part' = [part EXCEPT ![s] = 0]
        /\ UNCHANGED <<sent, disk, writer, loadImage>>
        /\ Rest => part[s] = Parts
    BY <1>6 DEF Complete, Finish, Delivered
  <2>2. Rest => sent[s] >= Parts
    BY <1>0, <2>1
  <2>3. \A t \in Sids : sent'[t] >= sent[t] /\ part'[t] <= sent'[t]
    BY <1>0, <2>1
  <2> HIDE DEF job
  <2> QED
    BY <2>1, <2>2, <2>3, WorkerCounts
<1>7. ASSUME NEW s \in Sids, Fails(s)
      PROVE  SentFirst'
  <2> DEFINE retried == rows[s].attempts < MaxAttempts
             job == [rows[s] EXCEPT !.status = "failed", !.later = retried]
  <2>1. /\ Update(s, job) /\ part' = [part EXCEPT ![s] = 0]
        /\ UNCHANGED <<disk, writer, loadImage>>
        /\ sent' \in {sent, [sent EXCEPT ![s] = @ + 1]}
    BY <1>7 DEF Fails, Finish
  <2> HIDE DEF retried
  <2>2. job.status # "completed"
    BY RowType
  <2>3. \A t \in Sids : sent'[t] >= sent[t] /\ part'[t] <= sent'[t]
    BY <1>0, <2>1
  <2> HIDE DEF job
  <2> QED
    BY <2>1, <2>2, <2>3, WorkerCounts
<1>8. ASSUME NEW w \in Sids \cup {"timer"}, WriteStarts(w)
      PROVE  SentFirst'
  BY <1>0, <1>8, CopiesCount DEF WriteStarts
<1>9. ASSUME NEW ok \in BOOLEAN, WriteEnds(ok)
      PROVE  SentFirst'
  <2>1. /\ UNCHANGED <<sent, part, rows, loadImage>>
        /\ disk' \in {disk, writer.image} /\ writer'.image = NoRows
    BY <1>9 DEF WriteEnds, NoWriter
  <2> QED
    BY <1>0, <2>1, CopiesCount
<1>10. CASE SaveTimerFires
  BY <1>0, <1>10, CopiesCount DEF SaveTimerFires
<1>11. CASE FinishLoad
  <2>1. /\ UNCHANGED <<sent, part, disk, writer>>
        /\ rows' \in {loadImage, disk} /\ loadImage' = NoRows
    BY <1>11 DEF FinishLoad
  <2> QED
    BY <1>0, <2>1, CopiesCount DEF SentFirst
<1>12. CASE ResumeLoads
  BY <1>0, <1>12, CopiesCount DEF ResumeLoads, StartLoad
<1>13. CASE ResumePending
  BY <1>0, <1>13, CopiesCount DEF ResumePending
<1>14. ASSUME Restart, disk' \in {disk, rows, writer.image}
       PROVE  SentFirst'
  <2>1. /\ sent' = sent /\ rows' = NoRows /\ loadImage' = NoRows
        /\ writer'.image = NoRows
        /\ \A s \in Sids : part'[s] <= sent[s]
    BY <1>0, <1>14 DEF Restart, NoWriter
  <2>2. AllOut(NoRows, sent)
    BY DEF AllOut, NoRows, NoJob, None
  <2> QED
    BY <1>14, <2>1, <2>2, CopiesCount
<1>15. CASE Crash
  BY <1>14, <1>15 DEF Crash
<1>16. CASE Shutdown
  BY <1>14, <1>16 DEF Shutdown
<1>17. CASE UNCHANGED vars
  BY <1>0, <1>17, CopiesCount DEF vars
<1> QED
  BY <1>1, <1>2, <1>3, <1>4, <1>5, <1>6, <1>7, <1>8, <1>9, <1>10, <1>11, <1>12,
     <1>13, <1>15, <1>16, <1>17 DEF Next

(* A job that memory or the file calls completed has had its whole answer  *)
(* sent, whatever calls arrive while the file is read.                     *)
THEOREM CompletedIsSentCorrect == Spec => []CompletedIsSent
<1>1. SentFirst => CompletedIsSent
  BY DEF SentFirst, AllOut, CompletedIsSent
<1>2. Spec => []TypeOK
  BY TypeCorrect
<1> QED
  BY <1>1, <1>2, SentInit, SentStep, PTL DEF Spec

-----------------------------------------------------------------------------
(* Who is at work on what.  A worker has its job in processing; a job that *)
(* the file, or the write under way, calls completed is completed in       *)
(* memory; and a process that found no file has no job in processing that  *)
(* nobody works on.  A text that was put at risk may be in any state.      *)
DoneIn(image, s) == image[s].status = "completed" => rows[s].status = "completed"

WorkFits(s) ==
  /\ worker[s] # "idle" => rows[s].status = "processing"
  /\ load = "done" => DoneIn(disk, s)
  /\ load = "done" /\ writer # NoWriter => DoneIn(writer.image, s)
  /\ crashes = 0 /\ load # "done" => disk[s] = NoJob
  /\ crashes = 0 /\ rows[s].status = "processing" => worker[s] # "idle"

AllWorkFits == \A s \in Sids \ exposed : WorkFits(s)

LEMMA WorkInit == Init => AllWorkFits
<1> SUFFICES ASSUME Init, NEW s \in Sids
             PROVE  WorkFits(s)
  BY DEF AllWorkFits
<1>1. /\ load = "no" /\ worker[s] = "idle"
      /\ rows[s] = NoJob /\ disk[s] = NoJob
  BY DEF Init, NoRows
<1> QED
  BY <1>1 DEF WorkFits, NoJob, None

(* A step that leaves the row and the worker of the text alone. *)
LEMMA RowRests ==
  ASSUME NEW s \in Sids, WorkFits(s),
         rows'[s] = rows[s], worker'[s] = worker[s],
         crashes' = crashes, disk'[s] = disk[s],
         load' = "done" <=> load = "done",
         writer' \in {writer, NoWriter} \/ writer'.image = rows
  PROVE  WorkFits(s)'
BY DEF WorkFits, DoneIn

(* A step of the loaded process leaves a completed job completed, and a    *)
(* job it puts in processing or takes out of it has or loses a worker.     *)
LEMMA RowMoves ==
  ASSUME NEW s \in Sids, WorkFits(s), load = "done",
         rows[s].status = "completed" => rows'[s].status = "completed",
         worker'[s] # "idle" => rows'[s].status = "processing",
         rows'[s].status = "processing" =>
           worker'[s] # "idle" \/ (rows[s].status = "processing" /\ worker[s] = "idle"),
         UNCHANGED <<load, disk, writer, crashes>>
  PROVE  WorkFits(s)'
BY DEF WorkFits, DoneIn

(* A text at no risk that someone works on is a text of the loaded         *)
(* process.                                                                *)
LEMMA WorkMeansLoaded ==
  ASSUME TypeOK, NothingBeforeLoad, NEW s \in Sids, Safe(s),
         timers[s] > 0 \/ worker[s] # "idle"
  PROVE  load = "done"
  BY DEF TypeOK, NothingBeforeLoad, NothingUnderWay, Safe, WhileReading, Untouched

LEMMA WorkStep ==
  ASSUME TypeOK, NothingBeforeLoad, [Next]_vars, NEW s \in Sids \ exposed',
         Safe(s), WorkFits(s)
  PROVE  WorkFits(s)'
<1> USE DEF storeVars, saveVars, workVars, worldVars
<1>a. rows \in [Sids -> Jobs] /\ rows[s] \in Jobs /\ disk[s] \in Jobs
  BY DEF TypeOK, Rows
<1>1. ASSUME NEW t \in Sids, Post(t)
      PROVE  WorkFits(s)'
  BY <1>1, RowRests DEF Post, StartLoad
<1>2. ASSUME NEW t \in Sids, Enqueue(t)
      PROVE  WorkFits(s)'
  <2>1. /\ UNCHANGED <<load, disk, writer, worker, crashes>>
        /\ rows' = IF rows[t].status = None THEN [rows EXCEPT ![t] = NewJob] ELSE rows
    BY <1>2 DEF Enqueue
  <2>2. CASE t # s \/ rows[t].status # None
    BY <1>a, <2>1, <2>2, RowRests
  <2>3. CASE t = s /\ rows[t].status = None
    <3>1. load = "done"
      BY <1>2, <2>3, WorkMeansRead DEF Enqueue, AtRisk
    <3>2. rows'[s].status = "queued" /\ worker'[s] = "idle"
      BY <1>a, <2>1, <2>3 DEF NewJob, NoJob, WorkFits, None
    <3> QED
      BY <2>1, <2>3, <3>1, <3>2, RowMoves DEF None
  <2> QED
    BY <2>2, <2>3
<1>3. ASSUME NEW t \in Sids, Fire(t)
      PROVE  WorkFits(s)'
  <2>1. timers[t] > 0 /\ UNCHANGED <<load, disk, writer, crashes>>
    BY <1>3 DEF Fire
  <2>2. CASE NothingToDo(t)
    BY <1>3, <2>1, <2>2, RowRests DEF Fire
  <2>3. CASE ~NothingToDo(t)
    <3> DEFINE job == [rows[t] EXCEPT !.status = "processing", !.attempts = @ + 1,
                                      !.later = FALSE]
    <3>1. Update(t, job) /\ rows[t].status \notin {None, "completed"}
      BY <1>3, <2>3 DEF Fire, NothingToDo
    <3>2. job.status = "processing"
      BY RowType
    <3>3. worker' = [worker EXCEPT ![t] = FirstStep(rows[t])]
      BY <1>3, <2>3 DEF Fire
    <3> HIDE DEF job
    <3>4. rows' = [rows EXCEPT ![t] = job]
      BY <3>1 DEF Update
    <3>5. CASE t # s
      BY <1>a, <2>1, <3>3, <3>4, <3>5, RowRests DEF TypeOK
    <3>6. CASE t = s
      <4>1. rows'[s].status = "processing" /\ worker'[s] # "idle"
        BY <1>a, <3>2, <3>3, <3>4, <3>6 DEF TypeOK, FirstStep
      <4> QED
        BY <2>1, <3>1, <3>6, <4>1, RowMoves, WorkMeansLoaded
    <3> QED
      BY <3>5, <3>6
  <2> QED
    BY <2>2, <2>3
<1>4. ASSUME NEW t \in Sids, ReplayAnswered(t)
      PROVE  WorkFits(s)'
  <2> DEFINE job == [rows[t] EXCEPT !.answer = TRUE]
  <2>1. /\ Update(t, job) /\ worker[t] # "idle"
        /\ worker' = [worker EXCEPT ![t] = "deliver"]
        /\ UNCHANGED <<load, disk, writer, crashes>>
    BY <1>4 DEF ReplayAnswered
  <2>2. job.status = rows[t].status
    BY RowType
  <2> HIDE DEF job
  <2>3. CASE t # s
    BY <1>a, <2>1, <2>3, RowRests DEF TypeOK, Update
  <2>4. CASE t = s
    <3>1. load = "done" /\ rows[s].status = "processing"
      BY <2>1, <2>4, WorkMeansLoaded DEF WorkFits
    <3>2. rows'[s].status = "processing" /\ worker'[s] # "idle"
      BY <1>a, <2>1, <2>2, <2>4, <3>1 DEF TypeOK, Update
    <3> QED
      BY <2>1, <3>1, <3>2, RowMoves
  <2> QED
    BY <2>3, <2>4
<1>5. ASSUME NEW t \in Sids, SendPart(t)
      PROVE  WorkFits(s)'
  BY <1>5, RowRests DEF SendPart
<1>6. ASSUME NEW t \in Sids, NEW job, Finish(t, job),
             job.status \in {"completed", "failed"}, worker[t] # "idle",
             UNCHANGED <<load, disk, writer, crashes>>
      PROVE  WorkFits(s)'
  <2>1. Update(t, job) /\ worker' = [worker EXCEPT ![t] = "idle"]
    BY <1>6 DEF Finish
  <2>2. CASE t # s
    BY <1>6, <1>a, <2>1, <2>2, RowRests DEF TypeOK, Update
  <2>3. CASE t = s
    <3>1. load = "done" /\ rows[s].status = "processing"
      BY <1>6, <2>3, WorkMeansLoaded DEF WorkFits
    <3>2. rows'[s].status \in {"completed", "failed"} /\ worker'[s] = "idle"
      BY <1>6, <1>a, <2>1, <2>3, <3>1 DEF TypeOK, Update, None
    <3> QED
      BY <1>6, <3>1, <3>2, RowMoves
  <2> QED
    BY <2>2, <2>3
<1>7. ASSUME NEW t \in Sids, Complete(t)
      PROVE  WorkFits(s)'
  <2> DEFINE job == [rows[t] EXCEPT !.status = "completed"]
  <2>1. job.status = "completed"
    BY RowType
  <2>2. /\ Finish(t, job) /\ worker[t] # "idle"
        /\ UNCHANGED <<load, disk, writer, crashes>>
    BY <1>7 DEF Complete
  <2> HIDE DEF job
  <2> QED
    BY <1>6, <2>1, <2>2
<1>8. ASSUME NEW t \in Sids, Fails(t)
      PROVE  WorkFits(s)'
  <2> DEFINE retried == rows[t].attempts < MaxAttempts
             job == [rows[t] EXCEPT !.status = "failed", !.later = retried]
  <2>1. /\ Finish(t, job) /\ worker[t] # "idle"
        /\ UNCHANGED <<load, disk, writer, crashes>>
    BY <1>8 DEF Fails
  <2> HIDE DEF retried
  <2>2. job.status = "failed"
    BY RowType
  <2> HIDE DEF job
  <2> QED
    BY <1>6, <2>1, <2>2
<1>9. ASSUME NEW w \in Sids \cup {"timer"}, WriteStarts(w)
      PROVE  WorkFits(s)'
  BY <1>9, RowRests DEF WriteStarts
<1>10. ASSUME NEW ok \in BOOLEAN, WriteEnds(ok)
       PROVE  WorkFits(s)'
  <2>1. /\ writer # NoWriter /\ writer' = NoWriter
        /\ disk' \in {disk, writer.image}
        /\ UNCHANGED <<load, rows, worker, crashes>>
    BY <1>10 DEF WriteEnds
  <2>2. CASE load = "reading"
    <3>1. disk'[s] = disk[s]
      BY <1>a, <2>1, <2>2, NoRow DEF Safe, WhileReading, NothingUnderWay, Untouched
    <3> QED
      BY <2>1, <3>1, RowRests
  <2>3. CASE load = "done"
    BY <2>1, <2>3 DEF WorkFits, DoneIn
  <2> QED
    BY <2>1, <2>2, <2>3, WorkMeansRead
<1>11. CASE SaveTimerFires
  BY <1>11, RowRests DEF SaveTimerFires
<1>12. CASE FinishLoad
  <2>1. /\ load = "reading" /\ load' = "done" /\ rows' \in {loadImage, disk}
        /\ UNCHANGED <<disk, writer, worker, crashes>>
    BY <1>12 DEF FinishLoad
  <2>2. /\ rows'[s] = disk[s] /\ writer.image[s] = NoJob /\ worker[s] = "idle"
    BY <2>1 DEF Safe, WhileReading, Untouched
  <2>3. crashes = 0 => rows'[s] = NoJob
    BY <2>1, <2>2 DEF WorkFits
  <2> QED
    BY <2>1, <2>2, <2>3 DEF WorkFits, DoneIn, NoJob, None
<1>13. CASE ResumeLoads
  BY <1>13, RowRests DEF ResumeLoads, StartLoad
<1>14. CASE ResumePending
  BY <1>14, RowRests DEF ResumePending
<1>15. CASE Restart
  <2>1. /\ load' = "no" /\ crashes' = crashes + 1 /\ worker'[s] = "idle"
    BY <1>15 DEF Restart
  <2>2. crashes' # 0
    BY <2>1 DEF TypeOK
  <2> QED
    BY <2>1, <2>2 DEF WorkFits
<1>16. CASE UNCHANGED vars
  BY <1>16, RowRests DEF vars
<1> QED
  BY <1>1, <1>2, <1>3, <1>4, <1>5, <1>7, <1>8, <1>9, <1>10, <1>11, <1>12,
     <1>13, <1>14, <1>15, <1>16 DEF Next, Crash, Shutdown

LEMMA AllWorkFitsCorrect == Spec => []AllWorkFits
<1>1. TypeOK /\ IndInv /\ AllWorkFits /\ [Next]_vars => AllWorkFits'
  <2> SUFFICES ASSUME TypeOK, IndInv, AllWorkFits, [Next]_vars, NEW s \in Sids \ exposed'
               PROVE  WorkFits(s)'
    BY DEF AllWorkFits
  <2>1. s \notin exposed
    BY ExposedGrows
  <2> QED
    BY <2>1, WorkStep DEF IndInv, AllWorkFits
<1>2. Spec => []TypeOK /\ []IndInv
  BY TypeCorrect, IndInvCorrect, PTL
<1> QED
  BY <1>1, <1>2, WorkInit, PTL DEF Spec

(* Until the first restart every job in processing has its worker, but for *)
(* the texts a call put at risk while the file was being read.             *)
THEOREM ProcessingHasWorkerCorrect == Spec => []ProcessingHasWorker
<1>1. AllWorkFits => ProcessingHasWorker
  BY DEF AllWorkFits, WorkFits, ProcessingHasWorker
<1> QED
  BY <1>1, AllWorkFitsCorrect, PTL

(* Only a worker sends, and its job is in processing: the file does not    *)
(* call that job completed.                                                *)
LEMMA SenderIsAtWork ==
  ASSUME TypeOK, IndInv, AllWorkFits, [Next]_vars, NEW s \in Sids \ exposed,
         sent'[s] > sent[s]
  PROVE  disk[s].status # "completed"
<1> USE DEF storeVars, saveVars, workVars, worldVars
<1>1. sent[s] \in Nat
  BY DEF TypeOK
<1>2. worker[s] = "deliver"
  <2>1. sent' # sent
    BY <1>1
  <2>2. PICK t \in Sids : SendPart(t) \/ Fails(t)
    BY <2>1 DEF Next, vars, Post, Enqueue, Fire, ReplayAnswered, Complete, WriteStarts,
       WriteEnds, SaveTimerFires, FinishLoad, ResumeLoads, ResumePending, Crash,
       Shutdown, Restart
  <2>3. worker[t] = "deliver" /\ sent' = [sent EXCEPT ![t] = @ + 1]
    BY <2>1, <2>2 DEF SendPart, Fails
  <2>4. t = s
    BY <1>1, <2>3 DEF TypeOK
  <2> QED
    BY <2>3, <2>4
<1>3. load = "done" /\ rows[s].status = "processing" /\ WorkFits(s)
  BY <1>2, WorkMeansLoaded DEF IndInv, AllWorkFits, WorkFits
<1> QED
  BY <1>3 DEF WorkFits, DoneIn

(* Nothing is sent for a job that the file calls completed, with the same  *)
(* exception.                                                              *)
THEOREM CompletedStaysSilentCorrect == Spec => CompletedStaysSilent
<1>1. TypeOK /\ IndInv /\ AllWorkFits /\ [Next]_vars
        => [\A s \in Sids \ exposed :
              sent'[s] > sent[s] => disk[s].status # "completed"]_vars
  BY SenderIsAtWork
<1>2. Spec => []TypeOK /\ []IndInv /\ []AllWorkFits
  BY TypeCorrect, IndInvCorrect, AllWorkFitsCorrect, PTL
<1> QED
  BY <1>1, <1>2, PTL DEF Spec, CompletedStaysSilent
===============================================================================
