-------------------------- MODULE TwilioInboundQueue --------------------------
(***************************************************************************)
(* The queue of inbound texts: domain/twilioInboundJobStore.ts and the     *)
(* part of services/api/src/index.ts around processTwilioInboundJob.       *)
(*                                                                         *)
(* The webhook stores a text as a job, answers Twilio once the job is on   *)
(* disk, and a timer then replays it to the real handler and sends the     *)
(* handler's answer by REST.  A job is known by the MessageSid it is       *)
(* deduplicated by, and there are never more than                          *)
(* TWILIO_INBOUND_JOBS_MAX_ROWS of them: trimRows has nothing to drop.     *)
(***************************************************************************)
EXTENDS Naturals

CONSTANTS
  Sids,         \* MessageSids
  MaxAttempts,  \* ASYNC_TWILIO_WEBHOOK_MAX_ATTEMPTS
  Parts,        \* messages in one answer
  Rest,         \* deliverResponseViaRest
  MaxPosts,     \* bound on the webhook calls for one text
  MaxCrashes    \* bound on the restarts

ASSUME QueueAssumption ==
  /\ {"none", "timer", "resume"} \cap Sids = {}
  /\ MaxAttempts \in Nat \ {0}
  /\ Parts \in Nat
  /\ Rest \in BOOLEAN
  /\ MaxPosts \in Nat
  /\ MaxCrashes \in Nat

VARIABLES
  load,       \* ensureLoaded: "no", "reading" (loaded is already set), "done"
  loadImage,  \* the file when the read began
  loader,     \* the webhook that awaits the read, or "resume"
  rows,       \* the rows in memory
  disk,       \* the rows in the file
  saveTimer,  \* the debounce timer is armed
  waiting,    \* calls of saveNow that wait in saveChain
  writer,     \* the saveOnce that runs
  webhook,    \* per text: "idle", "loading", "ready", "flush"
  timers,     \* per text: timers armed to process it
  worker,     \* per text: "idle", "replay", "deliver" (it is in asyncTwilioInFlight)
  part,       \* per text: messages sent by this delivery
  bootTimer,  \* resumePendingTwilioInboundJobs is still to run
  posts,      \* per text: webhook calls
  crashes,
  acked,      \* per text: Twilio has been answered
  sent,       \* per text: messages the customer was sent
  exposed     \* texts a call put at risk while the file was being read

storeVars == <<load, loadImage, loader, rows, disk>>
saveVars == <<saveTimer, waiting, writer>>
workVars == <<timers, worker, part, bootTimer>>
worldVars == <<posts, crashes, acked, sent, exposed>>
vars == <<storeVars, saveVars, webhook, workVars, worldVars>>

None == "none"

NoJob == [status |-> None, attempts |-> 0, answer |-> FALSE, later |-> FALSE]
StoredJobs == [status : {"queued", "processing", "completed", "failed"},
               attempts : Nat, answer : BOOLEAN, later : BOOLEAN]
Jobs == {NoJob} \cup StoredJobs
Rows == [Sids -> Jobs]
NoRows == [s \in Sids |-> NoJob]
NoWriter == [who |-> None, image |-> NoRows]

TypeOK ==
  /\ load \in {"no", "reading", "done"}
  /\ loadImage \in Rows /\ rows \in Rows /\ disk \in Rows
  /\ loader \in Sids \cup {None, "resume"}
  /\ saveTimer \in BOOLEAN
  /\ waiting \subseteq Sids \cup {"timer"}
  /\ writer \in [who : Sids \cup {None, "timer"}, image : Rows]
  /\ webhook \in [Sids -> {"idle", "loading", "ready", "flush"}]
  /\ timers \in [Sids -> Nat]
  /\ worker \in [Sids -> {"idle", "replay", "deliver"}]
  /\ part \in [Sids -> 0..Parts]
  /\ bootTimer \in BOOLEAN
  /\ posts \in [Sids -> 0..MaxPosts]
  /\ crashes \in 0..MaxCrashes
  /\ acked \in [Sids -> BOOLEAN]
  /\ sent \in [Sids -> Nat]
  /\ exposed \subseteq Sids

Init ==
  /\ load = "no"
  /\ loadImage = NoRows /\ rows = NoRows /\ disk = NoRows
  /\ loader = None
  /\ saveTimer = FALSE
  /\ waiting = {}
  /\ writer = NoWriter
  /\ webhook = [s \in Sids |-> "idle"]
  /\ timers = [s \in Sids |-> 0]
  /\ worker = [s \in Sids |-> "idle"]
  /\ part = [s \in Sids |-> 0]
  /\ bootTimer = TRUE
  /\ posts = [s \in Sids |-> 0]
  /\ crashes = 0
  /\ acked = [s \in Sids |-> FALSE]
  /\ sent = [s \in Sids |-> 0]
  /\ exposed = {}

-----------------------------------------------------------------------------
NewJob == [NoJob EXCEPT !.status = "queued"]

(* updateTwilioInboundJob: nothing happens when the row is gone. *)
Update(s, job) ==
  IF rows[s].status = None
    THEN UNCHANGED <<rows, saveTimer>>
    ELSE /\ rows' = [rows EXCEPT ![s] = job]
         /\ saveTimer' = TRUE

(* scheduleTwilioInboundJobProcessing: nothing for a job in flight. *)
Schedule(S) ==
  timers' = [s \in Sids |-> IF s \in S /\ worker[s] = "idle"
                              THEN timers[s] + 1 ELSE timers[s]]

(* ensureLoaded sets loaded before it awaits the read: only the first      *)
(* caller waits for it.  Whoever calls meanwhile goes on with the rows as  *)
(* they are, empty at first.  What such a call saves, the end of the read  *)
(* drops from memory; and its save replaces the file by rows that lack     *)
(* what the file held.                                                     *)
AtRisk(S) ==
  IF load = "reading" THEN S \cup {t \in Sids : disk[t].status # None} ELSE {}

StartLoad(caller) ==
  /\ load = "no"
  /\ load' = "reading"
  /\ loadImage' = disk
  /\ loader' = caller
  /\ UNCHANGED <<rows, disk>>

(* The read replaces whatever the rows held meanwhile. *)
FinishLoad ==
  /\ load = "reading"
  /\ load' = "done"
  /\ rows' \in {loadImage, disk}
  /\ webhook' = [s \in Sids |-> IF s = loader THEN "ready" ELSE webhook[s]]
  /\ loadImage' = NoRows
  /\ loader' = None
  /\ UNCHANGED <<disk, saveVars, workVars, worldVars>>

-----------------------------------------------------------------------------
(* Twilio calls the webhook for a text, for the first time or again. *)
Post(s) ==
  /\ webhook[s] = "idle"
  /\ posts[s] < MaxPosts
  /\ posts' = [posts EXCEPT ![s] = @ + 1]
  /\ IF load = "no"
       THEN StartLoad(s) /\ webhook' = [webhook EXCEPT ![s] = "loading"]
       ELSE UNCHANGED storeVars /\ webhook' = [webhook EXCEPT ![s] = "ready"]
  /\ UNCHANGED <<saveVars, workVars, crashes, acked, sent, exposed>>

(* enqueueTwilioInboundJob, the webhook's decision to schedule, and the    *)
(* start of flushTwilioInboundJobs, which takes over from the timer.       *)
Enqueue(s) ==
  /\ webhook[s] = "ready"
  /\ rows' = IF rows[s].status = None
               THEN [rows EXCEPT ![s] = NewJob] ELSE rows
  /\ Schedule({s} \ {t \in Sids : rows[t].status \in {"completed", "processing"}})
  /\ saveTimer' = FALSE
  /\ waiting' = waiting \cup {s}
  /\ webhook' = [webhook EXCEPT ![s] = "flush"]
  /\ exposed' = exposed \cup AtRisk({s})
  /\ UNCHANGED <<load, loadImage, loader, disk, writer, worker, part, bootTimer,
                 posts, crashes, acked, sent>>

SaveTimerFires ==
  /\ saveTimer
  /\ saveTimer' = FALSE
  /\ waiting' = waiting \cup {"timer"}
  /\ UNCHANGED <<storeVars, writer, webhook, workVars, worldVars>>

(* saveChain runs one saveOnce at a time. *)
WriteStarts(w) ==
  /\ w \in waiting
  /\ writer = NoWriter
  /\ writer' = [who |-> w, image |-> rows]
  /\ waiting' = waiting \ {w}
  /\ UNCHANGED <<storeVars, saveTimer, webhook, workVars, worldVars>>

(* The webhook whose flush this was answers, unless the write failed.      *)
(* Mutant: it answers all the same.                                        *)
Mut_WriteEnds(ok) ==
  /\ writer # NoWriter
  /\ disk' = IF ok THEN writer.image ELSE disk
  /\ writer' = NoWriter
  /\ IF writer.who \in Sids
       THEN /\ webhook' = [webhook EXCEPT ![writer.who] = "idle"]
            /\ acked' = [acked EXCEPT ![writer.who] = TRUE]
       ELSE UNCHANGED <<webhook, acked>>
  /\ UNCHANGED <<load, loadImage, loader, rows, saveTimer, waiting, workVars,
                 posts, crashes, sent, exposed>>

WriteEnds(ok) ==
  /\ writer # NoWriter
  /\ disk' = IF ok THEN writer.image ELSE disk
  /\ writer' = NoWriter
  /\ IF writer.who \in Sids
       THEN /\ webhook' = [webhook EXCEPT ![writer.who] = "idle"]
            /\ acked' = [acked EXCEPT ![writer.who] = @ \/ ok]
       ELSE UNCHANGED <<webhook, acked>>
  /\ UNCHANGED <<load, loadImage, loader, rows, saveTimer, waiting, workVars,
                 posts, crashes, sent, exposed>>

-----------------------------------------------------------------------------
(* Mutant: an answer that is already stored is asked for again. *)
Mut_FirstStep(job) == "replay"

FirstStep(job) == IF job.answer THEN "deliver" ELSE "replay"

(* What processTwilioInboundJob returns at once for.                       *)
(* Mutant: it does not look at the status.                                 *)
Mut_NothingToDo(s) == worker[s] # "idle" \/ rows[s].status = None

NothingToDo(s) == worker[s] # "idle" \/ rows[s].status \in {None, "completed"}

(* processTwilioInboundJob up to its first network call. *)
Fire(s) ==
  /\ timers[s] > 0
  /\ timers' = [timers EXCEPT ![s] = @ - 1]
  /\ IF NothingToDo(s)
       THEN UNCHANGED <<rows, saveTimer, worker, part>>
       ELSE /\ Update(s, [rows[s] EXCEPT !.status = "processing",
                            !.attempts = @ + 1, !.later = FALSE])
            /\ worker' = [worker EXCEPT ![s] = FirstStep(rows[s])]
            /\ part' = [part EXCEPT ![s] = 0]
  /\ UNCHANGED <<load, loadImage, loader, disk, waiting, writer, webhook,
                 bootTimer, worldVars>>

(* The handler answers 2xx and the answer is stored in the job. *)
ReplayAnswered(s) ==
  /\ worker[s] = "replay"
  /\ Update(s, [rows[s] EXCEPT !.answer = TRUE])
  /\ worker' = [worker EXCEPT ![s] = "deliver"]
  /\ UNCHANGED <<load, loadImage, loader, disk, waiting, writer, webhook, timers,
                 part, bootTimer, worldVars>>

(* deliverAsyncTwilioMessagesFromTwiML sends one message after the other. *)
SendPart(s) ==
  /\ Rest
  /\ worker[s] = "deliver"
  /\ part[s] < Parts
  /\ part' = [part EXCEPT ![s] = @ + 1]
  /\ sent' = [sent EXCEPT ![s] = @ + 1]
  /\ UNCHANGED <<storeVars, saveVars, webhook, timers, worker, bootTimer, posts,
                 crashes, acked, exposed>>

(* Mutant: a job that ends is not written back. *)
Mut_Finish(s, job) ==
  /\ UNCHANGED <<rows, saveTimer>>
  /\ worker' = [worker EXCEPT ![s] = "idle"]
  /\ part' = [part EXCEPT ![s] = 0]

Finish(s, job) ==
  /\ Update(s, job)
  /\ worker' = [worker EXCEPT ![s] = "idle"]
  /\ part' = [part EXCEPT ![s] = 0]

(* Mutant: the job is completed before the last message is out. *)
Mut_Delivered(s) == Rest => part[s] + 1 >= Parts

Delivered(s) == Rest => part[s] = Parts

Complete(s) ==
  /\ worker[s] = "deliver"
  /\ Delivered(s)
  /\ Finish(s, [rows[s] EXCEPT !.status = "completed"])
  /\ UNCHANGED <<load, loadImage, loader, disk, waiting, writer, webhook, timers,
                 bootTimer, worldVars>>

(* The catch block.  Its retry is scheduled while the job is still in      *)
(* asyncTwilioInFlight, which the finally block leaves only afterwards.    *)
(* A message may have gone out before the error.                           *)
Fails(s) ==
  LET retried == rows[s].attempts < MaxAttempts
  IN  /\ worker[s] # "idle"
      /\ sent' \in IF worker[s] = "deliver"
                     THEN {sent, [sent EXCEPT ![s] = @ + 1]} ELSE {sent}
      /\ worker[s] = "deliver" => Rest /\ part[s] < Parts
      /\ Finish(s, [rows[s] EXCEPT !.status = "failed", !.later = retried])
      /\ Schedule(IF retried THEN {s} ELSE {})
      /\ UNCHANGED <<load, loadImage, loader, disk, waiting, writer, webhook,
                     bootTimer, posts, crashes, acked, exposed>>

(* listPendingTwilioInboundJobs: a job with a nextAttemptAt is listed if   *)
(* that time has come.                                                     *)
(* Mutant: only failed jobs are listed.                                    *)
Mut_Pending(elapsed) ==
  {s \in Sids : rows[s].status = "failed" /\ (rows[s].later => s \in elapsed)}

Pending(elapsed) ==
  {s \in Sids : /\ rows[s].status \in {"queued", "failed"}
                /\ rows[s].later => s \in elapsed}

(* resumePendingTwilioInboundJobs, ten seconds after the server listens. *)
ResumeLoads ==
  /\ bootTimer
  /\ StartLoad("resume")
  /\ UNCHANGED <<saveVars, webhook, workVars, worldVars>>

ResumePending ==
  /\ bootTimer
  /\ load = "done" \/ (load = "reading" /\ loader # "resume")
  /\ bootTimer' = FALSE
  /\ \E elapsed \in SUBSET Sids : Schedule(Pending(elapsed))
  /\ exposed' = exposed \cup AtRisk({})
  /\ UNCHANGED <<storeVars, saveVars, webhook, worker, part, posts, crashes, acked,
                 sent>>

-----------------------------------------------------------------------------
Restart ==
  /\ crashes < MaxCrashes
  /\ crashes' = crashes + 1
  /\ load' = "no"
  /\ loadImage' = NoRows
  /\ loader' = None
  /\ rows' = NoRows
  /\ saveTimer' = FALSE
  /\ waiting' = {}
  /\ writer' = NoWriter
  /\ webhook' = [s \in Sids |-> "idle"]
  /\ timers' = [s \in Sids |-> 0]
  /\ worker' = [s \in Sids |-> "idle"]
  /\ part' = [s \in Sids |-> 0]
  /\ bootTimer' = TRUE
  /\ UNCHANGED <<posts, acked, sent>>

(* The process dies; a rename that was issued may have happened. *)
Crash ==
  /\ Restart
  /\ exposed' = exposed
  /\ disk' \in IF writer = NoWriter THEN {disk} ELSE {disk, writer.image}

(* SIGTERM: the server lets open requests end, the internal replays among  *)
(* them, then flushes the queue and exits.  flushTwilioInboundJobs asks    *)
(* only for loaded, which is set while the file is still being read.       *)
Shutdown ==
  /\ \A s \in Sids : webhook[s] = "idle" /\ worker[s] # "replay"
  /\ Restart
  /\ exposed' = exposed \cup AtRisk({})
  /\ disk' \in IF load = "no" THEN {disk} ELSE {disk, rows}

Next ==
  \/ \E s \in Sids :
       \/ Post(s) \/ Enqueue(s) \/ Fire(s) \/ ReplayAnswered(s)
       \/ SendPart(s) \/ Complete(s) \/ Fails(s)
  \/ \E w \in Sids \cup {"timer"} : WriteStarts(w)
  \/ \E ok \in BOOLEAN : WriteEnds(ok)
  \/ SaveTimerFires \/ FinishLoad \/ ResumeLoads \/ ResumePending
  \/ Crash \/ Shutdown

Spec == Init /\ [][Next]_vars

(* Reads, writes and timers end, on this single thread of callbacks. *)
Fairness ==
  /\ WF_vars(FinishLoad)
  /\ WF_vars(ResumeLoads)
  /\ WF_vars(ResumePending)
  /\ \A s \in Sids : WF_vars(Fire(s))

FairSpec == Spec /\ Fairness

-----------------------------------------------------------------------------
(* A text that Twilio has been answered for is in the file, whatever       *)
(* failed writes, crashes and restarts there were, unless a call that came *)
(* in while the file was being read put it at risk.                        *)
AckedOnDisk ==
  \A s \in Sids : acked[s] => disk[s].status # None \/ s \in exposed

(* What twilioInboundJobStore.ts says of itself: it is "the inbound-SMS    *)
(* job queue, so a lost write is a customer message we may not answer",    *)
(* and what Twilio has been answered for is never lost.                    *)
AckedNeverLost == \A s \in Sids : acked[s] => disk[s].status # None

(* An answer of the handler that is stored, in memory or in the file, is   *)
(* never asked for again: neither a retry nor a resume after a restart     *)
(* makes the handler treat the text a second time.  The one exception is a *)
(* call that came in during the read.                                      *)
AnswerAskedOnce ==
  \A s \in Sids \ exposed :
    worker[s] = "replay" => ~rows[s].answer /\ ~disk[s].answer

(* Once the file says that a job is completed, nothing is sent for it any  *)
(* more, even if Twilio posts the text again; unless it is posted, or the  *)
(* file written over, during the read.                                     *)
CompletedStaysSilent ==
  [][\A s \in Sids \ exposed :
       sent'[s] > sent[s] => disk[s].status # "completed"]_vars

(* A completed job has had every message of its answer sent, though the    *)
(* attempts that sent them may lie on both sides of a restart.             *)
CompletedIsSent ==
  Rest => \A s \in Sids :
            "completed" \in {rows[s].status, disk[s].status} => sent[s] >= Parts

(* Without restarts a job in processing has someone at work on it: no      *)
(* failure path leaves it in a state that listPending does not list.       *)
ProcessingHasWorker ==
  crashes = 0 =>
    \A s \in Sids \ exposed : rows[s].status = "processing" => worker[s] # "idle"

(* Every answered text is taken up, by its own timer or by the resume      *)
(* after a restart; unless it was posted, or the resume looked at the      *)
(* rows, while the file was being read.                                    *)
AckedIsTakenUp ==
  \A s \in Sids :
    acked[s] ~> \/ rows[s].status \in {"processing", "completed", "failed"}
                \/ s \in exposed
=============================================================================
