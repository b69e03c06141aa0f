---------------------------- MODULE PortalRunner ----------------------------
(***************************************************************************)
(* Drafting an MDF claim on the manufacturer's portal: the tasks in the    *)
(* API (domain/agentTaskStore.ts), the registration of the one computer    *)
(* that may work on them (index.ts, the mdf_runner_registry.json file),    *)
(* and the runner on each computer (scripts/mdf_portal_runner.ts under its *)
(* daemon).                                                                *)
(*                                                                         *)
(* A request of a runner is checked against the registration first: read   *)
(* the file, decide, write the file, each an await.  fs.writeFile empties  *)
(* the file before it writes, and a file that cannot be parsed reads as no *)
(* registration, so an empty file is NoReg here.                           *)
(***************************************************************************)
EXTENDS Naturals, FiniteSets

CONSTANTS
  Computers,    \* computers a runner may be installed on
  Tasks,        \* portal tasks of one claim
  Nobody,       \* no machine id, no task, no computer
  Manager,      \* the request of a manager that resets the registration
  MaxNames,     \* bound on the new machine ids of a computer
  Attempts,     \* SESSION_RETRY_MAX_ATTEMPTS
  Window,       \* the limit of the runner's list: 100 tasks of all kinds
  Rows,         \* MAX_ROWS: the rows agentTaskStore keeps, of all kinds
  Budgets       \* bounds, one of which holds: the computers a runner is on at first,
                \* how often one is installed, presses of "Start portal draft", resets,
                \* and troubles, which are edits of a task on the console, runners that
                \* die, ids that cannot be replaced, retries that waited too long, tasks
                \* of other kinds that arrive and restarts of the API

BudgetRecords ==
  [runners : SUBSET Computers, installs : Nat, starts : Nat, resets : Nat, troubles : Nat]

ASSUME PortalAssumption ==
  /\ Nobody \notin Computers \union Tasks \union (Computers \X (0..MaxNames))
  /\ Manager \notin Computers
  /\ MaxNames \in Nat /\ Attempts \in Nat /\ Attempts > 0
  /\ Window \in Nat /\ Rows \in Nat /\ 0 < Window /\ Window <= Rows
  /\ Budgets \subseteq BudgetRecords

VARIABLES
  file,      \* mdf_runner_registry.json
  io,        \* the requests that are in the registration check
  name,      \* which machine id each computer has: its n-th
  run,       \* the runner process of each computer
  left,      \* session_retry_queue.json of each computer: attempts left, 0: not in it
  task,      \* the rows of agentTaskStore in memory
  saved,     \* agent_tasks.json
  loading,   \* the API has started and not read its rows yet
  made,      \* the tasks that were ever created
  retired,   \* history: the machine id a manager retired and that must stay out
  drafts,    \* history: drafts of a task on the portal: none, one, more (2)
  excused,   \* history: the tasks to which something happened that may lead to a second draft
  promised,  \* history: the computer that told the dealer it will retry the task
  budget     \* what is left of the bounds

history == <<retired, drafts, excused, promised>>
vars == <<file, io, name, run, left, task, saved, loading, made, history, budget>>

Clients == Computers \union {Manager}
Ids == Computers \X (0..MaxNames)
IdOf(c) == <<c, name[c]>>

(* The registration: the holder and whether it was seen within the TTL, or *)
(* the tombstone of a retired id.                                          *)
NoReg == [holder |-> Nobody, fresh |-> FALSE, revoked |-> Nobody]
Claim(id) == [NoReg EXCEPT !.holder = id, !.fresh = TRUE]
Tombstone(id) == [NoReg EXCEPT !.revoked = id]
Registrations ==
  [holder : Ids \union {Nobody}, fresh : BOOLEAN, revoked : Ids \union {Nobody}]

(* "waiting" stands for queued and needs_approval, "ended" for completed   *)
(* and failed; ran: the output has a summary; newer: how many rows, of     *)
(* whatever kind, were created after it.                                   *)
Absent == [status |-> "absent", ran |-> FALSE, newer |-> 0]
Created == [status |-> "waiting", ran |-> FALSE, newer |-> 0]
NoTasks == [t \in Tasks |-> Absent]
Statuses == {"waiting", "running", "ended", "blocked"}
TaskRows == [status : Statuses \union {"absent"}, ran : BOOLEAN, newer : 0..Rows]

(* text: what it will write; own: the descriptor is of the file at the     *)
(* path; clean: nobody has written since it was opened.  A request is for  *)
(* the list of tasks, or to mark one; "login" is blocked with the promise  *)
(* of a retry after login.                                                 *)
NoIO == [at |-> "idle", text |-> NoReg, own |-> TRUE, clean |-> TRUE,
         task |-> Nobody, mark |-> "none"]
Asking(reg, t, mark) ==
  [at |-> "opens", text |-> reg, own |-> TRUE, clean |-> TRUE, task |-> t, mark |-> mark]
IORecords ==
  [at : {"idle", "removes", "opens", "writes"}, text : Registrations,
   own : BOOLEAN, clean : BOOLEAN, task : Tasks \union {Nobody},
   mark : {"none", "running", "waiting", "blocked", "login"}]

Idle == [at |-> "idle", job |-> Nobody]
Off == [Idle EXCEPT !.at = "off"]
RunRecords ==
  [at : {"off", "idle", "polls", "chose", "starts", "works", "ends", "gone"},
   job : Tasks \union {Nobody}]

TypeOK ==
  /\ file \in Registrations
  /\ io \in [Clients -> IORecords]
  /\ name \in [Computers -> 0..MaxNames]
  /\ run \in [Computers -> RunRecords]
  /\ left \in [Computers -> [Tasks -> 0..Attempts]]
  /\ task \in [Tasks -> TaskRows] /\ saved \in [Tasks -> TaskRows]
  /\ loading \in BOOLEAN
  /\ made \subseteq Tasks
  /\ retired \in Ids \union {Nobody}
  /\ drafts \in [Tasks -> 0..2]
  /\ excused \subseteq Tasks
  /\ promised \in [Tasks -> Computers \union {Nobody}]
  /\ budget \in BudgetRecords

Init ==
  /\ budget \in Budgets
  /\ file = NoReg
  /\ io = [x \in Clients |-> NoIO]
  /\ name = [c \in Computers |-> 0]
  /\ run = [c \in Computers |-> IF c \in budget.runners THEN Idle ELSE Off]
  /\ left = [c \in Computers |-> [t \in Tasks |-> 0]]
  /\ task = NoTasks /\ saved = NoTasks
  /\ loading = FALSE
  /\ made = {}
  /\ retired = Nobody
  /\ drafts = [t \in Tasks |-> 0]
  /\ excused = {}
  /\ promised = [t \in Tasks |-> Nobody]

Spend(what) ==
  /\ budget[what] > 0
  /\ budget' = [budget EXCEPT ![what] = @ - 1]

-----------------------------------------------------------------------------
(* The registration file.                                                  *)

Conflict(id) == file.holder \notin {Nobody, id} /\ file.fresh

Checked(id) == IF file.revoked = id THEN file ELSE Claim(id)

(* A request of c arrives: validateMdfPortalRunnerMachine up to its write. *)
(* A conflict writes nothing and ends the runner, which is started again;  *)
(* a refusal of a retired id writes the tombstone again.                   *)
Ask(c, at, t, mark) ==
  LET id == IdOf(c) IN
  IF Conflict(id)
  THEN /\ io' = io
       /\ run' = [run EXCEPT ![c] = Idle]
  ELSE /\ io' = [io EXCEPT ![c] = Asking(Checked(id), t, mark)]
       /\ run' = [run EXCEPT ![c] = [at |-> at, job |-> t]]

(* fs.writeFile opens: the file is empty now.                              *)
OpenFile(x) ==
  /\ io[x].at = "opens"
  /\ io' = [io EXCEPT ![x].at = "writes"]
  /\ file' = NoReg
  /\ retired' = IF io[x].text.holder \in {Nobody, retired} THEN retired ELSE Nobody
  /\ UNCHANGED <<name, run, left, task, saved, loading, made, drafts, excused, promised, budget>>

(* Another write ended on the same file since: this one covers it, or came *)
(* before it, or leaves the end of the longer text.                        *)
Outcomes(x) ==
  IF ~io[x].own THEN {file}
  ELSE IF io[x].clean THEN {io[x].text}
  ELSE {io[x].text, file, NoReg}

InCheck(c) == io[c].at # "idle"

(* The write is over, and the handler goes on.                             *)
Written(x) ==
  /\ io[x].at = "writes"
  /\ file' \in Outcomes(x)
  /\ io' = [y \in Clients |->
              IF y = x THEN NoIO
              ELSE IF io[y].at = "writes" /\ io[x].own THEN [io[y] EXCEPT !.clean = FALSE]
              ELSE io[y]]

Accepted(c) == Written(c) /\ io[c].text.holder # Nobody

Revoked(c) == Written(c) /\ io[c].text.holder = Nobody

(* The holder is not seen for MDF_RUNNER_HEARTBEAT_TTL_MS, which is        *)
(* minutes, where a request takes milliseconds.                            *)
Expire ==
  /\ file.fresh
  /\ \A c \in Computers : file.holder = IdOf(c) => io[c].at = "idle"
  /\ file' = [file EXCEPT !.fresh = FALSE]
  /\ UNCHANGED <<io, name, run, left, task, saved, loading, made, history, budget>>

(* DELETE /mdf/portal-runner/registration: revokeMdfRunnerRegistry up to   *)
(* its write.  Nothing to retire: a tombstone stands, or the file goes.    *)
(* Mutant: with no holder the file goes, a tombstone or not.               *)
Mut_Retirement ==
  IF file.holder # Nobody
  THEN Asking(Tombstone(file.holder), Nobody, "none")
  ELSE [NoIO EXCEPT !.at = "removes"]

Retirement ==
  IF file.holder # Nobody
  THEN Asking(Tombstone(file.holder), Nobody, "none")
  ELSE IF file.revoked # Nobody THEN NoIO
  ELSE [NoIO EXCEPT !.at = "removes"]

Reset ==
  /\ io[Manager].at = "idle"
  /\ Spend("resets")
  /\ io' = [io EXCEPT ![Manager] = Retirement]
  /\ retired' = IF \E c \in Computers : io[c].at = "writes" THEN Nobody ELSE retired
  /\ UNCHANGED <<file, name, run, left, task, saved, loading, made, drafts, excused, promised>>

(* The tombstone is written.  It is expected to hold if no request was in  *)
(* the middle of its check.                                                *)
Retire ==
  /\ Written(Manager)
  /\ retired' =
       IF file' = io[Manager].text /\ (\A c \in Computers : ~InCheck(c))
       THEN file'.revoked
       ELSE retired
  /\ UNCHANGED <<name, run, left, task, saved, loading, made, drafts, excused, promised, budget>>

RemoveFile ==
  /\ io[Manager].at = "removes"
  /\ file' = NoReg
  /\ io' = [x \in Clients |->
              IF x = Manager THEN NoIO
              ELSE IF io[x].at = "writes" THEN [io[x] EXCEPT !.own = FALSE]
              ELSE io[x]]
  /\ UNCHANGED <<name, run, left, task, saved, loading, made, history, budget>>

-----------------------------------------------------------------------------
(* The tasks in the API.                                                   *)

Active(t) ==
  \/ task[t].status = "running"
  \/ task[t].status = "waiting" /\ ~task[t].ran

(* The rows after n more were created: addAgentTask keeps the newest Rows. *)
Behind(n) ==
  [t \in Tasks |->
     IF task[t] = Absent \/ task[t].newer + n >= Rows THEN Absent
     ELSE [task[t] EXCEPT !.newer = @ + n]]

(* Tasks of other claims and kinds are created.                            *)
OthersCome ==
  /\ Spend("troubles")
  /\ \E n \in 1..Rows : task' = Behind(n)
  /\ UNCHANGED <<file, io, name, run, left, saved, loading, made, history>>

(* POST /mdf/claims/:id/portal-task: attach to an active task, or create.  *)
StartDraft ==
  /\ ~\E t \in Tasks : Active(t)
  /\ \E t \in Tasks \ made :
       /\ task' = [Behind(1) EXCEPT ![t] = Created]
       /\ made' = made \union {t}
  /\ Spend("starts")
  /\ UNCHANGED <<file, io, name, run, left, saved, loading, history>>

(* PATCH /agent-tasks/:id.                                                 *)
ConsoleSets(t) ==
  /\ task[t] # Absent
  /\ Spend("troubles")
  /\ \E s \in Statuses, summary \in BOOLEAN :
       task' = [task EXCEPT ![t].status = s, ![t].ran = @ \/ summary]
  /\ promised' = [promised EXCEPT ![t] = Nobody]
  /\ UNCHANGED <<file, io, name, run, left, saved, loading, made, retired, drafts, excused>>

(* reapStuckAgentTasks: running for longer than the time-out.              *)
Reap(t) ==
  /\ task[t].status = "running"
  /\ task' = [task EXCEPT ![t].status = "ended", ![t].ran = TRUE]
  /\ UNCHANGED <<file, io, name, run, left, saved, loading, made, history, budget>>

(* The debounced save.  It takes longer to fire than the rows to load.     *)
Save ==
  /\ ~loading
  /\ saved # task
  /\ saved' = task
  /\ UNCHANGED <<file, io, name, run, left, task, loading, made, history, budget>>

(* The rows have arrived; what was added before is overwritten.            *)
Loaded ==
  /\ loading
  /\ loading' = FALSE
  /\ task' = saved
  /\ UNCHANGED <<file, io, name, run, left, saved, made, history, budget>>

(* The file says of t that it has not run; the rows in memory say it has,  *)
(* or t is no longer among them.                                           *)
MarkUnsaved(t) ==
  /\ saved[t] # Absent /\ ~saved[t].ran
  /\ task[t].ran \/ (~loading /\ task[t] = Absent)

(* A restart takes the requests with it; a runner sees its call fail.      *)
Crash ==
  /\ Spend("troubles")
  /\ io' = [x \in Clients |-> NoIO]
  /\ run' = [c \in Computers |->
               IF run[c].at \in {"polls", "starts", "ends", "gone"} THEN Idle ELSE run[c]]
  /\ task' = NoTasks
  /\ loading' = TRUE
  /\ retired' = IF \E c \in Computers : io[c].at = "writes" THEN Nobody ELSE retired
  /\ excused' = excused \union {t \in Tasks : MarkUnsaved(t)}
  /\ UNCHANGED <<file, name, left, saved, made, drafts, promised>>

-----------------------------------------------------------------------------
(* The runner.                                                             *)

(* The daemon starts a runner, which asks for the tasks.                   *)
Poll(c) ==
  /\ run[c].at = "idle"
  /\ Ask(c, "polls", Nobody, "none")
  /\ UNCHANGED <<file, name, left, task, saved, loading, made, history, budget>>

(* What another computer has in hand when c is accepted.                   *)
Overtaken(c) ==
  {t \in Tasks :
     \E d \in Computers \ {c} : run[d].job = t /\ run[d].at \in {"chose", "starts"}}

(* GET /mdf/portal-runner/tasks: of the newest rows, whatever their kind,  *)
(* those that are portal tasks.                                            *)
Listed(t) == task[t] # Absent /\ task[t].newer < Window

(* chooseTask: a task that waits and has not run.                          *)
(* Mutant: whether it has run is not asked.                                *)
Mut_Runnable(t) == Listed(t) /\ task[t].status = "waiting"

Runnable(t) == Listed(t) /\ task[t].status = "waiting" /\ ~task[t].ran

(* pickSessionRetryTask drops what is not in the list as blocked.          *)
(* Mutant: it drops what does not wait, as chooseTask would.               *)
Mut_Alive(c) == {t \in Tasks : left[c][t] > 0 /\ Listed(t) /\ task[t].status = "waiting"}

Alive(c) == {t \in Tasks : left[c][t] > 0 /\ Listed(t) /\ task[t].status = "blocked"}

(* GET /mdf/portal-runner/tasks is answered, and the runner takes a task   *)
(* that has not run.                                                       *)
ListRunnable(c) ==
  /\ Accepted(c) /\ io[c].task = Nobody
  /\ run[c].at = "polls"
  /\ \E t \in Tasks :
       /\ Runnable(t)
       /\ run' = [run EXCEPT ![c] = [Idle EXCEPT !.at = "chose", !.job = t]]
  /\ excused' = excused \union Overtaken(c)
  /\ UNCHANGED <<name, left, task, saved, loading, made, retired, drafts, promised, budget>>

(* ... or, none being there, a blocked one of its queue if the portal      *)
(* session is back, ...                                                    *)
ListRetry(c) ==
  /\ Accepted(c) /\ io[c].task = Nobody
  /\ run[c].at = "polls"
  /\ ~\E t \in Tasks : Runnable(t)
  /\ \E t \in Alive(c) :
       /\ run' = [run EXCEPT ![c] = [Idle EXCEPT !.at = "chose", !.job = t]]
       /\ left' = [left EXCEPT ![c] = [u \in Tasks |->
                     IF u = t THEN left[c][t] - 1
                     ELSE IF u \in Alive(c) THEN left[c][u] ELSE 0]]
       /\ excused' = excused \union Overtaken(c) \union {u \in {t} : drafts[u] > 0}
       /\ promised' = [u \in Tasks |->
                         IF promised[u] = c /\ (~Listed(u) \/ (u = t /\ left[c][t] = 1))
                         THEN Nobody ELSE promised[u]]
  /\ UNCHANGED <<name, task, saved, loading, made, retired, drafts, budget>>

(* ... or nothing.                                                         *)
ListIdle(c) ==
  /\ Accepted(c) /\ io[c].task = Nobody
  /\ run[c].at = "polls"
  /\ ~\E t \in Tasks : Runnable(t)
  /\ run' = [run EXCEPT ![c] = Idle]
  /\ left' = [left EXCEPT ![c] = [t \in Tasks |-> IF t \in Alive(c) THEN left[c][t] ELSE 0]]
  /\ promised' = [t \in Tasks |->
                    IF promised[t] = c /\ ~Listed(t) THEN Nobody ELSE promised[t]]
  /\ excused' = excused \union Overtaken(c)
  /\ UNCHANGED <<name, task, saved, loading, made, retired, drafts, budget>>

(* PATCH /mdf/portal-runner/tasks/:id is sent: the run begins.             *)
SendStart(c) ==
  /\ run[c].at = "chose"
  /\ Ask(c, "starts", run[c].job, "running")
  /\ UNCHANGED <<file, name, left, task, saved, loading, made, history, budget>>

(* The mark is applied whatever the status is by now; 404 when the row is  *)
(* not there.                                                              *)
MarkServed(c) ==
  LET t == io[c].task IN
  /\ Accepted(c) /\ t # Nobody
  /\ IF task[t] = Absent
     THEN /\ run' = [run EXCEPT ![c] = Idle]
          /\ UNCHANGED <<task, promised>>
     ELSE /\ task' = [task EXCEPT
                        ![t].status = IF io[c].mark = "login" THEN "blocked" ELSE io[c].mark,
                        ![t].ran = TRUE]
          /\ promised' = [promised EXCEPT ![t] = IF io[c].mark = "login" THEN c ELSE Nobody]
          /\ run' = [run EXCEPT ![c] =
                       IF run[c].at = "starts" THEN [run[c] EXCEPT !.at = "works"] ELSE Idle]
  /\ excused' = excused \union Overtaken(c)
  /\ UNCHANGED <<name, left, saved, loading, made, retired, drafts, budget>>

(* A list whose runner has died meanwhile.                                 *)
ListUnheard(c) ==
  /\ Accepted(c) /\ io[c].task = Nobody
  /\ run[c].at = "gone"
  /\ run' = [run EXCEPT ![c] = Idle]
  /\ excused' = excused \union Overtaken(c)
  /\ UNCHANGED <<name, left, task, saved, loading, made, retired, drafts, promised, budget>>

(* A machine that is refused as retired when it marks a task, or whose     *)
(* runner has died, ends that run.                                         *)
RevokedMark(c) ==
  /\ Revoked(c)
  /\ run[c].at # "polls"
  /\ run' = [run EXCEPT ![c] = Idle]
  /\ UNCHANGED <<name, left, task, saved, loading, made, history, budget>>

(* One that is told so on its poll replaces its machine id and polls       *)
(* again.  It does so once; an id nobody has seen cannot be refused as     *)
(* retired, so there is no second time.                                    *)
ReIdentify(c) ==
  /\ Revoked(c)
  /\ run[c].at = "polls"
  /\ name[c] < MaxNames
  /\ name' = [name EXCEPT ![c] = @ + 1]
  /\ run' = [run EXCEPT ![c] = Idle]
  /\ UNCHANGED <<left, task, saved, loading, made, history, budget>>

(* If the id cannot be replaced, it exits with the code on which the       *)
(* daemon disables itself.                                                 *)
StandDown(c) ==
  /\ Revoked(c)
  /\ run[c].at = "polls"
  /\ Spend("troubles")
  /\ run' = [run EXCEPT ![c] = Off]
  /\ UNCHANGED <<name, left, task, saved, loading, made, history>>

(* The installer is run on the computer; the machine id stays.             *)
Install(c) ==
  /\ run[c].at = "off"
  /\ Spend("installs")
  /\ run' = [run EXCEPT ![c] = Idle]
  /\ UNCHANGED <<file, io, name, left, task, saved, loading, made, history>>

(* The run is over and the second mark is sent: the preflight found the    *)
(* session expired, recorded the task for a retry, and says so if it could *)
(* open the login page, ...                                                *)
SessionExpired(c) ==
  /\ run[c].at = "works"
  /\ \E mark \in {"login", "blocked"} : Ask(c, "ends", run[c].job, mark)
  /\ left' = [left EXCEPT ![c][run[c].job] = IF @ = 0 THEN Attempts ELSE @]
  /\ UNCHANGED <<file, name, task, saved, loading, made, history, budget>>

(* ... or a draft was made on the portal, filled to the end or not, or the *)
(* run stopped before that, with the guided packet or without.             *)
Drafted(t) == [drafts EXCEPT ![t] = IF @ = 0 THEN 1 ELSE 2]

Finish(c) ==
  /\ run[c].at = "works"
  /\ \E mark \in {"waiting", "blocked"} : Ask(c, "ends", run[c].job, mark)
  /\ drafts' \in {drafts, Drafted(run[c].job)}
  /\ UNCHANGED <<file, name, left, task, saved, loading, made, retired, excused, promised, budget>>

(* The runner dies, or its connection: a request goes on without it.       *)
RunnerDies(c) ==
  /\ run[c].at \notin {"off", "idle", "gone"}
  /\ Spend("troubles")
  /\ run' = [run EXCEPT ![c] =
               IF io[c].at = "idle" THEN Idle ELSE [Idle EXCEPT !.at = "gone"]]
  /\ drafts' \in IF run[c].at = "works" THEN {drafts, Drafted(run[c].job)} ELSE {drafts}
  /\ UNCHANGED <<file, io, name, left, task, saved, loading, made, retired, excused, promised>>

(* pruneSessionRetryQueue: what has waited for SESSION_RETRY_MAX_AGE_MS,   *)
(* which is days, is no longer in the queue.                               *)
RetryAges(c) ==
  /\ io[c] = NoIO
  /\ Spend("troubles")
  /\ \E t \in Tasks :
       /\ left[c][t] > 0
       /\ left' = [left EXCEPT ![c][t] = 0]
       /\ promised' = [promised EXCEPT ![t] = IF @ = c THEN Nobody ELSE @]
  /\ UNCHANGED <<file, io, name, run, task, saved, loading, made, retired, drafts, excused>>

-----------------------------------------------------------------------------
RegistryStep == Expire \/ Reset \/ Retire \/ RemoveFile \/ \E x \in Clients : OpenFile(x)

TaskStep ==
  StartDraft \/ OthersCome \/ Save \/ Loaded \/ Crash \/ \E t \in Tasks : ConsoleSets(t) \/ Reap(t)

RunnerStep(c) ==
  \/ Poll(c) \/ ListRunnable(c) \/ ListRetry(c) \/ ListIdle(c) \/ ListUnheard(c)
  \/ SendStart(c) \/ MarkServed(c) \/ RevokedMark(c) \/ ReIdentify(c) \/ StandDown(c) \/ Install(c)
  \/ SessionExpired(c) \/ Finish(c) \/ RunnerDies(c) \/ RetryAges(c)

Next == RegistryStep \/ TaskStep \/ \E c \in Computers : RunnerStep(c)

Spec == Init /\ [][Next]_vars
-----------------------------------------------------------------------------
(* A task has a second draft on the portal only if a retry took it up      *)
(* after its first draft, a restart of the API lost the mark that it had   *)
(* run, or another computer was accepted while a runner had it in hand.    *)
DraftTwiceHasReason == \A t \in Tasks : drafts[t] = 2 => t \in excused

(* A machine id that a manager retired, with no request in the middle of   *)
(* its check, does not hold the registration and is not about to: until    *)
(* another computer claims it, or a reset or a restart of the API meets a  *)
(* write under way.                                                        *)
RetiredStaysOut ==
  retired # Nobody =>
    /\ file.holder # retired
    /\ \A c \in Computers : InCheck(c) => io[c].text.holder # retired

(* A blocked task of which the dealer was told that the runner will retry  *)
(* it is in the retry queue of the computer that said so, until its last   *)
(* attempt, the age limit, an edit of the task on the console, or a list   *)
(* of tasks without it: the API gave the list before it had read its rows, *)
(* or a hundred newer tasks, of whatever kind, took all the places in it.  *)
(* The runner takes such a list for the whole truth and forgets the task,  *)
(* where it told the dealer that it "will auto-retry after login".         *)
RetryPromiseKept ==
  \A t \in Tasks :
    task[t].status = "blocked" /\ promised[t] # Nobody => left[promised[t]][t] > 0
=============================================================================
