-------------------------- MODULE ConversationStore --------------------------
(***************************************************************************)
(* The conversation store of the API process                               *)
(* (services/api/src/domain/conversationStore.ts) and the persistence      *)
(* layer under it (domain/storePersistence.ts).                            *)
(*                                                                         *)
(* One process owns an in-memory Map of conversations and an array of      *)
(* todos.  Handlers mutate the objects in place and call saveConversation  *)
(* (tracked) or scheduleSave() (untracked); a 250 ms debounce timer then   *)
(* flushes to a JSON file, to Postgres, or to both, and a crash leaves     *)
(* only those two images.  A conversation's content is abstracted to a     *)
(* version number that no other content ever had; Absent means no row.     *)
(***************************************************************************)
EXTENDS Naturals, FiniteSets

CONSTANTS
  Ids,           \* conversation ids
  Backend,       \* DATA_BACKEND: "file", "dual_write" or "postgres"
  FileSnapshot,  \* FILE_SNAPSHOT=1
  DiskFaults,    \* whether file reads and writes may fail
  MinGuard,      \* CONVERSATION_STORE_SHRINK_GUARD_MIN_COUNT
  MaxVersion,    \* bound on the number of distinct contents ever written
  MaxCrashes,    \* bound on the number of crashes
  TodoIds,       \* bound: the conversations that todos are opened for
  SlowIds        \* bound: the ones handlers hold across an await

ASSUME StoreAssumption ==
  /\ IsFiniteSet(Ids)
  /\ Backend \in {"file", "dual_write", "postgres"}
  /\ FileSnapshot \in BOOLEAN
  /\ DiskFaults \in BOOLEAN
  /\ MinGuard \in Nat
  /\ MaxVersion \in Nat
  /\ MaxCrashes \in Nat
  /\ TodoIds \subseteq Ids
  /\ SlowIds \subseteq Ids

VARIABLES
  phase,          \* hydration: "loading", "fallback" (Postgres refused), "up"
  conversations,  \* the in-memory Map
  todos,          \* the conversations that have an entry in todos
  clock,          \* the last version handed out
  unreported,     \* mutated in place, no save call yet
  dirty,          \* dirtyConversationIds
  removed,        \* removedConversationIds
  full,           \* fullPgUpsertNeeded
  saveTimer,      \* the debounce timer is armed
  retryTimer,     \* pgRetryTimer is armed
  retryQueued,    \* pgRetryQueued
  saver,          \* the one saveToDisk call that holds isSaving
  job,            \* the one Postgres transaction that holds isPgPersisting
  pgHealth,       \* firstFailureAtMs: "ok", "failing" (young), "degraded"
  file,           \* the JSON file
  pgRows,         \* table conversations
  pgTodos,        \* row ('todos','all') of table store_documents
  crashes

memVars == <<conversations, todos, clock, unreported>>
trackVars == <<dirty, removed, full>>
timerVars == <<saveTimer, retryTimer>>
jobVars == <<retryQueued, job>>
pgVars == <<pgRows, pgTodos>>
vars == <<phase, memVars, trackVars, timerVars, jobVars, saver, pgHealth,
          file, pgVars, crashes>>

Absent == 0
Versions == 0..MaxVersion
Rows == [Ids -> Versions]
NoRows == [i \in Ids |-> Absent]
Present(rows) == {i \in Ids : rows[i] # Absent}

Images == [rows : Rows, todos : SUBSET Ids]
Files == [there : BOOLEAN, rows : Rows, todos : SUBSET Ids]
Savers == [phase : {"idle", "mkdir", "inspect", "write"},
           rows : Rows, todos : SUBSET Ids]
Jobs == [active : BOOLEAN, full : BOOLEAN, dirty : SUBSET Ids,
         removed : SUBSET Ids, rows : Rows, todos : SUBSET Ids]

IdleSaver == [phase |-> "idle", rows |-> NoRows, todos |-> {}]
IdleJob == [active |-> FALSE, full |-> FALSE, dirty |-> {}, removed |-> {},
            rows |-> NoRows, todos |-> {}]

TypeOK ==
  /\ phase \in {"loading", "fallback", "up"}
  /\ conversations \in Rows
  /\ todos \subseteq Ids
  /\ clock \in Versions
  /\ unreported \subseteq Ids
  /\ dirty \subseteq Ids
  /\ removed \subseteq Ids
  /\ full \in BOOLEAN
  /\ saveTimer \in BOOLEAN
  /\ retryTimer \in BOOLEAN
  /\ retryQueued \in BOOLEAN
  /\ saver \in Savers
  /\ job \in Jobs
  /\ pgHealth \in {"ok", "failing", "degraded"}
  /\ file \in Files
  /\ pgRows \in Rows
  /\ pgTodos \subseteq Ids
  /\ crashes \in 0..MaxCrashes

-----------------------------------------------------------------------------
(* The module state of a process that has just been started. *)
Fresh ==
  /\ phase = "loading"
  /\ conversations = NoRows
  /\ todos = {}
  /\ unreported = {}
  /\ dirty = {}
  /\ removed = {}
  /\ full = TRUE
  /\ saveTimer = FALSE
  /\ retryTimer = FALSE
  /\ retryQueued = FALSE
  /\ saver = IdleSaver
  /\ job = IdleJob
  /\ pgHealth = "ok"

(* Before the first start there is no file, or a file that the pg:import   *)
(* script has copied to Postgres where there is a Postgres.                *)
Init ==
  /\ Fresh
  /\ crashes = 0
  /\ clock \in {0, 1} \cap Versions
  /\ \E seeded \in SUBSET Ids :
       LET rows == [i \in Ids |-> IF i \in seeded THEN clock ELSE Absent]
       IN  /\ file = [there |-> clock = 1, rows |-> rows, todos |-> {}]
           /\ pgRows = IF Backend = "file" THEN NoRows ELSE rows
  /\ pgTodos = {}

-----------------------------------------------------------------------------
(* scheduleSave({ trackedConversationId }) and scheduleSave().             *)
ScheduleTracked(id) ==
  /\ dirty' = dirty \cup {id}
  /\ saveTimer' = TRUE
  /\ UNCHANGED <<removed, full, retryTimer>>

(* Mutant: an untracked call only arms the timer. *)
Mut_ScheduleUntracked ==
  /\ saveTimer' = TRUE
  /\ UNCHANGED <<full, removed, retryTimer>>

ScheduleUntracked ==
  /\ full' = TRUE
  /\ saveTimer' = TRUE
  /\ UNCHANGED <<removed, retryTimer>>

(* The object a saveToDisk call has put in its payload is the one in the   *)
(* Map: an in-place change made while the call awaits the read of the      *)
(* existing file shows in the JSON it writes.                              *)
MutateInPlace(id) ==
  /\ conversations[id] # Absent
  /\ clock < MaxVersion
  /\ clock' = clock + 1
  /\ conversations' = [conversations EXCEPT ![id] = clock + 1]
  /\ saver' = IF saver.phase = "inspect" /\ saver.rows[id] = conversations[id]
                THEN [saver EXCEPT !.rows[id] = clock + 1]
                ELSE saver

(* A handler changes an object and awaits something before it saves. *)
TouchInPlace(id) ==
  /\ MutateInPlace(id)
  /\ unreported' = unreported \cup {id}
  /\ UNCHANGED <<phase, todos, trackVars, timerVars, jobVars, pgHealth, file,
                 pgVars, crashes>>

(* saveConversation of an object that is in the Map. *)
SaveConversation(id) ==
  /\ conversations[id] # Absent
  /\ ScheduleTracked(id)
  /\ unreported' = unreported \ {id}
  /\ UNCHANGED <<phase, conversations, todos, clock, jobVars, saver, pgHealth,
                 file, pgVars, crashes>>

(* upsertConversationByLeadKey and createConversationForLeadKey, and       *)
(* saveConversation of an object that is no longer in the Map: the id is   *)
(* free, so buildConversationId hands it out again after a delete.         *)
CreateConversation(id) ==
  /\ conversations[id] = Absent
  /\ clock < MaxVersion
  /\ clock' = clock + 1
  /\ conversations' = [conversations EXCEPT ![id] = clock + 1]
  /\ ScheduleTracked(id)
  /\ UNCHANGED <<phase, todos, unreported, jobVars, saver, pgHealth, file,
                 pgVars, crashes>>

(* The setters of the store, setConversationMode for one: change, then     *)
(* scheduleSave() without an id.                                           *)
UpdateUntracked(id) ==
  /\ MutateInPlace(id)
  /\ ScheduleUntracked
  /\ unreported' = {}
  /\ UNCHANGED <<phase, todos, dirty, jobVars, pgHealth, file, pgVars, crashes>>

(* addTodo: the entry is pushed on the one todos array. *)
AddTodo(id) ==
  /\ conversations[id] # Absent
  /\ id \notin todos
  /\ todos' = todos \cup {id}
  /\ ScheduleUntracked
  /\ unreported' = {}
  /\ UNCHANGED <<phase, conversations, clock, dirty, jobVars, saver, pgHealth,
                 file, pgVars, crashes>>

DeleteConversation(id) ==
  /\ conversations[id] # Absent
  /\ conversations' = [conversations EXCEPT ![id] = Absent]
  /\ todos' = todos \ {id}
  /\ dirty' = dirty \ {id}
  /\ removed' = removed \cup {id}
  /\ full' = TRUE
  /\ saveTimer' = TRUE
  /\ unreported' = {}
  /\ UNCHANGED <<phase, clock, retryTimer, jobVars, saver, pgHealth, file,
                 pgVars, crashes>>

-----------------------------------------------------------------------------
(* persistToPostgresSafe up to its first await: capture and reset, or only *)
(* ask for a retry when a transaction is in flight.                        *)
CapturedRows ==
  [i \in Ids |-> IF full \/ i \in dirty THEN conversations[i] ELSE Absent]

StartFlush ==
  IF job.active
    THEN /\ retryQueued' = TRUE
         /\ UNCHANGED <<job, trackVars>>
    ELSE /\ job' = [active |-> TRUE, full |-> full, dirty |-> dirty,
                    removed |-> removed, rows |-> CapturedRows,
                    todos |-> todos]
         /\ dirty' = {}
         /\ removed' = {}
         /\ full' = FALSE
         /\ UNCHANGED retryQueued

(* saveToDisk up to its first await: a call that finds isSaving set drops  *)
(* its save.                                                               *)
StartSave ==
  saver' = IF saver.phase = "idle" THEN [IdleSaver EXCEPT !.phase = "mkdir"]
                                   ELSE saver

(* The end of saveToDisk; in dual_write its caller goes on to Postgres. *)
EndSave ==
  /\ saver' = IdleSaver
  /\ IF Backend = "dual_write" THEN StartFlush
                               ELSE UNCHANGED <<jobVars, trackVars>>

SnapshotWanted == FileSnapshot \/ pgHealth = "degraded"

PersistStore ==
  CASE Backend = "file" ->
         StartSave /\ UNCHANGED <<jobVars, trackVars>>
    [] Backend = "dual_write" ->
         IF saver.phase = "idle"
           THEN StartSave /\ UNCHANGED <<jobVars, trackVars>>
           ELSE StartFlush /\ UNCHANGED saver
    [] Backend = "postgres" ->
         /\ StartFlush
         /\ IF job.active /\ SnapshotWanted THEN StartSave ELSE UNCHANGED saver

(* Every flush awaits whenConversationStoreReady(). *)
SaveTimerFires ==
  /\ phase = "up"
  /\ saveTimer
  /\ saveTimer' = FALSE
  /\ PersistStore
  /\ UNCHANGED <<phase, memVars, retryTimer, pgHealth, file, pgVars, crashes>>

(* flushConversationStore, called by handlers before they answer; it       *)
(* leaves the debounce timer armed.                                        *)
Flush ==
  /\ phase = "up"
  /\ PersistStore
  /\ UNCHANGED <<phase, memVars, timerVars, pgHealth, file, pgVars, crashes>>

RetryTimerFires ==
  /\ phase = "up"
  /\ retryTimer
  /\ retryTimer' = FALSE
  /\ PersistStore
  /\ UNCHANGED <<phase, memVars, saveTimer, pgHealth, file, pgVars, crashes>>

(* Mutant: the sweep saves, but only what is tracked. *)
Mut_Sweep ==
  /\ Backend # "file"
  /\ phase = "up"
  /\ saveTimer' = TRUE
  /\ UNCHANGED <<phase, memVars, trackVars, retryTimer, jobVars, saver,
                 pgHealth, file, pgVars, crashes>>

(* The setInterval of STORE_FULL_SWEEP_MINUTES. *)
Sweep ==
  /\ Backend # "file"
  /\ phase = "up"
  /\ ScheduleUntracked
  /\ unreported' = {}
  /\ UNCHANGED <<phase, conversations, todos, clock, dirty, jobVars, saver,
                 pgHealth, file, pgVars, crashes>>

-----------------------------------------------------------------------------
(* saveToDisk after ensureDirForFile: the conversations array is taken,    *)
(* then the existing file is read.                                         *)
SaveCapture ==
  /\ saver.phase = "mkdir"
  /\ saver' = [phase |-> "inspect", rows |-> conversations, todos |-> {}]
  /\ UNCHANGED <<phase, memVars, trackVars, timerVars, jobVars, pgHealth, file,
                 pgVars, crashes>>

(* Mutant: the guard starts above its minimum. *)
Mut_DangerousShrink(current, next) ==
  /\ next < current
  /\ current > MinGuard
  /\ next < current \div 2

(* shouldBlockConversationStoreShrink with its default ratio of 0.5. *)
DangerousShrink(current, next) ==
  /\ next < current
  /\ current >= MinGuard
  /\ next < current \div 2

FileCount == IF file.there THEN Cardinality(Present(file.rows)) ELSE 0

(* After the read: refuse, or serialise.  The payload holds the todos      *)
(* array itself, so its present entries are written.                       *)
SaveInspect ==
  /\ saver.phase = "inspect"
  /\ IF DangerousShrink(FileCount, Cardinality(Present(saver.rows)))
       THEN EndSave
       ELSE /\ saver' = [saver EXCEPT !.phase = "write", !.todos = todos]
            /\ UNCHANGED <<jobVars, trackVars>>
  /\ UNCHANGED <<phase, memVars, timerVars, pgHealth, file, pgVars, crashes>>

(* mkdir, the read of the existing file or the write of the temporary one  *)
(* fails: saveToDisk logs and returns.                                     *)
SaveFails ==
  /\ DiskFaults
  /\ saver.phase # "idle"
  /\ EndSave
  /\ UNCHANGED <<phase, memVars, timerVars, pgHealth, file, pgVars, crashes>>

Written == [there |-> TRUE, rows |-> saver.rows, todos |-> saver.todos]

SaveRename ==
  /\ saver.phase = "write"
  /\ file' = Written
  /\ EndSave
  /\ UNCHANGED <<phase, memVars, timerVars, pgHealth, pgVars, crashes>>

-----------------------------------------------------------------------------
(* persistConversationStoreToPostgres: the rows are upserted, then the     *)
(* removed ids are deleted, then the documents are written.                *)
Applied == [i \in Ids |-> CASE i \in job.removed -> Absent
                            [] i \notin job.removed /\ job.rows[i] # Absent ->
                                 job.rows[i]
                            [] OTHER -> pgRows[i]]

(* The catch block of persistToPostgresSafe puts back what was captured.   *)
(* Mutants: it forgets the dirty ids; it forgets the removed ids.          *)
Mut_Restore ==
  /\ full' = (full \/ job.full)
  /\ removed' = removed \cup job.removed
  /\ UNCHANGED dirty

Mut_Restore_removed ==
  /\ full' = (full \/ job.full)
  /\ dirty' = dirty \cup job.dirty
  /\ UNCHANGED removed

Restore ==
  /\ full' = (full \/ job.full)
  /\ dirty' = dirty \cup job.dirty
  /\ removed' = removed \cup job.removed

(* The finally block: a flush asked for meanwhile gets the retry timer.    *)
(* Mutant: only a failure arms that timer.                                 *)
Mut_EndFlush(failed) ==
  /\ job' = IdleJob
  /\ retryQueued' = FALSE
  /\ retryTimer' = (retryTimer \/ failed)

EndFlush(failed) ==
  /\ job' = IdleJob
  /\ retryQueued' = FALSE
  /\ retryTimer' = (retryTimer \/ failed \/ retryQueued)

FlushCommits ==
  /\ job.active
  /\ pgRows' = Applied
  /\ pgTodos' = job.todos
  /\ pgHealth' = "ok"
  /\ EndFlush(FALSE)
  /\ IF Backend = "postgres" /\ FileSnapshot THEN StartSave
                                             ELSE UNCHANGED saver
  /\ UNCHANGED <<phase, memVars, trackVars, saveTimer, file, crashes>>

(* When the connection dies during COMMIT the transaction may have taken   *)
(* effect all the same.  In postgres mode the file is written instead.     *)
(* Mutant: only if FILE_SNAPSHOT asks for it.                              *)
Mut_SaveAfterFailure ==
  IF Backend = "postgres" /\ FileSnapshot THEN StartSave ELSE UNCHANGED saver

SaveAfterFailure ==
  IF Backend = "postgres" THEN StartSave ELSE UNCHANGED saver

FlushFails ==
  /\ job.active
  /\ \/ UNCHANGED pgVars
     \/ pgRows' = Applied /\ pgTodos' = job.todos
  /\ pgHealth' = IF pgHealth = "ok" THEN "failing" ELSE pgHealth
  /\ Restore
  /\ EndFlush(TRUE)
  /\ SaveAfterFailure
  /\ UNCHANGED <<phase, memVars, saveTimer, file, crashes>>

(* PG_DEGRADED_AFTER_MS pass since the first failure. *)
OutageAges ==
  /\ pgHealth = "failing"
  /\ pgHealth' = "degraded"
  /\ UNCHANGED <<phase, memVars, trackVars, timerVars, jobVars, saver, file,
                 pgVars, crashes>>

-----------------------------------------------------------------------------
(* The module state of the process that takes over. *)
Restart ==
  /\ phase' = "loading"
  /\ conversations' = NoRows
  /\ todos' = {}
  /\ unreported' = {}
  /\ dirty' = {}
  /\ removed' = {}
  /\ full' = TRUE
  /\ saveTimer' = FALSE
  /\ retryTimer' = FALSE
  /\ retryQueued' = FALSE
  /\ saver' = IdleSaver
  /\ job' = IdleJob
  /\ pgHealth' = "ok"

(* The process dies.  A transaction whose COMMIT was sent, or a rename     *)
(* that was issued, may have taken effect.                                 *)
Crash ==
  /\ crashes < MaxCrashes
  /\ crashes' = crashes + 1
  /\ \/ UNCHANGED pgVars
     \/ job.active /\ pgRows' = Applied /\ pgTodos' = job.todos
  /\ \/ UNCHANGED file
     \/ saver.phase = "write" /\ file' = Written
  /\ Restart
  /\ UNCHANGED clock

(* The end of loadStoreOnStartup: the scrub and backfillPriorJourneys      *)
(* change some of the loaded conversations and scheduleSave().             *)
Hydrate(rows, opened) ==
  /\ phase' = "up"
  /\ todos' = opened
  /\ \E stamped \in SUBSET Present(rows) :
       IF stamped = {}
         THEN /\ conversations' = rows
              /\ UNCHANGED <<clock, unreported, full, saveTimer>>
         ELSE /\ clock < MaxVersion
              /\ clock' = clock + 1
              /\ conversations' =
                   [i \in Ids |-> IF i \in stamped THEN clock + 1 ELSE rows[i]]
              /\ full' = TRUE
              /\ saveTimer' = TRUE
              /\ unreported' = {}
  /\ UNCHANGED <<dirty, removed, retryTimer, jobVars, saver, pgVars, crashes>>

LoadFromPostgres ==
  /\ Backend = "postgres"
  /\ phase = "loading"
  /\ pgHealth' = "ok"
  /\ Hydrate(pgRows, pgTodos)
  /\ UNCHANGED file

PostgresUnreachable ==
  /\ Backend = "postgres"
  /\ phase = "loading"
  /\ phase' = "fallback"
  /\ pgHealth' = IF pgHealth = "ok" THEN "failing" ELSE pgHealth
  /\ UNCHANGED <<memVars, trackVars, timerVars, jobVars, saver, file, pgVars,
                 crashes>>

ReadingFile == phase = IF Backend = "postgres" THEN "fallback" ELSE "loading"

LoadFromDisk ==
  /\ ReadingFile
  /\ file.there
  /\ Hydrate(file.rows, file.todos)
  /\ UNCHANGED <<pgHealth, file>>

(* ENOENT: saveToDisk writes what the Map holds, which is nothing unless a *)
(* request has been served before the load.                                *)
CreateStoreFile ==
  /\ ReadingFile
  /\ ~file.there
  /\ \/ file' = [there |-> TRUE, rows |-> conversations, todos |-> todos]
     \/ DiskFaults /\ UNCHANGED file
  /\ Hydrate(conversations, todos)
  /\ UNCHANGED pgHealth

(* The file cannot be read or parsed: the error is logged and the process  *)
(* goes on with what the Map holds.                                        *)
LoadFails ==
  /\ DiskFaults
  /\ ReadingFile
  /\ file.there
  /\ Hydrate(conversations, todos)
  /\ UNCHANGED <<pgHealth, file>>

-----------------------------------------------------------------------------
Mutate ==
  \/ \E id \in SlowIds : TouchInPlace(id)
  \/ \E id \in TodoIds : AddTodo(id)
  \/ \E id \in Ids : \/ SaveConversation(id)
                     \/ CreateConversation(id)
                     \/ UpdateUntracked(id)
                     \/ DeleteConversation(id)

Persist ==
  \/ SaveTimerFires \/ Flush \/ RetryTimerFires \/ Sweep
  \/ SaveCapture \/ SaveInspect \/ SaveFails \/ SaveRename
  \/ FlushCommits \/ FlushFails \/ OutageAges

Boot ==
  \/ LoadFromPostgres \/ PostgresUnreachable
  \/ LoadFromDisk \/ CreateStoreFile \/ LoadFails

Next == Mutate \/ Persist \/ Crash \/ Boot

Spec == Init /\ [][Next]_vars

(* Timers fire, promises settle and a started process finishes its load.   *)
(* A WF on SaveTimerFires assumes that the changes pause for 250 ms now    *)
(* and then: each of them re-arms the debounce timer.                      *)
Fairness ==
  /\ WF_vars(SaveTimerFires)
  /\ WF_vars(RetryTimerFires)
  /\ WF_vars(Sweep)
  /\ WF_vars(SaveCapture)
  /\ WF_vars(SaveInspect)
  /\ WF_vars(SaveRename)
  /\ WF_vars(FlushCommits \/ FlushFails)
  /\ WF_vars(Boot)

FairSpec == Spec /\ Fairness

(* Postgres does not fail for ever: an assumption of two properties, not   *)
(* of the specification.                                                   *)
PgRecovers == SF_vars(FlushCommits)

-----------------------------------------------------------------------------
(* What the next flush knows it has to write: everything, the row, or a    *)
(* row whose handler has not saved it yet.                                 *)
Covered(id) == full \/ id \in dirty \/ id \in unreported

InFlight(id) == job.active /\ job.rows[id] = conversations[id]

(* The dirty tracking never loses a change: a conversation that no flush   *)
(* will write and none is writing has its present content in Postgres, or  *)
(* no row at all: an id deleted and taken again before the flush is in     *)
(* both sets, and the transaction upserts it and then deletes it.  This is *)
(* what the capture-and-reset of persistToPostgresSafe and its restore on  *)
(* failure are for.                                                        *)
CoveredOrPersisted ==
  Backend # "file" =>
    \A id \in Present(conversations) :
      \/ Covered(id)
      \/ InFlight(id)
      \/ pgRows[id] \in {conversations[id], Absent}

(* The todos document in Postgres is never left behind the array: every    *)
(* change of todos goes through an untracked scheduleSave().               *)
TodosCovered ==
  Backend # "file" =>
    \/ full
    \/ job.active /\ job.todos = todos
    \/ pgTodos = todos

(* No lost wake-up: as long as a row is marked dirty or removed, a timer   *)
(* is armed, a running transaction will arm one (pgRetryQueued), or the    *)
(* file save that precedes the Postgres flush is under way.                *)
TrackedIsPending ==
  Backend # "file" /\ dirty \cup removed # {} =>
    \/ saveTimer
    \/ retryTimer
    \/ job.active /\ retryQueued
    \/ Backend = "dual_write" /\ saver.phase # "idle"

(* What makes CoveredOrPersisted and TodosCovered inductive.  A settled    *)
(* row is not in the running transaction; whatever that transaction        *)
(* writes, a failure puts back in the sets; hydration is never concurrent  *)
(* with a flush and leaves fullPgUpsertNeeded set.                         *)
Settled(id) ==
  job.rows[id] = Absent /\ pgRows[id] \in {conversations[id], Absent}

RowsTracked ==
  \A id \in Ids :
    conversations[id] # Absent => Covered(id) \/ InFlight(id) \/ Settled(id)

TodosTracked ==
  \/ full
  \/ job.active /\ job.todos = todos /\ (job.full \/ pgTodos = todos)
  \/ ~job.active /\ pgTodos = todos

JobRowsRestorable ==
  \A id \in Ids :
    job.rows[id] # Absent => job.active /\ (job.full \/ id \in job.dirty)

BootIsQuiet == phase # "up" => full /\ ~job.active /\ saver.phase = "idle"

IndInv == TypeOK /\ RowsTracked /\ TodosTracked /\ JobRowsRestorable
                 /\ BootIsQuiet

(* shouldBlockConversationStoreShrink: whatever boot, crash or failed read *)
(* emptied the Map, no single save takes a file of MinGuard conversations  *)
(* or more to less than half of them.                                      *)
NoDangerousShrink ==
  [][FileCount >= MinGuard => FileCount' >= FileCount \div 2]_file

(* Every content that stays in the Map reaches its row if Postgres         *)
(* recovers: through the dirty set, a retry after a failure, or the full   *)
(* sweep at the latest.                                                    *)
EventuallyInPostgres ==
  PgRecovers => \A id \in Ids : \A v \in Versions \ {Absent} :
    (phase = "up" /\ conversations[id] = v)
      ~> (pgRows[id] = v \/ conversations[id] # v)

(* A deletion reaches a Postgres that recovers, through any number of      *)
(* failed transactions, unless the id is taken again or the process dies   *)
(* first.                                                                  *)
EventuallyDeleted ==
  PgRecovers => \A id \in Ids :
    id \in removed
      ~> (pgRows[id] = Absent \/ conversations[id] # Absent \/ phase # "up")

(* "an outage never leaves writes memory-only": in postgres mode, even if  *)
(* no transaction ever commits again, every content that stays in the Map  *)
(* reaches Postgres or the file.                                           *)
OutageReachesFile ==
  \A id \in Ids : \A v \in Versions \ {Absent} :
    (phase = "up" /\ conversations[id] = v)
      ~> (pgRows[id] = v \/ file.rows[id] = v \/ conversations[id] # v)

-----------------------------------------------------------------------------
(* docs/postgres_store_swap.md: crash exposure is "at most the debounce    *)
(* window plus any unflushed retries": with no timer armed and no save     *)
(* running, a file-mode store is on disk.                                  *)
QuietFileIsCurrent ==
  phase = "up" /\ ~saveTimer /\ saver.phase = "idle" /\ unreported = {} =>
    file.rows = conversations

=============================================================================
