------------------------ MODULE ConversationStoreProofs ------------------------
(* Theorems about ConversationStore for every set of ids, every bound and  *)
(* every backend.                                                          *)
EXTENDS ConversationStore, FiniteSetTheorems, TLAPS

(* The values the actions build, typed once. *)
LEMMA AbsentType == Absent \in Versions
  BY StoreAssumption DEF Absent, Versions

LEMMA IdleType ==
  /\ NoRows \in Rows
  /\ IdleSaver \in Savers
  /\ IdleJob \in Jobs
<1>1. NoRows \in Rows
  BY AbsentType DEF NoRows, Rows
<1> QED
  BY <1>1 DEF IdleSaver, Savers, IdleJob, Jobs

LEMMA NextVersion ==
  ASSUME TypeOK, clock < MaxVersion
  PROVE  clock + 1 \in Versions
  BY StoreAssumption DEF TypeOK, Versions

LEMMA RowsUpdate ==
  ASSUME NEW rows \in Rows, NEW id \in Ids, NEW v \in Versions
  PROVE  [rows EXCEPT ![id] = v] \in Rows
  BY DEF Rows

(* The two starts that a persist step is made of keep the types. *)
LEMMA StartFlushType ==
  ASSUME TypeOK, StartFlush
  PROVE  /\ job' \in Jobs /\ retryQueued' \in BOOLEAN /\ full' \in BOOLEAN
         /\ dirty' \subseteq Ids /\ removed' \subseteq Ids
<1>1. CapturedRows \in Rows
  BY AbsentType DEF TypeOK, CapturedRows, Rows
<1>2. CASE job.active
  BY <1>2 DEF TypeOK, StartFlush, trackVars
<1>3. CASE ~job.active
  <2>1. job' = [active |-> TRUE, full |-> full, dirty |-> dirty,
                removed |-> removed, rows |-> CapturedRows, todos |-> todos]
    BY <1>3 DEF StartFlush
  <2>2. job' \in Jobs
    BY <1>1, <2>1 DEF TypeOK, Jobs
  <2> QED
    BY <1>3, <2>2 DEF TypeOK, StartFlush
<1> QED
  BY <1>2, <1>3

LEMMA StartSaveType ==
  ASSUME TypeOK, StartSave
  PROVE  saver' \in Savers
<1>1. [IdleSaver EXCEPT !.phase = "mkdir"] \in Savers
  BY IdleType DEF Savers
<1> QED
  BY <1>1 DEF TypeOK, StartSave

LEMMA EndSaveType ==
  ASSUME TypeOK, EndSave
  PROVE  /\ saver' \in Savers
         /\ job' \in Jobs /\ retryQueued' \in BOOLEAN /\ full' \in BOOLEAN
         /\ dirty' \subseteq Ids /\ removed' \subseteq Ids
  BY IdleType, StartFlushType DEF TypeOK, EndSave, jobVars, trackVars

LEMMA PersistStoreType ==
  ASSUME TypeOK, PersistStore
  PROVE  /\ saver' \in Savers
         /\ job' \in Jobs /\ retryQueued' \in BOOLEAN /\ full' \in BOOLEAN
         /\ dirty' \subseteq Ids /\ removed' \subseteq Ids
<1>1. CASE Backend = "file"
  BY <1>1, StartSaveType DEF TypeOK, PersistStore, jobVars, trackVars
<1>2. CASE Backend = "dual_write"
  BY <1>2, StartSaveType, StartFlushType
     DEF TypeOK, PersistStore, jobVars, trackVars
<1>3. CASE Backend = "postgres"
  BY <1>3, StartSaveType, StartFlushType DEF TypeOK, PersistStore
<1> QED
  BY <1>1, <1>2, <1>3, StoreAssumption

LEMMA MutateInPlaceType ==
  ASSUME TypeOK, NEW id \in Ids, MutateInPlace(id)
  PROVE  conversations' \in Rows /\ clock' \in Versions /\ saver' \in Savers
<1>1. clock + 1 \in Versions
  BY NextVersion DEF MutateInPlace
<1>2. saver \in Savers /\ [saver.rows EXCEPT ![id] = clock + 1] \in Rows
  BY <1>1, RowsUpdate DEF TypeOK, Savers
<1>3. [saver EXCEPT !.rows[id] = clock + 1] \in Savers
  BY <1>2 DEF Savers
<1> QED
  BY <1>1, <1>2, <1>3, RowsUpdate DEF TypeOK, MutateInPlace

LEMMA AppliedType ==
  ASSUME TypeOK
  PROVE  Applied \in Rows
<1>1. pgRows \in Rows /\ job.rows \in Rows
  BY DEF TypeOK, Jobs
<1> QED
  BY <1>1, AbsentType DEF Applied, Rows

LEMMA JobParts ==
  ASSUME TypeOK
  PROVE  /\ job.active \in BOOLEAN /\ job.full \in BOOLEAN
         /\ job.dirty \subseteq Ids /\ job.removed \subseteq Ids
         /\ job.rows \in Rows /\ job.todos \subseteq Ids
  BY DEF TypeOK, Jobs

LEMMA WrittenType ==
  ASSUME TypeOK
  PROVE  Written \in Files
  BY DEF TypeOK, Written, Savers, Files

LEMMA HydrateType ==
  ASSUME TypeOK, NEW rows \in Rows, NEW opened \in SUBSET Ids,
         Hydrate(rows, opened)
  PROVE  /\ phase' = "up" /\ conversations' \in Rows /\ clock' \in Versions
         /\ todos' \subseteq Ids /\ unreported' \subseteq Ids
         /\ full' \in BOOLEAN /\ saveTimer' \in BOOLEAN
<1>1. PICK stamped \in SUBSET Present(rows) :
        IF stamped = {}
          THEN /\ conversations' = rows
               /\ UNCHANGED <<clock, unreported, full, saveTimer>>
          ELSE /\ clock < MaxVersion
               /\ clock' = clock + 1
               /\ conversations' =
                    [i \in Ids |-> IF i \in stamped THEN clock + 1 ELSE rows[i]]
               /\ full' = TRUE
               /\ saveTimer' = TRUE
               /\ unreported' = {}
  BY DEF Hydrate
<1>2. CASE stamped = {}
  BY <1>1, <1>2 DEF TypeOK, Hydrate
<1>3. CASE stamped # {}
  <2>1. clock + 1 \in Versions
    BY <1>1, <1>3, NextVersion
  <2> QED
    BY <1>1, <1>3, <2>1 DEF TypeOK, Hydrate, Rows
<1> QED
  BY <1>2, <1>3

LEMMA TypeStep ==
  ASSUME TypeOK, [Next]_vars
  PROVE  TypeOK'
<1> USE DEF memVars, trackVars, timerVars, jobVars, pgVars, ScheduleTracked,
            ScheduleUntracked
<1>1. ASSUME NEW id \in SlowIds, TouchInPlace(id) PROVE TypeOK'
  BY <1>1, StoreAssumption, MutateInPlaceType DEF TypeOK, TouchInPlace
<1>2. ASSUME NEW id \in TodoIds, AddTodo(id) PROVE TypeOK'
  BY <1>2, StoreAssumption DEF TypeOK, AddTodo
<1>3. ASSUME NEW id \in Ids, SaveConversation(id) PROVE TypeOK'
  BY <1>3 DEF TypeOK, SaveConversation
<1>4. ASSUME NEW id \in Ids, CreateConversation(id) PROVE TypeOK'
  BY <1>4, NextVersion, RowsUpdate DEF TypeOK, CreateConversation
<1>5. ASSUME NEW id \in Ids, UpdateUntracked(id) PROVE TypeOK'
  BY <1>5, MutateInPlaceType DEF TypeOK, UpdateUntracked
<1>6. ASSUME NEW id \in Ids, DeleteConversation(id) PROVE TypeOK'
  BY <1>6, AbsentType, RowsUpdate DEF TypeOK, DeleteConversation
<1>7. CASE SaveTimerFires
  BY <1>7, PersistStoreType DEF TypeOK, SaveTimerFires
<1>8. CASE Flush
  BY <1>8, PersistStoreType DEF TypeOK, Flush
<1>9. CASE RetryTimerFires
  BY <1>9, PersistStoreType DEF TypeOK, RetryTimerFires
<1>10. CASE Sweep
  BY <1>10 DEF TypeOK, Sweep
<1>11. CASE SaveCapture
  BY <1>11 DEF TypeOK, SaveCapture, Savers
<1>12. CASE SaveInspect
  <2>1. [saver EXCEPT !.phase = "write", !.todos = todos] \in Savers
    BY DEF TypeOK, Savers
  <2> QED
    BY <1>12, <2>1, EndSaveType DEF TypeOK, SaveInspect
<1>13. CASE SaveFails
  BY <1>13, EndSaveType DEF TypeOK, SaveFails
<1>14. CASE SaveRename
  BY <1>14, EndSaveType, WrittenType DEF TypeOK, SaveRename
<1>15. CASE FlushCommits
  BY <1>15, StartSaveType, AppliedType, JobParts, IdleType
     DEF TypeOK, FlushCommits, EndFlush
<1>16. CASE FlushFails
  BY <1>16, StartSaveType, AppliedType, JobParts, IdleType
     DEF TypeOK, FlushFails, EndFlush, Restore, SaveAfterFailure
<1>17. CASE OutageAges
  BY <1>17 DEF TypeOK, OutageAges
<1>18. CASE Crash
  <2>1. crashes' \in 0..MaxCrashes
    BY <1>18, StoreAssumption DEF TypeOK, Crash
  <2>2. pgRows' \in Rows /\ pgTodos' \subseteq Ids /\ file' \in Files
    BY <1>18, AppliedType, WrittenType, JobParts DEF TypeOK, Crash
  <2>3. clock' \in Versions
    BY <1>18 DEF TypeOK, Crash
  <2> QED
    BY <1>18, <2>1, <2>2, <2>3, IdleType DEF TypeOK, Crash, Restart
<1>19. CASE LoadFromPostgres
  BY <1>19, HydrateType DEF TypeOK, LoadFromPostgres, Hydrate
<1>20. CASE PostgresUnreachable
  BY <1>20 DEF TypeOK, PostgresUnreachable
<1>21. CASE LoadFromDisk
  <2>1. file.rows \in Rows /\ file.todos \subseteq Ids
    BY DEF TypeOK, Files
  <2> QED
    BY <1>21, <2>1, HydrateType DEF TypeOK, LoadFromDisk, Hydrate
<1>22. CASE CreateStoreFile
  <2>1. [there |-> TRUE, rows |-> conversations, todos |-> todos] \in Files
    BY DEF TypeOK, Files
  <2> QED
    BY <1>22, <2>1, HydrateType DEF TypeOK, CreateStoreFile, Hydrate
<1>23. CASE LoadFails
  BY <1>23, HydrateType DEF TypeOK, LoadFails, Hydrate
<1>24. CASE UNCHANGED vars
  BY <1>24 DEF TypeOK, vars
<1> QED
  BY <1>1, <1>2, <1>3, <1>4, <1>5, <1>6, <1>7, <1>8, <1>9, <1>10, <1>11, <1>12,
     <1>13, <1>14, <1>15, <1>16, <1>17, <1>18, <1>19, <1>20, <1>21, <1>22,
     <1>23, <1>24
     DEF Next, Mutate, Persist, Boot

LEMMA TypeInit == Init => TypeOK
<1> SUFFICES ASSUME Init PROVE TypeOK
  OBVIOUS
<1>1. PICK seeded \in SUBSET Ids :
        LET rows == [i \in Ids |-> IF i \in seeded THEN clock ELSE Absent]
        IN  /\ file = [there |-> clock = 1, rows |-> rows, todos |-> {}]
            /\ pgRows = IF Backend = "file" THEN NoRows ELSE rows
  BY DEF Init
<1>2. clock \in Versions
  BY DEF Init
<1>3. [i \in Ids |-> IF i \in seeded THEN clock ELSE Absent] \in Rows
  BY <1>2, AbsentType DEF Rows
<1>4. file \in Files /\ pgRows \in Rows
  BY <1>1, <1>3, IdleType DEF Files
<1> QED
  <2>1. crashes \in 0..MaxCrashes
    BY StoreAssumption DEF Init
  <2> QED
    BY <1>2, <1>4, <2>1, IdleType DEF Init, Fresh, TypeOK

(* Every variable keeps its type, in every reachable state. *)
THEOREM TypeCorrect == Spec => []TypeOK
  BY TypeInit, TypeStep, PTL DEF Spec

-----------------------------------------------------------------------------
(* The dirty tracking.  Flush steps leave memory and Postgres alone: what  *)
(* StartFlush takes out of the sets is in the transaction.                 *)
Tracking == RowsTracked /\ TodosTracked /\ JobRowsRestorable /\ BootIsQuiet

LEMMA StartFlushTracks ==
  ASSUME TypeOK, Tracking, phase = "up", StartFlush,
         UNCHANGED <<phase, conversations, todos, unreported, pgVars>>
  PROVE  Tracking'
<1> USE DEF Tracking, Absent
<1>1. CASE job.active
  <2>1. UNCHANGED <<job, dirty, removed, full>>
    BY <1>1 DEF StartFlush, trackVars
  <2> QED
    BY <2>1 DEF RowsTracked, TodosTracked, JobRowsRestorable, BootIsQuiet,
                Covered, InFlight, Settled, pgVars
<1>2. CASE ~job.active
  <2>1. /\ job'.active /\ job'.full = full /\ job'.dirty = dirty
        /\ job'.rows = CapturedRows /\ job'.todos = todos
        /\ ~full' /\ dirty' = {}
    BY <1>2 DEF StartFlush
  <2>2. \A i \in Ids : job'.rows[i] = IF full \/ i \in dirty
                                        THEN conversations[i] ELSE Absent
    BY <2>1 DEF CapturedRows
  <2>3. RowsTracked'
    BY <1>2, <2>1, <2>2
       DEF RowsTracked, Covered, InFlight, Settled, pgVars
  <2>4. TodosTracked'
    BY <1>2, <2>1 DEF TodosTracked, pgVars
  <2>5. JobRowsRestorable'
    BY <2>1, <2>2 DEF JobRowsRestorable
  <2> QED
    BY <2>3, <2>4, <2>5 DEF BootIsQuiet
<1> QED
  BY <1>1, <1>2

(* A step that touches neither the sets nor the transaction. *)
LEMMA QuietTracks ==
  ASSUME Tracking, phase = "up" \/ (phase' # "up" => saver' = saver),
         UNCHANGED <<phase, conversations, todos, unreported, trackVars,
                     job, pgVars>>
  PROVE  Tracking'
  BY DEF Tracking, RowsTracked, TodosTracked, JobRowsRestorable, BootIsQuiet,
         Covered, InFlight, Settled, trackVars, pgVars

LEMMA EndSaveTracks ==
  ASSUME TypeOK, Tracking, phase = "up", EndSave,
         UNCHANGED <<phase, conversations, todos, unreported, pgVars>>
  PROVE  Tracking'
  BY StartFlushTracks, QuietTracks DEF EndSave, jobVars

LEMMA PersistStoreTracks ==
  ASSUME TypeOK, Tracking, phase = "up", PersistStore,
         UNCHANGED <<phase, conversations, todos, unreported, pgVars>>
  PROVE  Tracking'
<1>1. CASE Backend = "file"
  BY <1>1, QuietTracks DEF PersistStore, jobVars
<1>2. CASE Backend = "dual_write"
  BY <1>2, QuietTracks, StartFlushTracks DEF PersistStore, jobVars
<1>3. CASE Backend = "postgres"
  BY <1>3, StartFlushTracks DEF PersistStore
<1> QED
  BY <1>1, <1>2, <1>3, StoreAssumption

(* Loading replaces the Map, and the next flush writes all of it. *)
LEMMA HydrateTracks ==
  ASSUME TypeOK, Tracking, phase # "up", NEW rows, NEW opened,
         Hydrate(rows, opened)
  PROVE  Tracking'
<1>1. full' /\ job' = job /\ phase' = "up"
  BY DEF Tracking, BootIsQuiet, Hydrate, jobVars
<1> QED
  BY <1>1 DEF Tracking, RowsTracked, TodosTracked, JobRowsRestorable,
              BootIsQuiet, Covered

LEMMA TrackingStep ==
  ASSUME TypeOK, Tracking, [Next]_vars
  PROVE  Tracking'
<1> USE DEF Tracking, Absent
<1>1. ASSUME NEW id \in Ids, TouchInPlace(id) PROVE Tracking'
  <2>1. UNCHANGED <<phase, todos, dirty, full, job, pgVars>>
    BY <1>1 DEF TouchInPlace, trackVars, jobVars
  <2>2. \A i \in Ids : i # id => conversations'[i] = conversations[i]
    BY <1>1 DEF TypeOK, Rows, TouchInPlace, MutateInPlace
  <2>3. unreported' = unreported \cup {id}
    BY <1>1 DEF TouchInPlace
  <2>4. saver.phase = "idle" => saver'.phase = "idle"
    BY <1>1 DEF TouchInPlace, MutateInPlace
  <2> QED
    BY <2>1, <2>2, <2>3, <2>4
       DEF RowsTracked, TodosTracked, JobRowsRestorable, BootIsQuiet, Covered,
           InFlight, Settled, pgVars
<1>2. ASSUME NEW id \in Ids, AddTodo(id) PROVE Tracking'
  BY <1>2 DEF AddTodo, ScheduleUntracked, RowsTracked, TodosTracked,
              JobRowsRestorable, BootIsQuiet, Covered, jobVars
<1>3. ASSUME NEW id \in Ids, SaveConversation(id) PROVE Tracking'
  BY <1>3 DEF SaveConversation, ScheduleTracked, RowsTracked, TodosTracked,
              JobRowsRestorable, BootIsQuiet, Covered, InFlight, Settled,
              jobVars, pgVars
<1>4. ASSUME NEW id \in Ids, CreateConversation(id) PROVE Tracking'
  <2>1. \A i \in Ids : i # id => conversations'[i] = conversations[i]
    BY <1>4 DEF TypeOK, Rows, CreateConversation
  <2> QED
    BY <1>4, <2>1
       DEF CreateConversation, ScheduleTracked, RowsTracked, TodosTracked,
           JobRowsRestorable, BootIsQuiet, Covered, InFlight, Settled,
           jobVars, pgVars
<1>5. ASSUME NEW id \in Ids, UpdateUntracked(id) PROVE Tracking'
  <2>1. saver.phase = "idle" => saver'.phase = "idle"
    BY <1>5 DEF UpdateUntracked, MutateInPlace
  <2> QED
    BY <1>5, <2>1
       DEF UpdateUntracked, ScheduleUntracked, RowsTracked, TodosTracked,
           JobRowsRestorable, BootIsQuiet, Covered, jobVars
<1>6. ASSUME NEW id \in Ids, DeleteConversation(id) PROVE Tracking'
  BY <1>6 DEF DeleteConversation, RowsTracked, TodosTracked,
              JobRowsRestorable, BootIsQuiet, Covered, jobVars
<1>7. CASE SaveTimerFires
  BY <1>7, PersistStoreTracks DEF SaveTimerFires, memVars
<1>8. CASE Flush
  BY <1>8, PersistStoreTracks DEF Flush, memVars
<1>9. CASE RetryTimerFires
  BY <1>9, PersistStoreTracks DEF RetryTimerFires, memVars
<1>10. CASE Sweep
  BY <1>10 DEF Sweep, ScheduleUntracked, RowsTracked, TodosTracked,
               JobRowsRestorable, BootIsQuiet, Covered, jobVars
<1>11. CASE SaveCapture \/ SaveInspect \/ SaveFails \/ SaveRename
  <2>1. phase = "up"
    BY <1>11 DEF BootIsQuiet, SaveCapture, SaveInspect, SaveFails, SaveRename
  <2> QED
    BY <1>11, <2>1, EndSaveTracks, QuietTracks
       DEF SaveCapture, SaveInspect, SaveFails, SaveRename, memVars, jobVars
<1>12. CASE FlushCommits
  <2>1. phase = "up" /\ phase' = "up" /\ ~job'.active
    BY <1>12 DEF BootIsQuiet, FlushCommits, EndFlush, IdleJob
  <2>2. \A i \in Ids : job'.rows[i] = Absent
    BY <1>12 DEF FlushCommits, EndFlush, IdleJob, NoRows
  <2>3. \A i \in Ids : \/ job.rows[i] = Absent /\ pgRows'[i] \in {pgRows[i], Absent}
                       \/ pgRows'[i] \in {job.rows[i], Absent}
    BY <1>12 DEF FlushCommits, Applied
  <2>4. UNCHANGED <<conversations, todos, unreported, dirty, full>>
    BY <1>12 DEF FlushCommits, memVars, trackVars
  <2>5. RowsTracked'
    BY <2>2, <2>3, <2>4 DEF RowsTracked, Covered, InFlight, Settled
  <2>6. TodosTracked'
    BY <1>12, <2>1, <2>4 DEF FlushCommits, TodosTracked
  <2> QED
    BY <2>1, <2>2, <2>5, <2>6 DEF JobRowsRestorable, BootIsQuiet
<1>13. CASE FlushFails
  <2>1. phase = "up" /\ phase' = "up" /\ ~job'.active
    BY <1>13 DEF BootIsQuiet, FlushFails, EndFlush, IdleJob
  <2>2. \A i \in Ids : job'.rows[i] = Absent
    BY <1>13 DEF FlushFails, EndFlush, IdleJob, NoRows
  <2>3. \A i \in Ids : job.rows[i] = Absent => pgRows'[i] \in {pgRows[i], Absent}
    BY <1>13 DEF FlushFails, Applied, pgVars
  <2>4. /\ UNCHANGED <<conversations, todos, unreported>>
        /\ full' = (full \/ job.full) /\ dirty' = dirty \cup job.dirty
    BY <1>13 DEF FlushFails, Restore, memVars
  <2>5. RowsTracked'
    BY <2>2, <2>3, <2>4
       DEF RowsTracked, JobRowsRestorable, Covered, InFlight, Settled
  <2>6. TodosTracked'
    <3>1. job.active /\ pgTodos' \in {pgTodos, job.todos}
      BY <1>13 DEF FlushFails, pgVars
    <3>2. CASE full \/ job.full
      BY <2>4, <3>2 DEF TodosTracked
    <3>3. CASE ~full /\ ~job.full
      BY <2>1, <2>4, <3>1, <3>3 DEF TodosTracked
    <3> QED
      BY <3>2, <3>3
  <2> QED
    BY <2>1, <2>2, <2>5, <2>6 DEF JobRowsRestorable, BootIsQuiet
<1>14. CASE OutageAges
  BY <1>14, QuietTracks DEF OutageAges, memVars, jobVars
<1>15. CASE Crash
  BY <1>15 DEF Crash, Restart, RowsTracked, TodosTracked, JobRowsRestorable,
               BootIsQuiet, Covered, IdleJob, IdleSaver, NoRows
<1>16. CASE Boot
  <2>1. CASE PostgresUnreachable
    BY <2>1 DEF PostgresUnreachable, RowsTracked, TodosTracked,
                JobRowsRestorable, BootIsQuiet, Covered, memVars, trackVars,
                jobVars
  <2>2. CASE LoadFromPostgres
    BY <2>2, HydrateTracks DEF LoadFromPostgres
  <2>3. ReadingFile => phase # "up"
    BY DEF ReadingFile
  <2>4. CASE LoadFromDisk \/ CreateStoreFile \/ LoadFails
    BY <2>3, <2>4, HydrateTracks DEF LoadFromDisk, CreateStoreFile, LoadFails
  <2> QED
    BY <1>16, <2>1, <2>2, <2>4 DEF Boot
<1>17. CASE UNCHANGED vars
  BY <1>17, QuietTracks DEF vars, memVars, trackVars, jobVars
<1> QED
  BY <1>1, <1>2, <1>3, <1>4, <1>5, <1>6, <1>7, <1>8, <1>9, <1>10, <1>11, <1>12,
     <1>13, <1>14, <1>15, <1>16, <1>17, StoreAssumption
     DEF Next, Mutate, Persist

LEMMA TrackingInit == Init => Tracking
  BY DEF Init, Fresh, Tracking, RowsTracked, TodosTracked, JobRowsRestorable,
         BootIsQuiet, Covered, IdleJob, IdleSaver, NoRows

THEOREM IndInvCorrect == Spec => []IndInv
<1>1. Init => TypeOK /\ Tracking
  BY TypeInit, TrackingInit
<1>2. TypeOK /\ Tracking /\ [Next]_vars => (TypeOK /\ Tracking)'
  BY TypeStep, TrackingStep
<1>3. TypeOK /\ Tracking => IndInv
  BY DEF Tracking, IndInv
<1> QED
  BY <1>1, <1>2, <1>3, PTL DEF Spec

(* Whatever the backend, the interleaving, the outages and the crashes,    *)
(* the capture-and-reset of the flush and its restore on failure lose no   *)
(* change: a conversation that no flush will write and none is writing has *)
(* its present content in Postgres, or no row.                             *)
THEOREM CoveredOrPersistedCorrect == Spec => []CoveredOrPersisted
<1>1. IndInv => CoveredOrPersisted
  BY DEF IndInv, RowsTracked, CoveredOrPersisted, Present, Settled
<1> QED
  BY <1>1, IndInvCorrect, PTL

(* The todos document is never left behind the array. *)
THEOREM TodosCoveredCorrect == Spec => []TodosCovered
<1>1. IndInv => TodosCovered
  BY DEF IndInv, TodosTracked, TodosCovered
<1> QED
  BY <1>1, IndInvCorrect, PTL

-----------------------------------------------------------------------------
(* No lost wake-up.  A flush that starts either takes everything or leaves *)
(* its request with the transaction that is running.                       *)
LEMMA StartFlushPending ==
  ASSUME StartFlush
  PROVE  (dirty' = {} /\ removed' = {}) \/ (job'.active /\ retryQueued')
  BY DEF StartFlush

LEMMA EndSavePending ==
  ASSUME EndSave, TrackedIsPending, UNCHANGED <<saveTimer, retryTimer>>
  PROVE  TrackedIsPending'
<1>1. CASE Backend = "dual_write"
  BY <1>1, StartFlushPending DEF EndSave, TrackedIsPending
<1>2. CASE Backend # "dual_write"
  BY <1>2 DEF EndSave, TrackedIsPending, jobVars, trackVars
<1> QED
  BY <1>1, <1>2

(* Whatever timer called persistStore, it is not needed any more. *)
LEMMA PersistStorePending ==
  ASSUME PersistStore
  PROVE  TrackedIsPending'
<1>1. CASE Backend = "file"
  BY <1>1 DEF TrackedIsPending
<1>2. CASE Backend = "dual_write" /\ saver.phase = "idle"
  <2>1. saver'.phase # "idle"
    BY <1>2 DEF PersistStore, StartSave, IdleSaver
  <2> QED
    BY <1>2, <2>1 DEF TrackedIsPending
<1>3. CASE Backend = "dual_write" /\ saver.phase # "idle"
  BY <1>3, StartFlushPending DEF PersistStore, TrackedIsPending
<1>4. CASE Backend = "postgres"
  BY <1>4, StartFlushPending DEF PersistStore, TrackedIsPending
<1> QED
  BY <1>1, <1>2, <1>3, <1>4, StoreAssumption

LEMMA PendingStep ==
  ASSUME TypeOK, TrackedIsPending, [Next]_vars
  PROVE  TrackedIsPending'
<1>1. CASE Mutate
  <2>1. ASSUME NEW id, MutateInPlace(id), saver.phase # "idle"
        PROVE  saver'.phase # "idle"
    BY <2>1 DEF MutateInPlace
  <2>2. ASSUME NEW id, TouchInPlace(id) PROVE TrackedIsPending'
    BY <2>1, <2>2 DEF TouchInPlace, TrackedIsPending, trackVars, timerVars, jobVars
  <2>3. ASSUME NEW id, \/ AddTodo(id) \/ SaveConversation(id)
                       \/ CreateConversation(id) \/ UpdateUntracked(id)
                       \/ DeleteConversation(id)
        PROVE  saveTimer'
    BY <2>3 DEF AddTodo, SaveConversation, CreateConversation, UpdateUntracked,
                DeleteConversation, ScheduleTracked, ScheduleUntracked
  <2> QED
    BY <1>1, <2>2, <2>3 DEF Mutate, TrackedIsPending
<1>2. CASE SaveTimerFires \/ Flush \/ RetryTimerFires
  BY <1>2, PersistStorePending DEF SaveTimerFires, Flush, RetryTimerFires
<1>3. CASE Sweep
  BY <1>3 DEF Sweep, ScheduleUntracked, TrackedIsPending
<1>4. CASE SaveCapture
  BY <1>4 DEF SaveCapture, TrackedIsPending, trackVars, timerVars, jobVars
<1>5. CASE SaveInspect
  <2>1. CASE EndSave
    BY <1>5, <2>1, EndSavePending DEF SaveInspect, timerVars
  <2>2. CASE ~EndSave
    <3>1. saver' = [saver EXCEPT !.phase = "write", !.todos = todos]
      BY <1>5, <2>2 DEF SaveInspect
    <3>2. saver'.phase = "write"
      BY <3>1 DEF TypeOK, Savers
    <3> QED
      BY <1>5, <2>2, <3>2
         DEF SaveInspect, TrackedIsPending, timerVars, trackVars, jobVars
  <2> QED
    BY <2>1, <2>2
<1>6. CASE SaveFails \/ SaveRename
  BY <1>6, EndSavePending DEF SaveFails, SaveRename, timerVars
<1>7. CASE FlushCommits
  <2>1. retryTimer \/ retryQueued => retryTimer'
    BY <1>7 DEF FlushCommits, EndFlush
  <2>2. saver.phase # "idle" => saver'.phase # "idle"
    BY <1>7 DEF FlushCommits, StartSave
  <2>3. UNCHANGED <<dirty, removed, saveTimer>>
    BY <1>7 DEF FlushCommits, trackVars
  <2> QED
    BY <2>1, <2>2, <2>3 DEF TrackedIsPending
<1>8. CASE FlushFails
  BY <1>8 DEF FlushFails, EndFlush, TrackedIsPending
<1>9. CASE OutageAges
  BY <1>9 DEF OutageAges, TrackedIsPending, trackVars, timerVars, jobVars
<1>10. CASE Crash
  BY <1>10 DEF Crash, Restart, TrackedIsPending
<1>11. ASSUME NEW rows, NEW opened, Hydrate(rows, opened) PROVE TrackedIsPending'
  BY <1>11 DEF Hydrate, TrackedIsPending, jobVars
<1>12. CASE Boot
  <2>1. CASE PostgresUnreachable
    BY <2>1 DEF PostgresUnreachable, TrackedIsPending, trackVars, timerVars, jobVars
  <2> QED
    BY <1>11, <1>12, <2>1
       DEF Boot, LoadFromPostgres, LoadFromDisk, CreateStoreFile, LoadFails
<1>13. CASE UNCHANGED vars
  BY <1>13 DEF vars, TrackedIsPending, trackVars, timerVars, jobVars
<1> QED
  BY <1>1, <1>2, <1>3, <1>4, <1>5, <1>6, <1>7, <1>8, <1>9, <1>10, <1>12, <1>13
     DEF Next, Persist

(* As long as a row is marked dirty or removed, something will flush. *)
THEOREM TrackedIsPendingCorrect == Spec => []TrackedIsPending
<1>1. Init => TrackedIsPending
  BY DEF Init, Fresh, TrackedIsPending
<1> QED
  BY <1>1, PendingStep, TypeCorrect, PTL DEF Spec

-----------------------------------------------------------------------------
(* The shrink guard.  What a save decided from the file it read still      *)
(* holds when it renames: the file has not changed, nothing else writes it *)
(* while isSaving is held, and the boot that creates it is over.           *)
WriteIsSafe ==
  saver.phase = "write" =>
    ~DangerousShrink(FileCount, Cardinality(Present(saver.rows)))

LEMMA CountType ==
  ASSUME NEW rows
  PROVE  Cardinality(Present(rows)) \in Nat
<1>1. IsFiniteSet(Present(rows))
  BY StoreAssumption, FS_Subset DEF Present
<1> QED
  BY <1>1, FS_CardinalityType

LEMMA FileCountType == FileCount \in Nat
  BY CountType DEF FileCount

LEMMA NotDangerous ==
  ASSUME NEW current \in Nat, NEW next \in Nat, current >= MinGuard,
         ~DangerousShrink(current, next)
  PROVE  next >= current \div 2
<1>1. current >= current \div 2
  OBVIOUS
<1>2. MinGuard \in Nat
  BY StoreAssumption
<1> QED
  BY <1>1, <1>2 DEF DangerousShrink

(* A start never makes a writer, and an end leaves none. *)
LEMMA StartSaveWrites ==
  ASSUME StartSave
  PROVE  saver' = saver \/ saver'.phase # "write"
  BY DEF StartSave, IdleSaver

LEMMA EndSaveWrites ==
  ASSUME EndSave
  PROVE  saver'.phase # "write"
  BY DEF EndSave, IdleSaver

LEMMA PersistStoreWrites ==
  ASSUME PersistStore
  PROVE  saver' = saver \/ saver'.phase # "write"
<1>1. CASE Backend = "file"
  BY <1>1, StartSaveWrites DEF PersistStore
<1>2. CASE Backend = "dual_write"
  BY <1>2, StartSaveWrites DEF PersistStore
<1>3. CASE Backend = "postgres"
  BY <1>3, StartSaveWrites DEF PersistStore
<1> QED
  BY <1>1, <1>2, <1>3, StoreAssumption

LEMMA MutateInPlaceWrites ==
  ASSUME TypeOK, NEW id \in Ids, MutateInPlace(id)
  PROVE  saver' = saver \/ saver'.phase # "write"
<1>1. saver.phase = "inspect" =>
        [saver EXCEPT !.rows[id] = clock + 1].phase = "inspect"
  BY DEF TypeOK, Savers
<1> QED
  BY <1>1 DEF MutateInPlace

LEMMA WriteStep == IndInv /\ WriteIsSafe /\ [Next]_vars => WriteIsSafe'
<1> SUFFICES ASSUME IndInv, WriteIsSafe, [Next]_vars
             PROVE  WriteIsSafe'
  OBVIOUS
<1> USE DEF IndInv
<1>1. ASSUME file' = file, saver' = saver \/ saver'.phase # "write"
      PROVE  WriteIsSafe'
  BY <1>1 DEF WriteIsSafe, FileCount, DangerousShrink
<1>2. CASE Mutate
  <2>1. file' = file
    BY <1>2 DEF Mutate, TouchInPlace, AddTodo, SaveConversation,
       CreateConversation, UpdateUntracked, DeleteConversation
  <2>2. saver' = saver \/ saver'.phase # "write"
    <3>1. CASE \E id \in SlowIds : TouchInPlace(id)
      BY <3>1, MutateInPlaceWrites, StoreAssumption DEF TouchInPlace
    <3>2. CASE \E id \in Ids : UpdateUntracked(id)
      BY <3>2, MutateInPlaceWrites DEF UpdateUntracked
    <3> QED
      BY <1>2, <3>1, <3>2 DEF Mutate, AddTodo, SaveConversation,
         CreateConversation, DeleteConversation
  <2> QED
    BY <1>1, <2>1, <2>2
<1>3. CASE SaveTimerFires \/ Flush \/ RetryTimerFires
  BY <1>1, <1>3, PersistStoreWrites DEF SaveTimerFires, Flush, RetryTimerFires
<1>4. CASE Sweep \/ OutageAges
  BY <1>1, <1>4 DEF Sweep, OutageAges
<1>5. CASE SaveCapture
  BY <1>5 DEF SaveCapture, WriteIsSafe
<1>6. CASE SaveInspect
  <2>1. CASE DangerousShrink(FileCount, Cardinality(Present(saver.rows)))
    BY <1>1, <1>6, <2>1, EndSaveWrites DEF SaveInspect
  <2>2. CASE ~DangerousShrink(FileCount, Cardinality(Present(saver.rows)))
    <3>1. saver' = [saver EXCEPT !.phase = "write", !.todos = todos]
      BY <1>6, <2>2 DEF SaveInspect
    <3>2. saver'.rows = saver.rows
      BY <3>1 DEF TypeOK, Savers
    <3>3. FileCount' = FileCount
      BY <1>6 DEF SaveInspect, FileCount
    <3> QED
      BY <2>2, <3>2, <3>3 DEF WriteIsSafe, DangerousShrink
  <2> QED
    BY <2>1, <2>2
<1>7. CASE SaveFails \/ SaveRename
  BY <1>7, EndSaveWrites DEF SaveFails, SaveRename, WriteIsSafe
<1>8. CASE FlushCommits
  BY <1>1, <1>8, StartSaveWrites DEF FlushCommits
<1>9. CASE FlushFails
  BY <1>1, <1>9, StartSaveWrites DEF FlushFails, SaveAfterFailure
<1>10. CASE Crash
  BY <1>10 DEF Crash, Restart, IdleSaver, WriteIsSafe
<1>11. CASE Boot
  <2>1. CASE PostgresUnreachable
    BY <1>1, <2>1 DEF PostgresUnreachable
  <2>2. CASE ~PostgresUnreachable
    <3>1. saver' = saver
      BY <1>11, <2>2 DEF Boot, LoadFromPostgres, LoadFromDisk,
         CreateStoreFile, LoadFails, Hydrate
    <3>2. phase # "up"
      BY <1>11, <2>2 DEF Boot, LoadFromPostgres, LoadFromDisk,
         CreateStoreFile, LoadFails, ReadingFile
    <3>3. saver.phase = "idle"
      BY <3>2 DEF BootIsQuiet
    <3> QED
      BY <3>1, <3>3 DEF WriteIsSafe
  <2> QED
    BY <2>1, <2>2
<1>12. CASE UNCHANGED vars
  BY <1>1, <1>12 DEF vars
<1> QED
  BY <1>2, <1>3, <1>4, <1>5, <1>6, <1>7, <1>8, <1>9, <1>10, <1>11, <1>12
     DEF Next, Persist

(* Only three steps touch the file: the rename, the rename that a crash    *)
(* overtakes, and the creation of a file that was not there.               *)
LEMMA ShrinkStep ==
  IndInv /\ WriteIsSafe /\ [Next]_vars =>
    [FileCount >= MinGuard => FileCount' >= FileCount \div 2]_file
<1> SUFFICES ASSUME IndInv, WriteIsSafe, [Next]_vars, FileCount >= MinGuard,
                    file' # file
             PROVE  FileCount' >= FileCount \div 2
  OBVIOUS
<1>1. FileCount \in Nat /\ FileCount' \in Nat
  BY FileCountType, CountType DEF FileCount
<1>2. CASE saver.phase = "write" /\ file' = Written
  <2>1. FileCount' = Cardinality(Present(saver.rows))
    BY <1>2 DEF FileCount, Written
  <2> QED
    BY <1>1, <1>2, <2>1, NotDangerous DEF WriteIsSafe
<1>3. CASE ~file.there
  BY <1>1, <1>3 DEF FileCount
<1>4. CASE Mutate
  BY <1>4 DEF Mutate, TouchInPlace, AddTodo, SaveConversation,
     CreateConversation, UpdateUntracked, DeleteConversation
<1>5. CASE Persist
  BY <1>2, <1>5 DEF Persist, SaveTimerFires, Flush, RetryTimerFires, Sweep,
     SaveCapture, SaveInspect, SaveFails, SaveRename, FlushCommits,
     FlushFails, OutageAges
<1>6. CASE Crash
  BY <1>2, <1>6 DEF Crash
<1>7. CASE Boot
  BY <1>3, <1>7 DEF Boot, LoadFromPostgres, PostgresUnreachable,
     LoadFromDisk, CreateStoreFile, LoadFails
<1> QED
  BY <1>4, <1>5, <1>6, <1>7 DEF Next, vars

(* No single save takes a file of MinGuard conversations or more to less   *)
(* than half of them, whatever emptied the Map.                            *)
THEOREM NoDangerousShrinkCorrect == Spec => NoDangerousShrink
<1>1. Init => WriteIsSafe
  BY DEF Init, Fresh, IdleSaver, WriteIsSafe
<1> QED
  BY <1>1, WriteStep, ShrinkStep, IndInvCorrect, PTL
     DEF Spec, NoDangerousShrink
=============================================================================
