-------------------------- MODULE PortalRunnerProofs --------------------------
(***************************************************************************)
(* What drafts a claim twice, what keeps a retired computer out and what   *)
(* keeps the promise of a retry, for any computers, tasks and bounds.      *)
(* Links is about the requests of the runners; the other three invariants  *)
(* rest on it and not on one another.                                      *)
(***************************************************************************)
EXTENDS PortalRunner, TLAPS

USE PortalAssumption

(* The request a runner waits for is the one it sent.                      *)
Linked(runner, request) ==
  /\ runner.at \in {"off", "idle", "chose", "works"} => request.at = "idle"
  /\ runner.at \in {"chose", "starts", "works", "ends"} => runner.job \in Tasks
  /\ runner.at = "starts" => request.task = runner.job
  /\ request.task # Nobody => request.mark # "none"
  /\ request.mark = "login" => request.task \in Tasks

Links == \A c \in Computers : Linked(run[c], io[c])

Typed == TypeOK /\ Links

(* The rows: what is created was never created before, and what is created *)
(* while the rows are being read is not in the file.                       *)
RowsAgree ==
  \A t \in Tasks :
    /\ task[t] # Absent \/ saved[t] # Absent => t \in made
    /\ loading /\ task[t] # Absent => saved[t] = Absent

(* A draft of t is being made, or may be made without t being runnable.    *)
InHand(c, t) == run[c].job = t /\ run[c].at \in {"chose", "starts", "works"}
Holds(c, t) == left[c][t] > 0 \/ InHand(c, t)

(* No list will show t as a task that has not run.                         *)
HasRun(t) ==
  /\ t \in made
  /\ task[t].ran \/ task[t] = Absent
  /\ loading => saved[t].ran \/ saved[t] = Absent

OneDraft(t) ==
  /\ drafts[t] < 2
  /\ drafts[t] > 0 => \A c \in Computers : ~InHand(c, t)
  /\ \A c, d \in Computers : Holds(c, t) /\ Holds(d, t) => c = d
  /\ drafts[t] > 0 => HasRun(t)
  /\ \A c \in Computers :
       left[c][t] > 0 \/ (run[c].at = "works" /\ run[c].job = t) => HasRun(t)

DraftsExplained == RowsAgree /\ \A t \in Tasks : t \notin excused => OneDraft(t)

(* The tombstone stands, or the computer it names is rewriting it; who     *)
(* else is in the check has not opened the file.                           *)
TombstoneStands ==
  retired # Nobody =>
    /\ io[Manager].at = "idle"
    /\ \A c \in Computers : InCheck(c) =>
         /\ io[c].own /\ io[c].clean
         /\ io[c].text = Tombstone(retired) => IdOf(c) = retired
         /\ \/ io[c].text = Tombstone(retired)
            \/ io[c].at = "opens" /\ io[c].text.holder \notin {Nobody, retired}
    /\ \/ file = Tombstone(retired)
       \/ file = NoReg /\ \E c \in Computers : io[c].at = "writes"

ManagerWrites ==
  io[Manager].at \in {"opens", "writes"} => io[Manager].text = Tombstone(io[Manager].text.revoked)

RetirementHolds == TombstoneStands /\ ManagerWrites

(* Who was promised a retry has it in the queue, or the row is not         *)
(* blocked, neither in memory nor in the file.  A row that memory has      *)
(* trimmed may still be in the file, blocked.                              *)
PromiseHolds(t) ==
  promised[t] # Nobody =>
    /\ \/ left[promised[t]][t] > 0
       \/ task[t].status # "blocked" /\ saved[t].status # "blocked"
    /\ ~loading /\ task[t] # Absent /\ task[t].status # "blocked" => saved[t].status # "blocked"

(* Who is about to promise has it in the queue.                            *)
LoginsQueued == \A c \in Computers : io[c].mark = "login" => left[c][io[c].task] > 0

RetriesQueued == (\A t \in Tasks : PromiseHolds(t)) /\ LoginsQueued
-----------------------------------------------------------------------------
(* What the records are.                                                   *)
LEMMA RegistrationRecords ==
  /\ NoReg \in Registrations
  /\ NoReg.holder = Nobody /\ NoReg.revoked = Nobody /\ NoReg.fresh = FALSE
  /\ \A id \in Ids :
       /\ Claim(id) \in Registrations /\ Tombstone(id) \in Registrations
       /\ Claim(id).holder = id /\ id # Nobody
       /\ Tombstone(id).holder = Nobody /\ Tombstone(id).revoked = id
       /\ Tombstone(id).fresh = FALSE
BY DEF NoReg, Registrations, Claim, Tombstone, Ids

LEMMA IdsAreDistinct ==
  ASSUME name \in [Computers -> 0..MaxNames]
  PROVE  /\ \A c \in Computers : IdOf(c) \in Ids
         /\ \A c, d \in Computers : IdOf(c) = IdOf(d) => c = d
BY DEF IdOf, Ids

LEMMA CheckedIsTyped ==
  ASSUME TypeOK, NEW c \in Computers
  PROVE  Checked(IdOf(c)) \in Registrations
<1>1. IdOf(c) \in Ids /\ file \in Registrations
  BY IdsAreDistinct DEF TypeOK
<1> QED BY <1>1, RegistrationRecords DEF Checked

LEMMA SpendIsTyped ==
  ASSUME budget \in BudgetRecords,
         NEW what \in {"installs", "starts", "resets", "troubles"}, Spend(what)
  PROVE  budget' \in BudgetRecords
<1>1. CASE what = "installs"
  BY <1>1 DEF Spend, BudgetRecords
<1>2. CASE what = "starts"
  BY <1>2 DEF Spend, BudgetRecords
<1>3. CASE what = "resets"
  BY <1>3 DEF Spend, BudgetRecords
<1>4. CASE what = "troubles"
  BY <1>4 DEF Spend, BudgetRecords
<1> QED BY <1>1, <1>2, <1>3, <1>4

(* A request is refused as a conflict, or starts its check.                *)
Marks == {"none", "running", "waiting", "blocked", "login"}

LEMMA AskStarts ==
  ASSUME TypeOK, NEW c \in Computers, NEW at \in {"polls", "starts", "ends"},
         NEW t \in Tasks \union {Nobody}, NEW mark \in Marks, Ask(c, at, t, mark)
  PROVE  /\ io' \in [Clients -> IORecords] /\ run' \in [Computers -> RunRecords]
         /\ \A x \in Clients : x # c => io'[x] = io[x]
         /\ \A d \in Computers : d # c => run'[d] = run[d]
         /\ \/ io' = io /\ run'[c] = Idle
            \/ /\ run'[c] = [at |-> at, job |-> t]
               /\ io'[c] = Asking(Checked(IdOf(c)), t, mark)
<1>1. io \in [Clients -> IORecords] /\ run \in [Computers -> RunRecords] /\ c \in Clients
  BY DEF TypeOK, Clients
<1>2. Idle \in RunRecords /\ [at |-> at, job |-> t] \in RunRecords
  BY DEF Idle, RunRecords
<1>3. CASE Conflict(IdOf(c))
  BY <1>1, <1>2, <1>3 DEF Ask
<1>4. CASE ~Conflict(IdOf(c))
  <2>1. Asking(Checked(IdOf(c)), t, mark) \in IORecords
    BY CheckedIsTyped DEF Asking, IORecords, Marks
  <2>2. /\ io' = [io EXCEPT ![c] = Asking(Checked(IdOf(c)), t, mark)]
        /\ run' = [run EXCEPT ![c] = [at |-> at, job |-> t]]
    BY <1>4 DEF Ask
  <2> QED BY <1>1, <1>2, <2>1, <2>2
<1> QED BY <1>3, <1>4

(* A request of x is over; those of others go on.                          *)
LEMMA WrittenEnds ==
  ASSUME TypeOK, NEW x \in Clients, Written(x)
  PROVE  /\ file' \in Registrations
         /\ io' \in [Clients -> IORecords]
         /\ io'[x] = NoIO
         /\ \A y \in Clients : y # x =>
              /\ io'[y].at = io[y].at /\ io'[y].text = io[y].text /\ io'[y].own = io[y].own
              /\ io'[y].task = io[y].task /\ io'[y].mark = io[y].mark
              /\ io[y].at # "writes" => io'[y] = io[y]
<1>1. io \in [Clients -> IORecords] /\ file \in Registrations
  BY DEF TypeOK
<1>2. NoIO \in IORecords
  BY RegistrationRecords DEF NoIO, IORecords
<1>3. file' \in Registrations
  <2>1. io[x] \in IORecords /\ file' \in Outcomes(x)
    BY <1>1 DEF Written
  <2>2. io[x].text \in Registrations
    BY <2>1 DEF IORecords
  <2>3. Outcomes(x) \subseteq Registrations
    BY <1>1, <2>2, RegistrationRecords DEF Outcomes
  <2> QED BY <2>1, <2>3
<1>4. io' = [y \in Clients |->
               IF y = x THEN NoIO
               ELSE IF io[y].at = "writes" /\ io[x].own THEN [io[y] EXCEPT !.clean = FALSE]
               ELSE io[y]]
  BY DEF Written
<1>5. ASSUME NEW y \in Clients
      PROVE  [io[y] EXCEPT !.clean = FALSE] \in IORecords
  <2>1. io[y] \in IORecords
    BY <1>1
  <2> QED BY <2>1 DEF IORecords
<1>6. io' \in [Clients -> IORecords]
  BY <1>1, <1>2, <1>4, <1>5
<1>7. io'[x] = NoIO
  BY <1>4
<1>8. ASSUME NEW y \in Clients, y # x
      PROVE  /\ io'[y].at = io[y].at /\ io'[y].text = io[y].text /\ io'[y].own = io[y].own
             /\ io'[y].task = io[y].task /\ io'[y].mark = io[y].mark
             /\ io[y].at # "writes" => io'[y] = io[y]
  <2>1. io[y] \in IORecords
    BY <1>1
  <2>2. io'[y] = IF io[y].at = "writes" /\ io[x].own
                 THEN [io[y] EXCEPT !.clean = FALSE] ELSE io[y]
    BY <1>4, <1>8
  <2> QED BY <2>1, <2>2 DEF IORecords
<1> QED BY <1>3, <1>6, <1>7, <1>8
-----------------------------------------------------------------------------
(* Types and links.                                                        *)
LEMMA InitIsTyped == Init => Typed
<1> SUFFICES ASSUME Init PROVE Typed
  OBVIOUS
<1>1. NoIO \in IORecords /\ Idle \in RunRecords /\ Off \in RunRecords /\ Absent \in TaskRows
  BY RegistrationRecords DEF NoIO, IORecords, Idle, Off, RunRecords, Absent, TaskRows
<1>2. TypeOK
  <2>1. budget \in BudgetRecords
    BY DEF Init
  <2>2. file \in Registrations /\ io \in [Clients -> IORecords]
    BY <1>1, RegistrationRecords DEF Init
  <2>3. name \in [Computers -> 0..MaxNames] /\ left \in [Computers -> [Tasks -> 0..Attempts]]
    BY DEF Init
  <2>4. run \in [Computers -> RunRecords]
    BY <1>1 DEF Init
  <2>5. task \in [Tasks -> TaskRows] /\ saved \in [Tasks -> TaskRows] /\ loading \in BOOLEAN
    BY <1>1 DEF Init, NoTasks
  <2>6. /\ made \subseteq Tasks /\ retired \in Ids \union {Nobody} /\ excused \subseteq Tasks
        /\ drafts \in [Tasks -> 0..2] /\ promised \in [Tasks -> Computers \union {Nobody}]
    BY DEF Init
  <2> QED BY <2>1, <2>2, <2>3, <2>4, <2>5, <2>6 DEF TypeOK
<1>3. Links
  BY DEF Init, Links, Linked, Clients, NoIO, Idle, Off
<1> QED BY <1>2, <1>3 DEF Typed

LEMMA LinkedRecords ==
  /\ \A i : i.at = "idle" /\ Linked(Idle, i) => Linked(Off, i)
  /\ \A r : r.at \notin {"chose", "starts", "works", "ends"} => Linked(r, NoIO)
  /\ \A r : r.at \in {"chose", "works"} /\ r.job \in Tasks => Linked(r, NoIO)
  /\ \A r, i, j : Linked(r, i) /\ i.at = j.at /\ i.task = j.task /\ i.mark = j.mark => Linked(r, j)
  /\ \A i : Linked(Idle, i) <=>
       i.at = "idle" /\ (i.task # Nobody => i.mark # "none")
         /\ (i.mark = "login" => i.task \in Tasks)
BY DEF Linked, NoIO, Idle, Off

(* c asks for the tasks, or marks one it has in hand.                      *)
LEMMA AskIsTyped ==
  ASSUME Typed, NEW c \in Computers, NEW at \in {"polls", "starts", "ends"},
         NEW t \in Tasks \union {Nobody}, NEW mark \in Marks, Ask(c, at, t, mark),
         io[c].at = "idle",
         at = "polls" => t = Nobody /\ mark = "none",
         at # "polls" => t \in Tasks /\ mark # "none"
  PROVE  /\ io' \in [Clients -> IORecords] /\ run' \in [Computers -> RunRecords]
         /\ Links'
<1>1. TypeOK /\ Links /\ c \in Clients
  BY DEF Typed, Clients
<1>2. /\ io' \in [Clients -> IORecords] /\ run' \in [Computers -> RunRecords]
      /\ \A x \in Clients : x # c => io'[x] = io[x]
      /\ \A d \in Computers : d # c => run'[d] = run[d]
      /\ \/ io' = io /\ run'[c] = Idle
         \/ /\ run'[c] = [at |-> at, job |-> t]
            /\ io'[c] = Asking(Checked(IdOf(c)), t, mark)
  BY <1>1, AskStarts
<1>3. Linked(run'[c], io'[c])
  <2>1. CASE io' = io /\ run'[c] = Idle
    <3>1. Linked(run[c], io[c])
      BY <1>1 DEF Links
    <3> QED BY <2>1, <3>1 DEF Linked, Idle
  <2>2. CASE /\ run'[c] = [at |-> at, job |-> t]
             /\ io'[c] = Asking(Checked(IdOf(c)), t, mark)
    <3>1. mark = "login" => t \in Tasks
      OBVIOUS
    <3>2. t # Nobody => mark # "none"
      OBVIOUS
    <3> QED BY <2>2, <3>1, <3>2 DEF Linked, Asking
  <2> QED BY <1>2, <2>1, <2>2
<1>4. Links'
  <2> SUFFICES ASSUME NEW d \in Computers PROVE Linked(run'[d], io'[d])
    BY DEF Links
  <2>1. CASE d = c
    BY <1>3, <2>1
  <2>2. CASE d # c
    BY <1>1, <1>2, <2>2 DEF Links, Clients
  <2> QED BY <2>1, <2>2
<1> QED BY <1>2, <1>4

(* The request of x is over, and a computer goes on with r.                *)
LEMMA WrittenIsTyped ==
  ASSUME Typed, NEW x \in Clients, Written(x),
         run' \in [Computers -> RunRecords],
         \A d \in Computers : d # x => run'[d] = run[d],
         x \in Computers =>
           \/ run'[x].at \notin {"chose", "starts", "works", "ends"}
           \/ run'[x].at \in {"chose", "works"} /\ run'[x].job \in Tasks
  PROVE  /\ file' \in Registrations /\ io' \in [Clients -> IORecords] /\ Links'
<1>1. TypeOK /\ Links
  BY DEF Typed
<1>2. file' \in Registrations /\ io' \in [Clients -> IORecords]
  BY <1>1, WrittenEnds
<1>3. ASSUME NEW d \in Computers PROVE Linked(run'[d], io'[d])
  <2>1. CASE d = x
    <3>1. io'[d] = NoIO
      BY <1>1, <2>1, WrittenEnds
    <3> QED BY <2>1, <3>1, LinkedRecords
  <2>2. CASE d # x
    <3>1. run'[d] = run[d] /\ io'[d].at = io[d].at /\ io'[d].task = io[d].task
          /\ io'[d].mark = io[d].mark
      BY <1>1, <2>2, WrittenEnds DEF Clients
    <3>2. Linked(run[d], io[d])
      BY <1>1 DEF Links
    <3> QED BY <3>1, <3>2, LinkedRecords
  <2> QED BY <2>1, <2>2
<1> QED BY <1>2, <1>3 DEF Links
-----------------------------------------------------------------------------
LEMMA RecordSteps ==
  /\ \A r \in Registrations : [r EXCEPT !.fresh = FALSE] \in Registrations
  /\ \A i \in IORecords :
       [i EXCEPT !.at = "writes"] \in IORecords /\ [i EXCEPT !.own = FALSE] \in IORecords
  /\ NoIO \in IORecords /\ [NoIO EXCEPT !.at = "removes"] \in IORecords
  /\ \A id \in Ids : Asking(Tombstone(id), Nobody, "none") \in IORecords
  /\ Idle \in RunRecords /\ Off \in RunRecords
  /\ \A a \in {"gone", "chose"}, t \in Tasks \union {Nobody} :
       /\ [Idle EXCEPT !.at = a] \in RunRecords
       /\ [Idle EXCEPT !.at = a, !.job = t] \in RunRecords
       /\ [Idle EXCEPT !.at = a, !.job = t].at = a /\ [Idle EXCEPT !.at = a, !.job = t].job = t
       /\ [Idle EXCEPT !.at = a].at = a
  /\ \A r \in RunRecords :
       /\ [r EXCEPT !.at = "works"] \in RunRecords
       /\ [r EXCEPT !.at = "works"].at = "works" /\ [r EXCEPT !.at = "works"].job = r.job
BY RegistrationRecords
   DEF Registrations, IORecords, NoIO, Asking, Idle, Off, RunRecords

LEMMA ExpireIsTyped ==
  ASSUME Typed, Expire
  PROVE  Typed'
<1>0. TypeOK /\ Links
  BY DEF Typed
<1>1. file' \in Registrations
  BY <1>0, RecordSteps DEF Expire, TypeOK
<1>2. Links'
  BY <1>0 DEF Expire, Links
<1> QED BY <1>0, <1>1, <1>2 DEF Typed, TypeOK, Expire, history


(* What a rewritten row is, and what rows are behind newer ones.           *)
LEMMA RowRewritten ==
  ASSUME task \in [Tasks -> TaskRows], NEW t \in Tasks, NEW s \in Statuses, NEW b \in BOOLEAN,
         task' = [task EXCEPT ![t].status = s, ![t].ran = b]
  PROVE  /\ task' \in [Tasks -> TaskRows]
         /\ task'[t].status = s /\ task'[t].ran = b /\ task'[t] # Absent
         /\ \A u \in Tasks : u # t => task'[u] = task[u]
<1>1. PICK r : r = [task[t] EXCEPT !.status = s, !.ran = b]
  OBVIOUS
<1>2. task[t] \in TaskRows
  OBVIOUS
<1>3. r \in TaskRows /\ r.status = s /\ r.ran = b
  BY <1>1, <1>2 DEF TaskRows
<1>4. r # Absent
  <2>1. Absent.status = "absent" /\ "absent" \notin Statuses
    BY DEF Absent, Statuses
  <2> QED BY <1>3, <2>1
<1>5. task' = [task EXCEPT ![t] = r]
  BY <1>1
<1> QED BY <1>3, <1>4, <1>5

LEMMA RowsBehind ==
  ASSUME task \in [Tasks -> TaskRows], NEW n \in Nat
  PROVE  /\ Behind(n) \in [Tasks -> TaskRows]
         /\ \A t \in Tasks :
              \/ Behind(n)[t] = Absent
              \/ /\ task[t] # Absent /\ Behind(n)[t] # Absent
                 /\ Behind(n)[t].status = task[t].status /\ Behind(n)[t].ran = task[t].ran
<1>1. Absent \in TaskRows
  BY PortalAssumption DEF Absent, TaskRows
<1>2. ASSUME NEW t \in Tasks, task[t] # Absent, task[t].newer + n < Rows,
             NEW r, r = [task[t] EXCEPT !.newer = task[t].newer + n]
      PROVE  /\ r \in TaskRows /\ r # Absent
             /\ r.status = task[t].status /\ r.ran = task[t].ran
  <2>1. task[t] \in TaskRows /\ Rows \in Nat
    BY PortalAssumption
  <2>2. r \in TaskRows /\ r.status = task[t].status /\ r.ran = task[t].ran /\ r.newer = task[t].newer + n
    BY <1>2, <2>1 DEF TaskRows
  <2>3. ASSUME r = Absent PROVE task[t] = Absent
    <3>1. task[t].status = "absent" /\ task[t].ran = FALSE /\ task[t].newer + n = 0
      BY <2>2, <2>3 DEF Absent
    <3>2. task[t].newer = 0
      BY <2>1, <3>1 DEF TaskRows
    <3> QED BY <2>1, <3>1, <3>2 DEF TaskRows, Absent
  <2> QED BY <1>2, <2>2, <2>3
<1>3. ASSUME NEW t \in Tasks
      PROVE  \/ Behind(n)[t] = Absent
             \/ /\ task[t] # Absent /\ Behind(n)[t] # Absent /\ Behind(n)[t] \in TaskRows
                /\ Behind(n)[t].status = task[t].status /\ Behind(n)[t].ran = task[t].ran
  <2>0. task[t].newer \in Nat /\ Rows \in Nat
    BY PortalAssumption DEF TaskRows
  <2>1. CASE task[t] = Absent \/ task[t].newer + n >= Rows
    BY <2>1 DEF Behind
  <2>2. CASE ~(task[t] = Absent \/ task[t].newer + n >= Rows)
    <3>1. PICK r : r = [task[t] EXCEPT !.newer = task[t].newer + n]
      OBVIOUS
    <3>2. Behind(n)[t] = r
      BY <2>2, <3>1 DEF Behind
    <3>3. task[t] # Absent /\ task[t].newer + n < Rows
      BY <2>0, <2>2
    <3> QED BY <1>2, <3>1, <3>2, <3>3
  <2> QED BY <2>1, <2>2
<1>4. Behind(n) = [t \in Tasks |-> Behind(n)[t]]
  BY DEF Behind
<1> QED BY <1>1, <1>3, <1>4

(* A row is created on top of the others.                                  *)
LEMMA RowCreated ==
  ASSUME task \in [Tasks -> TaskRows], NEW t \in Tasks,
         task' = [Behind(1) EXCEPT ![t] = Created]
  PROVE  /\ task' \in [Tasks -> TaskRows] /\ task'[t] = Created
         /\ \A u \in Tasks : u # t =>
              \/ task'[u] = Absent
              \/ /\ task[u] # Absent /\ task'[u] # Absent
                 /\ task'[u].status = task[u].status /\ task'[u].ran = task[u].ran
<1>1. Created \in TaskRows
  BY PortalAssumption DEF Created, TaskRows, Statuses
<1>2. PICK f : f = Behind(1)
  OBVIOUS
<1>3. /\ f \in [Tasks -> TaskRows]
      /\ \A u \in Tasks :
           \/ f[u] = Absent
           \/ /\ task[u] # Absent /\ f[u] # Absent
              /\ f[u].status = task[u].status /\ f[u].ran = task[u].ran
  BY <1>2, RowsBehind
<1> QED BY <1>1, <1>2, <1>3

LEMMA StartDraftIsTyped ==
  ASSUME Typed, StartDraft
  PROVE  Typed'
<1>0. TypeOK /\ Links
  BY DEF Typed
<1>1. budget' \in BudgetRecords
  BY <1>0, SpendIsTyped DEF StartDraft, TypeOK
<1>2. task' \in [Tasks -> TaskRows] /\ made' \subseteq Tasks
  BY <1>0, RowCreated DEF StartDraft, TypeOK
<1>3. Links'
  BY <1>0 DEF StartDraft, Links
<1> QED BY <1>0, <1>1, <1>2, <1>3 DEF Typed, TypeOK, StartDraft, history


LEMMA OthersComeIsTyped ==
  ASSUME Typed, OthersCome
  PROVE  Typed'
<1>0. TypeOK /\ Links
  BY DEF Typed
<1>1. budget' \in BudgetRecords
  BY <1>0, SpendIsTyped DEF OthersCome, TypeOK
<1>2. task' \in [Tasks -> TaskRows]
  <2>1. PICK n \in Nat : task' = Behind(n)
    BY PortalAssumption DEF OthersCome
  <2> QED BY <1>0, <2>1, RowsBehind DEF TypeOK
<1>3. Links'
  BY <1>0 DEF OthersCome, Links
<1> QED BY <1>0, <1>1, <1>2, <1>3 DEF Typed, TypeOK, OthersCome, history


LEMMA ConsoleSetsIsTyped ==
  ASSUME Typed, NEW t \in Tasks, ConsoleSets(t)
  PROVE  Typed'
<1>0. TypeOK /\ Links
  BY DEF Typed
<1>1. budget' \in BudgetRecords
  BY <1>0, SpendIsTyped DEF ConsoleSets, TypeOK
<1>2. task' \in [Tasks -> TaskRows]
  <2>1. PICK s \in Statuses, b \in BOOLEAN :
          task' = [task EXCEPT ![t].status = s, ![t].ran = task[t].ran \/ b]
    BY DEF ConsoleSets
  <2>2. (task[t].ran \/ b) \in BOOLEAN
    OBVIOUS
  <2> QED BY <1>0, <2>1, <2>2, RowRewritten DEF TypeOK
<1>3. promised' \in [Tasks -> Computers \union {Nobody}]
  BY <1>0 DEF ConsoleSets, TypeOK
<1>4. Links'
  BY <1>0 DEF ConsoleSets, Links
<1> QED BY <1>0, <1>1, <1>2, <1>3, <1>4 DEF Typed, TypeOK, ConsoleSets, history


LEMMA ReapIsTyped ==
  ASSUME Typed, NEW t \in Tasks, Reap(t)
  PROVE  Typed'
<1>0. TypeOK /\ Links
  BY DEF Typed
<1>1. task' \in [Tasks -> TaskRows]
  <2>1. task' = [task EXCEPT ![t].status = "ended", ![t].ran = TRUE] /\ "ended" \in Statuses
    BY DEF Reap, Statuses
  <2> QED BY <1>0, <2>1, RowRewritten DEF TypeOK
<1>2. Links'
  BY <1>0 DEF Reap, Links
<1> QED BY <1>0, <1>1, <1>2 DEF Typed, TypeOK, Reap, history


LEMMA SaveIsTyped ==
  ASSUME Typed, Save
  PROVE  Typed'
<1>0. TypeOK /\ Links
  BY DEF Typed
<1>1. Links'
  BY <1>0 DEF Save, Links
<1> QED BY <1>0, <1>1 DEF Typed, TypeOK, Save, history


LEMMA LoadedIsTyped ==
  ASSUME Typed, Loaded
  PROVE  Typed'
<1>0. TypeOK /\ Links
  BY DEF Typed
<1>1. Links'
  BY <1>0 DEF Loaded, Links
<1> QED BY <1>0, <1>1 DEF Typed, TypeOK, Loaded, history


LEMMA OpenFileIsTyped ==
  ASSUME Typed, NEW x \in Clients, OpenFile(x)
  PROVE  Typed'
<1>0. TypeOK /\ Links /\ io \in [Clients -> IORecords]
  BY DEF Typed, TypeOK
<1>1. file' \in Registrations
  BY RegistrationRecords DEF OpenFile
<1>2. io' = [io EXCEPT ![x] = [io[x] EXCEPT !.at = "writes"]]
  BY DEF OpenFile
<1>3. io' \in [Clients -> IORecords]
  BY <1>0, <1>2, RecordSteps
<1>4. retired' \in Ids \union {Nobody}
  BY <1>0 DEF OpenFile, TypeOK
<1>5. ASSUME NEW c \in Computers PROVE Linked(run'[c], io'[c])
  <2>1. Linked(run[c], io[c]) /\ run' = run /\ c \in Clients
    BY <1>0 DEF Links, OpenFile, Clients
  <2>2. CASE c # x
    BY <1>0, <1>2, <2>1, <2>2
  <2>3. CASE c = x
    <3>1. io'[c] = [io[c] EXCEPT !.at = "writes"] /\ io[c] \in IORecords /\ io[c].at = "opens"
      BY <1>0, <1>2, <2>3 DEF OpenFile
    <3>2. io'[c].at = "writes" /\ io'[c].task = io[c].task /\ io'[c].mark = io[c].mark
      BY <3>1 DEF IORecords
    <3> QED BY <2>1, <3>1, <3>2 DEF Linked
  <2> QED BY <2>2, <2>3
<1> QED BY <1>0, <1>1, <1>3, <1>4, <1>5 DEF Typed, TypeOK, Links, OpenFile, history

LEMMA ResetIsTyped ==
  ASSUME Typed, Reset
  PROVE  Typed'
<1>0. TypeOK /\ Links /\ io \in [Clients -> IORecords] /\ file \in Registrations
  BY DEF Typed, TypeOK
<1>1. Retirement \in IORecords
  <2>1. file.holder \in Ids \union {Nobody}
    BY <1>0 DEF Registrations
  <2> QED BY <2>1, RecordSteps DEF Retirement
<1>2. io' = [io EXCEPT ![Manager] = Retirement]
  BY DEF Reset
<1>3. io' \in [Clients -> IORecords] /\ \A c \in Computers : io'[c] = io[c]
  BY <1>0, <1>1, <1>2 DEF Clients
<1>4. budget' \in BudgetRecords
  BY <1>0, SpendIsTyped DEF Reset, TypeOK
<1>5. retired' \in Ids \union {Nobody}
  BY <1>0 DEF Reset, TypeOK
<1>6. Links'
  BY <1>0, <1>3 DEF Links, Reset
<1> QED BY <1>0, <1>3, <1>4, <1>5, <1>6 DEF Typed, TypeOK, Reset

LEMMA RetireIsTyped ==
  ASSUME Typed, Retire
  PROVE  Typed'
<1>0. TypeOK /\ Manager \in Clients /\ Manager \notin Computers /\ run' = run
  BY DEF Typed, Clients, Retire
<1>1. file' \in Registrations /\ io' \in [Clients -> IORecords] /\ Links'
  <2>1. Written(Manager) /\ run' \in [Computers -> RunRecords]
    BY <1>0 DEF Retire, TypeOK
  <2> QED BY <1>0, <2>1, WrittenIsTyped
<1>2. retired' \in Ids \union {Nobody}
  BY <1>0, <1>1 DEF Retire, TypeOK, Registrations
<1> QED BY <1>0, <1>1, <1>2 DEF Typed, TypeOK, Retire

LEMMA RemoveFileIsTyped ==
  ASSUME Typed, RemoveFile
  PROVE  Typed'
<1>0. TypeOK /\ Links /\ io \in [Clients -> IORecords]
  BY DEF Typed, TypeOK
<1>1. file' \in Registrations
  BY RegistrationRecords DEF RemoveFile
<1>2. io' = [x \in Clients |->
               IF x = Manager THEN NoIO
               ELSE IF io[x].at = "writes" THEN [io[x] EXCEPT !.own = FALSE]
               ELSE io[x]]
  BY DEF RemoveFile
<1>3. \A x \in Clients : io[x] \in IORecords /\ [io[x] EXCEPT !.own = FALSE] \in IORecords
  BY <1>0, RecordSteps
<1>4. io' \in [Clients -> IORecords]
  BY <1>2, <1>3, RecordSteps
<1>5. ASSUME NEW c \in Computers PROVE Linked(run'[c], io'[c])
  <2>1. Linked(run[c], io[c]) /\ run' = run /\ c \in Clients /\ c # Manager
    BY <1>0 DEF Links, RemoveFile, Clients
  <2>2. io'[c] = IF io[c].at = "writes" THEN [io[c] EXCEPT !.own = FALSE] ELSE io[c]
    BY <1>2, <2>1
  <2>3. io'[c].at = io[c].at /\ io'[c].task = io[c].task /\ io'[c].mark = io[c].mark
    BY <1>0, <2>1, <2>2 DEF IORecords
  <2> QED BY <2>1, <2>3, LinkedRecords
<1> QED BY <1>0, <1>1, <1>4, <1>5 DEF Typed, TypeOK, Links, RemoveFile, history

LEMMA CrashIsTyped ==
  ASSUME Typed, Crash
  PROVE  Typed'
<1>0. TypeOK /\ Links
  BY DEF Typed
<1>1. io' \in [Clients -> IORecords] /\ \A c \in Computers : io'[c] = NoIO
  BY RecordSteps DEF Crash, Clients
<1>2. run' \in [Computers -> RunRecords]
  BY <1>0, RecordSteps DEF Crash, TypeOK
<1>3. budget' \in BudgetRecords
  BY <1>0, SpendIsTyped DEF Crash, TypeOK
<1>4. /\ task' \in [Tasks -> TaskRows] /\ loading' \in BOOLEAN
      /\ retired' \in Ids \union {Nobody} /\ excused' \subseteq Tasks
  BY <1>0, PortalAssumption DEF Crash, TypeOK, NoTasks, Absent, TaskRows
<1>5. ASSUME NEW c \in Computers PROVE Linked(run'[c], io'[c])
  <2>1. run'[c] = IF run[c].at \in {"polls", "starts", "ends", "gone"} THEN Idle ELSE run[c]
    BY DEF Crash
  <2>2. Linked(run[c], io[c]) /\ run[c] \in RunRecords
    BY <1>0 DEF Links, TypeOK
  <2>3. CASE run[c].at \in {"polls", "starts", "ends", "gone"}
    BY <1>1, <2>1, <2>3, LinkedRecords DEF Idle
  <2>4. CASE run[c].at \notin {"polls", "starts", "ends", "gone"}
    <3>1. run[c].at \in {"chose", "works"} => run[c].job \in Tasks
      BY <2>2 DEF Linked
    <3> QED BY <1>1, <2>1, <2>4, <3>1, LinkedRecords
  <2> QED BY <2>3, <2>4
<1> QED BY <1>0, <1>1, <1>2, <1>3, <1>4, <1>5 DEF Typed, TypeOK, Links, Crash

LEMMA PollIsTyped ==
  ASSUME Typed, NEW c \in Computers, Poll(c)
  PROVE  Typed'
<1>0. TypeOK /\ Links /\ Ask(c, "polls", Nobody, "none") /\ io[c].at = "idle"
  BY DEF Typed, Links, Linked, Poll
<1>1. io' \in [Clients -> IORecords] /\ run' \in [Computers -> RunRecords] /\ Links'
  BY <1>0, AskIsTyped DEF Marks
<1> QED BY <1>0, <1>1 DEF Typed, TypeOK, Poll, history

LEMMA SendStartIsTyped ==
  ASSUME Typed, NEW c \in Computers, SendStart(c)
  PROVE  Typed'
<1>0. /\ TypeOK /\ Links /\ Ask(c, "starts", run[c].job, "running")
      /\ io[c].at = "idle" /\ run[c].job \in Tasks
  BY DEF Typed, Links, Linked, SendStart
<1>1. io' \in [Clients -> IORecords] /\ run' \in [Computers -> RunRecords] /\ Links'
  BY <1>0, AskIsTyped DEF Marks
<1> QED BY <1>0, <1>1 DEF Typed, TypeOK, SendStart, history

LEMMA SessionExpiredIsTyped ==
  ASSUME Typed, NEW c \in Computers, SessionExpired(c)
  PROVE  Typed'
<1>0. /\ TypeOK /\ Links /\ io[c].at = "idle" /\ run[c].job \in Tasks
  BY DEF Typed, Links, Linked, SessionExpired
<1>1. io' \in [Clients -> IORecords] /\ run' \in [Computers -> RunRecords] /\ Links'
  <2>1. PICK mark \in {"login", "blocked"} : Ask(c, "ends", run[c].job, mark)
    BY DEF SessionExpired
  <2> QED BY <1>0, <2>1, AskIsTyped DEF Marks
<1>2. left' \in [Computers -> [Tasks -> 0..Attempts]]
  BY <1>0 DEF SessionExpired, TypeOK
<1> QED BY <1>0, <1>1, <1>2 DEF Typed, TypeOK, SessionExpired, history

LEMMA DraftedIsTyped ==
  ASSUME TypeOK, NEW t \in Tasks
  PROVE  Drafted(t) \in [Tasks -> 0..2]
BY DEF TypeOK, Drafted

LEMMA FinishIsTyped ==
  ASSUME Typed, NEW c \in Computers, Finish(c)
  PROVE  Typed'
<1>0. /\ TypeOK /\ Links /\ io[c].at = "idle" /\ run[c].job \in Tasks
  BY DEF Typed, Links, Linked, Finish
<1>1. io' \in [Clients -> IORecords] /\ run' \in [Computers -> RunRecords] /\ Links'
  <2>1. PICK mark \in {"waiting", "blocked"} : Ask(c, "ends", run[c].job, mark)
    BY DEF Finish
  <2> QED BY <1>0, <2>1, AskIsTyped DEF Marks
<1>2. drafts' \in [Tasks -> 0..2]
  BY <1>0, DraftedIsTyped DEF Finish, TypeOK
<1> QED BY <1>0, <1>1, <1>2 DEF Typed, TypeOK, Finish

LEMMA RunnerDiesIsTyped ==
  ASSUME Typed, NEW c \in Computers, RunnerDies(c)
  PROVE  Typed'
<1>0. TypeOK /\ Links /\ run \in [Computers -> RunRecords] /\ io' = io
  BY DEF Typed, TypeOK, RunnerDies
<1>1. run' \in [Computers -> RunRecords]
  BY <1>0, RecordSteps DEF RunnerDies
<1>2. drafts' \in [Tasks -> 0..2]
  <2>1. CASE run[c].at = "works"
    <3>1. run[c].job \in Tasks
      BY <1>0, <2>1 DEF Links, Linked
    <3> QED BY <1>0, <2>1, <3>1, DraftedIsTyped DEF RunnerDies, TypeOK
  <2>2. CASE run[c].at # "works"
    BY <1>0, <2>2 DEF RunnerDies, TypeOK
  <2> QED BY <2>1, <2>2
<1>3. budget' \in BudgetRecords
  BY <1>0, SpendIsTyped DEF RunnerDies, TypeOK
<1>4. ASSUME NEW d \in Computers PROVE Linked(run'[d], io'[d])
  <2>1. Linked(run[d], io[d])
    BY <1>0 DEF Links
  <2>2. CASE d # c
    BY <1>0, <2>1, <2>2 DEF RunnerDies
  <2>3. CASE d = c
    BY <1>0, <2>1, <2>3 DEF RunnerDies, Linked, Idle
  <2> QED BY <2>2, <2>3
<1> QED BY <1>0, <1>1, <1>2, <1>3, <1>4 DEF Typed, TypeOK, Links, RunnerDies

LEMMA InstallIsTyped ==
  ASSUME Typed, NEW c \in Computers, Install(c)
  PROVE  Typed'
<1>0. TypeOK /\ Links /\ run \in [Computers -> RunRecords] /\ io' = io
  BY DEF Typed, TypeOK, Install
<1>1. run' = [run EXCEPT ![c] = Idle]
  BY DEF Install
<1>2. run' \in [Computers -> RunRecords]
  BY <1>0, <1>1, RecordSteps
<1>3. budget' \in BudgetRecords
  BY <1>0, SpendIsTyped DEF Install, TypeOK
<1>4. ASSUME NEW d \in Computers PROVE Linked(run'[d], io'[d])
  <2>1. Linked(run[d], io[d])
    BY <1>0 DEF Links
  <2> QED BY <1>0, <1>1, <2>1 DEF Install, Linked, Idle
<1> QED BY <1>0, <1>2, <1>3, <1>4 DEF Typed, TypeOK, Links, Install, history

LEMMA RetryAgesIsTyped ==
  ASSUME Typed, NEW c \in Computers, RetryAges(c)
  PROVE  Typed'
<1>0. TypeOK /\ Links
  BY DEF Typed
<1>1. budget' \in BudgetRecords
  BY <1>0, SpendIsTyped DEF RetryAges, TypeOK
<1>2. left' \in [Computers -> [Tasks -> 0..Attempts]]
  BY <1>0 DEF RetryAges, TypeOK
<1>3. promised' \in [Tasks -> Computers \union {Nobody}]
  BY <1>0 DEF RetryAges, TypeOK
<1>4. Links'
  BY <1>0 DEF RetryAges, Links
<1> QED BY <1>0, <1>1, <1>2, <1>3, <1>4 DEF Typed, TypeOK, RetryAges

(* The handler of a list, or of a refusal.  The runner goes on with r.     *)
LEMMA GoesOnTyped ==
  ASSUME Typed, NEW c \in Computers, Written(c), NEW r \in RunRecords,
         run' = [run EXCEPT ![c] = r],
         \/ r.at \notin {"chose", "starts", "works", "ends"}
         \/ r.at \in {"chose", "works"} /\ r.job \in Tasks
  PROVE  /\ file' \in Registrations /\ io' \in [Clients -> IORecords]
         /\ run' \in [Computers -> RunRecords] /\ Links'
<1>1. run \in [Computers -> RunRecords] /\ c \in Clients
  BY DEF Typed, TypeOK, Clients
<1>2. run' \in [Computers -> RunRecords] /\ run'[c] = r /\ \A d \in Computers : d # c => run'[d] = run[d]
  BY <1>1
<1> QED BY <1>1, <1>2, WrittenIsTyped

LEMMA OvertakenIsTyped == \A c \in Computers : Overtaken(c) \subseteq Tasks
BY DEF Overtaken

LEMMA ListRunnableIsTyped ==
  ASSUME Typed, NEW c \in Computers, ListRunnable(c)
  PROVE  Typed'
<1>0. TypeOK
  BY DEF Typed
<1>1. PICK t \in Tasks : run' = [run EXCEPT ![c] = [Idle EXCEPT !.at = "chose", !.job = t]]
  BY DEF ListRunnable
<1>2. /\ file' \in Registrations /\ io' \in [Clients -> IORecords]
      /\ run' \in [Computers -> RunRecords] /\ Links'
  <2>1. Written(c)
    BY DEF ListRunnable, Accepted
  <2> DEFINE r == [Idle EXCEPT !.at = "chose", !.job = t]
  <2>2. r \in RunRecords /\ r.at = "chose" /\ r.job = t
    BY RecordSteps
  <2>3. run' = [run EXCEPT ![c] = r]
    BY <1>1
  <2> HIDE DEF r
  <2> QED BY <2>1, <2>2, <2>3, GoesOnTyped
<1>3. excused' \subseteq Tasks
  BY <1>0, OvertakenIsTyped DEF ListRunnable, TypeOK
<1> QED BY <1>0, <1>2, <1>3 DEF Typed, TypeOK, ListRunnable

LEMMA ListRetryIsTyped ==
  ASSUME Typed, NEW c \in Computers, ListRetry(c)
  PROVE  Typed'
<1>0. TypeOK
  BY DEF Typed
<1>1. PICK t \in Alive(c) :
        /\ run' = [run EXCEPT ![c] = [Idle EXCEPT !.at = "chose", !.job = t]]
        /\ left' = [left EXCEPT ![c] = [u \in Tasks |->
                      IF u = t THEN left[c][t] - 1
                      ELSE IF u \in Alive(c) THEN left[c][u] ELSE 0]]
        /\ excused' = excused \union Overtaken(c) \union {u \in {t} : drafts[u] > 0}
        /\ promised' = [u \in Tasks |->
                          IF promised[u] = c /\ (~Listed(u) \/ (u = t /\ left[c][t] = 1))
                          THEN Nobody ELSE promised[u]]
  BY DEF ListRetry
<1>2. t \in Tasks /\ left[c][t] > 0
  BY DEF Alive
<1>3. /\ file' \in Registrations /\ io' \in [Clients -> IORecords]
      /\ run' \in [Computers -> RunRecords] /\ Links'
  <2>1. Written(c)
    BY DEF ListRetry, Accepted
  <2> DEFINE r == [Idle EXCEPT !.at = "chose", !.job = t]
  <2>2. r \in RunRecords /\ r.at = "chose" /\ r.job \in Tasks
    BY <1>2 DEF Idle, RunRecords
  <2>3. run' = [run EXCEPT ![c] = r]
    BY <1>1
  <2> HIDE DEF r
  <2> QED BY <2>1, <2>2, <2>3, GoesOnTyped
<1>4. left' \in [Computers -> [Tasks -> 0..Attempts]]
  <2>1. \A u \in Tasks : left[c][u] \in 0..Attempts
    BY <1>0 DEF TypeOK
  <2>2. [u \in Tasks |-> IF u = t THEN left[c][t] - 1
                         ELSE IF u \in Alive(c) THEN left[c][u] ELSE 0] \in [Tasks -> 0..Attempts]
    BY <1>2, <2>1
  <2> QED BY <1>0, <1>1, <2>2 DEF TypeOK
<1>5. excused' \subseteq Tasks /\ promised' \in [Tasks -> Computers \union {Nobody}]
  BY <1>0, <1>1, <1>2, OvertakenIsTyped DEF TypeOK
<1> QED BY <1>0, <1>3, <1>4, <1>5 DEF Typed, TypeOK, ListRetry

LEMMA ListIdleIsTyped ==
  ASSUME Typed, NEW c \in Computers, ListIdle(c)
  PROVE  Typed'
<1>0. TypeOK
  BY DEF Typed
<1>1. /\ file' \in Registrations /\ io' \in [Clients -> IORecords]
      /\ run' \in [Computers -> RunRecords] /\ Links'
  <2>1. Written(c) /\ run' = [run EXCEPT ![c] = Idle]
    BY DEF ListIdle, Accepted
  <2> QED BY <2>1, RecordSteps, GoesOnTyped DEF Idle
<1>2. left' \in [Computers -> [Tasks -> 0..Attempts]]
  BY <1>0 DEF ListIdle, TypeOK
<1>3. excused' \subseteq Tasks /\ promised' \in [Tasks -> Computers \union {Nobody}]
  BY <1>0, OvertakenIsTyped DEF ListIdle, TypeOK
<1> QED BY <1>0, <1>1, <1>2, <1>3 DEF Typed, TypeOK, ListIdle

LEMMA ListUnheardIsTyped ==
  ASSUME Typed, NEW c \in Computers, ListUnheard(c)
  PROVE  Typed'
<1>0. TypeOK
  BY DEF Typed
<1>1. /\ file' \in Registrations /\ io' \in [Clients -> IORecords]
      /\ run' \in [Computers -> RunRecords] /\ Links'
  <2>1. Written(c) /\ run' = [run EXCEPT ![c] = Idle]
    BY DEF ListUnheard, Accepted
  <2> QED BY <2>1, RecordSteps, GoesOnTyped DEF Idle
<1>2. excused' \subseteq Tasks
  BY <1>0, OvertakenIsTyped DEF ListUnheard, TypeOK
<1> QED BY <1>0, <1>1, <1>2 DEF Typed, TypeOK, ListUnheard

(* What a served mark does, in the two cases.                              *)
Marked(c) == io[c].task

MarkedAs(c) == IF io[c].mark = "login" THEN "blocked" ELSE io[c].mark

LEMMA MarkServedCases ==
  ASSUME Typed, NEW c \in Computers, MarkServed(c), NEW t, t = Marked(c)
  PROVE  /\ t \in Tasks /\ io[c].mark \in Marks \ {"none"} /\ Written(c)
         /\ excused' = excused \union Overtaken(c)
         /\ \/ /\ task[t] = Absent /\ run' = [run EXCEPT ![c] = Idle]
               /\ UNCHANGED <<task, promised>>
            \/ /\ task[t] # Absent
               /\ task' = [task EXCEPT ![t].status = MarkedAs(c), ![t].ran = TRUE]
               /\ promised' = [promised EXCEPT ![t] = IF io[c].mark = "login" THEN c ELSE Nobody]
               /\ \/ /\ run[c].at = "starts" /\ run[c].job = t
                     /\ run' = [run EXCEPT ![c] = [run[c] EXCEPT !.at = "works"]]
                  \/ run[c].at # "starts" /\ run' = [run EXCEPT ![c] = Idle]
<1>1. /\ io[c] \in IORecords /\ Linked(run[c], io[c])
  BY DEF Typed, TypeOK, Links, Clients
<1>2. t \in Tasks /\ io[c].mark \in Marks \ {"none"}
  BY <1>1 DEF MarkServed, IORecords, Linked, Marks, Marked
<1>3. run[c].at = "starts" => run[c].job = t
  BY <1>1 DEF Linked, Marked
<1>4. CASE task[t] = Absent
  BY <1>2, <1>3, <1>4 DEF MarkServed, Accepted, Marked
<1>5. CASE task[t] # Absent
  <2>1. /\ task' = [task EXCEPT ![t].status = MarkedAs(c), ![t].ran = TRUE]
        /\ promised' = [promised EXCEPT ![t] = IF io[c].mark = "login" THEN c ELSE Nobody]
        /\ run' = [run EXCEPT ![c] =
                     IF run[c].at = "starts" THEN [run[c] EXCEPT !.at = "works"] ELSE Idle]
    BY <1>5 DEF MarkServed, Marked, MarkedAs
  <2> QED BY <1>2, <1>3, <1>5, <2>1 DEF MarkServed, Accepted
<1> QED BY <1>4, <1>5

LEMMA MarksAreStatuses ==
  ASSUME NEW c \in Computers, io[c].mark \in Marks \ {"none"}
  PROVE  MarkedAs(c) \in Statuses
BY DEF MarkedAs, Marks, Statuses

LEMMA MarkServedIsTyped ==
  ASSUME Typed, NEW c \in Computers, MarkServed(c)
  PROVE  Typed'
<1>0. TypeOK
  BY DEF Typed
<1>m. PICK t : t = Marked(c)
  OBVIOUS
<1>s. /\ t \in Tasks /\ io[c].mark \in Marks \ {"none"} /\ Written(c)
      /\ excused' = excused \union Overtaken(c)
      /\ \/ /\ task[t] = Absent /\ run' = [run EXCEPT ![c] = Idle]
            /\ UNCHANGED <<task, promised>>
         \/ /\ task[t] # Absent
            /\ task' = [task EXCEPT ![t].status = MarkedAs(c), ![t].ran = TRUE]
            /\ promised' = [promised EXCEPT ![t] = IF io[c].mark = "login" THEN c ELSE Nobody]
            /\ \/ /\ run[c].at = "starts" /\ run[c].job = t
                  /\ run' = [run EXCEPT ![c] = [run[c] EXCEPT !.at = "works"]]
               \/ run[c].at # "starts" /\ run' = [run EXCEPT ![c] = Idle]
  BY <1>m, MarkServedCases
<1>1. run[c] \in RunRecords
  BY <1>0 DEF TypeOK
<1>2. /\ file' \in Registrations /\ io' \in [Clients -> IORecords]
      /\ run' \in [Computers -> RunRecords] /\ Links'
  <2>1. CASE run' = [run EXCEPT ![c] = Idle]
    BY <1>s, <2>1, RecordSteps, GoesOnTyped DEF Idle
  <2>2. CASE run' = [run EXCEPT ![c] = [run[c] EXCEPT !.at = "works"]] /\ run[c].job = t
    <3> DEFINE r == [run[c] EXCEPT !.at = "works"]
    <3>1. r \in RunRecords /\ r.at = "works" /\ r.job \in Tasks
      BY <1>s, <1>1, <2>2, RecordSteps
    <3>2. run' = [run EXCEPT ![c] = r]
      BY <2>2
    <3> HIDE DEF r
    <3> QED BY <1>s, <3>1, <3>2, GoesOnTyped
  <2> QED BY <1>s, <2>1, <2>2
<1>3. task' \in [Tasks -> TaskRows]
  <2>1. MarkedAs(c) \in Statuses
    BY <1>s, MarksAreStatuses
  <2>2. task \in [Tasks -> TaskRows]
    BY <1>0 DEF TypeOK
  <2> QED BY <1>s, <2>1, <2>2, RowRewritten
<1>4. excused' \subseteq Tasks /\ promised' \in [Tasks -> Computers \union {Nobody}]
  BY <1>0, <1>s, OvertakenIsTyped DEF TypeOK
<1> QED BY <1>0, <1>2, <1>3, <1>4 DEF Typed, TypeOK, MarkServed

(* A runner that is refused as retired is idle, or off.                    *)
Refused(c) == RevokedMark(c) \/ ReIdentify(c) \/ StandDown(c)

LEMMA RefusedIsTyped ==
  ASSUME Typed, NEW c \in Computers, Refused(c)
  PROVE  Typed'
<1>0. TypeOK
  BY DEF Typed
<1>1. Written(c) /\ (run' = [run EXCEPT ![c] = Idle] \/ run' = [run EXCEPT ![c] = Off])
  BY DEF Refused, RevokedMark, ReIdentify, StandDown, Revoked
<1>2. /\ file' \in Registrations /\ io' \in [Clients -> IORecords]
      /\ run' \in [Computers -> RunRecords] /\ Links'
  <2>1. Idle \in RunRecords /\ Idle.at = "idle" /\ Off \in RunRecords /\ Off.at = "off"
    BY RecordSteps DEF Idle, Off
  <2>2. CASE run' = [run EXCEPT ![c] = Idle]
    BY <1>1, <2>1, <2>2, GoesOnTyped
  <2>3. CASE run' = [run EXCEPT ![c] = Off]
    BY <1>1, <2>1, <2>3, GoesOnTyped
  <2> QED BY <1>1, <2>2, <2>3
<1>3. budget' \in BudgetRecords
  BY <1>0, SpendIsTyped DEF Refused, RevokedMark, ReIdentify, StandDown, TypeOK
<1>4. name' \in [Computers -> 0..MaxNames]
  BY <1>0 DEF Refused, RevokedMark, ReIdentify, StandDown, TypeOK
<1> QED BY <1>0, <1>2, <1>3, <1>4
        DEF Typed, TypeOK, Refused, RevokedMark, ReIdentify, StandDown, history

LEMMA TypedKept == Typed /\ [Next]_vars => Typed'
<1> SUFFICES ASSUME Typed, [Next]_vars PROVE Typed'
  OBVIOUS
<1>1. CASE RegistryStep
  BY <1>1, ExpireIsTyped, ResetIsTyped, RetireIsTyped, RemoveFileIsTyped, OpenFileIsTyped
     DEF RegistryStep
<1>2. CASE TaskStep
  BY <1>2, StartDraftIsTyped, SaveIsTyped, LoadedIsTyped, CrashIsTyped, ConsoleSetsIsTyped,
     ReapIsTyped, OthersComeIsTyped
     DEF TaskStep
<1>3. ASSUME NEW c \in Computers, RunnerStep(c) PROVE Typed'
  BY <1>3, PollIsTyped, ListRunnableIsTyped, ListRetryIsTyped, ListIdleIsTyped,
     ListUnheardIsTyped, SendStartIsTyped, MarkServedIsTyped, RefusedIsTyped, InstallIsTyped,
     SessionExpiredIsTyped, FinishIsTyped, RunnerDiesIsTyped, RetryAgesIsTyped
     DEF RunnerStep, Refused
<1>4. CASE UNCHANGED vars
  BY <1>4 DEF vars, history, Typed, TypeOK, Links
<1> QED BY <1>1, <1>2, <1>3, <1>4 DEF Next

(* Every variable keeps its type, and the runners their requests.          *)
THEOREM AlwaysTyped == Spec => []Typed
<1> QED BY InitIsTyped, TypedKept, PTL DEF Spec

-----------------------------------------------------------------------------
(* Two drafts.                                                             *)
LEMMA RowsAgreeRewritten ==
  ASSUME RowsAgree, task \in [Tasks -> TaskRows], NEW t \in Tasks, task[t] # Absent,
         NEW s \in Statuses, NEW b \in BOOLEAN,
         task' = [task EXCEPT ![t].status = s, ![t].ran = b],
         UNCHANGED <<saved, loading, made>>
  PROVE  RowsAgree'
<1>1. task'[t] # Absent /\ \A u \in Tasks : u # t => task'[u] = task[u]
  BY RowRewritten
<1> QED BY <1>1 DEF RowsAgree

LEMMA RowsAgreeKept == Typed /\ RowsAgree /\ [Next]_vars => RowsAgree'
<1> SUFFICES ASSUME Typed, RowsAgree, [Next]_vars PROVE RowsAgree'
  OBVIOUS
<1>0. task \in [Tasks -> TaskRows] /\ saved \in [Tasks -> TaskRows]
  BY DEF Typed, TypeOK
<1>1. CASE UNCHANGED <<task, saved, loading, made>>
  BY <1>1 DEF RowsAgree
<1>2. CASE StartDraft
  <2>1. PICK t \in Tasks \ made :
          task' = [Behind(1) EXCEPT ![t] = Created] /\ made' = made \union {t}
    BY <1>2 DEF StartDraft
  <2>2. UNCHANGED <<saved, loading>>
    BY <1>2 DEF StartDraft
  <2> QED BY <1>0, <2>1, <2>2, RowCreated DEF RowsAgree
<1>3. ASSUME NEW t \in Tasks, ConsoleSets(t) PROVE RowsAgree'
  <2>1. PICK s \in Statuses, b \in BOOLEAN :
          task' = [task EXCEPT ![t].status = s, ![t].ran = task[t].ran \/ b]
    BY <1>3 DEF ConsoleSets
  <2>2. (task[t].ran \/ b) \in BOOLEAN
    OBVIOUS
  <2>3. task[t] # Absent /\ UNCHANGED <<saved, loading, made>>
    BY <1>3 DEF ConsoleSets
  <2> QED BY <1>0, <2>1, <2>2, <2>3, RowsAgreeRewritten
<1>4. ASSUME NEW t \in Tasks, Reap(t) PROVE RowsAgree'
  <2>1. task[t] # Absent
    BY <1>4 DEF Reap, Absent
  <2>2. "ended" \in Statuses /\ UNCHANGED <<saved, loading, made>>
    BY <1>4 DEF Reap, Statuses
  <2>3. task' = [task EXCEPT ![t].status = "ended", ![t].ran = TRUE]
    BY <1>4 DEF Reap
  <2> QED BY <1>0, <2>1, <2>2, <2>3, RowsAgreeRewritten
<1>5. CASE Save
  BY <1>5 DEF Save, RowsAgree
<1>6. CASE Loaded
  BY <1>6 DEF Loaded, RowsAgree
<1>7. CASE Crash
  BY <1>7 DEF Crash, RowsAgree, NoTasks
<1>8. ASSUME NEW c \in Computers, MarkServed(c) PROVE RowsAgree'
  <2>0. PICK t : t = Marked(c)
    OBVIOUS
  <2>1. UNCHANGED <<saved, loading, made>>
    BY <1>8 DEF MarkServed
  <2>2. PICK s : s = MarkedAs(c)
    OBVIOUS
  <2>3. /\ t \in Tasks /\ s \in Statuses
        /\ \/ task' = task
           \/ task[t] # Absent /\ task' = [task EXCEPT ![t].status = s, ![t].ran = TRUE]
    BY <1>8, <2>0, <2>2, MarkServedCases, MarksAreStatuses
  <2>4. CASE task' = task
    BY <2>1, <2>4 DEF RowsAgree
  <2>5. CASE task[t] # Absent /\ task' = [task EXCEPT ![t].status = s, ![t].ran = TRUE]
    BY <1>0, <2>1, <2>3, <2>5, RowsAgreeRewritten
  <2> QED BY <2>3, <2>4, <2>5
<1>9. CASE OthersCome
  <2>1. PICK n \in Nat : task' = Behind(n)
    BY <1>9, PortalAssumption DEF OthersCome
  <2>2. UNCHANGED <<saved, loading, made>>
    BY <1>9 DEF OthersCome
  <2>3. \A t \in Tasks : task'[t] # Absent => task[t] # Absent
    BY <1>0, <2>1, RowsBehind
  <2> QED BY <2>2, <2>3 DEF RowsAgree
<1> QED
  BY <1>1, <1>2, <1>3, <1>4, <1>5, <1>6, <1>7, <1>8, <1>9
     DEF Next, RegistryStep, TaskStep, RunnerStep, vars, history, Expire, Reset, Retire, RemoveFile,
         OpenFile, Poll, ListRunnable, ListRetry, ListIdle, ListUnheard, SendStart, RevokedMark,
         ReIdentify, StandDown, Install, SessionExpired, Finish, RunnerDies, RetryAges

(* A task that has run stays so, or is excused.                            *)
LEMMA HasRunKept ==
  ASSUME Typed, RowsAgree, [Next]_vars, NEW t \in Tasks, t \notin excused', HasRun(t)
  PROVE  HasRun(t)'
<1>0. task \in [Tasks -> TaskRows] /\ saved \in [Tasks -> TaskRows] /\ loading \in BOOLEAN
  BY DEF Typed, TypeOK
<1>1. CASE UNCHANGED <<task, saved, loading, made>>
  BY <1>1 DEF HasRun
<1>2. CASE StartDraft
  <2>1. PICK u \in Tasks \ made : task' = [Behind(1) EXCEPT ![u] = Created]
    BY <1>2 DEF StartDraft
  <2>2. t # u /\ t \in made' /\ UNCHANGED <<saved, loading>>
    BY <1>2, <2>1 DEF StartDraft, HasRun
  <2> QED BY <1>0, <2>1, <2>2, RowCreated DEF HasRun
<1>3. ASSUME NEW u \in Tasks, ConsoleSets(u) PROVE HasRun(t)'
  <2>1. PICK s \in Statuses, b \in BOOLEAN :
          task' = [task EXCEPT ![u].status = s, ![u].ran = task[u].ran \/ b]
    BY <1>3 DEF ConsoleSets
  <2>2. task[u] # Absent /\ UNCHANGED <<saved, loading, made>>
    BY <1>3 DEF ConsoleSets
  <2>3. CASE u # t
    BY <1>0, <2>1, <2>2, <2>3 DEF HasRun
  <2>4. CASE u = t
    <3>1. task[t].ran = TRUE
      BY <1>0, <2>2, <2>4 DEF HasRun, TaskRows
    <3>2. task'[t].ran
      BY <1>0, <2>1, <2>4, <3>1, RowRewritten
    <3> QED BY <2>2, <3>2 DEF HasRun
  <2> QED BY <2>3, <2>4
<1>4. ASSUME NEW u \in Tasks, Reap(u) PROVE HasRun(t)'
  <2>1. task' = [task EXCEPT ![u].status = "ended", ![u].ran = TRUE] /\ "ended" \in Statuses
    BY <1>4 DEF Reap, Statuses
  <2>2. UNCHANGED <<saved, loading, made>>
    BY <1>4 DEF Reap
  <2> QED BY <1>0, <2>1, <2>2, RowRewritten DEF HasRun
<1>5. CASE Save
  BY <1>5 DEF Save, HasRun
<1>6. CASE Loaded
  BY <1>6 DEF Loaded, HasRun
<1>7. CASE Crash
  <2>1. /\ task'[t] = Absent /\ loading' /\ saved' = saved /\ made' = made
        /\ ~MarkUnsaved(t)
    BY <1>7 DEF Crash, NoTasks
  <2>2. saved[t].ran \/ saved[t] = Absent
    BY <1>0, <2>1 DEF HasRun, MarkUnsaved
  <2> QED BY <2>1, <2>2 DEF HasRun
<1>8. ASSUME NEW c \in Computers, MarkServed(c) PROVE HasRun(t)'
  <2>0. PICK u : u = Marked(c)
    OBVIOUS
  <2>1. UNCHANGED <<saved, loading, made>>
    BY <1>8 DEF MarkServed
  <2>2. PICK s : s = MarkedAs(c)
    OBVIOUS
  <2>3. /\ u \in Tasks /\ s \in Statuses
        /\ task' = task \/ task' = [task EXCEPT ![u].status = s, ![u].ran = TRUE]
    BY <1>8, <2>0, <2>2, MarkServedCases, MarksAreStatuses
  <2>4. CASE task' = task
    BY <2>1, <2>4 DEF HasRun
  <2>5. CASE task' = [task EXCEPT ![u].status = s, ![u].ran = TRUE]
    BY <1>0, <2>1, <2>3, <2>5, RowRewritten DEF HasRun
  <2> QED BY <2>3, <2>4, <2>5
<1>9. CASE OthersCome
  <2>1. PICK n \in Nat : task' = Behind(n)
    BY <1>9, PortalAssumption DEF OthersCome
  <2>2. UNCHANGED <<saved, loading, made>>
    BY <1>9 DEF OthersCome
  <2> QED BY <1>0, <2>1, <2>2, RowsBehind DEF HasRun
<1> QED
  BY <1>1, <1>2, <1>3, <1>4, <1>5, <1>6, <1>7, <1>8, <1>9
     DEF Next, RegistryStep, TaskStep, RunnerStep, vars, history, Expire, Reset, Retire, RemoveFile,
         OpenFile, Poll, ListRunnable, ListRetry, ListIdle, ListUnheard, SendStart, RevokedMark,
         ReIdentify, StandDown, Install, SessionExpired, Finish, RunnerDies, RetryAges

Works(c, t) == run[c].at = "works" /\ run[c].job = t

(* Nobody takes t up, and no draft of it is made.                          *)
Shrinks(t) ==
  /\ drafts'[t] = drafts[t]
  /\ \A c \in Computers :
       /\ InHand(c, t)' => InHand(c, t)
       /\ left'[c][t] > 0 => left[c][t] > 0
       /\ Works(c, t)' => Works(c, t)

LEMMA HandsShrink ==
  ASSUME NEW t \in Tasks, OneDraft(t), HasRun(t) => HasRun(t)', Shrinks(t)
  PROVE  OneDraft(t)'
<1>1. drafts'[t] < 2 /\ (drafts'[t] > 0 => \A c \in Computers : ~InHand(c, t)')
  BY DEF OneDraft, Shrinks
<1>2. \A c, d \in Computers : Holds(c, t)' /\ Holds(d, t)' => c = d
  BY DEF OneDraft, Holds, Shrinks
<1>3. drafts'[t] > 0 => HasRun(t)'
  BY DEF OneDraft, Shrinks
<1>4. \A c \in Computers : left'[c][t] > 0 \/ Works(c, t)' => HasRun(t)'
  BY DEF OneDraft, Works, Shrinks
<1> QED BY <1>1, <1>2, <1>3, <1>4 DEF OneDraft, Works

(* Only the runner of c changes, and what it has in hand it had before.    *)
LEMMA RunnerShrinks ==
  ASSUME Typed, NEW t \in Tasks, NEW c \in Computers,
         \A d \in Computers : d # c => run'[d] = run[d],
         InHand(c, t)' => InHand(c, t), Works(c, t)' => Works(c, t),
         UNCHANGED <<left, drafts>>
  PROVE  Shrinks(t)
BY DEF Shrinks, InHand, Works

LEMMA QuietShrinks ==
  ASSUME UNCHANGED <<run, left, drafts>>, NEW t \in Tasks
  PROVE  Shrinks(t)
BY DEF Shrinks, InHand, Works

LEMMA CrashShrinks ==
  ASSUME Crash, NEW t \in Tasks
  PROVE  Shrinks(t)
BY DEF Crash, Shrinks, InHand, Works, Idle

(* The runner goes idle or off, or polls, or its task is the one it chose. *)
LEMMA OtherRunnerStepsShrink ==
  ASSUME Typed, NEW c \in Computers, NEW t \in Tasks,
         Poll(c) \/ ListUnheard(c) \/ SendStart(c) \/ Refused(c) \/ Install(c)
  PROVE  Shrinks(t)
<1>0. TypeOK /\ Links /\ run \in [Computers -> RunRecords] /\ Idle \in RunRecords
  BY RecordSteps DEF Typed, TypeOK
<1>1. CASE Poll(c)
  <2>1. Ask(c, "polls", Nobody, "none") /\ UNCHANGED <<left, drafts>>
    BY <1>1 DEF Poll, history
  <2>2. /\ \A d \in Computers : d # c => run'[d] = run[d]
        /\ run'[c] = Idle \/ run'[c] = [at |-> "polls", job |-> Nobody]
    BY <1>0, <2>1, AskStarts DEF Marks
  <2>3. ~InHand(c, t)' /\ ~Works(c, t)'
    BY <2>2 DEF InHand, Works, Idle
  <2> QED BY <2>1, <2>2, <2>3, RunnerShrinks
<1>2. CASE SendStart(c)
  <2>1. /\ Ask(c, "starts", run[c].job, "running") /\ UNCHANGED <<left, drafts>>
        /\ run[c].job \in Tasks /\ run[c].at = "chose"
    BY <1>0, <1>2 DEF SendStart, history, Links, Linked
  <2>2. /\ \A d \in Computers : d # c => run'[d] = run[d]
        /\ run'[c] = Idle \/ run'[c] = [at |-> "starts", job |-> run[c].job]
    BY <1>0, <2>1, AskStarts DEF Marks
  <2>3. (InHand(c, t)' => InHand(c, t)) /\ ~Works(c, t)'
    BY <2>1, <2>2 DEF InHand, Works, Idle
  <2> QED BY <2>1, <2>2, <2>3, RunnerShrinks
<1>3. CASE ListUnheard(c) \/ Refused(c) \/ Install(c)
  <2>1. /\ run' = [run EXCEPT ![c] = Idle] \/ run' = [run EXCEPT ![c] = Off]
        /\ UNCHANGED <<left, drafts>>
    BY <1>3 DEF ListUnheard, Refused, RevokedMark, ReIdentify, StandDown, Install, history
  <2>2. /\ \A d \in Computers : d # c => run'[d] = run[d]
        /\ run'[c] = Idle \/ run'[c] = Off
    BY <1>0, <2>1
  <2>3. ~InHand(c, t)' /\ ~Works(c, t)'
    BY <2>2 DEF InHand, Works, Idle, Off
  <2> QED BY <2>1, <2>2, <2>3, RunnerShrinks
<1> QED BY <1>1, <1>2, <1>3

LEMMA ListIdleShrinks ==
  ASSUME Typed, NEW c \in Computers, NEW t \in Tasks, ListIdle(c)
  PROVE  Shrinks(t)
<1>0. run \in [Computers -> RunRecords] /\ left \in [Computers -> [Tasks -> 0..Attempts]]
  BY DEF Typed, TypeOK
<1>1. /\ run' = [run EXCEPT ![c] = Idle] /\ drafts' = drafts
      /\ left' = [left EXCEPT ![c] = [u \in Tasks |-> IF u \in Alive(c) THEN left[c][u] ELSE 0]]
  BY DEF ListIdle
<1>2. \A d \in Computers : left'[d][t] > 0 => left[d][t] > 0
  BY <1>0, <1>1
<1>3. \A d \in Computers : run'[d] = run[d] \/ run'[d] = Idle
  BY <1>0, <1>1
<1> QED BY <1>1, <1>2, <1>3 DEF Shrinks, InHand, Works, Idle

LEMMA RetryAgesShrinks ==
  ASSUME Typed, NEW c \in Computers, NEW t \in Tasks, RetryAges(c)
  PROVE  Shrinks(t)
<1>1. left \in [Computers -> [Tasks -> 0..Attempts]] /\ UNCHANGED <<run, drafts>>
  BY DEF Typed, TypeOK, RetryAges
<1>2. PICK u \in Tasks : left' = [left EXCEPT ![c][u] = 0]
  BY DEF RetryAges
<1>3. \A d \in Computers : left'[d][t] > 0 => left[d][t] > 0
  BY <1>1, <1>2
<1> QED BY <1>1, <1>3 DEF Shrinks, InHand, Works

(* c takes up a task that has not run.                                     *)
LEMMA ListRunnableKeeps ==
  ASSUME Typed, NEW c \in Computers, ListRunnable(c), NEW t \in Tasks, t \notin excused',
         OneDraft(t), HasRun(t) => HasRun(t)'
  PROVE  OneDraft(t)'
<1>0. run \in [Computers -> RunRecords] /\ task \in [Tasks -> TaskRows] /\ drafts \in [Tasks -> 0..2]
  BY DEF Typed, TypeOK
<1>1. PICK u \in Tasks : /\ Runnable(u)
                        /\ run' = [run EXCEPT ![c] = [Idle EXCEPT !.at = "chose", !.job = u]]
  BY DEF ListRunnable
<1>2. /\ UNCHANGED <<left, drafts>> /\ run[c].at = "polls" /\ t \notin Overtaken(c)
  BY DEF ListRunnable
<1>3. run'[c].at = "chose" /\ run'[c].job = u /\ \A d \in Computers : d # c => run'[d] = run[d]
  BY <1>0, <1>1 DEF Idle
<1>4. CASE u # t
  <2>1. ~InHand(c, t)' /\ ~Works(c, t)'
    BY <1>3, <1>4 DEF InHand, Works
  <2> QED BY <1>2, <1>3, <2>1, RunnerShrinks, HandsShrink
<1>5. CASE u = t
  <2>1. ~HasRun(t)
    BY <1>0, <1>1, <1>5 DEF Runnable, HasRun, Absent
  <2>2. drafts[t] = 0 /\ \A d \in Computers : ~(left[d][t] > 0) /\ ~Works(d, t)
    BY <1>0, <2>1 DEF OneDraft, Works
  <2>3. \A d \in Computers \ {c} : ~InHand(d, t)
    BY <1>2, <2>2 DEF Overtaken, InHand, Works
  <2>4. \A d \in Computers : Holds(d, t)' => d = c
    BY <1>2, <1>3, <2>2, <2>3 DEF Holds, InHand
  <2>5. \A d \in Computers : ~(left'[d][t] > 0) /\ ~(run'[d].at = "works" /\ run'[d].job = t)
    BY <1>2, <1>3, <2>2 DEF Works
  <2> QED BY <1>2, <2>2, <2>4, <2>5 DEF OneDraft
<1> QED BY <1>4, <1>5

(* c takes up a task of its retry queue.                                   *)
LEMMA ListRetryKeeps ==
  ASSUME Typed, NEW c \in Computers, ListRetry(c), NEW t \in Tasks, t \notin excused',
         OneDraft(t), HasRun(t) => HasRun(t)'
  PROVE  OneDraft(t)'
<1>0. /\ run \in [Computers -> RunRecords] /\ left \in [Computers -> [Tasks -> 0..Attempts]]
      /\ drafts \in [Tasks -> 0..2]
  BY DEF Typed, TypeOK
<1>1. PICK u \in Alive(c) :
        /\ run' = [run EXCEPT ![c] = [Idle EXCEPT !.at = "chose", !.job = u]]
        /\ left' = [left EXCEPT ![c] = [v \in Tasks |->
                      IF v = u THEN left[c][u] - 1
                      ELSE IF v \in Alive(c) THEN left[c][v] ELSE 0]]
        /\ excused' = excused \union Overtaken(c) \union {v \in {u} : drafts[v] > 0}
  BY DEF ListRetry
<1>2. drafts' = drafts /\ run[c].at = "polls" /\ u \in Tasks /\ left[c][u] > 0
  BY DEF ListRetry, Alive
<1>3. run'[c].at = "chose" /\ run'[c].job = u /\ \A d \in Computers : d # c => run'[d] = run[d]
  BY <1>0, <1>1 DEF Idle
<1>4. \A d \in Computers : left'[d][t] > 0 => left[d][t] > 0
  BY <1>0, <1>1, <1>2
<1>5. CASE u # t
  <2>1. ~InHand(c, t)' /\ ~Works(c, t)'
    BY <1>3, <1>5 DEF InHand, Works
  <2>2. Shrinks(t)
    BY <1>2, <1>3, <1>4, <2>1 DEF Shrinks, InHand, Works
  <2> QED BY <2>2, HandsShrink
<1>6. CASE u = t
  <2>1. drafts[t] = 0
    BY <1>0, <1>1, <1>6
  <2>2. Holds(c, t) /\ \A d \in Computers : Holds(d, t)' => Holds(d, t)
    BY <1>2, <1>3, <1>4, <1>6 DEF Holds, InHand
  <2>3. \A d, e \in Computers : Holds(d, t)' /\ Holds(e, t)' => d = e
    BY <2>2 DEF OneDraft
  <2>4. \A d \in Computers : Works(d, t)' => Works(d, t)
    BY <1>3 DEF Works
  <2>5. \A d \in Computers : left'[d][t] > 0 \/ Works(d, t)' => HasRun(t)'
    BY <1>4, <2>4 DEF OneDraft, Works
  <2> QED BY <1>2, <2>1, <2>3, <2>5 DEF OneDraft, Works
<1> QED BY <1>5, <1>6

(* A mark is served: if it was of the start of a run, the run begins.      *)
LEMMA MarkServedKeeps ==
  ASSUME Typed, RowsAgree, NEW c \in Computers, MarkServed(c), NEW t \in Tasks,
         OneDraft(t), HasRun(t) => HasRun(t)'
  PROVE  OneDraft(t)'
<1>0. /\ run \in [Computers -> RunRecords] /\ task \in [Tasks -> TaskRows]
      /\ UNCHANGED <<left, drafts, saved, loading, made>>
  BY DEF Typed, TypeOK, MarkServed
<1>1. PICK u : u = Marked(c)
  OBVIOUS
<1>2. CASE run' = [run EXCEPT ![c] = Idle]
  <2>1. \A d \in Computers : run'[d] = run[d] \/ run'[d] = Idle
    BY <1>0, <1>2
  <2>2. Shrinks(t)
    BY <1>0, <2>1 DEF Shrinks, InHand, Works, Idle
  <2> QED BY <2>2, HandsShrink
<1>3. CASE /\ task[u] # Absent
           /\ task' = [task EXCEPT ![u].status = MarkedAs(c), ![u].ran = TRUE]
           /\ run[c].at = "starts" /\ run[c].job = u
           /\ run' = [run EXCEPT ![c] = [run[c] EXCEPT !.at = "works"]]
  <2>1. /\ run'[c].at = "works" /\ run'[c].job = u
        /\ \A d \in Computers : d # c => run'[d] = run[d]
    <3> DEFINE r == [run[c] EXCEPT !.at = "works"]
    <3>1. r.at = "works" /\ r.job = u
      BY <1>0, <1>3, RecordSteps
    <3>2. run' = [run EXCEPT ![c] = r]
      BY <1>3
    <3> HIDE DEF r
    <3> QED BY <1>0, <3>1, <3>2
  <2>2. CASE u # t
    <3>1. ~InHand(c, t)' /\ ~Works(c, t)'
      BY <2>1, <2>2 DEF InHand, Works
    <3> QED BY <1>0, <2>1, <3>1, RunnerShrinks, HandsShrink
  <2>3. CASE u = t
    <3>1. InHand(c, t) /\ \A d \in Computers : InHand(d, t)' <=> InHand(d, t)
      BY <1>3, <2>1, <2>3 DEF InHand
    <3>2. HasRun(t)'
      <4>1. task'[t].ran
        BY <1>0, <1>3, <2>3
      <4>2. t \in made /\ (loading => saved[t] = Absent)
        BY <1>3, <2>3 DEF RowsAgree
      <4> QED BY <1>0, <4>1, <4>2 DEF HasRun
    <3>3. \A d \in Computers : Holds(d, t)' <=> Holds(d, t)
      BY <1>0, <3>1 DEF Holds
    <3>4. drafts'[t] < 2 /\ (drafts'[t] > 0 => \A d \in Computers : ~InHand(d, t)')
      BY <1>0, <3>1 DEF OneDraft
    <3>5. \A d, e \in Computers : Holds(d, t)' /\ Holds(e, t)' => d = e
      BY <3>3 DEF OneDraft
    <3> QED BY <3>2, <3>4, <3>5 DEF OneDraft
  <2> QED BY <2>2, <2>3
<1> QED BY <1>1, <1>2, <1>3, MarkServedCases

(* The session has expired: the task goes from the hand to the queue.      *)
LEMMA SessionExpiredKeeps ==
  ASSUME Typed, NEW c \in Computers, SessionExpired(c), NEW t \in Tasks,
         OneDraft(t), HasRun(t) => HasRun(t)'
  PROVE  OneDraft(t)'
<1>0. /\ TypeOK /\ run \in [Computers -> RunRecords] /\ left \in [Computers -> [Tasks -> 0..Attempts]]
      /\ drafts' = drafts /\ run[c].at = "works" /\ run[c].job \in Tasks
  BY DEF Typed, TypeOK, SessionExpired, history, Links, Linked
<1>1. PICK mark \in {"login", "blocked"} : Ask(c, "ends", run[c].job, mark)
  BY DEF SessionExpired
<1>2. /\ \A d \in Computers : d # c => run'[d] = run[d]
      /\ run'[c] = Idle \/ run'[c] = [at |-> "ends", job |-> run[c].job]
  BY <1>0, <1>1, AskStarts DEF Marks
<1>3. ~InHand(c, t)' /\ ~Works(c, t)'
  BY <1>2 DEF InHand, Works, Idle
<1>4. left' = [left EXCEPT ![c][run[c].job] = IF @ = 0 THEN Attempts ELSE @]
  BY DEF SessionExpired
<1>5. CASE run[c].job # t
  <2>1. \A d \in Computers : left'[d][t] = left[d][t]
    BY <1>0, <1>4, <1>5
  <2>2. Shrinks(t)
    BY <1>0, <1>2, <1>3, <2>1 DEF Shrinks, InHand, Works
  <2> QED BY <2>2, HandsShrink
<1>6. CASE run[c].job = t
  <2>1. InHand(c, t) /\ Works(c, t) /\ HasRun(t)
    BY <1>0, <1>6 DEF InHand, Works, OneDraft
  <2>2. \A d \in Computers : d # c => left'[d][t] = left[d][t]
    BY <1>0, <1>4
  <2>3. \A d \in Computers : Holds(d, t)' => Holds(d, t)
    BY <1>2, <2>1, <2>2 DEF Holds, InHand
  <2>4. drafts'[t] < 2 /\ ~(drafts'[t] > 0)
    BY <1>0, <2>1 DEF OneDraft
  <2>5. \A d, e \in Computers : Holds(d, t)' /\ Holds(e, t)' => d = e
    BY <2>3 DEF OneDraft
  <2>6. HasRun(t)'
    BY <2>1
  <2> QED BY <2>4, <2>5, <2>6 DEF OneDraft
<1> QED BY <1>5, <1>6

(* A run is over, and may have made a draft.                               *)
LEMMA DraftMade ==
  ASSUME Typed, NEW c \in Computers, NEW t \in Tasks, OneDraft(t), HasRun(t) => HasRun(t)',
         \A d \in Computers : d # c => run'[d] = run[d], ~InHand(c, t)', left' = left,
         drafts' \in {drafts, Drafted(run[c].job)}, run[c].at = "works"
  PROVE  OneDraft(t)'
<1>0. drafts \in [Tasks -> 0..2] /\ run[c].job \in Tasks
  BY DEF Typed, TypeOK, Links, Linked
<1>1. ~Works(c, t)'
  BY DEF InHand, Works
<1>2. CASE drafts'[t] = drafts[t]
  <2>1. Shrinks(t)
    BY <1>1, <1>2 DEF Shrinks, InHand, Works
  <2> QED BY <2>1, HandsShrink
<1>3. CASE drafts'[t] # drafts[t]
  <2>1. run[c].job = t /\ drafts'[t] = IF drafts[t] = 0 THEN 1 ELSE 2
    BY <1>0, <1>3 DEF Drafted
  <2>2. InHand(c, t) /\ Works(c, t) /\ HasRun(t)
    BY <2>1 DEF InHand, Works, OneDraft
  <2>3. drafts'[t] = 1
    BY <1>0, <2>1, <2>2 DEF OneDraft
  <2>4. \A d \in Computers : InHand(d, t) => d = c
    BY <2>2 DEF OneDraft, Holds
  <2>5. \A d \in Computers : ~InHand(d, t)'
    BY <2>4 DEF InHand
  <2>6. \A d \in Computers : Holds(d, t)' => Holds(d, t)
    BY <2>5 DEF Holds
  <2>7. \A d, e \in Computers : Holds(d, t)' /\ Holds(e, t)' => d = e
    BY <2>6 DEF OneDraft
  <2> QED BY <2>2, <2>3, <2>5, <2>7 DEF OneDraft
<1> QED BY <1>2, <1>3

LEMMA FinishKeeps ==
  ASSUME Typed, NEW c \in Computers, Finish(c), NEW t \in Tasks,
         OneDraft(t), HasRun(t) => HasRun(t)'
  PROVE  OneDraft(t)'
<1>0. /\ TypeOK /\ left' = left /\ run[c].at = "works" /\ run[c].job \in Tasks
      /\ drafts' \in {drafts, Drafted(run[c].job)}
  BY DEF Typed, Finish, Links, Linked
<1>1. PICK mark \in {"waiting", "blocked"} : Ask(c, "ends", run[c].job, mark)
  BY DEF Finish
<1>2. /\ \A d \in Computers : d # c => run'[d] = run[d]
      /\ run'[c] = Idle \/ run'[c] = [at |-> "ends", job |-> run[c].job]
  BY <1>0, <1>1, AskStarts DEF Marks
<1>3. ~InHand(c, t)'
  BY <1>2 DEF InHand, Idle
<1> QED BY <1>0, <1>2, <1>3, DraftMade

LEMMA RunnerDiesKeeps ==
  ASSUME Typed, NEW c \in Computers, RunnerDies(c), NEW t \in Tasks,
         OneDraft(t), HasRun(t) => HasRun(t)'
  PROVE  OneDraft(t)'
<1>0. run \in [Computers -> RunRecords] /\ left' = left
  BY DEF Typed, TypeOK, RunnerDies
<1>1. /\ \A d \in Computers : d # c => run'[d] = run[d]
      /\ run'[c] = Idle \/ run'[c] = [Idle EXCEPT !.at = "gone"]
  BY <1>0 DEF RunnerDies
<1>2. ~InHand(c, t)' /\ ~Works(c, t)'
  BY <1>1 DEF InHand, Works, Idle
<1>3. CASE run[c].at = "works"
  <2>1. drafts' \in {drafts, Drafted(run[c].job)}
    BY <1>3 DEF RunnerDies
  <2> QED BY <1>0, <1>1, <1>2, <1>3, <2>1, DraftMade
<1>4. CASE run[c].at # "works"
  <2>1. drafts' = drafts
    BY <1>4 DEF RunnerDies
  <2> QED BY <1>0, <1>1, <1>2, <2>1, RunnerShrinks, HandsShrink
<1> QED BY <1>3, <1>4

(* What happened to a task is not forgotten.                               *)
LEMMA ExcusesStay == [Next]_vars => excused \subseteq excused'
<1> SUFFICES ASSUME [Next]_vars PROVE excused \subseteq excused'
  OBVIOUS
<1>1. CASE RegistryStep
  BY <1>1 DEF RegistryStep, Expire, Reset, Retire, RemoveFile, OpenFile, history
<1>2. CASE TaskStep
  BY <1>2 DEF TaskStep, StartDraft, OthersCome, Save, Loaded, Crash, ConsoleSets, Reap, history
<1>3. ASSUME NEW c \in Computers, RunnerStep(c) PROVE excused \subseteq excused'
  <2>1. CASE ListRunnable(c) \/ ListRetry(c) \/ ListIdle(c) \/ ListUnheard(c) \/ MarkServed(c)
    BY <2>1 DEF ListRunnable, ListRetry, ListIdle, ListUnheard, MarkServed
  <2>2. CASE Poll(c) \/ SendStart(c) \/ Refused(c) \/ Install(c)
    BY <2>2 DEF Poll, SendStart, Refused, RevokedMark, ReIdentify, StandDown, Install, history
  <2>3. CASE SessionExpired(c) \/ Finish(c) \/ RunnerDies(c) \/ RetryAges(c)
    BY <2>3 DEF SessionExpired, Finish, RunnerDies, RetryAges, history
  <2> QED BY <1>3, <2>1, <2>2, <2>3 DEF RunnerStep, Refused
<1>4. CASE UNCHANGED vars
  BY <1>4 DEF vars, history
<1> QED BY <1>1, <1>2, <1>3, <1>4 DEF Next

LEMMA DraftsKept == Typed /\ DraftsExplained /\ [Next]_vars => DraftsExplained'
<1> SUFFICES ASSUME Typed, DraftsExplained, [Next]_vars PROVE DraftsExplained'
  OBVIOUS
<1>0. RowsAgree /\ RowsAgree'
  BY RowsAgreeKept DEF DraftsExplained
<1>1. SUFFICES ASSUME NEW t \in Tasks, t \notin excused' PROVE OneDraft(t)'
  BY <1>0 DEF DraftsExplained
<1>2. OneDraft(t)
  BY <1>1, ExcusesStay DEF DraftsExplained
<1>3. HasRun(t) => HasRun(t)'
  BY <1>0, <1>1, HasRunKept
<1>4. CASE RegistryStep
  <2>1. UNCHANGED <<run, left, drafts>>
    BY <1>4 DEF RegistryStep, Expire, Reset, Retire, RemoveFile, OpenFile, history
  <2> QED BY <1>2, <1>3, <2>1, QuietShrinks, HandsShrink
<1>5. CASE TaskStep
  <2>1. CASE Crash
    BY <1>2, <1>3, <2>1, CrashShrinks, HandsShrink
  <2>2. CASE ~Crash
    <3>1. UNCHANGED <<run, left, drafts>>
      BY <1>5, <2>2 DEF TaskStep, StartDraft, OthersCome, Save, Loaded, ConsoleSets, Reap, history
    <3> QED BY <1>2, <1>3, <3>1, QuietShrinks, HandsShrink
  <2> QED BY <2>1, <2>2
<1>6. ASSUME NEW c \in Computers, RunnerStep(c) PROVE OneDraft(t)'
  <2>1. CASE Poll(c) \/ ListUnheard(c) \/ SendStart(c) \/ Refused(c) \/ Install(c)
    BY <1>2, <1>3, <2>1, OtherRunnerStepsShrink, HandsShrink
  <2>2. CASE ListIdle(c)
    BY <1>2, <1>3, <2>2, ListIdleShrinks, HandsShrink
  <2>3. CASE ListRunnable(c) \/ ListRetry(c)
    BY <1>1, <1>2, <1>3, <2>3, ListRunnableKeeps, ListRetryKeeps
  <2>4. CASE MarkServed(c)
    BY <1>0, <1>2, <1>3, <2>4, MarkServedKeeps
  <2>5. CASE SessionExpired(c) \/ Finish(c) \/ RunnerDies(c)
    BY <1>2, <1>3, <2>5, SessionExpiredKeeps, FinishKeeps, RunnerDiesKeeps
  <2>6. CASE RetryAges(c)
    BY <1>2, <1>3, <2>6, RetryAgesShrinks, HandsShrink
  <2> QED BY <1>6, <2>1, <2>2, <2>3, <2>4, <2>5, <2>6 DEF RunnerStep, Refused
<1>7. CASE UNCHANGED vars
  <2>1. UNCHANGED <<run, left, drafts>>
    BY <1>7 DEF vars, history
  <2> QED BY <1>2, <1>3, <2>1, QuietShrinks, HandsShrink
<1> QED BY <1>4, <1>5, <1>6, <1>7 DEF Next

LEMMA InitDrafts == Init => DraftsExplained
BY DEF Init, DraftsExplained, RowsAgree, NoTasks, OneDraft, Holds, InHand, Idle, Off

(* A second draft of a task on the portal has one of its three reasons: a  *)
(* retry after the first draft, a restart of the API that lost the mark,   *)
(* or a computer that was accepted while another had the task in hand.     *)
THEOREM AlwaysDraftTwiceHasReason == Spec => []DraftTwiceHasReason
<1>1. Typed /\ DraftsExplained => DraftTwiceHasReason
  BY DEF DraftsExplained, OneDraft, DraftTwiceHasReason
<1>2. Init => Typed /\ DraftsExplained
  BY InitIsTyped, InitDrafts
<1>3. Typed /\ DraftsExplained /\ [Next]_vars => Typed' /\ DraftsExplained'
  BY TypedKept, DraftsKept
<1> QED BY <1>1, <1>2, <1>3, PTL DEF Spec

-----------------------------------------------------------------------------
(* The retired computer.                                                   *)
LEMMA InitRetirement == Init => RetirementHolds
BY DEF Init, RetirementHolds, TombstoneStands, ManagerWrites, Clients, NoIO

(* What a retired id is, and what the file says while it stays out.        *)
LEMMA WhileRetired ==
  ASSUME Typed, RetirementHolds, retired # Nobody
  PROVE  /\ retired \in Ids /\ file.holder = Nobody /\ file.fresh = FALSE
         /\ Tombstone(retired).holder = Nobody /\ Tombstone(retired).revoked = retired
         /\ file.revoked \in {Nobody, retired}
         /\ file.revoked = retired => file = Tombstone(retired)
         /\ file.revoked = Nobody => \E c \in Computers : io[c].at = "writes"
         /\ \A c \in Computers : io[c].at = "writes" =>
              io[c].text = Tombstone(retired) /\ IdOf(c) = retired /\ io[c].own /\ io[c].clean
<1>1. retired \in Ids
  BY DEF Typed, TypeOK
<1>2. /\ Tombstone(retired).holder = Nobody /\ Tombstone(retired).revoked = retired
      /\ Tombstone(retired).fresh = FALSE
      /\ NoReg.holder = Nobody /\ NoReg.revoked = Nobody /\ NoReg.fresh = FALSE
  BY <1>1, RegistrationRecords
<1>3. \/ file = Tombstone(retired)
      \/ file = NoReg /\ \E c \in Computers : io[c].at = "writes"
  BY DEF RetirementHolds, TombstoneStands
<1>4. \A c \in Computers : io[c].at = "writes" =>
        io[c].text = Tombstone(retired) /\ IdOf(c) = retired /\ io[c].own /\ io[c].clean
  BY DEF RetirementHolds, TombstoneStands, InCheck
<1> QED BY <1>1, <1>2, <1>3, <1>4

LEMMA QuietRetirement ==
  ASSUME RetirementHolds, UNCHANGED <<file, io, name, retired>>
  PROVE  RetirementHolds'
BY DEF RetirementHolds, TombstoneStands, ManagerWrites, InCheck, IdOf

(* A computer that begins its check claims for itself, or is the retired   *)
(* one and will write the tombstone again.                                 *)
LEMMA AskKeepsRetirement ==
  ASSUME Typed, RetirementHolds, NEW c \in Computers, NEW at \in {"polls", "starts", "ends"},
         NEW t \in Tasks \union {Nobody}, NEW mark \in Marks, Ask(c, at, t, mark),
         io[c].at = "idle", UNCHANGED <<file, name, retired>>
  PROVE  RetirementHolds'
<1>0. /\ TypeOK /\ c \in Clients /\ Manager \in Clients /\ c # Manager
      /\ \A d \in Computers : d \in Clients
  BY DEF Typed, Clients
<1>1. CASE io' = io
  BY <1>1, QuietRetirement
<1>2. CASE io' # io
  <2>0. /\ io' \in [Clients -> IORecords] /\ run' \in [Computers -> RunRecords]
        /\ \A x \in Clients : x # c => io'[x] = io[x]
        /\ \A d \in Computers : d # c => run'[d] = run[d]
        /\ \/ io' = io /\ run'[c] = Idle
           \/ /\ run'[c] = [at |-> at, job |-> t]
              /\ io'[c] = Asking(Checked(IdOf(c)), t, mark)
    BY <1>0, AskStarts
  <2>1. /\ \A x \in Clients : x # c => io'[x] = io[x]
        /\ io'[c] = Asking(Checked(IdOf(c)), t, mark)
    BY <1>2, <2>0
  <2>2. io'[c].at = "opens" /\ io'[c].text = Checked(IdOf(c)) /\ io'[c].own /\ io'[c].clean
    BY <2>1 DEF Asking
  <2>3. ManagerWrites'
    BY <1>0, <2>1 DEF RetirementHolds, ManagerWrites
  <2>4. SUFFICES ASSUME retired # Nobody PROVE TombstoneStands'
    BY <2>3 DEF RetirementHolds, TombstoneStands
  <2>5. \/ Checked(IdOf(c)) = Tombstone(retired) /\ IdOf(c) = retired
        \/ Checked(IdOf(c)) = Claim(IdOf(c)) /\ IdOf(c) # retired
    <3>1. IdOf(c) \in Ids /\ IdOf(c) # Nobody /\ \A d \in Computers : IdOf(d) = IdOf(c) => d = c
      BY <1>0, IdsAreDistinct, RegistrationRecords DEF TypeOK
    <3>2. CASE file.revoked = IdOf(c)
      BY <2>4, <3>1, <3>2, WhileRetired DEF Checked
    <3>3. CASE file.revoked # IdOf(c)
      <4>1. Checked(IdOf(c)) = Claim(IdOf(c))
        BY <3>3 DEF Checked
      <4>2. CASE file.revoked = retired
        BY <3>3, <4>1, <4>2
      <4>3. CASE file.revoked = Nobody
        <5>1. PICK d \in Computers : io[d].at = "writes" /\ IdOf(d) = retired
          BY <2>4, <4>3, WhileRetired
        <5> QED BY <3>1, <4>1, <5>1
      <4> QED BY <2>4, <4>2, <4>3, WhileRetired
    <3> QED BY <3>2, <3>3
  <2>6. /\ io'[c].text = Tombstone(retired) => IdOf(c) = retired
        /\ io'[c].text = Tombstone(retired) \/ io'[c].text.holder \notin {Nobody, retired}
    <3>1. IdOf(c) \in Ids /\ retired \in Ids
      BY <1>0, <2>4, IdsAreDistinct, WhileRetired DEF TypeOK
    <3>2. Claim(IdOf(c)).holder = IdOf(c) /\ IdOf(c) # Nobody /\ Tombstone(retired).holder = Nobody
      BY <3>1, RegistrationRecords
    <3> QED BY <2>2, <2>5, <3>2
  <2>7. ASSUME NEW d \in Computers, InCheck(d)'
        PROVE  /\ io'[d].own /\ io'[d].clean
               /\ io'[d].text = Tombstone(retired) => <<d, name'[d]>> = retired
               /\ \/ io'[d].text = Tombstone(retired)
                  \/ io'[d].at = "opens" /\ io'[d].text.holder \notin {Nobody, retired}
    <3>1. CASE d = c
      BY <2>2, <2>6, <3>1 DEF IdOf
    <3>2. CASE d # c
      BY <1>0, <2>1, <2>4, <2>7, <3>2 DEF RetirementHolds, TombstoneStands, InCheck, IdOf
    <3> QED BY <3>1, <3>2
  <2>8. io'[Manager].at = "idle"
    BY <1>0, <2>1, <2>4 DEF RetirementHolds, TombstoneStands
  <2>9. \/ file' = Tombstone(retired)
        \/ file' = NoReg /\ \E d \in Computers : io'[d].at = "writes"
    BY <1>0, <2>1, <2>4 DEF RetirementHolds, TombstoneStands
  <2> QED BY <2>7, <2>8, <2>9 DEF TombstoneStands, IdOf, Tombstone, NoReg
<1> QED BY <1>1, <1>2

(* A write of a computer is over: it was of the tombstone, and the only one. *)
LEMMA WrittenKeepsRetirement ==
  ASSUME Typed, RetirementHolds, NEW c \in Computers, Written(c), retired' = retired,
         \A d \in Computers : d # c => name'[d] = name[d]
  PROVE  RetirementHolds'
<1>0. /\ TypeOK /\ c \in Clients /\ Manager \in Clients /\ c # Manager
      /\ \A d \in Computers : d \in Clients
  BY DEF Typed, Clients
<1>1. /\ io'[c] = NoIO
      /\ \A y \in Clients : y # c =>
           /\ io'[y].at = io[y].at /\ io'[y].text = io[y].text
           /\ io[y].at # "writes" => io'[y] = io[y]
  BY <1>0, WrittenEnds
<1>2. ManagerWrites'
  BY <1>0, <1>1 DEF RetirementHolds, ManagerWrites
<1>3. SUFFICES ASSUME retired # Nobody PROVE TombstoneStands'
  BY <1>2 DEF RetirementHolds, TombstoneStands
<1>4. /\ io[c].text = Tombstone(retired) /\ io[c].own /\ io[c].clean
      /\ IdOf(c) = retired /\ \A d \in Computers : io[d].at = "writes" => d = c
  <2>1. io[c].at = "writes"
    BY DEF Written
  <2>2. \A d, e \in Computers : IdOf(d) = IdOf(e) => d = e
    BY <1>0, IdsAreDistinct DEF TypeOK
  <2> QED BY <1>3, <2>1, <2>2, WhileRetired
<1>5. file' = Tombstone(retired)
  BY <1>4 DEF Written, Outcomes
<1>6. ASSUME NEW d \in Computers, InCheck(d)'
      PROVE  /\ io'[d].own /\ io'[d].clean
             /\ io'[d].text = Tombstone(retired) => <<d, name'[d]>> = retired
             /\ \/ io'[d].text = Tombstone(retired)
                \/ io'[d].at = "opens" /\ io'[d].text.holder \notin {Nobody, retired}
  <2>1. d # c
    BY <1>1, <1>6 DEF InCheck, NoIO
  <2>2. io'[d] = io[d] /\ name'[d] = name[d]
    BY <1>0, <1>1, <1>4, <2>1
  <2> QED BY <1>3, <1>6, <2>2 DEF RetirementHolds, TombstoneStands, InCheck, IdOf
<1>7. io'[Manager].at = "idle"
  BY <1>0, <1>1, <1>3 DEF RetirementHolds, TombstoneStands
<1> QED BY <1>5, <1>6, <1>7 DEF TombstoneStands, IdOf, Tombstone, NoReg

LEMMA OpenFileKeepsRetirement ==
  ASSUME Typed, RetirementHolds, NEW x \in Clients, OpenFile(x)
  PROVE  RetirementHolds'
<1>0. io \in [Clients -> IORecords] /\ Manager \in Clients /\ \A d \in Computers : d \in Clients
  BY DEF Typed, TypeOK, Clients
<1>1. /\ io[x].at = "opens" /\ io'[x] = [io[x] EXCEPT !.at = "writes"]
      /\ \A y \in Clients : y # x => io'[y] = io[y]
      /\ file' = NoReg /\ name' = name
  BY <1>0 DEF OpenFile
<1>2. io'[x].at = "writes" /\ io'[x].text = io[x].text /\ io'[x].own = io[x].own
      /\ io'[x].clean = io[x].clean
  <2>1. io[x] \in IORecords
    BY <1>0
  <2> QED BY <1>1, <2>1 DEF IORecords
<1>3. ManagerWrites'
  <2>1. CASE x = Manager
    BY <1>1, <1>2, <2>1 DEF RetirementHolds, ManagerWrites
  <2>2. CASE x # Manager
    BY <1>0, <1>1, <2>2 DEF RetirementHolds, ManagerWrites
  <2> QED BY <2>1, <2>2
<1>4. SUFFICES ASSUME retired' # Nobody PROVE TombstoneStands'
  BY <1>3 DEF RetirementHolds, TombstoneStands
<1>5. retired' = retired /\ retired # Nobody /\ io[x].text.holder \in {Nobody, retired}
  BY <1>4 DEF OpenFile
<1>6. x \in Computers /\ x # Manager /\ io[Manager].at = "idle"
  BY <1>1, <1>5 DEF RetirementHolds, TombstoneStands, Clients
<1>7. io[x].text = Tombstone(retired) /\ IdOf(x) = retired /\ io[x].own /\ io[x].clean
  BY <1>1, <1>5, <1>6 DEF RetirementHolds, TombstoneStands, InCheck
<1>8. ASSUME NEW d \in Computers, InCheck(d)'
      PROVE  /\ io'[d].own /\ io'[d].clean
             /\ io'[d].text = Tombstone(retired) => <<d, name'[d]>> = retired
             /\ \/ io'[d].text = Tombstone(retired)
                \/ io'[d].at = "opens" /\ io'[d].text.holder \notin {Nobody, retired}
  <2>1. CASE d = x
    BY <1>1, <1>2, <1>7, <2>1 DEF IdOf
  <2>2. CASE d # x
    BY <1>0, <1>1, <1>5, <1>8, <2>2 DEF RetirementHolds, TombstoneStands, InCheck, IdOf
  <2> QED BY <2>1, <2>2
<1>9. io'[Manager].at = "idle"
  BY <1>0, <1>1, <1>6
<1> QED BY <1>1, <1>2, <1>5, <1>6, <1>8, <1>9 DEF TombstoneStands, IdOf, Tombstone, NoReg

LEMMA ResetKeepsRetirement ==
  ASSUME Typed, RetirementHolds, Reset
  PROVE  RetirementHolds'
<1>0. io \in [Clients -> IORecords] /\ Manager \in Clients /\ Manager \notin Computers
      /\ file \in Registrations /\ \A d \in Computers : d \in Clients
  BY DEF Typed, TypeOK, Clients
<1>1. /\ io'[Manager] = Retirement /\ \A d \in Computers : io'[d] = io[d]
      /\ file' = file /\ name' = name
  BY <1>0 DEF Reset
<1>2. ManagerWrites'
  <2>1. CASE file.holder # Nobody
    <3>1. file.holder \in Ids
      BY <1>0, <2>1 DEF Registrations
    <3>2. io'[Manager].text = Tombstone(file.holder)
      BY <1>1, <2>1 DEF Retirement, Asking
    <3>3. Tombstone(file.holder).revoked = file.holder
      BY <3>1, RegistrationRecords
    <3> QED BY <3>2, <3>3 DEF ManagerWrites
  <2>2. CASE file.holder = Nobody
    BY <1>1, <2>2 DEF Retirement, NoIO, ManagerWrites
  <2> QED BY <2>1, <2>2
<1>3. SUFFICES ASSUME retired' # Nobody PROVE TombstoneStands'
  BY <1>2 DEF RetirementHolds, TombstoneStands
<1>4. retired' = retired /\ retired # Nobody /\ ~\E c \in Computers : io[c].at = "writes"
  BY <1>3 DEF Reset
<1>5. file = Tombstone(retired) /\ file.holder = Nobody /\ file.revoked = retired
  BY <1>4, WhileRetired
<1>6. io'[Manager].at = "idle"
  BY <1>1, <1>4, <1>5 DEF Retirement, NoIO
<1> QED BY <1>1, <1>4, <1>5, <1>6
        DEF RetirementHolds, TombstoneStands, InCheck, IdOf, Tombstone, NoReg

(* The tombstone is written with nobody in the check: it stands.           *)
LEMMA RetireKeepsRetirement ==
  ASSUME Typed, RetirementHolds, Retire
  PROVE  RetirementHolds'
<1>0. /\ TypeOK /\ Manager \in Clients /\ Manager \notin Computers
      /\ \A d \in Computers : d \in Clients
  BY DEF Typed, Clients
<1>1. /\ Written(Manager) /\ io[Manager].at = "writes"
      /\ retired' = IF file' = io[Manager].text /\ (\A c \in Computers : ~InCheck(c))
                    THEN file'.revoked ELSE retired
  BY DEF Retire, Written
<1>2. io'[Manager] = NoIO /\ \A d \in Computers : io'[d].at = io[d].at
  BY <1>0, <1>1, WrittenEnds
<1>3. ManagerWrites' /\ io'[Manager].at = "idle"
  BY <1>2 DEF ManagerWrites, NoIO
<1>4. retired = Nobody
  BY <1>1 DEF RetirementHolds, TombstoneStands
<1>5. io[Manager].text = Tombstone(io[Manager].text.revoked)
  BY <1>1 DEF RetirementHolds, ManagerWrites
<1>6. SUFFICES ASSUME retired' # Nobody PROVE TombstoneStands'
  BY <1>3 DEF RetirementHolds, TombstoneStands
<1>7. file' = Tombstone(retired') /\ \A c \in Computers : ~InCheck(c)
  BY <1>1, <1>4, <1>5, <1>6 DEF Tombstone
<1>8. \A c \in Computers : ~InCheck(c)'
  BY <1>2, <1>7 DEF InCheck
<1> QED BY <1>3, <1>7, <1>8 DEF TombstoneStands, Tombstone, NoReg

LEMMA OtherRegistryStepsKeepRetirement ==
  ASSUME Typed, RetirementHolds, Expire \/ RemoveFile \/ Crash
  PROVE  RetirementHolds'
<1>0. Manager \in Clients /\ \A d \in Computers : d \in Clients
  BY DEF Clients
<1>1. CASE Expire
  <2>1. retired = Nobody /\ retired' = retired /\ io' = io
    BY <1>1, WhileRetired DEF Expire, history
  <2> QED BY <2>1 DEF RetirementHolds, TombstoneStands, ManagerWrites
<1>2. CASE RemoveFile
  <2>1. retired = Nobody /\ retired' = retired /\ io'[Manager] = NoIO
    BY <1>0, <1>2 DEF RemoveFile, history, RetirementHolds, TombstoneStands
  <2> QED BY <2>1 DEF RetirementHolds, TombstoneStands, ManagerWrites, NoIO
<1>3. CASE Crash
  <2>1. /\ \A x \in Clients : io'[x] = NoIO
        /\ file' = file
        /\ retired' # Nobody => retired' = retired /\ \A c \in Computers : io[c].at # "writes"
    BY <1>3 DEF Crash
  <2>2. retired' # Nobody => file = Tombstone(retired)
    BY <2>1, WhileRetired
  <2>3. io'[Manager].at = "idle" /\ \A d \in Computers : io'[d].at = "idle"
    BY <1>0, <2>1 DEF NoIO
  <2>4. retired' # Nobody => file' = Tombstone(retired')
    BY <2>1, <2>2
  <2> QED BY <2>3, <2>4
          DEF RetirementHolds, TombstoneStands, ManagerWrites, InCheck, Tombstone, NoReg
<1> QED BY <1>1, <1>2, <1>3

LEMMA RetirementKept == Typed /\ RetirementHolds /\ [Next]_vars => RetirementHolds'
<1> SUFFICES ASSUME Typed, RetirementHolds, [Next]_vars PROVE RetirementHolds'
  OBVIOUS
<1>0. TypeOK /\ Links
  BY DEF Typed
<1>1. CASE RegistryStep
  BY <1>1, OtherRegistryStepsKeepRetirement, ResetKeepsRetirement, RetireKeepsRetirement,
     OpenFileKeepsRetirement
     DEF RegistryStep
<1>2. CASE TaskStep
  <2>1. CASE Crash
    BY <2>1, OtherRegistryStepsKeepRetirement
  <2>2. CASE ~Crash
    <3>1. UNCHANGED <<file, io, name, retired>>
      BY <1>2, <2>2 DEF TaskStep, StartDraft, OthersCome, Save, Loaded, ConsoleSets, Reap, history
    <3> QED BY <3>1, QuietRetirement
  <2> QED BY <2>1, <2>2
<1>3. ASSUME NEW c \in Computers, RunnerStep(c) PROVE RetirementHolds'
  <2>1. CASE Poll(c)
    <3>1. Ask(c, "polls", Nobody, "none") /\ io[c].at = "idle" /\ UNCHANGED <<file, name, retired>>
      BY <1>0, <2>1 DEF Poll, Links, Linked, history
    <3> QED BY <3>1, AskKeepsRetirement DEF Marks
  <2>2. CASE SendStart(c)
    <3>1. /\ Ask(c, "starts", run[c].job, "running") /\ io[c].at = "idle" /\ run[c].job \in Tasks
          /\ UNCHANGED <<file, name, retired>>
      BY <1>0, <2>2 DEF SendStart, Links, Linked, history
    <3> QED BY <3>1, AskKeepsRetirement DEF Marks
  <2>3. CASE SessionExpired(c) \/ Finish(c)
    <3>1. io[c].at = "idle" /\ run[c].job \in Tasks /\ UNCHANGED <<file, name, retired>>
      BY <1>0, <2>3 DEF SessionExpired, Finish, Links, Linked, history
    <3>2. PICK mark \in {"login", "blocked", "waiting"} : Ask(c, "ends", run[c].job, mark)
      BY <2>3 DEF SessionExpired, Finish
    <3> QED BY <3>1, <3>2, AskKeepsRetirement DEF Marks
  <2>4. CASE ListRunnable(c) \/ ListRetry(c) \/ ListIdle(c) \/ ListUnheard(c) \/ MarkServed(c)
    <3>1. Written(c) /\ retired' = retired /\ name' = name
      BY <2>4 DEF ListRunnable, ListRetry, ListIdle, ListUnheard, MarkServed, Accepted
    <3> QED BY <3>1, WrittenKeepsRetirement
  <2>5. CASE Refused(c)
    <3>1. Written(c) /\ retired' = retired
      BY <2>5 DEF Refused, RevokedMark, ReIdentify, StandDown, Revoked, history
    <3>2. \A d \in Computers : d # c => name'[d] = name[d]
      BY <1>0, <2>5 DEF Refused, RevokedMark, ReIdentify, StandDown, TypeOK
    <3> QED BY <3>1, <3>2, WrittenKeepsRetirement
  <2>6. CASE Install(c) \/ RunnerDies(c) \/ RetryAges(c)
    <3>1. UNCHANGED <<file, io, name, retired>>
      BY <2>6 DEF Install, RunnerDies, RetryAges, history
    <3> QED BY <3>1, QuietRetirement
  <2> QED BY <1>3, <2>1, <2>2, <2>3, <2>4, <2>5, <2>6 DEF RunnerStep, Refused
<1>4. CASE UNCHANGED vars
  <2>1. UNCHANGED <<file, io, name, retired>>
    BY <1>4 DEF vars, history
  <2> QED BY <2>1, QuietRetirement
<1> QED BY <1>1, <1>2, <1>3, <1>4 DEF Next

(* A retired machine id neither holds the registration nor is about to:    *)
(* every check that ends while it is retired ends with its tombstone, or   *)
(* with the claim of another computer, which ends the retirement.          *)
THEOREM AlwaysRetiredStaysOut == Spec => []RetiredStaysOut
<1>1. Typed /\ RetirementHolds => RetiredStaysOut
  <2> SUFFICES ASSUME Typed, RetirementHolds, retired # Nobody PROVE RetiredStaysOut
    BY DEF RetiredStaysOut
  <2>1. retired \in Ids /\ file.holder = Nobody /\ Tombstone(retired).holder = Nobody
    BY WhileRetired
  <2>2. \A c \in Computers : InCheck(c) => io[c].text.holder # retired
    BY <2>1 DEF RetirementHolds, TombstoneStands
  <2> QED BY <2>1, <2>2 DEF RetiredStaysOut
<1>2. Init => Typed /\ RetirementHolds
  BY InitIsTyped, InitRetirement
<1>3. Typed /\ RetirementHolds /\ [Next]_vars => Typed' /\ RetirementHolds'
  BY TypedKept, RetirementKept
<1> QED BY <1>1, <1>2, <1>3, PTL DEF Spec

-----------------------------------------------------------------------------
(* The promise of a retry.                                                 *)
LEMMA InitRetries == Init => RetriesQueued
BY DEF Init, RetriesQueued, PromiseHolds, LoginsQueued, Clients, NoIO

LEMMA QuietPromises ==
  ASSUME RetriesQueued, UNCHANGED <<left, task, saved, loading, promised>>
  PROVE  \A t \in Tasks : PromiseHolds(t)'
BY DEF RetriesQueued, PromiseHolds

(* No request that promises begins, and the queues of the others stay.     *)
LEMMA QuietLogins ==
  ASSUME RetriesQueued,
         \A c \in Computers : io'[c].mark = "login" =>
           /\ io[c].mark = "login" /\ io'[c].task = io[c].task
           /\ left'[c] = left[c]
  PROVE  LoginsQueued'
BY DEF RetriesQueued, LoginsQueued

LEMMA RegistryKeepsPromises ==
  ASSUME Typed, RetriesQueued, RegistryStep
  PROVE  RetriesQueued'
<1>0. /\ io \in [Clients -> IORecords] /\ Manager \in Clients /\ Manager \notin Computers
      /\ \A d \in Computers : d \in Clients
  BY DEF Typed, TypeOK, Clients
<1>1. UNCHANGED <<left, task, saved, loading, promised>>
  BY DEF RegistryStep, Expire, Reset, Retire, RemoveFile, OpenFile, history
<1>2. \A d \in Computers : io'[d].mark = io[d].mark /\ io'[d].task = io[d].task
  <2>1. CASE Expire
    BY <2>1 DEF Expire
  <2>2. CASE Reset
    BY <1>0, <2>2 DEF Reset
  <2>3. CASE Retire
    <3>1. TypeOK /\ Written(Manager)
      BY <2>3 DEF Retire, Typed
    <3> QED BY <1>0, <3>1, WrittenEnds
  <2>4. CASE RemoveFile
    <3>1. \A d \in Computers :
            io'[d] = IF io[d].at = "writes" THEN [io[d] EXCEPT !.own = FALSE] ELSE io[d]
      BY <1>0, <2>4 DEF RemoveFile
    <3> QED BY <1>0, <3>1 DEF IORecords
  <2>5. ASSUME NEW x \in Clients, OpenFile(x), NEW d \in Computers
        PROVE  io'[d].mark = io[d].mark /\ io'[d].task = io[d].task
    <3>1. io' = [io EXCEPT ![x] = [io[x] EXCEPT !.at = "writes"]] /\ io[d] \in IORecords
      BY <1>0, <2>5 DEF OpenFile
    <3> QED BY <1>0, <3>1 DEF IORecords
  <2> QED BY <2>1, <2>2, <2>3, <2>4, <2>5 DEF RegistryStep
<1>3. LoginsQueued'
  BY <1>1, <1>2, QuietLogins
<1> QED BY <1>1, <1>3, QuietPromises DEF RetriesQueued

(* A row moves down, or is trimmed.                                        *)
LEMMA TrimKeepsPromise ==
  ASSUME NEW t \in Tasks, PromiseHolds(t),
         task'[t] = Absent \/ (task[t] # Absent /\ task'[t].status = task[t].status),
         UNCHANGED <<left, saved, loading, promised>>
  PROVE  PromiseHolds(t)'
BY DEF PromiseHolds, Absent

LEMMA TasksKeepPromises ==
  ASSUME Typed, RowsAgree, RetriesQueued, TaskStep
  PROVE  RetriesQueued'
<1>0. /\ task \in [Tasks -> TaskRows] /\ saved \in [Tasks -> TaskRows]
      /\ \A d \in Computers : d \in Clients
      /\ promised \in [Tasks -> Computers \union {Nobody}]
  BY DEF Typed, TypeOK, Clients
<1>1. left' = left /\ \A d \in Computers : io'[d] = io[d] \/ io'[d] = NoIO
  BY <1>0 DEF TaskStep, StartDraft, OthersCome, Save, Loaded, Crash, ConsoleSets, Reap, history
<1>2. LoginsQueued'
  BY <1>1, QuietLogins DEF NoIO
<1>3. ASSUME NEW t \in Tasks PROVE PromiseHolds(t)'
  <2>0. PromiseHolds(t)
    BY DEF RetriesQueued
  <2>1. CASE StartDraft
    <3>1. PICK u \in Tasks \ made : task' = [Behind(1) EXCEPT ![u] = Created]
      BY <2>1 DEF StartDraft
    <3>2. UNCHANGED <<saved, loading, promised>>
      BY <2>1 DEF StartDraft, history
    <3>3. CASE u # t
      <4>1. task'[t] = Absent \/ (task[t] # Absent /\ task'[t].status = task[t].status)
        BY <1>0, <3>1, <3>3, RowCreated
      <4> QED BY <1>1, <2>0, <3>2, <4>1, TrimKeepsPromise
    <3>4. CASE u = t
      <4>1. saved[t].status # "blocked" /\ task'[t].status # "blocked"
        <5>1. saved[t] = Absent
          BY <3>1, <3>4 DEF RowsAgree
        <5>2. task'[t] = Created
          BY <1>0, <3>1, <3>4, RowCreated
        <5> QED BY <5>1, <5>2 DEF Absent, Created
      <4> QED BY <1>1, <3>2, <4>1 DEF PromiseHolds
    <3> QED BY <3>3, <3>4
  <2>2. CASE Save
    BY <1>1, <2>0, <2>2 DEF Save, history, PromiseHolds
  <2>3. CASE Loaded
    BY <1>1, <2>0, <2>3 DEF Loaded, history, PromiseHolds
  <2>4. CASE Crash
    BY <1>1, <2>0, <2>4 DEF Crash, NoTasks, Absent, PromiseHolds
  <2>5. ASSUME NEW u \in Tasks, ConsoleSets(u) PROVE PromiseHolds(t)'
    <3>1. UNCHANGED <<saved, loading>> /\ promised' = [promised EXCEPT ![u] = Nobody]
      BY <2>5 DEF ConsoleSets
    <3>2. CASE u = t
      BY <1>0, <3>1, <3>2 DEF PromiseHolds
    <3>3. CASE u # t
      <4>1. task'[t] = task[t] /\ promised'[t] = promised[t]
        <5>1. PICK s \in Statuses, b \in BOOLEAN :
                task' = [task EXCEPT ![u].status = s, ![u].ran = task[u].ran \/ b]
          BY <2>5 DEF ConsoleSets
        <5> QED BY <1>0, <3>1, <3>3, <5>1
      <4> QED BY <1>1, <2>0, <3>1, <4>1 DEF PromiseHolds
    <3> QED BY <3>2, <3>3
  <2>6. ASSUME NEW u \in Tasks, Reap(u) PROVE PromiseHolds(t)'
    <3>1. UNCHANGED <<saved, loading, promised>>
      BY <2>6 DEF Reap, history
    <3>2. task'[t] = task[t] \/ (task[t].status = "running" /\ task'[t].status = "ended")
      <4>1. task' = [task EXCEPT ![u].status = "ended", ![u].ran = TRUE] /\ "ended" \in Statuses
        BY <2>6 DEF Reap, Statuses
      <4> QED BY <1>0, <2>6, <4>1, RowRewritten DEF Reap
    <3>3. task[t].status = "running" => task[t] # Absent
      BY DEF Absent
    <3> QED BY <1>1, <2>0, <3>1, <3>2, <3>3 DEF PromiseHolds
  <2>7. CASE OthersCome
    <3>1. PICK n \in Nat : task' = Behind(n)
      BY <2>7, PortalAssumption DEF OthersCome
    <3>2. UNCHANGED <<saved, loading, promised>>
      BY <2>7 DEF OthersCome, history
    <3>3. task'[t] = Absent \/ (task[t] # Absent /\ task'[t].status = task[t].status)
      BY <1>0, <3>1, RowsBehind
    <3> QED BY <1>1, <2>0, <3>2, <3>3, TrimKeepsPromise
  <2> QED BY <2>1, <2>2, <2>3, <2>4, <2>5, <2>6, <2>7 DEF TaskStep
<1> QED BY <1>2, <1>3 DEF RetriesQueued

(* A runner asks, and none of its queue goes.                              *)
LEMMA AskKeepsPromises ==
  ASSUME Typed, RetriesQueued, NEW c \in Computers, NEW at \in {"polls", "starts", "ends"},
         NEW t \in Tasks \union {Nobody}, NEW mark \in Marks, Ask(c, at, t, mark),
         mark = "login" => left'[c][t] > 0,
         \A d \in Computers, u \in Tasks : left[d][u] > 0 => left'[d][u] > 0,
         UNCHANGED <<task, saved, loading, promised>>
  PROVE  RetriesQueued'
<1>0. /\ TypeOK /\ c \in Clients /\ \A d \in Computers : d \in Clients /\ Linked(run[d], io[d])
      /\ promised \in [Tasks -> Computers \union {Nobody}]
  BY DEF Typed, TypeOK, Links, Clients
<1>1. /\ io' \in [Clients -> IORecords] /\ run' \in [Computers -> RunRecords]
      /\ \A x \in Clients : x # c => io'[x] = io[x]
      /\ \A d \in Computers : d # c => run'[d] = run[d]
      /\ \/ io' = io /\ run'[c] = Idle
         \/ /\ run'[c] = [at |-> at, job |-> t]
            /\ io'[c] = Asking(Checked(IdOf(c)), t, mark)
  BY <1>0, AskStarts
<1>2. ASSUME NEW d \in Computers, io'[d].mark = "login" PROVE left'[d][io'[d].task] > 0
  <2>1. CASE io'[d] = io[d]
    <3>1. io[d].task \in Tasks /\ left[d][io[d].task] > 0
      BY <1>0, <1>2, <2>1 DEF Linked, RetriesQueued, LoginsQueued
    <3> QED BY <2>1, <3>1
  <2>2. CASE d = c /\ io'[c] = Asking(Checked(IdOf(c)), t, mark)
    BY <1>2, <2>2 DEF Asking
  <2> QED BY <1>0, <1>1, <2>1, <2>2
<1>3. ASSUME NEW u \in Tasks PROVE PromiseHolds(u)'
  <2>1. PromiseHolds(u) /\ (promised[u] # Nobody => promised[u] \in Computers)
    BY <1>0 DEF RetriesQueued
  <2> QED BY <2>1 DEF PromiseHolds
<1> QED BY <1>2, <1>3 DEF RetriesQueued, LoginsQueued

(* A request is over: it promises nothing any more.                        *)
LEMMA WrittenKeepsLogins ==
  ASSUME Typed, RetriesQueued, NEW c \in Computers, Written(c),
         \A d \in Computers : d # c => left'[d] = left[d]
  PROVE  LoginsQueued'
<1>1. TypeOK /\ c \in Clients /\ \A d \in Computers : d \in Clients
  BY DEF Typed, Clients
<1>2. /\ io'[c].mark = "none"
      /\ \A d \in Computers : d # c => io'[d].mark = io[d].mark /\ io'[d].task = io[d].task
  BY <1>1, WrittenEnds DEF NoIO
<1> QED BY <1>2, QuietLogins

(* The list prunes the queue of c by the statuses it shows.                *)
LEMMA ListKeepsPromises ==
  ASSUME Typed, RowsAgree, RetriesQueued, NEW c \in Computers, ListIdle(c) \/ ListRetry(c)
  PROVE  RetriesQueued'
<1>0. /\ left \in [Computers -> [Tasks -> 0..Attempts]] /\ Attempts \in Nat
      /\ promised \in [Tasks -> Computers \union {Nobody}]
  BY DEF Typed, TypeOK
<1>n. c # Nobody
  BY PortalAssumption
<1>1. Written(c) /\ UNCHANGED <<task, saved, loading>>
  BY DEF ListIdle, ListRetry, Accepted
<1>2. /\ \A d \in Computers : d # c => left'[d] = left[d]
      /\ \A u \in Tasks : promised'[u] \in {promised[u], Nobody}
      /\ \A u \in Tasks : promised'[u] = c /\ left[c][u] > 0 =>
           left'[c][u] > 0 \/ (task[u] # Absent /\ task[u].status # "blocked")
  <2>1. CASE ListIdle(c)
    <3>1. /\ left' = [left EXCEPT ![c] = [u \in Tasks |-> IF u \in Alive(c) THEN left[c][u] ELSE 0]]
          /\ promised' = [u \in Tasks |->
               IF promised[u] = c /\ ~Listed(u) THEN Nobody ELSE promised[u]]
      BY <2>1 DEF ListIdle
    <3>2. \A d \in Computers : d # c => left'[d] = left[d]
      BY <1>0, <3>1
    <3>3. \A u \in Tasks : promised'[u] \in {promised[u], Nobody}
      BY <3>1
    <3>4. ASSUME NEW u \in Tasks, promised'[u] = c, left[c][u] > 0
          PROVE  left'[c][u] > 0 \/ (task[u] # Absent /\ task[u].status # "blocked")
      <4>1. CASE u \in Alive(c)
        BY <1>0, <3>1, <3>4, <4>1
      <4>2. CASE u \notin Alive(c)
        <5>1. promised[u] = c /\ Listed(u)
          BY <1>0, <1>n, <3>1, <3>4
        <5> QED BY <3>4, <4>2, <5>1 DEF Alive, Listed
      <4> QED BY <4>1, <4>2
    <3> QED BY <3>2, <3>3, <3>4
  <2>2. CASE ListRetry(c)
    <3>1. PICK t \in Alive(c) :
            /\ left' = [left EXCEPT ![c] = [u \in Tasks |->
                          IF u = t THEN left[c][t] - 1
                          ELSE IF u \in Alive(c) THEN left[c][u] ELSE 0]]
            /\ promised' = [u \in Tasks |->
                 IF promised[u] = c /\ (~Listed(u) \/ (u = t /\ left[c][t] = 1))
                 THEN Nobody ELSE promised[u]]
      BY <2>2 DEF ListRetry
    <3>2. \A d \in Computers : d # c => left'[d] = left[d]
      BY <1>0, <3>1
    <3>3. \A u \in Tasks : promised'[u] \in {promised[u], Nobody}
      BY <3>1
    <3>4. ASSUME NEW u \in Tasks, promised'[u] = c, left[c][u] > 0
          PROVE  left'[c][u] > 0 \/ (task[u] # Absent /\ task[u].status # "blocked")
      <4>0. t \in Tasks /\ left[c][u] \in Nat
        BY <1>0 DEF Alive
      <4>1. CASE u = t
        BY <1>0, <3>1, <3>4, <4>0, <4>1
      <4>2. CASE u # t /\ u \in Alive(c)
        BY <1>0, <3>1, <3>4, <4>2
      <4>3. CASE u # t /\ u \notin Alive(c)
        <5>1. promised[u] = c /\ Listed(u)
          BY <1>0, <1>n, <3>1, <3>4
        <5> QED BY <3>4, <4>3, <5>1 DEF Alive, Listed
      <4> QED BY <4>1, <4>2, <4>3
    <3> QED BY <3>2, <3>3, <3>4
  <2> QED BY <2>1, <2>2
<1>3. ASSUME NEW u \in Tasks, promised'[u] # Nobody PROVE PromiseHolds(u)'
  <2>1. promised'[u] = promised[u] /\ promised[u] \in Computers /\ PromiseHolds(u)
    BY <1>0, <1>2, <1>3 DEF RetriesQueued
  <2>2. CASE promised[u] # c
    BY <1>1, <1>2, <2>1, <2>2 DEF PromiseHolds
  <2>3. CASE promised[u] = c
    <3>1. (task[u] # Absent /\ task[u].status # "blocked") => saved[u].status # "blocked"
      BY <2>1, <1>3 DEF PromiseHolds, RowsAgree, Absent
    <3> QED BY <1>1, <1>2, <1>3, <2>1, <2>3, <3>1 DEF PromiseHolds
  <2> QED BY <2>2, <2>3
<1>4. LoginsQueued'
  BY <1>1, <1>2, WrittenKeepsLogins
<1> QED BY <1>3, <1>4 DEF RetriesQueued, PromiseHolds

LEMMA MarkServedKeepsPromises ==
  ASSUME Typed, RetriesQueued, NEW c \in Computers, MarkServed(c)
  PROVE  RetriesQueued'
<1>0. /\ task \in [Tasks -> TaskRows] /\ promised \in [Tasks -> Computers \union {Nobody}]
      /\ UNCHANGED <<left, saved, loading>> /\ Written(c)
  BY DEF Typed, TypeOK, MarkServed, Accepted
<1>1. LoginsQueued'
  BY <1>0, WrittenKeepsLogins
<1>2. PICK u : u = Marked(c)
  OBVIOUS
<1>3. CASE UNCHANGED <<task, promised>>
  BY <1>0, <1>1, <1>3, QuietPromises DEF RetriesQueued
<1>4. CASE /\ task' = [task EXCEPT ![u].status = MarkedAs(c), ![u].ran = TRUE]
           /\ promised' = [promised EXCEPT ![u] = IF io[c].mark = "login" THEN c ELSE Nobody]
  <2>1. ASSUME NEW t \in Tasks PROVE PromiseHolds(t)'
    <3>1. CASE t # u
      <4>1. task'[t] = task[t] /\ promised'[t] = promised[t] /\ PromiseHolds(t)
        BY <1>0, <1>4, <3>1 DEF RetriesQueued
      <4> QED BY <1>0, <4>1 DEF PromiseHolds
    <3>2. CASE t = u /\ io[c].mark = "login"
      <4>1. promised'[t] = c /\ task'[t].status = "blocked"
        <5>1. MarkedAs(c) = "blocked" /\ "blocked" \in Statuses
          BY <3>2 DEF MarkedAs, Statuses
        <5> QED BY <1>0, <1>4, <3>2, <5>1, RowRewritten
      <4>2. left'[c][t] > 0
        BY <1>0, <1>2, <3>2 DEF RetriesQueued, LoginsQueued, Marked
      <4> QED BY <4>1, <4>2 DEF PromiseHolds
    <3>3. CASE t = u /\ io[c].mark # "login"
      BY <1>0, <1>4, <3>3 DEF PromiseHolds
    <3> QED BY <3>1, <3>2, <3>3
  <2> QED BY <1>1, <2>1 DEF RetriesQueued
<1> QED BY <1>2, <1>3, <1>4, MarkServedCases

LEMMA RetryAgesKeepsPromises ==
  ASSUME Typed, RetriesQueued, NEW c \in Computers, RetryAges(c)
  PROVE  RetriesQueued'
<1>0. /\ left \in [Computers -> [Tasks -> 0..Attempts]]
      /\ promised \in [Tasks -> Computers \union {Nobody}]
      /\ UNCHANGED <<task, saved, loading, io>> /\ io[c] = NoIO
      /\ \A d \in Computers : Linked(run[d], io[d])
  BY DEF Typed, TypeOK, Links, RetryAges
<1>1. PICK u \in Tasks :
        /\ left' = [left EXCEPT ![c][u] = 0]
        /\ promised' = [promised EXCEPT ![u] = IF @ = c THEN Nobody ELSE @]
  BY DEF RetryAges
<1>2. \A d \in Computers : d # c => left'[d] = left[d]
  BY <1>0, <1>1
<1>3. LoginsQueued'
  BY <1>0, <1>2, QuietLogins DEF NoIO
<1>4. ASSUME NEW t \in Tasks, promised'[t] # Nobody PROVE PromiseHolds(t)'
  <2>1. PromiseHolds(t) /\ promised'[t] = promised[t] /\ promised[t] \in Computers
    BY <1>0, <1>1, <1>4 DEF RetriesQueued
  <2>2. left'[promised[t]][t] = left[promised[t]][t]
    <3>1. CASE t = u
      BY <1>0, <1>1, <1>2, <1>4, <2>1, <3>1
    <3>2. CASE t # u
      BY <1>0, <1>1, <2>1, <3>2
    <3> QED BY <3>1, <3>2
  <2> QED BY <1>0, <2>1, <2>2 DEF PromiseHolds
<1> QED BY <1>3, <1>4 DEF RetriesQueued, PromiseHolds

LEMMA RunnersKeepPromises ==
  ASSUME Typed, RowsAgree, RetriesQueued, NEW c \in Computers, RunnerStep(c)
  PROVE  RetriesQueued'
<1>0. /\ TypeOK /\ left \in [Computers -> [Tasks -> 0..Attempts]] /\ Linked(run[c], io[c])
      /\ Attempts > 0 /\ Attempts \in Nat
  BY DEF Typed, TypeOK, Links
<1>1. CASE Poll(c) \/ SendStart(c) \/ Finish(c)
  <2>1. UNCHANGED <<left, task, saved, loading, promised>>
    BY <1>1 DEF Poll, SendStart, Finish, history
  <2>2. PICK at \in {"polls", "starts", "ends"}, t \in Tasks \union {Nobody},
             mark \in {"none", "running", "waiting", "blocked"} : Ask(c, at, t, mark)
    BY <1>0, <1>1 DEF Poll, SendStart, Finish, Linked
  <2> QED BY <2>1, <2>2, AskKeepsPromises DEF Marks
<1>2. CASE SessionExpired(c)
  <2>1. /\ UNCHANGED <<task, saved, loading, promised>> /\ run[c].job \in Tasks
        /\ left' = [left EXCEPT ![c][run[c].job] = IF @ = 0 THEN Attempts ELSE @]
    BY <1>0, <1>2 DEF SessionExpired, history, Linked
  <2>2. left'[c][run[c].job] > 0 /\ \A d \in Computers, u \in Tasks : left[d][u] > 0 => left'[d][u] > 0
    BY <1>0, <2>1
  <2>3. PICK mark \in {"login", "blocked"} : Ask(c, "ends", run[c].job, mark)
    BY <1>2 DEF SessionExpired
  <2> QED BY <2>1, <2>2, <2>3, AskKeepsPromises DEF Marks
<1>3. CASE ListIdle(c) \/ ListRetry(c)
  BY <1>3, ListKeepsPromises
<1>4. CASE ListRunnable(c) \/ ListUnheard(c) \/ Refused(c)
  <2>1. UNCHANGED <<left, task, saved, loading, promised>> /\ Written(c)
    BY <1>4 DEF ListRunnable, ListUnheard, Refused, RevokedMark, ReIdentify, StandDown,
                Accepted, Revoked, history
  <2>2. LoginsQueued'
    BY <2>1, WrittenKeepsLogins
  <2> QED BY <2>1, <2>2, QuietPromises DEF RetriesQueued
<1>5. CASE MarkServed(c)
  BY <1>5, MarkServedKeepsPromises
<1>6. CASE Install(c) \/ RunnerDies(c)
  <2>1. UNCHANGED <<left, task, saved, loading, promised>> /\ io' = io
    BY <1>6 DEF Install, RunnerDies, history
  <2>2. LoginsQueued'
    BY <2>1, QuietLogins
  <2> QED BY <2>1, <2>2, QuietPromises DEF RetriesQueued
<1>7. CASE RetryAges(c)
  BY <1>7, RetryAgesKeepsPromises
<1> QED BY <1>1, <1>2, <1>3, <1>4, <1>5, <1>6, <1>7 DEF RunnerStep, Refused

LEMMA RetriesKept == Typed /\ RowsAgree /\ RetriesQueued /\ [Next]_vars => RetriesQueued'
<1> SUFFICES ASSUME Typed, RowsAgree, RetriesQueued, [Next]_vars PROVE RetriesQueued'
  OBVIOUS
<1>1. CASE UNCHANGED vars
  <2>1. UNCHANGED <<left, task, saved, loading, promised>> /\ io' = io
    BY <1>1 DEF vars, history
  <2>2. LoginsQueued'
    BY <2>1, QuietLogins
  <2> QED BY <2>1, <2>2, QuietPromises DEF RetriesQueued
<1> QED BY <1>1, RegistryKeepsPromises, TasksKeepPromises, RunnersKeepPromises DEF Next

(* A task the dealer was told will be retried is in the queue of the       *)
(* computer that said so, as long as it is blocked and has had neither its *)
(* last attempt, nor an edit on the console, nor waited too long, and no   *)
(* list without it has reached that computer.                              *)
THEOREM AlwaysRetryPromiseKept == Spec => []RetryPromiseKept
<1> DEFINE Inv == Typed /\ RowsAgree /\ RetriesQueued
<1>1. Inv => RetryPromiseKept
  BY DEF RetriesQueued, PromiseHolds, RetryPromiseKept
<1>2. Init => Inv
  BY InitIsTyped, InitDrafts, InitRetries DEF DraftsExplained
<1>3. Inv /\ [Next]_vars => Inv'
  BY TypedKept, RowsAgreeKept, RetriesKept
<1> HIDE DEF Inv
<1> QED BY <1>1, <1>2, <1>3, PTL DEF Spec
=============================================================================
