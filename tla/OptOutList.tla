----------------------------- MODULE OptOutList -----------------------------
(***************************************************************************)
(* The opt-out list (domain/suppressionStore.ts) on the document layer of  *)
(* domain/storePersistence.ts, and the broadcast loop of index.ts that     *)
(* asks it before each text.                                               *)
(*                                                                         *)
(* The list is a Map in memory.  A module-level call loads it while the    *)
(* server already listens; a change sets the Map at once and awaits a save *)
(* of the whole list.  Writes of the file run one at a time in the order   *)
(* they were called, which is AtomicFile's promise; Postgres is a pool of  *)
(* connections, so two overlapping writes of the one row may land in       *)
(* either order.                                                           *)
(***************************************************************************)
EXTENDS Naturals, FiniteSets

CONSTANTS
  Numbers,     \* normalised phone numbers
  Backends,    \* the values of DATA_BACKEND to consider
  Nobody,      \* no number: a save that no change asked for, no text on its way
  Lists,       \* the contact lists a broadcast may go to
  MaxSaves,    \* bound on the calls of saveToDisk
  MaxFaults,   \* bound on failing reads and writes
  MaxCrashes   \* bound on the number of crashes

ASSUME OptOutAssumption ==
  /\ IsFiniteSet(Numbers) /\ Nobody \notin Numbers
  /\ Lists \subseteq SUBSET Numbers
  /\ Backends \subseteq {"file", "dual_write", "postgres"}
  /\ MaxSaves \in Nat /\ MaxFaults \in Nat /\ MaxCrashes \in Nat

VARIABLES
  backend,   \* DATA_BACKEND, fixed for the life of the deployment
  snapshot,  \* FILE_SNAPSHOT=1
  load,      \* loadFromDisk: at "row", at "file", "read", or "over"
  read,      \* the document it has read
  entries,   \* the Map
  saves,     \* how many calls of saveToDisk there were: they are numbered
  save,      \* the calls
  calls,     \* how many calls of writeFileTextAtomic there were
  disk,      \* suppressions.json
  row,       \* the row of store_documents
  told,      \* the last success a caller was told of each number: "in", "out",
             \* or "either" while its last change is not confirmed
  exposed,   \* history: the numbers whose last answer may not be kept
  todo,      \* the recipients the broadcast under way has left
  marked,    \* the ones that were suppressed when it began
  texting,   \* the recipient whose text is on its way to the carrier
  faults,
  crashes

fixedVars == <<backend, snapshot>>
listVars == <<load, read, entries>>
savingVars == <<saves, save, calls>>
storeVars == <<disk, row>>
blastVars == <<todo, marked, texting>>
toldVars == <<told, exposed>>
vars == <<fixedVars, listVars, savingVars, storeVars, toldVars, blastVars, faults, crashes>>

Saves == 1..MaxSaves

NoDoc == [there |-> FALSE, set |-> {}]
Doc(s) == [there |-> TRUE, set |-> s]
Docs == {NoDoc} \union {Doc(s) : s \in SUBSET Numbers}

Unused == [at |-> "unused", text |-> {}, number |-> Nobody, turn |-> 0, alone |-> TRUE,
           early |-> FALSE, fell |-> FALSE]

Past == [Unused EXCEPT !.at = "past"]   \* a call of an earlier life of the process

SaveRecords ==
  [at : {"unused", "row", "file", "mirror", "done", "failed", "past"}, text : SUBSET Numbers,
   number : Numbers \union {Nobody}, turn : Nat, alone : BOOLEAN, early : BOOLEAN,
   fell : BOOLEAN]

AllInDoubt == [n \in Numbers |-> "either"]

(* What callers were told, as far as the list answers for it.              *)
kept == [n \in Numbers |-> IF n \in exposed THEN "either" ELSE told[n]]

FirstRead == IF backend = "postgres" THEN "row" ELSE "file"

TypeOK ==
  /\ backend \in Backends /\ snapshot \in BOOLEAN
  /\ load \in {"row", "file", "read", "over"} /\ read \in Docs
  /\ entries \subseteq Numbers
  /\ saves \in 0..MaxSaves
  /\ save \in [Saves -> SaveRecords]
  /\ calls \in Nat
  /\ disk \in Docs /\ row \in Docs
  /\ told \in [Numbers -> {"in", "out", "either"}]
  /\ exposed \subseteq Numbers
  /\ todo \subseteq Numbers /\ marked \subseteq Numbers
  /\ texting \in Numbers \union {Nobody}
  /\ faults \in Nat /\ crashes \in Nat

Init ==
  /\ backend \in Backends
  /\ snapshot \in IF backend = "postgres" THEN BOOLEAN ELSE {FALSE}
  /\ load = FirstRead
  /\ read = NoDoc
  /\ entries = {}
  /\ saves = 0
  /\ save = [c \in Saves |-> Unused]
  /\ calls = 0
  /\ disk \in {NoDoc, Doc({})}
  /\ row \in {NoDoc, disk}
  /\ told = AllInDoubt
  /\ exposed = {}
  /\ todo = {}
  /\ marked = {}
  /\ texting = Nobody
  /\ faults = 0
  /\ crashes = 0

Fault ==
  /\ faults < MaxFaults
  /\ faults' = faults + 1

-----------------------------------------------------------------------------
Open(c) == save[c].at \in {"row", "file", "mirror"}

(* saveToDisk: the whole Map is serialised at the call, and the backend's  *)
(* first write starts.                                                     *)
StartSave(text, number) ==
  LET c == saves + 1
      alone == \A d \in Saves : ~Open(d)
      at == IF backend = "postgres" THEN "row" ELSE "file"
      new == [at |-> at, text |-> text, number |-> number,
              turn |-> IF at = "file" THEN calls + 1 ELSE 0,
              alone |-> alone, early |-> load # "over", fell |-> FALSE]
  IN /\ saves < MaxSaves
     /\ saves' = c
     /\ save' = [d \in Saves |->
                   IF d = c THEN new
                   ELSE IF Open(d) THEN [save[d] EXCEPT !.alone = FALSE] ELSE save[d]]
     /\ calls' = IF at = "file" THEN calls + 1 ELSE calls

(* addSuppression and removeSuppression up to their await.  While the load *)
(* is not over the Map is not the list, and the document written from it   *)
(* replaces the list.                                                      *)
Change(n, text) ==
  /\ entries' = text
  /\ StartSave(text, n)
  /\ told' = [told EXCEPT ![n] = "either"]
  /\ exposed' = IF load = "over" THEN exposed \ {n} ELSE Numbers
  /\ UNCHANGED <<fixedVars, load, read, storeVars, blastVars, faults, crashes>>

AddSuppression(n) == Change(n, entries \union {n})

RemoveSuppression(n) ==
  /\ n \in entries
  /\ Change(n, entries \ {n})

(* No other change of the number followed.                                 *)
Latest(c) ==
  /\ save[c].number # Nobody
  /\ \A d \in Saves : (c < d /\ d <= saves) => save[d].number # save[c].number

(* The change is in the document a boot reads, for good, unless it came    *)
(* before the load was over or, in Postgres, another save was open beside  *)
(* it or its row could not be written and went to the file alone.          *)
Sure(c) ==
  /\ ~save[c].early
  /\ ~save[c].fell
  /\ backend = "postgres" => save[c].alone

(* writeJsonStoreText returns, and the caller is told success: the code    *)
(* does not tell a sure change from one that is not.                       *)
Promise(c) ==
  LET n == save[c].number IN
    IF Latest(c)
      THEN /\ told' = [told EXCEPT ![n] = IF n \in save[c].text THEN "in" ELSE "out"]
           /\ exposed' = IF Sure(c) THEN exposed \ {n} ELSE exposed \union {n}
      ELSE UNCHANGED toldVars

Moves(c, at) == save' = [save EXCEPT ![c].at = at]

(* It is this call's turn on the path, by AtomicFile's promise.            *)
Mut_FileTurn(c) == save[c].at = "file"
FileTurn(c) ==
  /\ save[c].at = "file"
  /\ \A d \in Saves : save[d].at = "file" => save[c].turn <= save[d].turn

FileWritten(c) ==
  /\ FileTurn(c)
  /\ disk' = Doc(save[c].text)
  /\ \/ backend = "file" /\ Moves(c, "done") /\ Promise(c)
     \/ backend = "dual_write" /\ Moves(c, "mirror") /\ UNCHANGED toldVars
     \/ /\ backend = "postgres"
        /\ Moves(c, "done")
        /\ IF save[c].fell THEN Promise(c) ELSE UNCHANGED toldVars
  /\ UNCHANGED <<fixedVars, listVars, saves, calls, row, blastVars, faults, crashes>>

(* The error reaches addSuppression's caller; the Map keeps the change.    *)
FileFails(c) ==
  /\ FileTurn(c)
  /\ Fault
  /\ Moves(c, "failed")
  /\ UNCHANGED <<fixedVars, listVars, saves, calls, storeVars, toldVars, blastVars, crashes>>

(* The best-effort mirror of dual_write: its failure is only logged.       *)
Mirror(c) ==
  /\ save[c].at = "mirror"
  /\ \/ row' = Doc(save[c].text) /\ UNCHANGED faults
     \/ row' = row /\ Fault
  /\ Moves(c, "done")
  /\ Promise(c)
  /\ UNCHANGED <<fixedVars, listVars, saves, calls, disk, blastVars, crashes>>

(* The postgres backend: the row, then the file if snapshots are on.  The  *)
(* row is what a boot reads, so its text counts from here on.              *)
RowWritten(c) ==
  /\ save[c].at = "row"
  /\ row' = Doc(save[c].text)
  /\ IF snapshot
     THEN /\ save' = [save EXCEPT ![c].at = "file", ![c].turn = calls + 1]
          /\ calls' = calls + 1
     ELSE /\ Moves(c, "done")
          /\ UNCHANGED calls
  /\ Promise(c)
  /\ UNCHANGED <<fixedVars, listVars, saves, disk, blastVars, faults, crashes>>

(* A failed row write, which may have been committed all the same, is      *)
(* followed by the file, and if that is written the caller is told success *)
(* although a boot that reaches Postgres reads the row.                    *)
RowFails(c) ==
  /\ save[c].at = "row"
  /\ Fault
  /\ row' \in {row, Doc(save[c].text)}
  /\ save' = [save EXCEPT ![c].at = "file", ![c].turn = calls + 1, ![c].fell = TRUE]
  /\ calls' = calls + 1
  /\ UNCHANGED <<fixedVars, listVars, saves, disk, toldVars, blastVars, crashes>>

-----------------------------------------------------------------------------
(* readJsonStoreText: the row first, the file when there is no row yet or  *)
(* Postgres does not answer.                                               *)
ReadRow ==
  /\ load = "row"
  /\ IF row.there
     THEN load' = "read" /\ read' = row
     ELSE load' = "file" /\ UNCHANGED read
  /\ UNCHANGED <<fixedVars, entries, savingVars, storeVars, toldVars, blastVars, faults, crashes>>

RowUnreadable ==
  /\ load = "row"
  /\ Fault
  /\ load' = "file"
  /\ exposed' = Numbers
  /\ UNCHANGED <<told, fixedVars, read, entries, savingVars, storeVars, blastVars, crashes>>

ReadFile ==
  /\ load = "file"
  /\ load' = "read"
  /\ read' = disk
  /\ UNCHANGED <<fixedVars, entries, savingVars, storeVars, toldVars, blastVars, faults, crashes>>

(* An unreadable or malformed document leaves the Map as it is.            *)
LoadFails ==
  /\ load = "file"
  /\ Fault
  /\ load' = "over"
  /\ exposed' = Numbers
  /\ UNCHANGED <<told, fixedVars, read, entries, savingVars, storeVars, blastVars, crashes>>

(* loadFromDisk's end: the Map becomes the document, or, when there is     *)
(* none, a first document is written from the Map.                         *)
Mut_LoadApplies ==
  /\ load = "read"
  /\ load' = "over"
  /\ StartSave(entries, Nobody)
  /\ UNCHANGED <<fixedVars, read, entries, storeVars, toldVars, blastVars, faults, crashes>>
LoadApplies ==
  /\ load = "read"
  /\ load' = "over"
  /\ IF read.there
     THEN entries' = read.set /\ UNCHANGED savingVars
     ELSE StartSave(entries, Nobody) /\ UNCHANGED entries
  /\ read' = NoDoc
  /\ UNCHANGED <<fixedVars, storeVars, toldVars, blastVars, faults, crashes>>

(* The process dies and boots.  A statement that was on its way to         *)
(* Postgres may be the last thing the row sees.                            *)
Crash ==
  /\ crashes < MaxCrashes
  /\ crashes' = crashes + 1
  /\ row' \in {row} \union
       {Doc(save[c].text) : c \in {d \in Saves : save[d].at \in {"row", "mirror"}}}
  /\ save' = [c \in Saves |-> IF c <= saves THEN Past ELSE Unused]
  /\ load' = FirstRead
  /\ read' = NoDoc
  /\ entries' = {}
  /\ todo' = {}
  /\ marked' = {}
  /\ texting' = Nobody
  /\ UNCHANGED <<fixedVars, saves, calls, disk, toldVars, faults>>

-----------------------------------------------------------------------------
(* POST /contacts/broadcast: the audience, with the status each contact    *)
(* has at the start, then one recipient after the other across the awaits. *)
StartBroadcast ==
  /\ todo = {} /\ texting = Nobody
  /\ todo' \in Lists
  /\ marked' = entries
  /\ UNCHANGED <<fixedVars, listVars, savingVars, storeVars, toldVars, texting, faults, crashes>>

(* assessBroadcastRecipient: the status of the view and the list as it is. *)
Mut_Sendable(n) == n \notin marked
Sendable(n) == n \notin marked /\ n \notin entries

BroadcastNext(n) ==
  /\ n \in todo /\ texting = Nobody
  /\ todo' = todo \ {n}
  /\ texting' = IF Sendable(n) THEN n ELSE Nobody
  /\ marked' = IF todo = {n} THEN {} ELSE marked
  /\ UNCHANGED <<fixedVars, listVars, savingVars, storeVars, toldVars, faults, crashes>>

(* messages.create settles, well or not; the loop goes on.                 *)
TextSettles ==
  /\ texting # Nobody
  /\ texting' = Nobody
  /\ UNCHANGED <<fixedVars, listVars, savingVars, storeVars, toldVars, todo, marked, faults, crashes>>

Next ==
  \/ \E n \in Numbers : AddSuppression(n) \/ RemoveSuppression(n) \/ BroadcastNext(n)
  \/ \E c \in Saves : FileWritten(c) \/ FileFails(c) \/ Mirror(c) \/ RowWritten(c) \/ RowFails(c)
  \/ ReadRow \/ RowUnreadable \/ ReadFile \/ LoadFails \/ LoadApplies
  \/ StartBroadcast \/ TextSettles
  \/ Crash

Spec == Init /\ [][Next]_vars

-----------------------------------------------------------------------------
(* The document a boot that reaches its stores would read.                 *)
Recover == IF backend = "postgres" /\ row.there THEN row ELSE disk

Agrees(n, s) == /\ kept[n] = "in" => n \in s
                /\ kept[n] = "out" => n \notin s

(* What a caller was told of a number outlives a crash: the document that  *)
(* the next boot reads has the opt-out, whatever other saves follow, fail  *)
(* or are overtaken.  It may be lost for four reasons only, and `exposed`  *)
(* has the numbers: the change was made, or another one, before the load   *)
(* was over; a boot could not read the stored list; and, in Postgres, the  *)
(* save overlapped another, which may land after it, or its row could not  *)
(* be written and only the file has it.  In each of them the caller was    *)
(* told success all the same.                                              *)
OptOutsAreDurable == \A n \in Numbers : Agrees(n, Recover.set)

(* Once the list is loaded, no broadcast begins a text to a number whose   *)
(* opt-out was acknowledged, in this life of the process or an earlier     *)
(* one, before the broadcast or in the middle of it, unless the answer was *)
(* one of the exposed ones.                                                *)
NoTextAfterStop ==
  [][(texting' # Nobody /\ texting' # texting /\ load = "over") => kept[texting'] # "in"]_vars

-----------------------------------------------------------------------------
(***************************************************************************)
(* Why it holds: every text that can still reach the document agrees with  *)
(* what was told, for a promise is only made when no other save can take   *)
(* it back.                                                                *)
(***************************************************************************)
SavesAreNumbered ==
  /\ \A c \in Saves : (save[c].at = "unused") <=> (c > saves)
  /\ backend # "postgres" =>
       /\ calls = saves
       /\ \A c \in Saves : Open(c) => save[c].turn = c /\ save[c].at # "row"
  /\ backend # "dual_write" => \A c \in Saves : save[c].at # "mirror"

(* The save's text can still become the document a boot reads.             *)
Pending(c) == save[c].at = IF backend = "postgres" THEN "row" ELSE "file"

PendingTextsAgree == \A c \in Saves, n \in Numbers : Pending(c) => Agrees(n, save[c].text)

MemoryAgrees ==
  /\ \A n \in Numbers : /\ load = "over" => Agrees(n, entries)
                        /\ load = "read" => Agrees(n, read.set)
  /\ load # "over" => /\ entries = {} \/ kept = AllInDoubt
                      /\ \A c \in Saves : Open(c) => save[c].early
  /\ load = "row" => backend = "postgres"
  /\ (load = "file" /\ backend = "postgres") => kept = AllInDoubt
  /\ (backend = "postgres" /\ ~row.there) => kept = AllInDoubt

LastOfItsNumber(c) ==
  \A d \in Saves : (c < d /\ d <= saves) => save[d].number # save[c].number

LaterTextsAgree ==
  \A c \in Saves :
    (Open(c) /\ ~save[c].early /\ save[c].number # Nobody /\ LastOfItsNumber(c)) =>
      LET n == save[c].number IN
        /\ (n \in save[c].text) <=> (n \in entries)
        /\ \A d \in Saves : (c <= d /\ d <= saves) =>
             ((n \in save[c].text) <=> (n \in save[d].text))

MirrorsFollowFile ==
  \A c \in Saves : save[c].at = "mirror" =>
    /\ \E d \in Saves : c <= d /\ d <= saves /\ disk = Doc(save[d].text)
    /\ \A d \in Saves : d < c => save[d].at # "file"

AloneIsAlone ==
  \A c, d \in Saves : (Open(c) /\ save[c].alone /\ d # c) => (d < c /\ ~Open(d)) \/ d > saves

(* No text on its way to the document takes back what a caller was told,   *)
(* and the Map of a loaded list says the same.                             *)
PromisesCovered ==
  /\ TypeOK
  /\ SavesAreNumbered
  /\ OptOutsAreDurable
  /\ PendingTextsAgree
  /\ MemoryAgrees
  /\ LaterTextsAgree
  /\ MirrorsFollowFile
  /\ AloneIsAlone
=============================================================================
