-------------------------- MODULE AtomicFileWrite --------------------------
(***************************************************************************)
(* writeFileTextAtomic (domain/storePersistence.ts) step by step, for one  *)
(* path: a call chains itself behind the previous call's promise, writes a *)
(* temporary file of its own, renames it over the path, removes the        *)
(* temporary file when a step fails, and drops the path's entry of         *)
(* atomicWriteChains when it is still the last.  The event loop runs the   *)
(* calls and the callbacks one at a time; the file operations run between  *)
(* them, and a crash may come anywhere.                                    *)
(***************************************************************************)
EXTENDS Naturals

CONSTANTS
  MaxWrites,  \* bound on the number of calls
  MaxDeaths   \* bound on the number of crashes

ASSUME FileWriteAssumption == MaxWrites \in Nat /\ MaxDeaths \in Nat

VARIABLES
  called,    \* how many calls were made: they are numbered in their order
  stage,     \* how far each write is
  previous,  \* the write each one chained itself behind; 0 for none
  tail,      \* the path's entry of atomicWriteChains; 0 when it has none
  untidied,  \* settled links whose clean-up callback has not run yet
  tmp,       \* the temporary files on the disk
  file,      \* the write whose text the path holds; Torn for half a text
  deaths     \* how often the process has crashed

writeVars == <<called, stage, previous, tail, untidied, tmp, file, deaths>>

Writes == 1..MaxWrites

Torn == MaxWrites + 1

Stages == {"unused", "chained", "mkdir", "writing", "renaming", "renamed",
           "cleaning", "done", "failed", "lost"}

WriteTypeOK ==
  /\ called \in 0..MaxWrites
  /\ stage \in [Writes -> Stages]
  /\ previous \in [Writes -> 0..MaxWrites]
  /\ tail \in 0..MaxWrites
  /\ untidied \subseteq Writes
  /\ tmp \in [Writes -> {"none", "partial", "whole"}]
  /\ file \in 0..Torn
  /\ deaths \in 0..MaxDeaths

WriteInit ==
  /\ called = 0
  /\ stage = [w \in Writes |-> "unused"]
  /\ previous = [w \in Writes |-> 0]
  /\ tail = 0
  /\ untidied = {}
  /\ tmp = [w \in Writes |-> "none"]
  /\ file = 0
  /\ deaths = 0

Settled(w) == stage[w] \in {"done", "failed"}

Over(w) == Settled(w) \/ stage[w] = "lost"

(* The synchronous part of a call: chain behind the entry, become it.      *)
Call ==
  /\ called < MaxWrites
  /\ called' = called + 1
  /\ stage' = [stage EXCEPT ![called + 1] = "chained"]
  /\ previous' = [previous EXCEPT ![called + 1] = tail]
  /\ tail' = called + 1
  /\ UNCHANGED <<untidied, tmp, file, deaths>>

(* The chain link before it has settled, well or not; one that crashed has *)
(* no successor.                                                           *)
Mut_LinkSettled(w) == previous[w] # 0 => stage[previous[w]] = "done"
LinkSettled(w) == previous[w] # 0 => Settled(previous[w])

Mut_Start(w) ==
  /\ stage[w] = "chained"
  /\ stage' = [stage EXCEPT ![w] = "mkdir"]
  /\ UNCHANGED <<called, previous, tail, untidied, tmp, file, deaths>>
Start(w) ==
  /\ stage[w] = "chained"
  /\ LinkSettled(w)
  /\ stage' = [stage EXCEPT ![w] = "mkdir"]
  /\ UNCHANGED <<called, previous, tail, untidied, tmp, file, deaths>>

(* The end of a write: its promise settles, the clean-up callback waits.   *)
Settle(w, how) ==
  /\ stage' = [stage EXCEPT ![w] = how]
  /\ untidied' = untidied \union {w}

(* mkdir is outside the try block: its error goes straight to the caller.  *)
Mkdir(w) ==
  /\ stage[w] = "mkdir"
  /\ \/ /\ stage' = [stage EXCEPT ![w] = "writing"]
        /\ tmp' = [tmp EXCEPT ![w] = "partial"]
        /\ UNCHANGED untidied
     \/ /\ Settle(w, "failed")
        /\ UNCHANGED tmp
  /\ UNCHANGED <<called, previous, tail, file, deaths>>

WriteTemp(w) ==
  /\ stage[w] = "writing"
  /\ \/ /\ stage' = [stage EXCEPT ![w] = "renaming"]
        /\ tmp' = [tmp EXCEPT ![w] = "whole"]
     \/ /\ stage' = [stage EXCEPT ![w] = "cleaning"]
        /\ UNCHANGED tmp
  /\ UNCHANGED <<called, previous, tail, untidied, file, deaths>>

Rename(w) ==
  /\ stage[w] = "renaming"
  /\ stage' = [stage EXCEPT ![w] = "renamed"]
  /\ file' = IF tmp[w] = "whole" THEN w ELSE Torn
  /\ tmp' = [tmp EXCEPT ![w] = "none"]
  /\ UNCHANGED <<called, previous, tail, untidied, deaths>>

RenameFails(w) ==
  /\ stage[w] = "renaming"
  /\ stage' = [stage EXCEPT ![w] = "cleaning"]
  /\ UNCHANGED <<called, previous, tail, untidied, tmp, file, deaths>>

(* fs.rm(tmp) with its own error swallowed, then the error is thrown on.   *)
CleanUp(w) ==
  /\ stage[w] = "cleaning"
  /\ Settle(w, "failed")
  /\ \E left \in {"none", tmp[w]} : tmp' = [tmp EXCEPT ![w] = left]
  /\ UNCHANGED <<called, previous, tail, file, deaths>>

Return(w) ==
  /\ stage[w] = "renamed"
  /\ Settle(w, "done")
  /\ UNCHANGED <<called, previous, tail, tmp, file, deaths>>

(* The callback on the settled link: drop the entry if it is still ours.   *)
Mut_Tidy(w) ==
  /\ w \in untidied
  /\ untidied' = untidied \ {w}
  /\ tail' = 0
  /\ UNCHANGED <<called, stage, previous, tmp, file, deaths>>
Mut_Tidy_keeps(w) ==
  /\ w \in untidied
  /\ untidied' = untidied \ {w}
  /\ tail' = IF tail = w /\ stage[w] = "done" THEN 0 ELSE tail
  /\ UNCHANGED <<called, stage, previous, tmp, file, deaths>>
Tidy(w) ==
  /\ w \in untidied
  /\ untidied' = untidied \ {w}
  /\ tail' = IF tail = w THEN 0 ELSE tail
  /\ UNCHANGED <<called, stage, previous, tmp, file, deaths>>

(* The process dies: its promises and the Map go, the disk stays.          *)
Dies ==
  /\ deaths < MaxDeaths
  /\ deaths' = deaths + 1
  /\ stage' = [w \in Writes |->
                 IF stage[w] \in {"unused", "done", "failed"} THEN stage[w] ELSE "lost"]
  /\ tail' = 0
  /\ untidied' = {}
  /\ UNCHANGED <<called, previous, tmp, file>>

Step(w) ==
  \/ Start(w) \/ Mkdir(w) \/ WriteTemp(w) \/ Rename(w) \/ RenameFails(w)
  \/ CleanUp(w) \/ Return(w) \/ Tidy(w)

WriteNext ==
  \/ Call
  \/ \E w \in Writes : Step(w)
  \/ Dies

WriteSpec ==
  /\ WriteInit /\ [][WriteNext]_writeVars
  /\ \A w \in Writes : WF_writeVars(Step(w))

-----------------------------------------------------------------------------
(***************************************************************************)
(* The promise.  A write is waiting until its rename, written until its    *)
(* caller is answered.                                                     *)
(***************************************************************************)
Outcome(s) ==
  CASE s \in {"chained", "mkdir", "writing", "renaming", "cleaning"} -> "waiting"
    [] s = "renamed" -> "written"
    [] OTHER -> s

Abstract == INSTANCE AtomicFile WITH
  outcome <- [w \in Writes |-> Outcome(stage[w])]

(* The chained writes keep AtomicFile's promise: complete texts in the     *)
(* order of the calls, failures that change nothing and strand nobody, and *)
(* an answer for every call, whatever fails and wherever the crash comes.  *)
KeepsPromise == Abstract!Spec

(* atomicWriteChains does not grow: once every write of the path has ended *)
(* and its callback has run, the path has no entry.                        *)
QuietMapIsEmpty ==
  (untidied = {} /\ \A w \in Writes : stage[w] = "unused" \/ Over(w)) => tail = 0

(***************************************************************************)
(* Why the promise is kept: a write past its link has only ended ones      *)
(* before it, although all it ever waited for is the one link it found in  *)
(* the Map, and that link may have been dropped from the Map meanwhile.    *)
(***************************************************************************)
NumberedByCall == \A w \in Writes : (stage[w] = "unused") <=> (w > called)

ChainReachesAll ==
  \A v, w \in Writes :
    (v < w /\ stage[w] = "chained" /\ ~Over(v)) => v <= previous[w]

OnlyOverBefore ==
  \A v, w \in Writes :
    (v < w /\ stage[w] \notin {"unused", "chained"}) => Over(v)

TailIsLast ==
  /\ tail # 0 => tail = called
  /\ tail = 0 => \A w \in Writes : w <= called => Over(w)

TailIsTidied == tail # 0 => (tail \in untidied \/ ~Over(tail))

UntidiedAreSettled == \A w \in untidied : Settled(w)

RenamesWholeText ==
  /\ \A w \in Writes : stage[w] = "renaming" => tmp[w] = "whole"
  /\ file # 0 => (file \in Writes /\ stage[file] \in {"renamed", "done", "lost"})

(* One write of a path at a time, in the order of the calls, and only      *)
(* complete texts are renamed over it.                                     *)
OneAtATime ==
  /\ WriteTypeOK
  /\ NumberedByCall
  /\ ChainReachesAll
  /\ OnlyOverBefore
  /\ TailIsLast
  /\ TailIsTidied
  /\ UntidiedAreSettled
  /\ RenamesWholeText
=============================================================================
