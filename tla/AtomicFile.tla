----------------------------- MODULE AtomicFile -----------------------------
(***************************************************************************)
(* What writeFileTextAtomic of domain/storePersistence.ts promises to the  *)
(* stores that use it, for the writes of one path: the file holds the      *)
(* complete text of one write, the writes take effect one at a time and in *)
(* the order they were called, each is answered, and a write that fails or *)
(* is cut by a crash neither changes the file nor stops the ones after it. *)
(* How the code keeps the promise is in AtomicFileWrite.                   *)
(***************************************************************************)
EXTENDS Naturals

CONSTANT MaxWrites  \* bound on the number of writes called

VARIABLES
  file,    \* the write whose text the file holds; 0 for the text before any
  outcome  \* what became of each write

vars == <<file, outcome>>

Writes == 1..MaxWrites   \* numbered in the order of the calls

Outcomes == {"unused", "waiting", "written", "done", "failed", "lost"}

TypeOK ==
  /\ file \in 0..MaxWrites
  /\ outcome \in [Writes -> Outcomes]

Settled(w) == outcome[w] \in {"done", "failed", "lost"}

Turn(w) ==
  /\ outcome[w] = "waiting"
  /\ \A v \in Writes : v < w => Settled(v)

Init ==
  /\ file = 0
  /\ outcome = [w \in Writes |-> "unused"]

Call(w) ==
  /\ outcome[w] = "unused"
  /\ \A v \in Writes : v < w => outcome[v] # "unused"
  /\ outcome' = [outcome EXCEPT ![w] = "waiting"]
  /\ UNCHANGED file

Publish(w) ==
  /\ Turn(w)
  /\ file' = w
  /\ outcome' = [outcome EXCEPT ![w] = "written"]

Answer(w) ==
  /\ outcome[w] = "written"
  /\ outcome' = [outcome EXCEPT ![w] = "done"]
  /\ UNCHANGED file

Fail(w) ==
  /\ Turn(w)
  /\ outcome' = [outcome EXCEPT ![w] = "failed"]
  /\ UNCHANGED file

Crash ==
  /\ outcome' = [w \in Writes |->
                   IF outcome[w] \in {"waiting", "written"} THEN "lost" ELSE outcome[w]]
  /\ UNCHANGED file

Next ==
  \/ \E w \in Writes : Call(w) \/ Publish(w) \/ Answer(w) \/ Fail(w)
  \/ Crash

Safety == Init /\ [][Next]_vars

(* Every write that is waited for ends: the caller is never left hanging.  *)
Fairness == \A w \in Writes : WF_vars(Publish(w) \/ Fail(w)) /\ WF_vars(Answer(w))

Spec == Safety /\ Fairness

-----------------------------------------------------------------------------
(* A write the caller was told is done is in the file, or a later one is.  *)
DoneIsVisible == \A w \in Writes : outcome[w] \in {"written", "done"} => file >= w

(* The text of a later call is never replaced by the text of an earlier.   *)
NeverBack == [][file' >= file]_vars
=============================================================================
