--------------------------- MODULE MCWorkerTicks ---------------------------
(* Instances of WorkerTicks for TLC. *)
EXTENDS WorkerTicks, TLC

ExecSymmetry == Permutations(Execs)
=============================================================================
