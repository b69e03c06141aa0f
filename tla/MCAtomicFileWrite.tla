------------------------- MODULE MCAtomicFileWrite -------------------------
(* An instance of AtomicFileWrite for TLC.                                 *)
EXTENDS AtomicFileWrite
=============================================================================
