--------------------------- MODULE MCAtomicWrites ---------------------------
(* Two runs, and three programs of different lengths. *)
EXTENDS AtomicWrites

MCSize == [small |-> 1, middle |-> 2, large |-> 3]
=============================================================================
