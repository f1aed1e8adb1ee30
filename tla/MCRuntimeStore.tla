--------------------------- MODULE MCRuntimeStore ---------------------------
(* Instances of the runtime store: execs one after another, and execs that *)
(* overlap and may be killed.                                              *)
EXTENDS RuntimeStore, TLC

ProcSymmetry == Permutations(Procs)

DataSymmetry == Permutations(Requests) \cup Permutations(Owners)
=============================================================================
