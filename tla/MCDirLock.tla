------------------------------ MODULE MCDirLock ------------------------------
(* Instances of the directory lock: who crashes and who is slow.           *)
EXTENDS DirLock, TLC

ProcSymmetry == Permutations(Procs)
=============================================================================
