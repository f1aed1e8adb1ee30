--------------------------- MODULE MCTaskLifecycle ---------------------------
(* Two tasks, the second of which depends on the first, and two processes. *)
EXTENDS TaskLifecycle, TLC

CONSTANTS t1, t2, w1, w2

MCInitialDeps == [t \in Tasks |-> IF t = t2 THEN {t1} ELSE {}]
MCInitialOwner == [t \in Tasks |-> IF t = t2 THEN w2 ELSE None]
MCEditDeps == {{t1}}
ProcSymmetry == Permutations(Procs)
=============================================================================
