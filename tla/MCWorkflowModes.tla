---------------------------- MODULE MCWorkflowModes ----------------------------
EXTENDS WorkflowModes, TLC

Symmetry == Permutations(Procs) \cup Permutations(Sessions)
=============================================================================
