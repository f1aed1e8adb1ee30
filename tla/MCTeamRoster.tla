---------------------------- MODULE MCTeamRoster ----------------------------
(* Two processes, each of which may make any call, on a team of one worker *)
(* and one task.                                                           *)
EXTENDS TeamRoster, TLC

ProcSymmetry == Permutations(Procs)
=============================================================================
