---------------------------- MODULE MCTeamMonitor ----------------------------
(* One task, the processes that work on it, and the monitors.              *)
EXTENDS TeamMonitor

MCInitialDeps == [t \in Tasks |-> {}]
MCInitialOwner == [t \in Tasks |-> None]
=============================================================================
