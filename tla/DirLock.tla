------------------------------- MODULE DirLock -------------------------------
(***************************************************************************)
(* The lock of src/team/state/locks.ts and dispatch-lock.ts (withTeamLock, *)
(* withScalingLock, withTaskClaimLock, withMailboxLock, withDispatchLock): *)
(* a directory that mkdir creates for one process only, an owner file in   *)
(* it, and a recovery that removes a directory older than LOCK_STALE_MS.   *)
(* A step is one file system call.                                         *)
(***************************************************************************)
EXTENDS Naturals, FiniteSets

CONSTANTS Procs,        \* processes that want the lock
          None,         \* no directory, no owner file
          Suspendable,  \* processes that may hold the lock for LOCK_STALE_MS and go on
          MaxCrashes    \* bound: how many processes may die

Dir == [maker : Procs, owner : Procs \cup {None}, age : {"fresh", "stale"}]

ASSUME LockAssumption == /\ None \notin Procs \cup Dir
                         /\ Suspendable \subseteq Procs
                         /\ MaxCrashes \in Nat

VARIABLES dir,  \* the lock directory: who made it, whose owner file, older than LOCK_STALE_MS
          pc    \* per process: its next call

vars == <<dir, pc>>

Calls == {"idle", "mkdir", "writeOwner", "cleanUp", "fn", "readOwner", "release",
          "stat", "recover", "wait", "dead"}

Exists == dir # None

Init == /\ dir = None
        /\ pc = [p \in Procs |-> "idle"]

Goto(p, call) == pc' = [pc EXCEPT ![p] = call]

Request(p) == /\ pc[p] = "idle"
              /\ Goto(p, "mkdir")
              /\ UNCHANGED dir

Mkdir_Recursive(p) == /\ pc[p] = "mkdir"
                      /\ dir' = IF Exists THEN dir
                                 ELSE [maker |-> p, owner |-> None, age |-> "fresh"]
                      /\ Goto(p, "writeOwner")

(* mkdir creates the directory or fails with EEXIST.                       *)
Mkdir(p) == /\ pc[p] = "mkdir"
            /\ \/ /\ ~Exists
                  /\ dir' = [maker |-> p, owner |-> None, age |-> "fresh"]
                  /\ Goto(p, "writeOwner")
               \/ /\ Exists
                  /\ Goto(p, "stat")
                  /\ UNCHANGED dir

(* The owner file goes into whatever directory is there now, and a new     *)
(* entry makes the directory young again.  When none is there, or the disk *)
(* refuses the file, the call fails ...                                    *)
WriteOwner(p) == /\ pc[p] = "writeOwner"
                 /\ \/ /\ Exists
                       /\ dir' = [maker |-> dir.maker,
                                  owner |-> p,
                                  age   |-> IF dir.owner = None THEN "fresh" ELSE dir.age]
                       /\ Goto(p, "fn")
                    \/ /\ Goto(p, "cleanUp")
                       /\ UNCHANGED dir

(* ... and the process removes the directory that is there by then, before *)
(* the error leaves the lock function.                                     *)
CleanUp(p) == /\ pc[p] = "cleanUp"
              /\ dir' = None
              /\ Goto(p, "idle")

(* The protected function returns or throws.                               *)
Leave(p) == /\ pc[p] = "fn"
            /\ Goto(p, "readOwner")
            /\ UNCHANGED dir

(* The lock is given back only by the process whose token it holds ...     *)
ReadOwner(p) == /\ pc[p] = "readOwner"
                /\ IF Exists /\ dir.owner = p THEN Goto(p, "release") ELSE Goto(p, "idle")
                /\ UNCHANGED dir

(* ... in a later call, which removes what is there by then.               *)
Release(p) == /\ pc[p] = "release"
              /\ dir' = None
              /\ Goto(p, "idle")

Stat_IgnoreAge(p) == /\ pc[p] = "stat"
                     /\ IF Exists THEN Goto(p, "recover") ELSE Goto(p, "wait")
                     /\ UNCHANGED dir

Stat_NoRecovery(p) == /\ pc[p] = "stat"
                      /\ Goto(p, "wait")
                      /\ UNCHANGED dir

(* maybeRecoverStaleLock: a stat, and a removal when the age is too high.  *)
Stat(p) == /\ pc[p] = "stat"
           /\ IF Exists /\ dir.age = "stale" THEN Goto(p, "recover") ELSE Goto(p, "wait")
           /\ UNCHANGED dir

Recover(p) == /\ pc[p] = "recover"
              /\ dir' = None
              /\ Goto(p, "mkdir")

(* Before the deadline the process sleeps and tries again ...              *)
Retry(p) == /\ pc[p] = "wait"
            /\ Goto(p, "mkdir")
            /\ UNCHANGED dir

(* ... after it the lock function fails.                                   *)
GiveUp(p) == /\ pc[p] = "wait"
             /\ Goto(p, "idle")
             /\ UNCHANGED dir

Dead == {p \in Procs : pc[p] = "dead"}

Crash(p) == /\ pc[p] \notin {"idle", "dead"}
            /\ Cardinality(Dead) < MaxCrashes
            /\ Goto(p, "dead")
            /\ UNCHANGED dir

(* LOCK_STALE_MS pass.  It is longer than any protected function runs, so  *)
(* a directory grows old only if its maker died or was suspended.          *)
GrowStale == /\ Exists
             /\ dir.age = "fresh"
             /\ pc[dir.maker] = "dead" \/ dir.maker \in Suspendable
             /\ dir' = [dir EXCEPT !.age = "stale"]
             /\ UNCHANGED pc

Step(p) == \/ Request(p) \/ Mkdir(p) \/ WriteOwner(p) \/ CleanUp(p)
           \/ Leave(p) \/ ReadOwner(p) \/ Release(p) \/ Stat(p) \/ Recover(p)
           \/ Retry(p) \/ GiveUp(p)

Next == \/ \E p \in Procs : Step(p) \/ Crash(p)
        \/ GrowStale

Spec == Init /\ [][Next]_vars

(* A living process goes on with its calls and comes back for the lock     *)
(* (the monitor and the workers poll), and time passes.                    *)
Fairness == /\ \A p \in Procs : WF_vars(Step(p))
            /\ WF_vars(GrowStale)

FairSpec == Spec /\ Fairness

-----------------------------------------------------------------------------
(* Type invariant.                                                         *)
TypeOK == /\ dir \in Dir \cup {None}
          /\ pc \in [Procs -> Calls]

(* Two protected functions never run at the same time: every read and      *)
(* write of the team state under a lock relies on it, and scaling.test.ts  *)
(* says withScalingLock "serializes concurrent operations".                *)
MutualExclusion ==
    \A p, q \in Procs : pc[p] = "fn" /\ pc[q] = "fn" => p = q

(* As long as nobody has died the lock directory stays while a protected   *)
(* function runs: neither the release of another process, whose check of   *)
(* the owner file is a call of its own, nor a recovery, whose stat is,     *)
(* removes it.                                                             *)
LockStaysWhileHeld ==
    [][Dead = {} => \A p \in Procs : pc[p] = "fn" => dir' # None]_vars

(* A lock whose holder died does not stay: a crash costs the team          *)
(* LOCK_STALE_MS, not the lock.                                            *)
DeadHolderIsReplaced ==
    (dir # None /\ pc[dir.maker] = "dead") ~> (dir = None \/ pc[dir.maker] # "dead")

(* At most one process has seen the directory stale and not removed it yet.*)
RecoveryAlone ==
    \A p, q \in Procs : pc[p] = "recover" /\ pc[q] = "recover" => p = q

(* When no live holder is ever taken for dead, two recoveries that overlap *)
(* are the only way two functions come to run at once: the stat and the    *)
(* removal of maybeRecoverStaleLock would have to be one step.             *)
ExclusiveUnlessRecoveriesOverlap == []RecoveryAlone => []MutualExclusion
=============================================================================
