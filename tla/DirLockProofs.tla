---------------------------- MODULE DirLockProofs ----------------------------
(***************************************************************************)
(* What the directory lock guarantees, for any number of processes and of  *)
(* crashes, as long as no living holder is taken for dead.                 *)
(***************************************************************************)
EXTENDS DirLock, TLAPS

LEMMA TypeInit == Init => TypeOK
  BY DEF Init, TypeOK, Calls

LEMMA TypeNext == TypeOK /\ [Next]_vars => TypeOK'
<1> SUFFICES ASSUME TypeOK, [Next]_vars
             PROVE  TypeOK'
  OBVIOUS
<1> USE DEF TypeOK, Dir, Calls, Goto, Exists
<1>1. ASSUME NEW p \in Procs, Step(p)
      PROVE  TypeOK'
  <2>1. CASE Mkdir(p)
    BY <2>1, LockAssumption DEF Mkdir
  <2>2. CASE WriteOwner(p)
    BY <2>2 DEF WriteOwner
  <2>3. CASE Request(p) \/ Leave(p) \/ ReadOwner(p) \/ Release(p) \/ CleanUp(p)
    BY <2>3 DEF Request, CleanUp, Leave, ReadOwner, Release
  <2>4. CASE Stat(p) \/ Recover(p) \/ Retry(p) \/ GiveUp(p)
    BY <2>4 DEF Stat, Recover, Retry, GiveUp
  <2>5. QED
    BY <1>1, <2>1, <2>2, <2>3, <2>4 DEF Step
<1>2. ASSUME NEW p \in Procs, Crash(p)
      PROVE  TypeOK'
  BY <1>2 DEF Crash
<1>3. CASE GrowStale
  BY <1>3 DEF GrowStale
<1>4. CASE UNCHANGED vars
  BY <1>4 DEF vars
<1>5. QED
  BY <1>1, <1>2, <1>3, <1>4 DEF Next

(* The directory lock's state is well formed in every reachable state.     *)
THEOREM LockTypes == Spec => []TypeOK
  BY TypeInit, TypeNext, PTL DEF Spec

-----------------------------------------------------------------------------
(* Between its mkdir and its rm a process is the maker of the directory    *)
(* that exists, and the directory is not stale: only a dead maker's is.    *)
(* What a recoverer is about to remove is a stale directory.               *)
Holding(p) == pc[p] \in {"writeOwner", "cleanUp", "fn", "readOwner", "release"}

HoldersMadeIt == \A p \in Procs : Holding(p) => dir # None /\ dir.maker = p /\ dir.age = "fresh"

StaleIsDead == dir # None /\ dir.age = "stale" => pc[dir.maker] = "dead"

RecoverersSawStale == \A p \in Procs : pc[p] = "recover" => dir # None /\ dir.age = "stale"

LockInv == TypeOK /\ HoldersMadeIt /\ StaleIsDead /\ RecoverersSawStale

LEMMA LockInit == Init => LockInv
  BY TypeInit DEF Init, LockInv, HoldersMadeIt, StaleIsDead, RecoverersSawStale, Holding

LEMMA LockNext ==
    ASSUME Suspendable = {}
    PROVE  LockInv /\ RecoveryAlone /\ [Next]_vars => LockInv'
<1> SUFFICES ASSUME LockInv, RecoveryAlone, [Next]_vars
             PROVE  LockInv'
  OBVIOUS
<1>0. TypeOK'
  BY TypeNext DEF LockInv
<1> USE <1>0 DEF LockInv, TypeOK, Dir, Calls, HoldersMadeIt, StaleIsDead, RecoverersSawStale,
                 Holding, Goto, Exists
<1>1. ASSUME NEW p \in Procs, Request(p) \/ Leave(p) \/ Retry(p) \/ GiveUp(p)
      PROVE  LockInv'
  BY <1>1 DEF Request, Leave, Retry, GiveUp
<1>2. ASSUME NEW p \in Procs, Mkdir(p)
      PROVE  LockInv'
  BY <1>2, LockAssumption DEF Mkdir
<1>3. ASSUME NEW p \in Procs, WriteOwner(p)
      PROVE  LockInv'
  BY <1>3, LockAssumption DEF WriteOwner
<1>4. ASSUME NEW p \in Procs, ReadOwner(p)
      PROVE  LockInv'
  BY <1>4 DEF ReadOwner
<1>5. ASSUME NEW p \in Procs, Release(p) \/ CleanUp(p)
      PROVE  LockInv'
  BY <1>5 DEF Release, CleanUp
<1>6. ASSUME NEW p \in Procs, Stat(p)
      PROVE  LockInv'
  BY <1>6 DEF Stat
<1>7. ASSUME NEW p \in Procs, Recover(p)
      PROVE  LockInv'
  BY <1>7 DEF Recover, RecoveryAlone
<1>8. ASSUME NEW p \in Procs, Crash(p)
      PROVE  LockInv'
  BY <1>8 DEF Crash
<1>9. CASE GrowStale
  BY <1>9, LockAssumption DEF GrowStale
<1>10. CASE UNCHANGED vars
  BY <1>10 DEF vars
<1>11. QED
  BY <1>1, <1>2, <1>3, <1>4, <1>5, <1>6, <1>7, <1>8, <1>9, <1>10 DEF Next, Step

LEMMA LockExcludes == LockInv => MutualExclusion
  BY DEF LockInv, HoldersMadeIt, Holding, MutualExclusion

(* When LOCK_STALE_MS is longer than any protected function runs, the lock *)
(* excludes, through any number of crashes, until two processes are in a   *)
(* recovery at once: the overlap of maybeRecoverStaleLock with itself is   *)
(* the one hole in it.                                                     *)
THEOREM LockIsExclusiveUnlessRecoveriesOverlap ==
    ASSUME Suspendable = {}
    PROVE  Spec => ExclusiveUnlessRecoveriesOverlap
<1>1. Init => LockInv
  BY LockInit
<1>2. LockInv /\ RecoveryAlone /\ [Next]_vars => LockInv'
  BY LockNext
<1>3. LockInv => MutualExclusion
  BY LockExcludes
<1>4. QED
  BY <1>1, <1>2, <1>3, PTL DEF Spec, ExclusiveUnlessRecoveriesOverlap

-----------------------------------------------------------------------------
(* Until somebody dies there is one holder at most, the directory is its   *)
(* own, and nobody has seen it stale.                                      *)
Alive == \A p \in Procs : pc[p] # "dead"

YoungUntilDeath ==
    Alive => /\ HoldersMadeIt
             /\ dir # None => dir.age = "fresh"
             /\ \A p \in Procs : pc[p] # "recover"

AliveInv == TypeOK /\ YoungUntilDeath

LEMMA AliveNext ==
    ASSUME Suspendable = {}
    PROVE  AliveInv /\ [Next]_vars => AliveInv'
<1> SUFFICES ASSUME AliveInv, [Next]_vars
             PROVE  YoungUntilDeath'
  BY TypeNext DEF AliveInv
<1> USE DEF AliveInv, TypeOK, Dir, Calls, YoungUntilDeath, Alive, HoldersMadeIt, Holding, Goto, Exists
<1>1. ASSUME NEW p \in Procs, Request(p) \/ Leave(p) \/ Retry(p) \/ GiveUp(p) \/ ReadOwner(p)
      PROVE  YoungUntilDeath'
  BY <1>1 DEF Request, Leave, Retry, GiveUp, ReadOwner
<1>2. ASSUME NEW p \in Procs, Mkdir(p)
      PROVE  YoungUntilDeath'
  BY <1>2, LockAssumption DEF Mkdir
<1>3. ASSUME NEW p \in Procs, WriteOwner(p)
      PROVE  YoungUntilDeath'
  BY <1>3, LockAssumption DEF WriteOwner
<1>4. ASSUME NEW p \in Procs, Release(p) \/ CleanUp(p)
      PROVE  YoungUntilDeath'
  BY <1>4 DEF Release, CleanUp
<1>5. ASSUME NEW p \in Procs, Stat(p) \/ Recover(p)
      PROVE  YoungUntilDeath'
  BY <1>5 DEF Stat, Recover
<1>6. ASSUME NEW p \in Procs, Crash(p)
      PROVE  YoungUntilDeath'
  BY <1>6 DEF Crash
<1>7. CASE GrowStale
  BY <1>7, LockAssumption DEF GrowStale
<1>8. CASE UNCHANGED vars
  BY <1>8 DEF vars
<1>9. QED
  BY <1>1, <1>2, <1>3, <1>4, <1>5, <1>6, <1>7, <1>8 DEF Next, Step

HeldStays == Dead = {} => \A p \in Procs : pc[p] = "fn" => dir' # None

LEMMA HolderKeepsDirectory ==
    ASSUME AliveInv, [Next]_vars
    PROVE  HeldStays
<1> SUFFICES ASSUME Dead = {}, NEW p \in Procs, pc[p] = "fn"
             PROVE  dir' # None
  BY DEF HeldStays
<1> USE DEF AliveInv, TypeOK, YoungUntilDeath, HoldersMadeIt, Holding
<1>1. Alive
  BY DEF Dead, Alive
<1>2. dir # None /\ dir.maker = p
  BY <1>1
<1>3. \A q \in Procs : ~Release(q) /\ ~CleanUp(q) /\ ~Recover(q)
  BY <1>1, <1>2 DEF Release, CleanUp, Recover
<1>4. ASSUME NEW q \in Procs, Step(q)
      PROVE  dir' # None
  BY <1>2, <1>3, <1>4, LockAssumption
     DEF Step, Request, Mkdir, WriteOwner, Leave, ReadOwner, Stat, Retry, GiveUp, Exists, Dir
<1>5. CASE GrowStale
  BY <1>2, <1>5, LockAssumption DEF GrowStale, Dir
<1>6. QED
  BY <1>2, <1>4, <1>5 DEF Next, Crash, vars

(* Until the first crash, no other process removes the lock directory from *)
(* under a protected function, whether it releases or recovers.            *)
THEOREM HeldLockStays ==
    ASSUME Suspendable = {}
    PROVE  Spec => LockStaysWhileHeld
<1>1. Init => AliveInv
  BY TypeInit DEF Init, AliveInv, YoungUntilDeath, HoldersMadeIt, Holding
<1>2. AliveInv /\ [Next]_vars => AliveInv' /\ [HeldStays]_vars
  BY AliveNext, HolderKeepsDirectory
<1>3. QED
  BY <1>1, <1>2, PTL DEF Spec, LockStaysWhileHeld, HeldStays
=============================================================================
