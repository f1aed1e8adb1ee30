------------------------- MODULE TaskLifecycleProofs -------------------------
(***************************************************************************)
(* Theorems about TaskLifecycle and TeamMonitor, for any tasks, workers,   *)
(* processes and monitors: types, the safety of the store, the event log,  *)
(* the refinement of TaskClaims, and what monitors know of the tasks.      *)
(***************************************************************************)
EXTENDS TeamMonitor, TLAPS

(* A process that is at work has a request, and it is the right kind of    *)
(* request for the step it is at.                                          *)
AtWork(p) == pc[p] \notin {"idle", "dead"}

StepsHaveRequests ==
    \A p \in Procs :
       /\ AtWork(p) => op[p] \in Request
       /\ pc[p] = "write" => draft[p] \in Task
       /\ pc[p] \in {"event", "markRead", "markWrite"} => op[p].kind = "transition"

TypeInv == TypeOK /\ StepsHaveRequests

LEMMA RequestFields ==
    ASSUME NEW r \in Request
    PROVE  /\ r.task \in Tasks
           /\ r.kind \in {"claim", "transition", "release", "reclaim", "update"}
           /\ r.kind = "claim" => r.worker \in Workers /\ r.expected \in Nat
           /\ r.kind = "transition" => r.to \in Terminal /\ r.token \in Nat
           /\ r.kind = "release" => r.token \in Nat
           /\ r.kind = "update" => r.deps \in EditDeps
  BY DEF Request

LEMMA NextVersionIsTask ==
    ASSUME NEW v \in Task
    PROVE  NextVersion(v) \in Task
  BY DEF NextVersion, Task

(* A decision rejects the request or leaves a task in draft.               *)
LEMMA DecideOutcome ==
    ASSUME TypeInv, NEW p \in Procs, Decide(p)
    PROVE  /\ lastToken' \in Nat
           /\ \/ Reject(p)
              \/ \E v \in Task : /\ draft' = [draft EXCEPT ![p] = v]
                                 /\ pc' = [pc EXCEPT ![p] = "write"]
<1> DEFINE v == task[op[p].task]
<1>1. op[p] \in Request /\ v \in Task
  BY RequestFields DEF Decide, TypeInv, TypeOK, StepsHaveRequests, AtWork
<1> SUFFICES Reject(p) \/ \E w \in Task : Accept(p, w)
  BY NextVersionIsTask
     DEF Accept, Decide, DecideClaim, DecideTransition, DecideRelease, DecideReclaim,
         DecideUpdate, TypeInv, TypeOK
<1>2. CASE DecideClaim(p)
  <2> DEFINE c == [owner |-> op[p].worker, token |-> lastToken + 1]
  <2>1. c \in Claim
    BY <1>1, <1>2, RequestFields DEF DecideClaim, Claim, TypeInv, TypeOK
  <2>2. [v EXCEPT !.status = "in_progress", !.owner = op[p].worker, !.claim = c] \in Task
    BY <1>1, <1>2, <2>1, RequestFields DEF DecideClaim, Task, Statuses
  <2>3. QED
    BY <1>2, <2>2 DEF DecideClaim
<1>3. CASE DecideTransition(p)
  <2>1. [v EXCEPT !.status = op[p].to, !.claim = None] \in Task
    BY <1>1, <1>3, RequestFields DEF DecideTransition, Task, Statuses, Terminal
  <2>2. QED
    BY <1>3, <2>1 DEF DecideTransition
<1>4. HandedBack(v) \in Task
  BY <1>1 DEF HandedBack, Task, Statuses
<1>5. CASE DecideRelease(p)
  BY <1>4, <1>5 DEF DecideRelease
<1>6. CASE DecideReclaim(p)
  BY <1>4, <1>6 DEF DecideReclaim
<1>7. CASE DecideUpdate(p)
  <2>1. [v EXCEPT !.deps = op[p].deps] \in Task
    BY <1>1, <1>7, RequestFields, BoardAssumption DEF DecideUpdate, Task
  <2>2. QED
    BY <1>7, <2>1 DEF DecideUpdate
<1>8. QED
  BY <1>2, <1>3, <1>5, <1>6, <1>7 DEF Decide

LEMMA TypeInit == Init => TypeInv
  BY BoardAssumption DEF Init, TypeInv, TypeOK, StepsHaveRequests, AtWork, Task, Statuses,
       Terminal, Steps, Snapshot

LEMMA TypeNext == TypeInv /\ [Next]_vars => TypeInv'
<1> SUFFICES ASSUME TypeInv, [Next]_vars
             PROVE  TypeInv'
  OBVIOUS
<1> USE DEF TypeInv, TypeOK, StepsHaveRequests, AtWork, Steps, Files
<1>1. ASSUME NEW p \in Procs, NEW t \in Tasks, Start(p, t)
      PROVE  TypeInv'
  <2>1. \E r \in Request : Begin(p, r)
    <3>1. ASSUME NEW w \in Workers, StartClaim(p, t, w)
          PROVE  \E r \in Request : Begin(p, r)
      <4>1. PICK v \in {0, task[t].version} :
               Begin(p, [kind |-> "claim", task |-> t, worker |-> w, expected |-> v])
        BY <3>1 DEF StartClaim
      <4>2. [kind |-> "claim", task |-> t, worker |-> w, expected |-> v] \in Request
        BY DEF Request, Task
      <4>3. QED
        BY <4>1, <4>2
    <3>2. ASSUME NEW to \in Terminal, StartTransition(p, t, to)
          PROVE  \E r \in Request : Begin(p, r)
      <4>1. PICK k \in 0 .. lastToken :
               Begin(p, [kind |-> "transition", task |-> t, to |-> to, token |-> k])
        BY <3>2 DEF StartTransition
      <4>2. [kind |-> "transition", task |-> t, to |-> to, token |-> k] \in Request
        BY DEF Request
      <4>3. QED
        BY <4>1, <4>2
    <3>3. CASE StartRelease(p, t)
      <4>1. PICK k \in 0 .. lastToken :
               Begin(p, [kind |-> "release", task |-> t, token |-> k])
        BY <3>3 DEF StartRelease
      <4>2. [kind |-> "release", task |-> t, token |-> k] \in Request
        BY DEF Request
      <4>3. QED
        BY <4>1, <4>2
    <3>4. CASE StartReclaim(p, t)
      <4>1. [kind |-> "reclaim", task |-> t] \in Request
        BY DEF Request
      <4>2. QED
        BY <3>4, <4>1 DEF StartReclaim
    <3>5. CASE StartUpdate(p, t)
      <4>1. PICK d \in EditDeps : Begin(p, [kind |-> "update", task |-> t, deps |-> d])
        BY <3>5 DEF StartUpdate
      <4>2. [kind |-> "update", task |-> t, deps |-> d] \in Request
        BY BoardAssumption DEF Request
      <4>3. QED
        BY <4>1, <4>2
    <3>6. QED
      BY <1>1, <3>1, <3>2, <3>3, <3>4, <3>5 DEF Start
  <2>2. PICK r \in Request : Begin(p, r)
    BY <2>1
  <2>3. QED
    BY <2>2 DEF Begin
<1>2. ASSUME NEW p \in Procs, Acquire(p)
      PROVE  TypeInv'
  BY <1>2, RequestFields DEF Acquire
<1>3. ASSUME NEW p \in Procs, RecoverStaleLock(p)
      PROVE  TypeInv'
  BY <1>3, RequestFields DEF RecoverStaleLock
<1>4. ASSUME NEW p \in Procs, GiveUp(p)
      PROVE  TypeInv'
  BY <1>4 DEF GiveUp
<1>5. ASSUME NEW p \in Procs, Decide(p)
      PROVE  TypeInv'
  <2>1. CASE Reject(p)
    BY <1>5, <2>1, DecideOutcome DEF Decide, Reject
  <2>2. CASE ~Reject(p)
    BY <1>5, <2>2, DecideOutcome DEF Decide
  <2>3. QED
    BY <2>1, <2>2
<1>6. ASSUME NEW p \in Procs, Write(p)
      PROVE  TypeInv'
  BY <1>6, RequestFields DEF Write
<1>7. ASSUME NEW p \in Procs, AppendEvent(p)
      PROVE  TypeInv'
  <2>1. op[p].task \in Tasks /\ op[p].to \in Terminal
    BY <1>7, RequestFields DEF AppendEvent
  <2>2. events' \in [Tasks -> [Terminal -> Nat]]
    <3>1. events[op[p].task][op[p].to] + 1 \in Nat
      BY <2>1
    <3>2. QED
      BY <1>7, <2>1, <3>1 DEF AppendEvent
  <2>3. QED
    BY <1>7, <2>2 DEF AppendEvent
<1>8. ASSUME NEW p \in Procs, Unlock(p)
      PROVE  TypeInv'
  <2>1. lock' \in [Tasks -> Procs \cup {None}]
    BY <1>8 DEF Unlock
  <2>2. CASE Marks(op[p])
    BY <1>8, <2>1, <2>2 DEF Unlock, Marks
  <2>3. CASE ~Marks(op[p])
    BY <1>8, <2>1, <2>3, ZenonT(30) DEF Unlock
  <2>4. QED
    BY <2>2, <2>3
<1>9. ASSUME NEW p \in Procs, MarkRead(p)
      PROVE  TypeInv'
  BY <1>9 DEF MarkRead
<1>10. ASSUME NEW p \in Procs, MarkWrite(p)
      PROVE  TypeInv'
  BY <1>10, RequestFields DEF MarkWrite, EmptySnapshot, Snapshot
<1>11. ASSUME NEW p \in Procs, Crash(p)
      PROVE  TypeInv'
  BY <1>11 DEF Crash
<1>12. CASE LeaseExpires
  BY <1>12 DEF LeaseExpires
<1>13. CASE UNCHANGED vars
  BY <1>13 DEF vars
<1>14. QED
  BY <1>1, <1>2, <1>3, <1>4, <1>5, <1>6, <1>7, <1>8, <1>9, <1>10, <1>11, <1>12, <1>13
     DEF Next, Step

(* Every reachable state of the task store is well typed, for any number   *)
(* of tasks, workers and processes and any bounds.                         *)
THEOREM TaskTypes == Spec => []TypeOK
<1>1. Init => TypeInv
  BY TypeInit
<1>2. TypeInv /\ [Next]_vars => TypeInv'
  BY TypeNext
<1>3. TypeInv => TypeOK
  BY DEF TypeInv
<1>4. QED
  BY <1>1, <1>2, <1>3, PTL DEF Spec

-----------------------------------------------------------------------------
(* The safety of the task store, when no living process is taken for dead. *)
(* A process between its lock and its unlock is the one the lock belongs   *)
(* to, and what it is about to write still fits the task on disk: the      *)
(* conditions it decided on have not changed since it read the file.       *)

InLock(p) == pc[p] \in {"inside", "write", "event", "unlock"}

LockOwned == \A p \in Procs : InLock(p) => lock[op[p].task] = p

Fits(v, d, r) ==
    /\ d.version = v.version + 1
    /\ r.kind = "claim" => /\ v.status \notin Terminal
                           /\ v.claim = None \/ Expired(v.claim)
                           /\ DepsCompleted(r.task)
                           /\ d.status = "in_progress"
                           /\ d.claim # None
    /\ r.kind = "transition" => /\ v.status = "in_progress"
                                /\ v.claim # None /\ v.claim.token = r.token
                                /\ d.status = r.to
                                /\ d.claim = None
    /\ r.kind = "release" => /\ v.status \notin Terminal
                             /\ v.claim # None /\ v.claim.token = r.token
                             /\ d.status = "pending"
                             /\ d.claim = None
    /\ r.kind = "reclaim" => /\ v.status = "in_progress"
                             /\ Expired(v.claim)
                             /\ d.status = "pending"
                             /\ d.claim = None
    /\ r.kind = "update" => /\ d.status = v.status
                            /\ d.owner = v.owner
                            /\ d.claim = v.claim

DraftsFit == \A p \in Procs : pc[p] = "write" => Fits(task[op[p].task], draft[p], op[p])

SafeInv == TypeInv /\ LockOwned /\ DraftsFit

LEMMA SafeInit == Init => SafeInv
  BY TypeInit DEF Init, SafeInv, LockOwned, DraftsFit, InLock

(* Only the process the lock belongs to is inside it.                      *)
LEMMA AloneInside ==
    ASSUME SafeInv, NEW p \in Procs, NEW q \in Procs, InLock(p), InLock(q),
           op[p].task = op[q].task
    PROVE  p = q
  BY DEF SafeInv, LockOwned

(* A decision leaves a draft that fits.                                    *)
LEMMA DecisionFits ==
    ASSUME SafeInv, NEW p \in Procs, Decide(p), pc'[p] = "write"
    PROVE  Fits(task[op[p].task], draft'[p], op[p])
<1> DEFINE v == task[op[p].task]
<1>1. op[p] \in Request /\ v \in Task /\ draft \in [Procs -> Task \cup {None}] /\ pc \in [Procs -> Steps]
  BY RequestFields DEF Decide, SafeInv, TypeInv, TypeOK, StepsHaveRequests, AtWork
<1>2. \A w : Accept(p, w) => draft'[p] = NextVersion(w)
  BY <1>1 DEF Accept
<1>3. ~Reject(p)
  BY <1>1 DEF Reject
<1> USE DEF Fits, NextVersion, Task
<1>4. CASE DecideClaim(p)
  <2> DEFINE c == [owner |-> op[p].worker, token |-> lastToken + 1]
  <2>1. ClaimAllowed(v, op[p])
    BY <1>3, <1>4 DEF DecideClaim
  <2>2. draft'[p] = NextVersion([v EXCEPT !.status = "in_progress", !.owner = op[p].worker,
                                          !.claim = c])
    BY <1>2, <1>4, <2>1 DEF DecideClaim
  <2>3. draft'[p].version = v.version + 1 /\ draft'[p].status = "in_progress"
        /\ draft'[p].claim = c
    BY <1>1, <2>2
  <2>4. c # None
    BY <1>1, <1>4, RequestFields, BoardAssumption DEF DecideClaim, Claim, SafeInv, TypeInv, TypeOK
  <2>5. QED
    BY <1>4, <2>1, <2>3, <2>4 DEF DecideClaim, ClaimAllowed, Terminal
<1>5. CASE DecideTransition(p)
  <2>1. draft'[p] = NextVersion([v EXCEPT !.status = op[p].to, !.claim = None])
    BY <1>2, <1>3, <1>5 DEF DecideTransition
  <2>2. /\ draft'[p].version = v.version + 1
       /\ draft'[p].status = op[p].to
       /\ draft'[p].claim = None
    BY <1>1, <2>1, RequestFields
  <2>3. QED
    BY <1>3, <1>5, <2>2 DEF DecideTransition, TransitionAllowed, HoldsClaim
<1>6. CASE DecideRelease(p)
  <2>1. draft'[p] = NextVersion(HandedBack(v))
    BY <1>2, <1>3, <1>6 DEF DecideRelease
  <2>2. /\ draft'[p].version = v.version + 1
       /\ draft'[p].status = "pending"
       /\ draft'[p].claim = None
    BY <1>1, <2>1 DEF HandedBack
  <2>3. QED
    BY <1>3, <1>6, <2>2 DEF DecideRelease, ReleaseAllowed, HoldsClaim
<1>7. CASE DecideReclaim(p)
  <2>1. draft'[p] = NextVersion(HandedBack(v))
    BY <1>2, <1>3, <1>7 DEF DecideReclaim
  <2>2. /\ draft'[p].version = v.version + 1
       /\ draft'[p].status = "pending"
       /\ draft'[p].claim = None
    BY <1>1, <2>1 DEF HandedBack
  <2>3. QED
    BY <1>3, <1>7, <2>2 DEF DecideReclaim, ReclaimAllowed
<1>8. CASE DecideUpdate(p)
  <2>1. draft'[p] = NextVersion([v EXCEPT !.deps = op[p].deps])
    BY <1>2, <1>8 DEF DecideUpdate
  <2>2. /\ draft'[p].version = v.version + 1
       /\ draft'[p].status = v.status
       /\ draft'[p].owner = v.owner
       /\ draft'[p].claim = v.claim
    BY <1>1, <2>1
  <2>3. QED
    BY <1>8, <2>2 DEF DecideUpdate
<1>9. QED
  BY <1>4, <1>5, <1>6, <1>7, <1>8 DEF Decide

(* What the write of an operation does to its task.                        *)
LEMMA WriteFits ==
    ASSUME SafeInv, NEW p \in Procs, Write(p)
    PROVE  /\ op[p] \in Request
           /\ task' = [task EXCEPT ![op[p].task] = draft[p]]
           /\ Fits(task[op[p].task], draft[p], op[p])
           /\ draft[p] \in Task
  BY DEF Write, SafeInv, TypeInv, StepsHaveRequests, AtWork, DraftsFit

(* A task is changed only by the write of a process working on it.         *)
LEMMA WhoWrites ==
    ASSUME [Next]_vars, task' # task
    PROVE  \E p \in Procs : Write(p)
  BY ZenonT(30) DEF Next, Start, StartClaim, StartTransition, StartRelease, StartReclaim,
     StartUpdate, Begin, Files, Step, Acquire, RecoverStaleLock, GiveUp, Decide, AppendEvent,
     Unlock, MarkRead, MarkWrite, Crash, LeaseExpires, vars

(* Finished work stays finished, so dependencies stay complete.            *)
LEMMA TerminalStays ==
    ASSUME SafeInv, [Next]_vars, NEW t \in Tasks, task[t].status \in Terminal
    PROVE  task'[t].status = task[t].status /\ task'[t].owner = task[t].owner
  BY WhoWrites, WriteFits, RequestFields DEF Fits, SafeInv, TypeInv, TypeOK, Terminal

LEMMA LapsedGrows ==
    ASSUME TypeOK, [Next]_vars
    PROVE  lapsed' \in Nat /\ lapsed <= lapsed'
<1>1. CASE LeaseExpires
  BY <1>1 DEF LeaseExpires, TypeOK
<1>2. CASE lapsed' = lapsed
  BY <1>2 DEF TypeOK
<1>3. QED
  BY <1>1, <1>2, ZenonT(30) DEF Next, Start, StartClaim, StartTransition, StartRelease, StartReclaim,
     StartUpdate, Begin, Files, Step, Acquire, RecoverStaleLock, GiveUp, Decide, Write,
     AppendEvent, Unlock, MarkRead, MarkWrite, Crash, vars

(* A draft that fits keeps fitting while its own task stays as it is.      *)
LEMMA FitsStays ==
    ASSUME SafeInv, [Next]_vars, NEW r \in Request, NEW d,
           Fits(task[r.task], d, r), task'[r.task] = task[r.task]
    PROVE  Fits(task[r.task], d, r)'
<1>1. r.task \in Tasks /\ task[r.task] \in Task
  BY RequestFields DEF SafeInv, TypeInv, TypeOK
<1>2. DepsCompleted(r.task) => DepsCompleted(r.task)'
  <2> SUFFICES ASSUME DepsCompleted(r.task), NEW u \in task[r.task].deps
               PROVE  task'[u].status = "completed"
    BY DEF DepsCompleted
  <2>1. u \in Tasks
    BY <1>1 DEF Task
  <2>2. QED
    BY <2>1, TerminalStays DEF DepsCompleted, Terminal
<1>3. Expired(task[r.task].claim) => Expired(task[r.task].claim)'
  BY <1>1, LapsedGrows DEF Expired, SafeInv, TypeInv, TypeOK, Task, Claim
<1>4. QED
  BY <1>2, <1>3 DEF Fits

(* Only its own decision brings a process to its write.                    *)
LEMMA ReachingWrite ==
    ASSUME TypeInv, [Next]_vars, NEW q \in Procs, pc'[q] = "write"
    PROVE  \/ Decide(q)
           \/ pc[q] = "write" /\ op'[q] = op[q] /\ draft'[q] = draft[q]
<1> USE DEF TypeInv, TypeOK
<1>1. ASSUME NEW p \in Procs, NEW t \in Tasks, Start(p, t)
      PROVE  pc[q] = "write" /\ op'[q] = op[q] /\ draft'[q] = draft[q]
  BY <1>1 DEF Start, StartClaim, StartTransition, StartRelease, StartReclaim, StartUpdate, Begin
<1>2. ASSUME NEW p \in Procs, Decide(p), p # q
      PROVE  pc[q] = "write" /\ op'[q] = op[q] /\ draft'[q] = draft[q]
  BY <1>2, DecideOutcome DEF Decide, Reject
<1>3. ASSUME NEW p \in Procs,
             \/ Acquire(p) \/ RecoverStaleLock(p) \/ GiveUp(p) \/ Write(p) \/ AppendEvent(p)
             \/ Unlock(p) \/ MarkRead(p) \/ MarkWrite(p) \/ Crash(p)
      PROVE  pc[q] = "write" /\ op'[q] = op[q] /\ draft'[q] = draft[q]
  BY <1>3 DEF Acquire, RecoverStaleLock, GiveUp, Write, AppendEvent, Unlock, MarkRead, MarkWrite,
       Crash
<1>4. CASE LeaseExpires \/ UNCHANGED vars
  BY <1>4 DEF LeaseExpires, vars
<1>5. QED
  BY <1>1, <1>2, <1>3, <1>4 DEF Next, Step

LEMMA SafeNext ==
    ASSUME Suspendable = {}
    PROVE  SafeInv /\ [Next]_vars => SafeInv'
<1> SUFFICES ASSUME SafeInv, [Next]_vars
             PROVE  SafeInv'
  OBVIOUS
<1>1. TypeInv'
  BY TypeNext DEF SafeInv
<1> USE DEF SafeInv
<1>2. LockOwned'
  <2> USE DEF TypeInv, TypeOK, LockOwned, InLock, StepsHaveRequests, AtWork, Steps
  <2>1. ASSUME NEW p \in Procs, NEW t \in Tasks, Start(p, t)
        PROVE  LockOwned'
    BY <2>1 DEF Start, StartClaim, StartTransition, StartRelease, StartReclaim, StartUpdate,
         Begin, Files
  <2>2. ASSUME NEW p \in Procs, Acquire(p)
        PROVE  LockOwned'
    BY <2>2, RequestFields, BoardAssumption DEF Acquire
  <2>3. ASSUME NEW p \in Procs, RecoverStaleLock(p)
        PROVE  LockOwned'
    BY <2>3, RequestFields DEF RecoverStaleLock
  <2>4. ASSUME NEW p \in Procs, GiveUp(p) \/ Crash(p) \/ MarkRead(p) \/ MarkWrite(p)
        PROVE  LockOwned'
    BY <2>4 DEF GiveUp, Crash, MarkRead, MarkWrite
  <2>5. ASSUME NEW p \in Procs, Decide(p)
        PROVE  LockOwned'
    BY <2>5, DecideOutcome DEF Decide, Reject
  <2>6. ASSUME NEW p \in Procs, Write(p) \/ AppendEvent(p)
        PROVE  LockOwned'
    BY <2>6 DEF Write, AppendEvent
  <2>7. ASSUME NEW p \in Procs, Unlock(p)
        PROVE  LockOwned'
    BY <2>7, RequestFields DEF Unlock
  <2>8. CASE LeaseExpires \/ UNCHANGED vars
    BY <2>8 DEF LeaseExpires, vars
  <2>9. QED
    BY <2>1, <2>2, <2>3, <2>4, <2>5, <2>6, <2>7, <2>8 DEF Next, Step
<1>3. DraftsFit'
  <2> SUFFICES ASSUME NEW q \in Procs, pc'[q] = "write"
               PROVE  Fits(task[op[q].task], draft[q], op[q])'
    BY DEF DraftsFit
  <2>1. CASE Decide(q)
    BY <2>1, DecisionFits DEF Decide, Fits, Expired, DepsCompleted
  <2>2. CASE pc[q] = "write" /\ op'[q] = op[q] /\ draft'[q] = draft[q]
    <3>1. op[q] \in Request /\ op[q].task \in Tasks
      BY <2>2, RequestFields DEF TypeInv, StepsHaveRequests, AtWork
    <3>2. task'[op[q].task] = task[op[q].task]
      <4> SUFFICES ASSUME NEW p \in Procs, Write(p), op[p].task = op[q].task
                   PROVE  FALSE
        BY <3>1, WhoWrites, WriteFits DEF TypeInv, TypeOK
      <4>1. p = q
        BY <2>2, AloneInside DEF Write, InLock
      <4>2. QED
        BY <4>1 DEF Write, TypeInv, TypeOK
    <3>3. QED
      BY <2>2, <3>1, <3>2, FitsStays DEF DraftsFit
  <2>3. QED
    BY <2>1, <2>2, ReachingWrite
<1>4. QED
  BY <1>1, <1>2, <1>3

LEMMA AlwaysSafe ==
    ASSUME Suspendable = {}
    PROVE  Spec => []SafeInv
  BY SafeInit, SafeNext, PTL DEF Spec

(* For any tasks, workers and processes, any number of crashes: a finished *)
(* task keeps its status and owner (the table of contracts.ts gives        *)
(* completed and failed no successor).                                     *)
THEOREM FinishedTasksStayFinished ==
    ASSUME Suspendable = {}
    PROVE  Spec => TerminalIsFinal
<1>1. SafeInv /\ [Next]_vars =>
        [\A t \in Tasks : task[t].status \in Terminal =>
            /\ task'[t].status = task[t].status
            /\ task'[t].owner = task[t].owner]_vars
  BY TerminalStays
<1>2. QED
  BY <1>1, AlwaysSafe, PTL DEF Spec, TerminalIsFinal

(* A running lease ends only by its own token: no claim, reclaim or        *)
(* release of another process takes the task away while it runs.           *)
THEOREM LeasesAreExclusive ==
    ASSUME Suspendable = {}
    PROVE  Spec => RunningLeaseIsExclusive
<1>1. ASSUME SafeInv, [Next]_vars, NEW t \in Tasks, task[t].claim # None,
             task'[t].claim # task[t].claim, ~Expired(task[t].claim)
      PROVE  \E p \in Procs : /\ pc[p] = "write"
                              /\ op[p].task = t
                              /\ op[p].kind \in {"transition", "release"}
                              /\ op[p].token = task[t].claim.token
  <2>1. PICK p \in Procs : Write(p)
    BY <1>1, WhoWrites
  <2>2. op[p].task = t /\ op[p] \in Request /\ Fits(task[t], task'[t], op[p])
    BY <1>1, <2>1, WriteFits, RequestFields DEF SafeInv, TypeInv, TypeOK
  <2>3. op[p].kind \in {"transition", "release"} /\ op[p].token = task[t].claim.token
    BY <1>1, <2>2, RequestFields DEF Fits
  <2>4. QED
    BY <2>1, <2>2, <2>3 DEF Write
<1>2. SafeInv /\ [Next]_vars =>
        [\A t \in Tasks :
           \/ task[t].claim = None
           \/ task'[t].claim = task[t].claim
           \/ Expired(task[t].claim)
           \/ \E p \in Procs : /\ pc[p] = "write"
                               /\ op[p].task = t
                               /\ op[p].kind \in {"transition", "release"}
                               /\ op[p].token = task[t].claim.token]_vars
  BY <1>1
<1>3. QED
  BY <1>2, AlwaysSafe, PTL DEF Spec, RunningLeaseIsExclusive

(* No accepted operation is overwritten by one that read an older version. *)
THEOREM UpdatesAreNotLost ==
    ASSUME Suspendable = {}
    PROVE  Spec => NoLostUpdate
<1>1. SafeInv /\ [Next]_vars =>
        [\A t \in Tasks : task'[t] # task[t] => task'[t].version = task[t].version + 1]_vars
  BY WhoWrites, WriteFits, RequestFields DEF Fits, SafeInv, TypeInv, TypeOK
<1>2. QED
  BY <1>1, AlwaysSafe, PTL DEF Spec, NoLostUpdate

(* A claim is written only when every dependency of the task is complete.  *)
THEOREM ClaimsWaitForDependencies ==
    ASSUME Suspendable = {}
    PROVE  Spec => ClaimedOnlyWhenReady
<1>1. ASSUME SafeInv, [Next]_vars, NEW t \in Tasks, task'[t].claim # None,
             task'[t].claim # task[t].claim
      PROVE  DepsCompleted(t)
  <2>1. PICK p \in Procs : Write(p)
    BY <1>1, WhoWrites
  <2>2. QED
    BY <1>1, <2>1, WriteFits, RequestFields DEF Fits, SafeInv, TypeInv, TypeOK
<1>2. SafeInv /\ [Next]_vars =>
        [\A t \in Tasks : /\ task'[t].claim # None
                          /\ task'[t].claim # task[t].claim
                          => DepsCompleted(t)]_vars
  BY <1>1
<1>3. QED
  BY <1>2, AlwaysSafe, PTL DEF Spec, ClaimedOnlyWhenReady

-----------------------------------------------------------------------------
(* The event log.  A process about to append has just written the terminal *)
(* status and nobody has logged it yet.                                    *)

Unlogged(t) == \A s \in Terminal : events[t][s] = 0

AppendersAreFirst ==
    \A p \in Procs : pc[p] = "event" => /\ task[op[p].task].status = op[p].to
                                       /\ Unlogged(op[p].task)

OpenIsUnlogged == \A t \in Tasks : task[t].status \notin Terminal => Unlogged(t)

EventInv == SafeInv /\ EventsMatchTasks /\ AppendersAreFirst /\ OpenIsUnlogged

LEMMA EventInit == Init => EventInv
  BY SafeInit DEF Init, EventInv, EventsMatchTasks, AppendersAreFirst, OpenIsUnlogged, Unlogged,
     Terminal, Dead

(* Steps that touch neither the tasks nor the log, and bring nobody to or  *)
(* from an append.                                                         *)
LEMMA EventQuiet ==
    ASSUME EventInv, task' = task, events' = events, Dead \subseteq Dead',
           \A p \in Procs : pc'[p] = "event" <=> pc[p] = "event",
           \A p \in Procs : pc[p] = "event" => op'[p] = op[p]
    PROVE  (EventsMatchTasks /\ AppendersAreFirst /\ OpenIsUnlogged)'
<1>1. EventsMatchTasks'
  BY DEF EventInv, EventsMatchTasks
<1>2. AppendersAreFirst' /\ OpenIsUnlogged'
  BY DEF EventInv, AppendersAreFirst, OpenIsUnlogged, Unlogged
<1>3. QED
  BY <1>1, <1>2

LEMMA EventNext ==
    ASSUME Suspendable = {}
    PROVE  EventInv /\ [Next]_vars => EventInv'
<1> SUFFICES ASSUME EventInv, [Next]_vars
             PROVE  (EventsMatchTasks /\ AppendersAreFirst /\ OpenIsUnlogged)'
  BY SafeNext DEF EventInv
<1> USE DEF EventInv, SafeInv, TypeInv, TypeOK
<1>1. ASSUME NEW p \in Procs, NEW t \in Tasks, Start(p, t)
      PROVE  (EventsMatchTasks /\ AppendersAreFirst /\ OpenIsUnlogged)'
  <2>1. task' = task /\ events' = events /\ pc[p] = "idle" /\ pc' = [pc EXCEPT ![p] = "acquire"]
        /\ \A q \in Procs : q # p => op'[q] = op[q]
    BY <1>1 DEF Start, StartClaim, StartTransition, StartRelease, StartReclaim, StartUpdate,
         Begin, Files
  <2>2. QED
    BY <2>1, EventQuiet DEF Dead
<1>2. ASSUME NEW p \in Procs,
             \/ Acquire(p) \/ RecoverStaleLock(p) \/ GiveUp(p) \/ Unlock(p)
             \/ MarkRead(p) \/ MarkWrite(p)
      PROVE  (EventsMatchTasks /\ AppendersAreFirst /\ OpenIsUnlogged)'
  <2>1. /\ task' = task /\ events' = events /\ Dead \subseteq Dead'
        /\ \A q \in Procs : pc'[q] = "event" <=> pc[q] = "event"
        /\ \A q \in Procs : pc[q] = "event" => op'[q] = op[q]
    <3>1. CASE Acquire(p) \/ RecoverStaleLock(p) \/ GiveUp(p)
      BY <3>1 DEF Acquire, RecoverStaleLock, GiveUp, Files, Dead
    <3>2. CASE Unlock(p)
      BY <3>2 DEF Unlock, Files, Dead
    <3>3. CASE MarkRead(p) \/ MarkWrite(p)
      BY <3>3 DEF MarkRead, MarkWrite, Files, Dead
    <3>4. QED
      BY <1>2, <3>1, <3>2, <3>3
  <2>2. QED
    BY <2>1, EventQuiet
<1>3. ASSUME NEW p \in Procs, Decide(p)
      PROVE  (EventsMatchTasks /\ AppendersAreFirst /\ OpenIsUnlogged)'
  <2>1. task' = task /\ events' = events /\ op' = op /\ Dead \subseteq Dead'
        /\ \A q \in Procs : pc'[q] = "event" <=> pc[q] = "event"
    BY <1>3, DecideOutcome DEF Decide, Reject, Dead
  <2>2. QED
    BY <2>1, EventQuiet
<1>4. ASSUME NEW p \in Procs, Write(p)
      PROVE  (EventsMatchTasks /\ AppendersAreFirst /\ OpenIsUnlogged)'
  <2> DEFINE t == op[p].task
  <2>1. /\ t \in Tasks /\ op[p] \in Request
        /\ task' = [task EXCEPT ![t] = draft[p]]
        /\ Fits(task[t], draft[p], op[p])
        /\ events' = events /\ op' = op /\ Dead' = Dead
        /\ pc' = [pc EXCEPT ![p] = IF op[p].kind = "transition" THEN "event" ELSE "unlock"]
        /\ pc[p] = "write"
    BY <1>4, WriteFits, RequestFields DEF Write, Dead
  <2>2. \A q \in Procs : q # p /\ pc[q] = "event" => op[q].task # t
    BY <1>4, AloneInside DEF Write, InLock
  <2>3. task[t].status \notin Terminal => Unlogged(t)
    BY <2>1 DEF OpenIsUnlogged
  <2>4. op[p].kind # "transition" => \/ draft[p].status = task[t].status
                                    \/ draft[p].status \notin Terminal
    BY <2>1, RequestFields DEF Fits, Terminal
  <2>5. draft[p].status \notin Terminal => Unlogged(t)
    BY <2>1, <2>3, RequestFields DEF Fits, Terminal
  <2>6. OpenIsUnlogged'
    BY <2>1, <2>5 DEF OpenIsUnlogged, Unlogged
  <2>7. AppendersAreFirst'
    BY <2>1, <2>2, <2>3 DEF AppendersAreFirst, Unlogged, Fits, Terminal
  <2>8. ASSUME NEW u \in Tasks, NEW s \in Terminal
        PROVE  /\ events[u][s] <= 1
               /\ events[u][s] = 1 => task'[u].status = s
               /\ task'[u].status = s => \/ events[u][s] = 1
                                         \/ Dead # {}
                                         \/ \E q \in Procs : pc'[q] = "event" /\ op[q].task = u
    <3>1. CASE u # t
      BY <2>1, <3>1 DEF EventsMatchTasks
    <3>2. CASE u = t /\ op[p].kind = "transition"
      BY <2>1, <2>3, <3>2 DEF EventsMatchTasks, Fits, Unlogged, Terminal
    <3>3. CASE u = t /\ op[p].kind # "transition"
      <4>1. task'[u].status = task[u].status \/ Unlogged(u)
        BY <2>1, <2>4, <2>5, <3>3
      <4>2. CASE task'[u].status = task[u].status
        <5>1. ~\E q \in Procs : pc[q] = "event" /\ op[q].task = u
          BY <2>1, <2>2, <3>3
        <5>2. /\ events[u][s] <= 1
              /\ events[u][s] = 1 => task[u].status = s
              /\ task[u].status = s => events[u][s] = 1 \/ Dead # {}
          BY <5>1 DEF EventsMatchTasks
        <5>3. QED
          BY <4>2, <5>2
      <4>3. CASE draft[p].status \notin Terminal
        BY <2>1, <2>5, <3>3, <4>3 DEF EventsMatchTasks, Unlogged
      <4>4. QED
        BY <2>1, <2>4, <3>3, <4>2, <4>3
    <3>4. QED
      BY <3>1, <3>2, <3>3
  <2>9. EventsMatchTasks'
    BY <2>1, <2>8 DEF EventsMatchTasks
  <2>10. QED
    BY <2>6, <2>7, <2>9
<1>5. ASSUME NEW p \in Procs, AppendEvent(p)
      PROVE  (EventsMatchTasks /\ AppendersAreFirst /\ OpenIsUnlogged)'
  <2> DEFINE t == op[p].task
             s0 == op[p].to
  <2>1. /\ t \in Tasks /\ s0 \in Terminal
        /\ task' = task /\ op' = op /\ Dead' = Dead
        /\ events' = [events EXCEPT ![t][s0] = @ + 1]
        /\ pc' = [pc EXCEPT ![p] = "unlock"]
        /\ pc[p] = "event"
        /\ task[t].status = s0 /\ Unlogged(t)
    BY <1>5, RequestFields DEF AppendEvent, StepsHaveRequests, AtWork, AppendersAreFirst, Dead
  <2>2. \A q \in Procs : q # p /\ pc[q] = "event" => op[q].task # t
    BY <1>5, AloneInside DEF AppendEvent, InLock
  <2>3. events'[t][s0] = 1 /\ \A s \in Terminal : s # s0 => events'[t][s] = 0
    BY <2>1 DEF Unlogged
  <2>4. \A u \in Tasks : u # t => events'[u] = events[u]
    BY <2>1
  <2>5. OpenIsUnlogged'
    BY <2>1, <2>4 DEF OpenIsUnlogged, Unlogged
  <2>6. AppendersAreFirst'
    <3> SUFFICES ASSUME NEW q \in Procs, pc'[q] = "event"
                 PROVE  /\ task'[op'[q].task].status = op'[q].to
                        /\ Unlogged(op[q].task)'
      BY DEF AppendersAreFirst
    <3>1. q # p /\ pc[q] = "event"
      BY <2>1
    <3>2. op[q].task \in Tasks /\ op[q].task # t
      BY <2>2, <3>1, RequestFields DEF StepsHaveRequests, AtWork
    <3>3. task[op[q].task].status = op[q].to /\ Unlogged(op[q].task)
      BY <3>1 DEF AppendersAreFirst
    <3>4. events'[op[q].task] = events[op[q].task]
      BY <2>4, <3>2
    <3>5. QED
      BY <2>1, <3>3, <3>4 DEF Unlogged
  <2>7. EventsMatchTasks'
    <3> SUFFICES ASSUME NEW u \in Tasks, NEW s \in Terminal
                 PROVE  /\ events'[u][s] <= 1
                        /\ events'[u][s] = 1 => task[u].status = s
                        /\ task[u].status = s =>
                              \/ events'[u][s] = 1
                              \/ Dead # {}
                              \/ \E q \in Procs : pc'[q] = "event" /\ op[q].task = u
      BY <2>1 DEF EventsMatchTasks
    <3>1. CASE u = t
      BY <2>1, <2>3, <3>1
    <3>2. CASE u # t
      BY <2>1, <2>4, <3>2 DEF EventsMatchTasks
    <3>3. QED
      BY <3>1, <3>2
  <2>8. QED
    BY <2>5, <2>6, <2>7
<1>6. ASSUME NEW p \in Procs, Crash(p)
      PROVE  (EventsMatchTasks /\ AppendersAreFirst /\ OpenIsUnlogged)'
  <2>1. task' = task /\ events' = events /\ Dead' # {}
        /\ \A q \in Procs : pc'[q] = "event" => pc[q] = "event" /\ op'[q] = op[q]
    BY <1>6 DEF Crash, Files, Dead
  <2>2. EventsMatchTasks'
    BY <2>1 DEF EventsMatchTasks
  <2>3. QED
    BY <2>1, <2>2 DEF AppendersAreFirst, OpenIsUnlogged, Unlogged
<1>7. CASE LeaseExpires \/ UNCHANGED vars
  BY <1>7, EventQuiet DEF LeaseExpires, vars, Dead
<1>8. QED
  BY <1>1, <1>2, <1>3, <1>4, <1>5, <1>6, <1>7 DEF Next, Step

(* The event log tells the truth once: without the monitor, a task never   *)
(* gets a second terminal event, nor one of another status than its own,   *)
(* and only a crash can leave a finished task without its event.           *)
THEOREM EventLogIsTrue ==
    ASSUME Suspendable = {}
    PROVE  Spec => []EventsMatchTasks
<1>1. EventInv => EventsMatchTasks
  BY DEF EventInv
<1>2. QED
  BY <1>1, EventInit, EventNext, PTL DEF Spec

-----------------------------------------------------------------------------
(* The operations implement the board of leases of TaskClaims.  A lease is *)
(* drawn when a claim is decided; every other step of the board is the     *)
(* write of a process.  Beyond SafeInv this needs what a draft changes of  *)
(* the task it was made from (DraftsChange), and that a drawn token is in  *)
(* no task before the claim it was drawn for is written (TokensAreFresh).  *)

Granted(v, r, k) == [v EXCEPT !.status = "in_progress",
                              !.owner  = r.worker,
                              !.claim  = [owner |-> r.worker, token |-> k]]

(* Draft d is task v after request r.                                      *)
Changes(v, d, r) ==
    /\ r.kind = "claim" => \E k \in Nat : d = NextVersion(Granted(v, r, k))
    /\ r.kind = "transition" => d = NextVersion([v EXCEPT !.status = r.to, !.claim = None])
    /\ r.kind \in {"release", "reclaim"} => d = NextVersion(HandedBack(v))
    /\ r.kind = "update" => d = NextVersion([v EXCEPT !.deps = r.deps])

DraftsChange ==
    \A p \in Procs : pc[p] = "write" => Changes(task[op[p].task], draft[p], op[p])

Claims(p) == pc[p] = "write" /\ op[p].kind = "claim"

UsedBy(k) == {t \in Tasks : task[t].claim # None /\ task[t].claim.token = k}

TokensAreFresh ==
    /\ \A t \in Tasks : task[t].claim # None => task[t].claim.token \in 1 .. lastToken
    /\ \A p \in Procs : Claims(p) =>
          /\ draft[p].claim.token \in 1 .. lastToken
          /\ UsedBy(draft[p].claim.token) = {}
    /\ \A p, q \in Procs : /\ Claims(p) /\ Claims(q)
                           /\ draft[p].claim.token = draft[q].claim.token
                           => p = q

RefineInv == SafeInv /\ DraftsChange /\ TokensAreFresh

LEMMA RefineInit == Init => RefineInv
  BY SafeInit DEF Init, RefineInv, DraftsChange, TokensAreFresh, Claims

-----------------------------------------------------------------------------
(* A decision that is accepted leaves a draft of the request, and the      *)
(* token of a claim is drawn with it.                                      *)
LEMMA DecisionChanges ==
    ASSUME SafeInv, NEW p \in Procs, Decide(p), pc'[p] = "write"
    PROVE  /\ Changes(task[op[p].task], draft'[p], op[p])
           /\ op[p].kind = "claim" => /\ lastToken' = lastToken + 1
                                      /\ draft'[p].claim.token = lastToken'
           /\ op[p].kind # "claim" => lastToken' = lastToken
<1> DEFINE v == task[op[p].task]
<1>1. op[p] \in Request /\ v \in Task /\ draft \in [Procs -> Task \cup {None}] /\ pc \in [Procs -> Steps]
      /\ lastToken \in Nat
  BY RequestFields DEF Decide, SafeInv, TypeInv, TypeOK, StepsHaveRequests, AtWork
<1>2. \A w : Accept(p, w) => draft'[p] = NextVersion(w)
  BY <1>1 DEF Accept
<1>3. ~Reject(p)
  BY <1>1 DEF Reject
<1>4. CASE DecideClaim(p)
  <2>1. lastToken' = lastToken + 1 /\ draft'[p] = NextVersion(Granted(v, op[p], lastToken + 1))
    BY <1>2, <1>3, <1>4 DEF DecideClaim, Granted
  <2>2. draft'[p].claim.token = lastToken + 1
    BY <1>1, <2>1 DEF NextVersion, Granted, Task
  <2>3. QED
    BY <1>1, <1>4, <2>1, <2>2 DEF DecideClaim, Changes
<1>5. CASE DecideTransition(p)
  BY <1>2, <1>3, <1>5 DEF DecideTransition, Changes
<1>6. CASE DecideRelease(p)
  BY <1>2, <1>3, <1>6 DEF DecideRelease, Changes
<1>7. CASE DecideReclaim(p)
  BY <1>2, <1>3, <1>7 DEF DecideReclaim, Changes
<1>8. CASE DecideUpdate(p)
  BY <1>2, <1>8 DEF DecideUpdate, Changes
<1>9. QED
  BY <1>4, <1>5, <1>6, <1>7, <1>8 DEF Decide

(* No token is drawn but by a decision.                                    *)
LEMMA LastTokenGrows ==
    ASSUME TypeInv, [Next]_vars
    PROVE  /\ lastToken' \in Nat /\ lastToken <= lastToken'
           /\ lastToken' # lastToken => lastToken' = lastToken + 1 /\ \E p \in Procs : Decide(p)
<1>1. ASSUME NEW p \in Procs, Decide(p)
      PROVE  lastToken' \in {lastToken, lastToken + 1}
  BY <1>1 DEF Decide, DecideClaim, DecideTransition, DecideRelease, DecideReclaim, DecideUpdate
<1>2. CASE \E p \in Procs : Decide(p)
  BY <1>1, <1>2 DEF TypeInv, TypeOK
<1>3. CASE ~ \E p \in Procs : Decide(p)
  <2>1. lastToken' = lastToken
    BY <1>3, ZenonT(30) DEF Next, Start, StartClaim, StartTransition, StartRelease, StartReclaim,
       StartUpdate, Begin, Files, Step, Acquire, RecoverStaleLock, GiveUp, Write, AppendEvent,
       Unlock, MarkRead, MarkWrite, Crash, LeaseExpires, vars
  <2>2. QED
    BY <2>1 DEF TypeInv, TypeOK
<1>4. QED
  BY <1>2, <1>3

(* What a write makes of the claim of its task.                            *)
LEMMA WrittenClaim ==
    ASSUME RefineInv, NEW p \in Procs, Write(p)
    PROVE  LET t == op[p].task IN
           /\ t \in Tasks
           /\ task'[t] = draft[p]
           /\ \A u \in Tasks : u # t => task'[u] = task[u]
           /\ \/ op[p].kind = "claim" /\ draft[p].claim # None
              \/ draft[p].claim = None
              \/ draft[p].claim = task[t].claim
<1>1. /\ op[p] \in Request /\ op[p].task \in Tasks /\ task \in [Tasks -> Task]
      /\ Fits(task[op[p].task], draft[p], op[p])
      /\ task' = [task EXCEPT ![op[p].task] = draft[p]]
  BY WriteFits, RequestFields DEF RefineInv, SafeInv, TypeInv, TypeOK
<1>2. QED
  BY <1>1, RequestFields DEF Fits

LEMMA DraftsNext ==
    ASSUME Suspendable = {}, RefineInv, [Next]_vars
    PROVE  DraftsChange'
<1> SUFFICES ASSUME NEW q \in Procs, pc'[q] = "write"
             PROVE  Changes(task'[op'[q].task], draft'[q], op'[q])
  BY DEF DraftsChange, Changes, Granted, NextVersion, HandedBack
<1> USE DEF RefineInv, SafeInv
<1>1. CASE Decide(q)
  <2>1. task' = task /\ op' = op
    BY <1>1 DEF Decide
  <2>2. QED
    BY <1>1, <2>1, DecisionChanges
<1>2. CASE pc[q] = "write" /\ op'[q] = op[q] /\ draft'[q] = draft[q]
  <2>1. op[q] \in Request /\ op[q].task \in Tasks
    BY <1>2, RequestFields DEF TypeInv, StepsHaveRequests, AtWork
  <2>2. task'[op[q].task] = task[op[q].task]
    <3> SUFFICES ASSUME NEW p \in Procs, Write(p), op[p].task = op[q].task
                 PROVE  FALSE
      BY <2>1, WhoWrites, WriteFits DEF TypeInv, TypeOK
    <3>1. p = q
      BY <1>2, AloneInside DEF Write, InLock
    <3>2. QED
      BY <3>1 DEF Write, TypeInv, TypeOK
  <2>3. QED
    BY <1>2, <2>2 DEF DraftsChange
<1>3. QED
  BY <1>1, <1>2, ReachingWrite

LEMMA TokensNext ==
    ASSUME Suspendable = {}, RefineInv, [Next]_vars
    PROVE  TokensAreFresh'
<1> USE DEF RefineInv, SafeInv
<1>1. /\ lastToken \in Nat /\ lastToken' \in Nat /\ lastToken <= lastToken'
      /\ task \in [Tasks -> Task] /\ pc \in [Procs -> Steps]
  BY LastTokenGrows DEF TypeInv, TypeOK
(* A process that is about to write a claim was so before, or has just     *)
(* drawn its token.                                                        *)
<1>2. ASSUME NEW q \in Procs, Claims(q)'
      PROVE  \/ /\ Decide(q) /\ task' = task /\ op[q].kind = "claim"
                /\ lastToken' = lastToken + 1 /\ draft'[q].claim.token = lastToken'
             \/ Claims(q) /\ op'[q] = op[q] /\ draft'[q] = draft[q]
  <2>1. pc'[q] = "write" /\ op'[q].kind = "claim"
    BY <1>2 DEF Claims
  <2>2. CASE Decide(q)
    BY <2>1, <2>2, DecisionChanges DEF Decide
  <2>3. CASE pc[q] = "write" /\ op'[q] = op[q] /\ draft'[q] = draft[q]
    BY <2>1, <2>3 DEF Claims
  <2>4. QED
    BY <2>1, <2>2, <2>3, ReachingWrite
<1>3. ASSUME NEW t \in Tasks, task'[t].claim # None
      PROVE  /\ task'[t].claim.token \in 1 .. lastToken
             /\ \/ task[t].claim # None /\ task'[t].claim.token = task[t].claim.token
                \/ \E p \in Procs : /\ Claims(p) /\ Write(p)
                                    /\ task'[t].claim.token = draft[p].claim.token
  <2>1. CASE task' = task
    BY <1>3, <2>1 DEF TokensAreFresh
  <2>2. CASE task' # task
    <3>1. PICK p \in Procs : Write(p)
      BY <2>2, WhoWrites
    <3>2. task'[t] = task[t] \/ /\ t = op[p].task /\ task'[t] = draft[p]
                                /\ \/ op[p].kind = "claim"
                                   \/ draft[p].claim = None
                                   \/ draft[p].claim = task[t].claim
      BY <3>1, WrittenClaim
    <3>3. CASE task'[t].claim = task[t].claim
      BY <1>3, <3>3 DEF TokensAreFresh
    <3>4. CASE op[p].kind = "claim" /\ task'[t] = draft[p]
      BY <3>1, <3>4 DEF TokensAreFresh, Claims, Write
    <3>5. QED
      BY <1>3, <3>2, <3>3, <3>4
  <2>3. QED
    BY <2>1, <2>2
<1>4. \A t \in Tasks : task'[t].claim # None => task'[t].claim.token \in 1 .. lastToken'
  BY <1>1, <1>3
<1>5. ASSUME NEW q \in Procs, Claims(q)'
      PROVE  /\ draft'[q].claim.token \in 1 .. lastToken'
             /\ \A t \in Tasks : task'[t].claim # None =>
                   task'[t].claim.token # draft'[q].claim.token
  <2>1. CASE /\ Decide(q) /\ task' = task
             /\ lastToken' = lastToken + 1 /\ draft'[q].claim.token = lastToken'
    BY <1>1, <1>3, <2>1
  <2>2. CASE Claims(q) /\ op'[q] = op[q] /\ draft'[q] = draft[q]
    <3>1. draft[q].claim.token \in 1 .. lastToken /\ UsedBy(draft[q].claim.token) = {}
      BY <2>2 DEF TokensAreFresh
    <3>2. ASSUME NEW t \in Tasks, task'[t].claim # None,
                 task'[t].claim.token = draft[q].claim.token
          PROVE  FALSE
      <4>1. CASE task[t].claim # None /\ task'[t].claim.token = task[t].claim.token
        BY <3>1, <3>2, <4>1 DEF UsedBy
      <4>2. CASE \E p \in Procs : /\ Claims(p) /\ Write(p)
                                  /\ task'[t].claim.token = draft[p].claim.token
        <5>1. Write(q)
          BY <2>2, <3>2, <4>2 DEF TokensAreFresh
        <5>2. pc'[q] # "write"
          BY <1>1, <5>1 DEF Write
        <5>3. QED
          BY <1>5, <5>2 DEF Claims
      <4>3. QED
        BY <1>3, <3>2, <4>1, <4>2
    <3>3. QED
      BY <1>1, <2>2, <3>1, <3>2
  <2>3. QED
    BY <1>2, <1>5, <2>1, <2>2
<1>6. ASSUME NEW p \in Procs, NEW q \in Procs, Claims(p)', Claims(q)',
             draft'[p].claim.token = draft'[q].claim.token
      PROVE  p = q
  <2>1. ASSUME NEW r \in Procs, NEW s \in Procs, Decide(r), Claims(r)', Claims(s)', r # s
        PROVE  draft'[r].claim.token # draft'[s].claim.token
    <3>1. op[r].kind = "claim" /\ lastToken' = lastToken + 1 /\ draft'[r].claim.token = lastToken'
      BY <2>1, DecisionChanges DEF Claims, Decide
    <3>2. ~ Decide(s)
      BY <1>1, <2>1 DEF Decide, DecideClaim, DecideTransition, DecideRelease, DecideReclaim, DecideUpdate,
         Accept, Reject
    <3>3. draft'[s].claim.token \in 1 .. lastToken
      BY <1>2, <2>1, <3>2 DEF TokensAreFresh
    <3>4. QED
      BY <1>1, <3>1, <3>3
  <2>2. CASE Decide(p) \/ Decide(q)
    BY <1>6, <2>1, <2>2
  <2>3. CASE ~Decide(p) /\ ~Decide(q)
    BY <1>2, <1>6, <2>3 DEF TokensAreFresh
  <2>4. QED
    BY <2>2, <2>3
<1>7. QED
  BY <1>4, <1>5, <1>6 DEF TokensAreFresh, UsedBy

LEMMA AlwaysRefines ==
    ASSUME Suspendable = {}
    PROVE  Spec => []RefineInv
<1>1. RefineInv /\ [Next]_vars => RefineInv'
  BY SafeNext, DraftsNext, TokensNext DEF RefineInv
<1>2. QED
  BY <1>1, RefineInit, PTL DEF Spec

-----------------------------------------------------------------------------
(* The write of a process is an operation of the board.                    *)
LEMMA WriteIsAnOperation ==
    ASSUME RefineInv, NEW p \in Procs, Write(p)
    PROVE  Abstract!Next
<1> DEFINE t == op[p].task  v == task[op[p].task]  d == draft[p]  r == op[p]
<1>1. /\ r \in Request /\ t \in Tasks /\ v \in Task /\ d \in Task
      /\ task' = [task EXCEPT ![t] = d]
      /\ Fits(v, d, r) /\ Changes(v, d, r)
      /\ lastToken' = lastToken /\ lapsed' = lapsed /\ lastToken \in Nat /\ lapsed \in Nat
  BY WriteFits, RequestFields DEF Write, RefineInv, SafeInv, TypeInv, TypeOK, DraftsChange
<1>2. ASSUME NEW w, d = NextVersion(w), w.version = v.version
      PROVE  Abstract!Replace(t, w)
  BY <1>1, <1>2 DEF Abstract!Replace, NextVersion
<1>3. CASE r.kind = "claim"
  <2>1. PICK k \in Nat : d = NextVersion(Granted(v, r, k))
    BY <1>1, <1>3 DEF Changes
  <2>2. d.claim.token = k /\ Granted(v, r, k).version = v.version
    BY <1>1, <2>1 DEF NextVersion, Granted, Task
  <2>3. k \in 1 .. lastToken /\ UsedBy(k) = {}
    BY <1>3, <2>2 DEF RefineInv, TokensAreFresh, Claims, Write
  <2>4. ~Abstract!InUse(k)
    BY <2>3 DEF Abstract!InUse, UsedBy
  <2>5. v.status \notin Terminal /\ (v.claim = None \/ Expired(v.claim)) /\ DepsCompleted(t)
    BY <1>1, <1>3 DEF Fits
  <2>6. ~Abstract!Held(t)
    BY <1>1, <2>5 DEF Abstract!Held, Expired, Task, Claim
  <2>7. Abstract!Replace(t, Granted(v, r, k))
    BY <1>2, <2>1, <2>2
  <2>8. Abstract!Claim(t, r.worker, k)
    BY <1>1, <2>4, <2>5, <2>6, <2>7
       DEF Abstract!Claim, Abstract!Terminal, Terminal, Abstract!DepsCompleted, DepsCompleted, Granted
  <2>9. QED
    BY <1>1, <1>3, <2>3, <2>8, RequestFields DEF Abstract!Next
<1>4. CASE r.kind = "transition"
  <2>1. Abstract!Replace(t, [v EXCEPT !.status = r.to, !.claim = None])
    BY <1>1, <1>2, <1>4 DEF Changes, Task
  <2>2. Abstract!Finish(t, r.to)
    BY <1>1, <1>4, <2>1 DEF Abstract!Finish, Fits
  <2>3. QED
    BY <1>1, <1>4, <2>2, RequestFields DEF Abstract!Next, Abstract!Terminal, Terminal
<1>5. CASE r.kind \in {"release", "reclaim"}
  <2>1. Abstract!Replace(t, HandedBack(v))
    BY <1>1, <1>2, <1>5 DEF Changes, Task, HandedBack
  <2>2. Abstract!HandBack(t)
    BY <1>1, <1>5, <2>1 DEF Abstract!HandBack, Fits, HandedBack, Expired
  <2>3. QED
    BY <1>1, <2>2 DEF Abstract!Next
<1>6. CASE r.kind = "update"
  <2>1. Abstract!Replace(t, [v EXCEPT !.deps = r.deps])
    BY <1>1, <1>2, <1>6 DEF Changes, Task
  <2>2. Abstract!Edit(t, r.deps)
    BY <1>1, <2>1 DEF Abstract!Edit
  <2>3. QED
    BY <1>1, <1>6, <2>2, RequestFields DEF Abstract!Next
<1>7. QED
  BY <1>1, <1>3, <1>4, <1>5, <1>6, RequestFields

(* Every step is an operation of the board or leaves it alone.             *)
LEMMA StepIsAnOperation ==
    ASSUME RefineInv, [Next]_vars
    PROVE  [Abstract!Next]_(Abstract!boardVars)
<1>1. CASE \E p \in Procs : Write(p)
  BY <1>1, WriteIsAnOperation
<1>2. CASE LeaseExpires
  BY <1>2 DEF LeaseExpires, Abstract!LeaseExpires, Abstract!Next
<1>3. CASE \E p \in Procs : Decide(p)
  <2>1. task' = task /\ lapsed' = lapsed /\ lastToken' \in {lastToken, lastToken + 1}
    BY <1>3 DEF Decide, DecideClaim, DecideTransition, DecideRelease, DecideReclaim, DecideUpdate
  <2>2. QED
    BY <2>1 DEF Abstract!Draw, Abstract!Next, Abstract!boardVars
<1>4. CASE /\ ~ \E p \in Procs : Write(p) \/ Decide(p)
           /\ ~ LeaseExpires
  <2>1. task' = task /\ lapsed' = lapsed /\ lastToken' = lastToken
    BY <1>4, ZenonT(30) DEF Next, Start, StartClaim, StartTransition, StartRelease, StartReclaim,
       StartUpdate, Begin, Files, Step, Acquire, RecoverStaleLock, GiveUp, AppendEvent,
       Unlock, MarkRead, MarkWrite, Crash, vars
  <2>2. QED
    BY <2>1 DEF Abstract!boardVars
<1>5. QED
  BY <1>1, <1>2, <1>3, <1>4

(* The processes with their locks, files and crashes implement the board:  *)
(* whatever the interleaving, a lease is granted, used and ended as if     *)
(* every operation were one step.                                          *)
THEOREM LifecycleImplementsClaims ==
    ASSUME Suspendable = {}
    PROVE  Spec => ImplementsTaskClaims
<1>1. Init => Abstract!Init
  BY DEF Init, Abstract!Init
<1>2. RefineInv /\ [Next]_vars => [Abstract!Next]_(Abstract!boardVars)
  BY StepIsAnOperation
<1>3. QED
  BY <1>1, <1>2, AlwaysRefines, PTL DEF Spec, ImplementsTaskClaims, Abstract!Spec

-----------------------------------------------------------------------------
(* Monitors.  Every copy of the tasks' statuses (the snapshot file, what a *)
(* pass has listed, what a mark has read of the file) was true of finished *)
(* tasks when it was made, and finished tasks stay as they are.            *)

PassesTyped == /\ stage \in [Monitors -> {"idle", "list", "emit", "save"}]
               /\ previous \in [Monitors -> Snapshot \cup {None}]
               /\ listed \in [Monitors -> [Tasks -> Statuses \cup {None}]]
               /\ left \in [Monitors -> SUBSET Tasks]

Behind(view) == \A t \in Tasks, s \in Terminal : view[t] = s => task[t].status = s

CopiesAreBehind == /\ snapshot # None => Behind(snapshot.status)
                   /\ \A p \in Procs : seen[p] # None => Behind(seen[p].status)
                   /\ \A m \in Monitors : Behind(listed[m])

AppendersHaveWritten == \A p \in Procs : pc[p] = "event" => task[op[p].task].status = op[p].to

EventsAreTrue == \A t \in Tasks : events[t].completed > 0 => task[t].status = "completed"

ViewInv == SafeInv /\ PassesTyped /\ CopiesAreBehind /\ AppendersHaveWritten /\ EventsAreTrue

LEMMA ViewInit == MonitorInit => ViewInv
  BY SafeInit, BoardAssumption
     DEF MonitorInit, Init, ViewInv, PassesTyped, CopiesAreBehind, Behind, AppendersHaveWritten,
         EventsAreTrue, Unseen, Snapshot, Terminal, Statuses

(* The operations on tasks copy no status: a mark writes back what it read *)
(* of the snapshot, or a snapshot without statuses.                        *)
LEMMA ViewOperations ==
    ASSUME Suspendable = {}, ViewInv, [Next]_vars, UNCHANGED passVars
    PROVE  ViewInv'
<1> USE DEF ViewInv
<1>1. SafeInv' /\ PassesTyped'
  BY SafeNext DEF PassesTyped, passVars
<1> USE DEF SafeInv, TypeInv, TypeOK
<1>2. \A t \in Tasks : task[t].status \in Terminal => task'[t].status = task[t].status
  BY TerminalStays
<1>3. CopiesAreBehind'
  <2> DEFINE StillBehind(view) == \A t \in Tasks, s \in Terminal : view[t] = s => task'[t].status = s
  <2>0. \A view : Behind(view) => StillBehind(view)
    BY <1>2 DEF Behind
  <2> SUFFICES /\ snapshot' # None => StillBehind(snapshot'.status)
               /\ \A p \in Procs : seen'[p] # None => StillBehind(seen'[p].status)
               /\ \A m \in Monitors : StillBehind(listed'[m])
    BY DEF CopiesAreBehind, Behind
  <2> HIDE DEF StillBehind
  <2>1. \A m \in Monitors : StillBehind(listed'[m])
    BY <2>0 DEF CopiesAreBehind, passVars
  <2>2. CASE snapshot' = snapshot /\ \A p \in Procs : seen'[p] \in {None, seen[p], snapshot}
    BY <2>0, <2>1, <2>2 DEF CopiesAreBehind
  <2>3. ASSUME NEW p \in Procs, MarkWrite(p)
        PROVE  /\ snapshot' # None => StillBehind(snapshot'.status)
               /\ \A q \in Procs : seen'[q] # None => StillBehind(seen'[q].status)
    <3> DEFINE old == IF seen[p] = None THEN EmptySnapshot ELSE seen[p]
    <3>1. old \in Snapshot
      BY DEF EmptySnapshot, Snapshot
    <3>2. Behind(old.status)
      BY BoardAssumption DEF CopiesAreBehind, Behind, EmptySnapshot, Statuses, Terminal
    <3>3. snapshot' = [old EXCEPT !.done = @ \cup {op[p].task}]
      BY <2>3 DEF MarkWrite
    <3> HIDE DEF old
    <3>4. snapshot'.status = old.status
      BY <3>1, <3>3 DEF Snapshot
    <3>5. \A q \in Procs : seen'[q] \in {None, seen[q]}
      BY <2>3 DEF MarkWrite
    <3>6. QED
      BY <2>0, <3>2, <3>4, <3>5 DEF CopiesAreBehind
  <2>4. ASSUME NEW p \in Procs, NEW t \in Tasks, Start(p, t)
        PROVE  snapshot' = snapshot /\ seen' = seen
    BY <2>4 DEF Start, StartClaim, StartTransition, StartRelease, StartReclaim, StartUpdate,
         Begin, Files
  <2>5. ASSUME NEW p \in Procs, MarkRead(p) \/ Crash(p)
        PROVE  snapshot' = snapshot /\ \A q \in Procs : seen'[q] \in {None, seen[q], snapshot}
    BY <2>5 DEF MarkRead, Crash, Files
  <2>6. ASSUME NEW p \in Procs, \/ Acquire(p) \/ RecoverStaleLock(p) \/ GiveUp(p) \/ Decide(p)
                                \/ Write(p) \/ AppendEvent(p) \/ Unlock(p)
        PROVE  snapshot' = snapshot /\ seen' = seen
    BY <2>6 DEF Acquire, RecoverStaleLock, GiveUp, Decide, Write, AppendEvent, Unlock, Files
  <2>7. CASE LeaseExpires \/ UNCHANGED vars
    BY <2>2, <2>7 DEF LeaseExpires, vars
  <2>8. QED
    BY <2>1, <2>2, <2>3, <2>4, <2>5, <2>6, <2>7 DEF Next, Step
<1>4. AppendersHaveWritten' /\ EventsAreTrue'
  <2>1. CASE /\ events' = events
             /\ \A p \in Procs : pc'[p] = "event" => pc[p] = "event" /\ op'[p] = op[p]
    <3>1. \A p \in Procs : pc[p] = "event" => op[p].task \in Tasks /\ op[p].to \in Terminal
      BY RequestFields DEF StepsHaveRequests, AtWork
    <3>2. QED
      BY <1>2, <2>1, <3>1 DEF AppendersHaveWritten, EventsAreTrue, Terminal
  <2>2. ASSUME NEW p \in Procs, Write(p)
        PROVE  AppendersHaveWritten' /\ EventsAreTrue'
    <3> DEFINE t == op[p].task
    <3>1. /\ t \in Tasks /\ op[p] \in Request
          /\ task' = [task EXCEPT ![t] = draft[p]]
          /\ Fits(task[t], draft[p], op[p])
          /\ events' = events /\ op' = op
          /\ pc' = [pc EXCEPT ![p] = IF op[p].kind = "transition" THEN "event" ELSE "unlock"]
      BY <2>2, WriteFits, RequestFields DEF Write
    <3>2. EventsAreTrue'
      BY <1>2, <3>1 DEF EventsAreTrue, Terminal
    <3>3. ASSUME NEW q \in Procs, pc'[q] = "event"
          PROVE  task'[op'[q].task].status = op'[q].to
      <4>1. CASE q = p
        BY <3>1, <3>3, <4>1 DEF Fits
      <4>2. CASE q # p
        <5>1. pc[q] = "event" /\ op[q].task \in Tasks /\ op[q].to \in Terminal
          BY <3>1, <3>3, <4>2, RequestFields DEF StepsHaveRequests, AtWork
        <5>2. QED
          BY <1>2, <3>1, <5>1 DEF AppendersHaveWritten
      <4>3. QED
        BY <4>1, <4>2
    <3>4. QED
      BY <3>2, <3>3 DEF AppendersHaveWritten
  <2>3. ASSUME NEW p \in Procs, AppendEvent(p)
        PROVE  AppendersHaveWritten' /\ EventsAreTrue'
    <3>1. op[p].task \in Tasks /\ op[p].to \in Terminal
      BY <2>3, RequestFields DEF AppendEvent, StepsHaveRequests, AtWork
    <3>2. /\ task' = task /\ op' = op
          /\ events' = [events EXCEPT ![op[p].task][op[p].to] = @ + 1]
          /\ pc' = [pc EXCEPT ![p] = "unlock"]
          /\ task[op[p].task].status = op[p].to
      BY <2>3 DEF AppendEvent, AppendersHaveWritten
    <3>3. EventsAreTrue'
      BY <3>1, <3>2 DEF EventsAreTrue, Terminal
    <3>4. QED
      BY <3>2, <3>3 DEF AppendersHaveWritten
  <2>4. ASSUME NEW p \in Procs, NEW t \in Tasks, Start(p, t)
        PROVE  /\ events' = events
               /\ \A q \in Procs : pc'[q] = "event" => pc[q] = "event" /\ op'[q] = op[q]
    BY <2>4 DEF Start, StartClaim, StartTransition, StartRelease, StartReclaim, StartUpdate,
         Begin, Files
  <2>5. ASSUME NEW p \in Procs, \/ Acquire(p) \/ RecoverStaleLock(p) \/ GiveUp(p)
                                \/ MarkRead(p) \/ MarkWrite(p) \/ Crash(p)
        PROVE  /\ events' = events
               /\ \A q \in Procs : pc'[q] = "event" => pc[q] = "event" /\ op'[q] = op[q]
    BY <2>5 DEF Acquire, RecoverStaleLock, GiveUp, MarkRead, MarkWrite, Crash, Files
  <2>6. ASSUME NEW p \in Procs, Unlock(p)
        PROVE  /\ events' = events
               /\ \A q \in Procs : pc'[q] = "event" => pc[q] = "event" /\ op'[q] = op[q]
    BY <2>6 DEF Unlock, Files
  <2>7. ASSUME NEW p \in Procs, Decide(p)
        PROVE  /\ events' = events
               /\ \A q \in Procs : pc'[q] = "event" => pc[q] = "event" /\ op'[q] = op[q]
    BY <2>7, DecideOutcome DEF Decide, Reject
  <2>8. CASE LeaseExpires \/ UNCHANGED vars
    BY <2>1, <2>8 DEF LeaseExpires, vars
  <2>9. QED
    BY <2>1, <2>2, <2>3, <2>4, <2>5, <2>6, <2>7, <2>8 DEF Next, Step
<1>5. QED
  BY <1>1, <1>3, <1>4

(* A pass writes a snapshot of what it has listed, and announces only what *)
(* it has listed as completed.                                             *)
LEMMA ViewPasses ==
    ASSUME ViewInv, NEW m \in Monitors, Pass(m) \/ PassFails(m)
    PROVE  ViewInv'
<1> USE DEF ViewInv
<1>1. /\ UNCHANGED <<task, lastToken, lapsed, lock, pc, op, draft, seen>>
      /\ PassesTyped'
      /\ CopiesAreBehind'
      /\ snapshot' \in Snapshot \cup {None}
      /\ events' \in [Tasks -> [Terminal -> Nat]]
      /\ EventsAreTrue'
  <2> USE DEF SafeInv, TypeInv, TypeOK
  <2>1. CASE ReadPrevious(m)
    BY <2>1 DEF ReadPrevious, PassesTyped, CopiesAreBehind, Behind, EventsAreTrue, vars
  <2>2. CASE ListTasks(m)
    <3>1. [t \in Tasks |-> task[t].status] \in [Tasks -> Statuses \cup {None}]
      BY DEF Task
    <3>2. Behind([t \in Tasks |-> task[t].status])
      BY DEF Behind
    <3>3. PassesTyped'
      BY <2>2, <3>1 DEF ListTasks, PassesTyped
    <3>4. CopiesAreBehind'
      BY <2>2, <3>2 DEF ListTasks, PassesTyped, CopiesAreBehind, Behind, vars
    <3>5. QED
      BY <2>2, <3>3, <3>4 DEF ListTasks, EventsAreTrue, vars
  <2>3. CASE EmitDerived(m)
    <3>1. PICK t \in left[m] :
             /\ left' = [left EXCEPT ![m] = @ \ {t}]
             /\ events' = IF NewlyCompleted(m, t)
                          THEN [events EXCEPT ![t].completed = @ + 1]
                          ELSE events
      BY <2>3 DEF EmitDerived
    <3>2. t \in Tasks
      BY DEF PassesTyped
    <3>3. NewlyCompleted(m, t) => task[t].status = "completed"
      BY <3>2 DEF NewlyCompleted, CopiesAreBehind, Behind, Terminal
    <3>4. events' \in [Tasks -> [Terminal -> Nat]]
      BY <3>1, <3>2 DEF Terminal
    <3>5. EventsAreTrue'
      BY <2>3, <3>1, <3>2, <3>3 DEF EmitDerived, EventsAreTrue, Terminal
    <3>6. PassesTyped' /\ CopiesAreBehind'
      BY <2>3, <3>1 DEF EmitDerived, PassesTyped, CopiesAreBehind, Behind
    <3>7. QED
      BY <2>3, <3>4, <3>5, <3>6 DEF EmitDerived
  <2>4. CASE SaveSnapshot(m)
    <3>1. IF previous[m] = None THEN TRUE ELSE previous[m].done \in SUBSET Tasks
      BY DEF PassesTyped, Snapshot
    <3>2. snapshot' \in Snapshot /\ snapshot'.status = listed[m]
      BY <2>4, <3>1 DEF SaveSnapshot, PassesTyped, Snapshot
    <3>3. Unseen \in [Tasks -> Statuses \cup {None}] /\ Behind(Unseen)
      BY BoardAssumption DEF Unseen, Behind, Terminal, Statuses
    <3>4. PassesTyped'
      BY <2>4, <3>3 DEF SaveSnapshot, PassesTyped
    <3>5. CopiesAreBehind'
      BY <2>4, <3>2, <3>3 DEF SaveSnapshot, PassesTyped, CopiesAreBehind, Behind
    <3>6. QED
      BY <2>4, <3>2, <3>4, <3>5 DEF SaveSnapshot, EventsAreTrue
  <2>5. CASE PassFails(m)
    <3>1. Unseen \in [Tasks -> Statuses \cup {None}] /\ Behind(Unseen)
      BY BoardAssumption DEF Unseen, Behind, Terminal, Statuses
    <3>2. QED
      BY <2>5, <3>1 DEF PassFails, PassesTyped, CopiesAreBehind, Behind, EventsAreTrue, vars
  <2>6. QED
    BY <2>1, <2>2, <2>3, <2>4, <2>5 DEF Pass
<1>2. TypeInv'
  BY <1>1 DEF SafeInv, TypeInv, TypeOK, StepsHaveRequests, AtWork
<1>3. LockOwned' /\ DraftsFit'
  BY <1>1 DEF SafeInv, LockOwned, InLock, DraftsFit, Fits, Expired, DepsCompleted
<1>4. AppendersHaveWritten'
  BY <1>1 DEF AppendersHaveWritten
<1>5. QED
  BY <1>1, <1>2, <1>3, <1>4 DEF SafeInv

(* However many monitors overlap with the operations and with each other,  *)
(* fail or die: what a snapshot or a list calls finished is finished, and  *)
(* nobody announces the completion of a task that is not completed.        *)
THEOREM MonitorsAreNeverAhead ==
    ASSUME Suspendable = {}
    PROVE  MonitorSpec => []ViewsAreNeverAhead
<1>1. ViewInv /\ [MonitorNext]_monitorVars => ViewInv'
  <2> SUFFICES ASSUME ViewInv, [MonitorNext]_monitorVars
               PROVE  ViewInv'
    OBVIOUS
  <2>1. CASE [Next]_vars /\ UNCHANGED passVars
    BY <2>1, ViewOperations
  <2>2. CASE \E m \in Monitors : Pass(m) \/ PassFails(m)
    BY <2>2, ViewPasses
  <2>3. QED
    BY <2>1, <2>2 DEF MonitorNext, monitorVars
<1>2. ViewInv => ViewsAreNeverAhead
  BY DEF ViewInv, CopiesAreBehind, Behind, EventsAreTrue, ViewsAreNeverAhead
<1>3. QED
  BY <1>1, <1>2, ViewInit, PTL DEF MonitorSpec
=============================================================================
