---------------------------- MODULE TaskLifecycle ----------------------------
(***************************************************************************)
(* The task operations of src/team/state/tasks.ts as the processes of a    *)
(* team run them: leader, workers and CLI calls, each of them a process of *)
(* its own that locks a task, reads its file, decides, writes the file,    *)
(* appends an event, unlocks and, after the lock is gone, marks the        *)
(* monitor snapshot.  Any of them may crash between two steps; the lock it *)
(* leaves behind is removed by a waiter once it is older than              *)
(* LOCK_STALE_MS.  The lock is one variable here; DirLock looks inside it. *)
(***************************************************************************)
EXTENDS Naturals, FiniteSets

CONSTANTS Tasks, Workers, None, InitialDeps, InitialOwner, EditDeps,
          Procs,        \* processes that run task operations
          Suspendable,  \* processes the system may stop for LOCK_STALE_MS inside a lock
          MaxVersion,   \* bound: no operation starts on a task of this version
          MaxCrashes    \* bound: how many processes may die

VARIABLES task,         \* the task files
          lastToken,    \* claim tokens drawn so far (randomUUID is always fresh)
          lapsed,       \* the leases of tokens 1 .. lapsed have run out
          lock,         \* per task: the process whose lock directory exists, or None
          pc,           \* per process: its next step
          op,           \* per process: the request it works on, or None
          draft,        \* per process: the task it is about to write, or None
          events,       \* per task: terminal events in the event log
          snapshot,     \* the monitor snapshot file, or None
          seen          \* per process: the snapshot it has read

vars == <<task, lastToken, lapsed, lock, pc, op, draft, events, snapshot, seen>>

-----------------------------------------------------------------------------
(* Tasks, claims and requests.                                             *)

Statuses == {"pending", "blocked", "in_progress", "completed", "failed"}
Terminal == {"completed", "failed"}

Claim == [owner : Workers, token : Nat]

Task == [status  : Statuses,
         owner   : Workers \cup {None},
         claim   : Claim \cup {None},
         deps    : SUBSET Tasks,
         version : Nat]

Request ==
         [kind : {"claim"}, task : Tasks, worker : Workers, expected : Nat]
    \cup [kind : {"transition"}, task : Tasks, to : Terminal, token : Nat]
    \cup [kind : {"release"}, task : Tasks, token : Nat]
    \cup [kind : {"reclaim"}, task : Tasks]
    \cup [kind : {"update"}, task : Tasks, deps : EditDeps]

Snapshot == [status : [Tasks -> Statuses \cup {None}], done : SUBSET Tasks]

ASSUME BoardAssumption ==
    /\ None \notin Workers \cup Procs \cup Statuses \cup Task \cup Claim \cup Request \cup Snapshot
    /\ InitialDeps \in [Tasks -> SUBSET Tasks]
    /\ InitialOwner \in [Tasks -> Workers \cup {None}]
    /\ EditDeps \subseteq SUBSET Tasks
    /\ Suspendable \subseteq Procs
    /\ MaxVersion \in Nat /\ MaxCrashes \in Nat

Steps == {"idle", "acquire", "inside", "write", "event", "unlock",
          "markRead", "markWrite", "dead"}

(* isClaimLeaseExpired: no claim is not an expired claim.  Every lease is   *)
(* granted for the same time, so leases run out in the order they began.   *)
Expired(c) == c # None /\ c.token <= lapsed

DepsCompleted(t) == \A d \in task[t].deps : task[d].status = "completed"

(* The owner, claim and token checks transition and release share.         *)
HoldsClaim(v, token) == /\ v.owner # None
                        /\ v.claim # None
                        /\ v.claim.owner = v.owner
                        /\ v.claim.token = token

NextVersion(v) == [v EXCEPT !.version = @ + 1]

-----------------------------------------------------------------------------
Init == /\ task = [t \in Tasks |-> [status  |-> "pending",
                                    owner   |-> InitialOwner[t],
                                    claim   |-> None,
                                    deps    |-> InitialDeps[t],
                                    version |-> 1]]
        /\ lastToken = 0
        /\ lapsed = 0
        /\ lock = [t \in Tasks |-> None]
        /\ pc = [p \in Procs |-> "idle"]
        /\ op = [p \in Procs |-> None]
        /\ draft = [p \in Procs |-> None]
        /\ events = [t \in Tasks |-> [completed |-> 0, failed |-> 0]]
        /\ snapshot = None
        /\ seen = [p \in Procs |-> None]

Files == <<task, lastToken, lapsed, events, snapshot>>

Begin(p, request) == /\ pc[p] = "idle"
                     /\ task[request.task].version < MaxVersion
                     /\ pc' = [pc EXCEPT ![p] = "acquire"]
                     /\ op' = [op EXCEPT ![p] = request]
                     /\ UNCHANGED <<Files, lock, draft, seen>>

(* The checks claimTask makes before it asks for the lock; the caller may  *)
(* pass the version it has read, or none (0).                              *)
StartClaim(p, t, w) == /\ DepsCompleted(t)
                       /\ \E v \in {0, task[t].version} :
                             Begin(p, [kind |-> "claim", task |-> t, worker |-> w,
                                       expected |-> v])

(* A client presents any token ever drawn, or one that never was (0).      *)
StartTransition(p, t, to) ==
    \E k \in 0 .. lastToken :
       Begin(p, [kind |-> "transition", task |-> t, to |-> to, token |-> k])

StartRelease(p, t) ==
    \E k \in 0 .. lastToken : Begin(p, [kind |-> "release", task |-> t, token |-> k])

(* monitorTeam reclaims the tasks it has listed with an expired lease.     *)
StartReclaim(p, t) == /\ task[t].status = "in_progress"
                      /\ Expired(task[t].claim)
                      /\ Begin(p, [kind |-> "reclaim", task |-> t])

StartUpdate(p, t) ==
    \E d \in EditDeps : Begin(p, [kind |-> "update", task |-> t, deps |-> d])

-----------------------------------------------------------------------------
(* The lock.                                                               *)

AcquireIgnoringHolder(p) == /\ pc[p] = "acquire"
                            /\ lock' = [lock EXCEPT ![op[p].task] = p]
                            /\ pc' = [pc EXCEPT ![p] = "inside"]
                            /\ UNCHANGED <<Files, op, draft, seen>>

Acquire(p) == /\ pc[p] = "acquire"
              /\ lock[op[p].task] = None
              /\ lock' = [lock EXCEPT ![op[p].task] = p]
              /\ pc' = [pc EXCEPT ![p] = "inside"]
              /\ UNCHANGED <<Files, op, draft, seen>>

(* A lock directory older than LOCK_STALE_MS is removed, whoever owns it.  *)
RecoverStaleLock(p) ==
    /\ pc[p] = "acquire"
    /\ lock[op[p].task] # None
    /\ \/ pc[lock[op[p].task]] = "dead"
       \/ lock[op[p].task] \in Suspendable
    /\ lock' = [lock EXCEPT ![op[p].task] = None]
    /\ UNCHANGED <<Files, pc, op, draft, seen>>

(* The deadline passed: the caller is told claim_conflict or gets an error.*)
GiveUp(p) == /\ pc[p] = "acquire"
             /\ lock[op[p].task] # None
             /\ pc' = [pc EXCEPT ![p] = "idle"]
             /\ op' = [op EXCEPT ![p] = None]
             /\ UNCHANGED <<Files, lock, draft, seen>>

-----------------------------------------------------------------------------
(* What an operation decides on the task it reads under the lock.          *)

Accept(p, v) == /\ draft' = [draft EXCEPT ![p] = NextVersion(v)]
                /\ pc' = [pc EXCEPT ![p] = "write"]

Reject(p) == /\ pc' = [pc EXCEPT ![p] = "unlock"]
             /\ UNCHANGED draft

(* The owner rule of claimTask: an expired claim in progress forgets its   *)
(* owner, an open task assigned to another worker stays with that worker.  *)
ClaimAllowed_NoStatus(v, r) ==
    /\ r.expected \in {0, v.version}
    /\ DepsCompleted(r.task)
    /\ v.claim = None \/ Expired(v.claim)

ClaimAllowed_NoRecheck(v, r) ==
    /\ r.expected \in {0, v.version}
    /\ v.status \in {"pending", "blocked"}
    /\ v.claim = None
    /\ v.owner \in {None, r.worker}

ClaimAllowed_NoExpiry(v, r) ==
    /\ r.expected \in {0, v.version}
    /\ DepsCompleted(r.task)
    /\ v.status \notin Terminal
    /\ v.owner \in {None, r.worker}

ClaimAllowed(v, r) ==
    /\ r.expected \in {0, v.version}
    /\ DepsCompleted(r.task)
    /\ v.status \notin Terminal
    /\ \/ /\ v.status = "in_progress"
          /\ Expired(v.claim)
       \/ /\ v.status \in {"pending", "blocked"}
          /\ v.claim = None \/ Expired(v.claim)
          /\ v.owner \in {None, r.worker}

DecideClaim(p) ==
    LET r == op[p]
        v == task[r.task]
    IN  /\ r.kind = "claim"
        /\ IF ClaimAllowed(v, r)
           THEN /\ lastToken' = lastToken + 1
                /\ Accept(p, [v EXCEPT !.status = "in_progress",
                                       !.owner  = r.worker,
                                       !.claim  = [owner |-> r.worker,
                                                   token |-> lastToken + 1]])
           ELSE /\ Reject(p)
                /\ UNCHANGED lastToken

TransitionAllowed(v, r) == /\ v.status = "in_progress"
                           /\ HoldsClaim(v, r.token)
                           /\ ~Expired(v.claim)

DecideTransition(p) ==
    LET r == op[p]
        v == task[r.task]
    IN  /\ r.kind = "transition"
        /\ IF TransitionAllowed(v, r)
           THEN Accept(p, [v EXCEPT !.status = r.to, !.claim = None])
           ELSE Reject(p)
        /\ UNCHANGED lastToken

HandedBack(v) == [v EXCEPT !.status = "pending", !.owner = None, !.claim = None]

ReleaseAllowed(v, r) == /\ v.status \notin Terminal
                        /\ HoldsClaim(v, r.token)
                        /\ ~Expired(v.claim)

DecideRelease(p) ==
    LET r == op[p]
        v == task[r.task]
    IN  /\ r.kind = "release"
        /\ IF ReleaseAllowed(v, r)
           THEN Accept(p, HandedBack(v))
           ELSE Reject(p)
        /\ UNCHANGED lastToken

ReclaimAllowed_NoExpiry(v) == v.status = "in_progress"

ReclaimAllowed(v) == v.status = "in_progress" /\ Expired(v.claim)

DecideReclaim(p) ==
    LET v == task[op[p].task]
    IN  /\ op[p].kind = "reclaim"
        /\ IF ReclaimAllowed(v)
           THEN Accept(p, HandedBack(v))
           ELSE Reject(p)
        /\ UNCHANGED lastToken

(* updateTask as the API lets a caller use it: subject, description and    *)
(* dependencies, on a task of any status.                                  *)
DecideUpdate(p) == /\ op[p].kind = "update"
                   /\ Accept(p, [task[op[p].task] EXCEPT !.deps = op[p].deps])
                   /\ UNCHANGED lastToken

Decide(p) == /\ pc[p] = "inside"
             /\ \/ DecideClaim(p)
                \/ DecideTransition(p)
                \/ DecideRelease(p)
                \/ DecideReclaim(p)
                \/ DecideUpdate(p)
             /\ UNCHANGED <<task, lapsed, events, snapshot, lock, op, seen>>

-----------------------------------------------------------------------------
Write(p) ==
    /\ pc[p] = "write"
    /\ task' = [task EXCEPT ![op[p].task] = draft[p]]
    /\ draft' = [draft EXCEPT ![p] = None]
    /\ pc' = [pc EXCEPT ![p] = IF op[p].kind = "transition" THEN "event" ELSE "unlock"]
    /\ UNCHANGED <<lastToken, lapsed, events, snapshot, lock, op, seen>>

AppendEvent_AlwaysCompleted(p) ==
    /\ pc[p] = "event"
    /\ events' = [events EXCEPT ![op[p].task].completed = @ + 1]
    /\ pc' = [pc EXCEPT ![p] = "unlock"]
    /\ UNCHANGED <<task, lastToken, lapsed, snapshot, lock, op, draft, seen>>

AppendEvent(p) ==
    /\ pc[p] = "event"
    /\ events' = [events EXCEPT ![op[p].task][op[p].to] = @ + 1]
    /\ pc' = [pc EXCEPT ![p] = "unlock"]
    /\ UNCHANGED <<task, lastToken, lapsed, snapshot, lock, op, draft, seen>>

(* The lock is removed only when its owner file still holds the token of   *)
(* this call.  A call that asked for "completed" goes on to the monitor    *)
(* snapshot, whether or not the transition was accepted.                   *)
Marks(r) == r.kind = "transition" /\ r.to = "completed"

Unlock(p) ==
    /\ pc[p] = "unlock"
    /\ lock' = IF lock[op[p].task] = p THEN [lock EXCEPT ![op[p].task] = None] ELSE lock
    /\ IF Marks(op[p])
       THEN pc' = [pc EXCEPT ![p] = "markRead"] /\ UNCHANGED op
       ELSE pc' = [pc EXCEPT ![p] = "idle"] /\ op' = [op EXCEPT ![p] = None]
    /\ UNCHANGED <<Files, draft, seen>>

MarkRead(p) == /\ pc[p] = "markRead"
               /\ seen' = [seen EXCEPT ![p] = snapshot]
               /\ pc' = [pc EXCEPT ![p] = "markWrite"]
               /\ UNCHANGED <<Files, lock, op, draft>>

EmptySnapshot == [status |-> [t \in Tasks |-> None], done |-> {}]

MarkWrite(p) ==
    LET old == IF seen[p] = None THEN EmptySnapshot ELSE seen[p]
    IN  /\ pc[p] = "markWrite"
        /\ snapshot' = [old EXCEPT !.done = @ \cup {op[p].task}]
        /\ seen' = [seen EXCEPT ![p] = None]
        /\ op' = [op EXCEPT ![p] = None]
        /\ pc' = [pc EXCEPT ![p] = "idle"]
        /\ UNCHANGED <<task, lastToken, lapsed, events, lock, draft>>

-----------------------------------------------------------------------------
(* The environment: leases run out, processes die.                         *)

LeaseExpires == /\ lapsed < lastToken
                /\ lapsed' = lapsed + 1
                /\ UNCHANGED <<task, lastToken, events, snapshot, lock, pc, op, draft, seen>>

Dead == {p \in Procs : pc[p] = "dead"}

Crash(p) == /\ pc[p] \notin {"idle", "dead"}
            /\ Cardinality(Dead) < MaxCrashes
            /\ pc' = [pc EXCEPT ![p] = "dead"]
            /\ op' = [op EXCEPT ![p] = None]
            /\ draft' = [draft EXCEPT ![p] = None]
            /\ seen' = [seen EXCEPT ![p] = None]
            /\ UNCHANGED <<Files, lock>>

Start(p, t) == \/ \E w \in Workers : StartClaim(p, t, w)
               \/ \E to \in Terminal : StartTransition(p, t, to)
               \/ StartRelease(p, t)
               \/ StartReclaim(p, t)
               \/ StartUpdate(p, t)

Step(p) == \/ Acquire(p) \/ RecoverStaleLock(p) \/ GiveUp(p)
           \/ Decide(p) \/ Write(p) \/ AppendEvent(p) \/ Unlock(p)
           \/ MarkRead(p) \/ MarkWrite(p)

Next == \/ \E p \in Procs, t \in Tasks : Start(p, t)
        \/ \E p \in Procs : Step(p) \/ Crash(p)
        \/ LeaseExpires

Spec == Init /\ [][Next]_vars

-----------------------------------------------------------------------------
(* Type invariant.                                                         *)
TypeOK == /\ task \in [Tasks -> Task]
          /\ lastToken \in Nat
          /\ lapsed \in Nat
          /\ lock \in [Tasks -> Procs \cup {None}]
          /\ pc \in [Procs -> Steps]
          /\ op \in [Procs -> Request \cup {None}]
          /\ draft \in [Procs -> Task \cup {None}]
          /\ events \in [Tasks -> [Terminal -> Nat]]
          /\ snapshot \in Snapshot \cup {None}
          /\ seen \in [Procs -> Snapshot \cup {None}]

(* A terminal task keeps its status and its owner for good: whatever stale *)
(* claim, late transition or expired lease a process still holds, nothing  *)
(* reopens finished work (tasks.ts: every operation rejects a terminal     *)
(* task under the lock, and only the lock holder writes).                  *)
TerminalIsFinal ==
    [][\A t \in Tasks : task[t].status \in Terminal =>
          /\ task'[t].status = task[t].status
          /\ task'[t].owner = task[t].owner]_vars

(* A running lease is exclusive: while it runs, the claim on the task ends *)
(* only by an operation that presented its token.                          *)
RunningLeaseIsExclusive ==
    [][\A t \in Tasks :
          \/ task[t].claim = None
          \/ task'[t].claim = task[t].claim
          \/ Expired(task[t].claim)
          \/ \E p \in Procs : /\ pc[p] = "write"
                              /\ op[p].task = t
                              /\ op[p].kind \in {"transition", "release"}
                              /\ op[p].token = task[t].claim.token]_vars

(* No update is lost: a write replaces the very version it was computed    *)
(* from, so versions count the accepted operations (TeamTaskV2.version).   *)
NoLostUpdate ==
    [][\A t \in Tasks : task'[t] # task[t] =>
          task'[t].version = task[t].version + 1]_vars

(* Work starts only when all dependencies are complete at the moment the   *)
(* claim is written, not just when claimTask looked at them before it had  *)
(* the lock.                                                               *)
ClaimedOnlyWhenReady ==
    [][\A t \in Tasks : /\ task'[t].claim # None
                        /\ task'[t].claim # task[t].claim
                        => DepsCompleted(t)]_vars

(* The event log tells the truth and tells it once: a task has at most one *)
(* terminal event, of the status it ended in; without a crash in between   *)
(* nobody is past the append before the event is there.                    *)
EventsMatchTasks ==
    \A t \in Tasks, s \in Terminal :
       /\ events[t][s] <= 1
       /\ events[t][s] = 1 => task[t].status = s
       /\ task[t].status = s => \/ events[t][s] = 1
                                \/ Dead # {}
                                \/ \E p \in Procs : pc[p] = "event" /\ op[p].task = t

Abstract == INSTANCE TaskClaims WITH task <- task, lastToken <- lastToken, lapsed <- lapsed

(* The processes, the lock and the files implement the board of leases.    *)
ImplementsTaskClaims == Abstract!Spec
=============================================================================
