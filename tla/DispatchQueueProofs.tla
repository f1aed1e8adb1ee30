------------------------- MODULE DispatchQueueProofs -------------------------
(***************************************************************************)
(* The dispatch queue, for any number of requests, calls, hooks and        *)
(* crashes.  Four inductive invariants, one after the other:               *)
(*   IInv      a hook holds the lease of everything it works on (Slow = {});*)
(*   Stored    the types, who is in the lock and what a process holds at   *)
(*             each step, and that a list read in the lock is backed by    *)
(*             what is kept;                                               *)
(*   TellInv   in every list kept or read, what is said to be notified was *)
(*             sent;                                                       *)
(*   BoundInv  how often a request was typed, against its attempts, the    *)
(*             hook that has typed it and not written so, the crashes and  *)
(*             the time-outs.                                              *)
(* They rest on a case analysis of what a step can make of the store       *)
(* (StoreStep), of the lists that were read and of the work (ReadSteps).   *)
(***************************************************************************)
EXTENDS DispatchQueue, TLAPS

Typed == /\ lease \in [Requests -> Hooks \cup {None}]
         /\ mine \in [Procs -> SUBSET Requests]
         /\ pc \in [Procs -> {"idle", "dead"} \cup ClientSteps \cup HookSteps]

WorkIsLeased == \A h \in Hooks : \A r \in mine[h] : lease[r] = h

DeadHaveNoWork == \A p \in Procs : pc[p] = "dead" => mine[p] = {}

IInv == Typed /\ WorkIsLeased /\ DeadHaveNoWork

(* Nothing is leased, and nobody works, in the beginning.                  *)
LEMMA InitLeased == Init => IInv
BY DEF Init, IInv, Typed, WorkIsLeased, DeadHaveNoWork, Procs

(* Two hooks that work on one request would both hold its lease.           *)
LEMMA LeasedExclusive == IInv => OneHookPerRequest
<1> SUFFICES ASSUME IInv, NEW g \in Hooks, NEW h \in Hooks, g # h,
                    NEW r \in mine[g] \cap mine[h]
             PROVE  FALSE
    BY DEF OneHookPerRequest
<1> QED BY DEF IInv, WorkIsLeased

(* A step that leaves the leases and the work of the hooks alone, and      *)
(* lets nobody die, keeps the invariant.                                   *)
LEMMA ClientStep ==
    ASSUME IInv, NEW c \in Clients, lease' = lease,
           NEW S \in SUBSET Requests, NEW q \in {"idle"} \cup ClientSteps \cup HookSteps,
           mine' = mine \/ mine' = [mine EXCEPT ![c] = S],
           pc' = [pc EXCEPT ![c] = q]
    PROVE  IInv'
<1>1. c \in Procs /\ c \notin Hooks
    BY DispatchAssumption DEF Procs
<1>2. q # "dead"
    BY DEF ClientSteps, HookSteps
<1>3. Typed'
    BY <1>1 DEF IInv, Typed
<1>4. WorkIsLeased'
    BY <1>1 DEF IInv, Typed, WorkIsLeased, Procs
<1>5. DeadHaveNoWork'
    BY <1>1, <1>2 DEF IInv, Typed, DeadHaveNoWork
<1> QED BY <1>3, <1>4, <1>5 DEF IInv

(* A step that only moves a process on, not into death.                    *)
LEMMA MoveOn ==
    ASSUME IInv, NEW p \in Procs, lease' = lease, mine' = mine,
           NEW q \in {"idle"} \cup ClientSteps \cup HookSteps, pc' = [pc EXCEPT ![p] = q],
           pc[p] # "dead"
    PROVE  IInv'
<1>1. q # "dead"
    BY DEF ClientSteps, HookSteps
<1> QED BY <1>1 DEF IInv, Typed, WorkIsLeased, DeadHaveNoWork

(* Every step of a client keeps the invariant.                             *)
LEMMA ClientKeeps == ASSUME IInv, NEW c \in Clients, Client(c) PROVE IInv'
<1> USE DEF ClientSteps
<1>1. CASE Queue(c)
    <2>1. CASE Deduped(c)
        <3>1. PICK r \in Requests : IF job[c].hook
                                    THEN mine' = [mine EXCEPT ![c] = {r}] /\ Goto(c, "wait")
                                    ELSE Done(c)
            BY <2>1 DEF Deduped, EquivalentPending
        <3>2. CASE job[c].hook
            BY <1>1, <3>1, <3>2, ClientStep DEF Queue, Goto
        <3>3. CASE ~job[c].hook
            BY <1>1, <3>1, <3>3, ClientStep DEF Queue, Goto, Done
        <3> QED BY <3>2, <3>3
    <2>2. CASE Queued(c)
        <3>1. PICK r \in Requests : mine' = [mine EXCEPT ![c] = {r}]
            BY <2>2 DEF Queued
        <3>2. \/ pc' = [pc EXCEPT ![c] = "wait"]
              \/ pc' = [pc EXCEPT ![c] = "notify"]
            BY <2>2 DEF Queued, Goto
        <3> QED BY <1>1, <3>1, <3>2, ClientStep DEF Queue
    <2>3. CASE NoId(c)
        BY <1>1, <2>3, ClientStep DEF Queue, NoId, Done, Goto
    <2> QED BY <1>1, <2>1, <2>2, <2>3 DEF Queue
<1>2. CASE Receipt(c)
    BY <1>2, ClientStep DEF Receipt, Done, Goto, call
<1>3. CASE ReceiptTimeout(c)
    BY <1>3, ClientStep DEF ReceiptTimeout, Goto
<1>4. CASE Notify(c)
    BY <1>4, ClientStep DEF Notify, Goto
<1>5. CASE MarkRead(c)
    <2>1. lease' = lease
        BY <1>5 DEF MarkRead
    <2>2. \/ mine' = mine \/ mine' = [mine EXCEPT ![c] = {}]
        BY <1>5 DEF MarkRead, Done, NotMarked
    <2>3. \E q \in {"idle", "patchRead", "markExec", "mark"} : pc' = [pc EXCEPT ![c] = q]
        BY <1>5 DEF MarkRead, Done, NotMarked, Goto
    <2> QED BY <2>1, <2>2, <2>3, ClientStep
<1>6. CASE MarkExec(c)
    BY <1>6, ClientStep DEF MarkExec, Done, Goto
<1>7. CASE Mark(c)
    <2>1. lease' = lease
        BY <1>7 DEF Mark
    <2>2. \/ mine' = mine \/ mine' = [mine EXCEPT ![c] = {}]
        BY <1>7 DEF Mark, Done, NotMarked
    <2>3. \E q \in {"idle", "patchRead"} : pc' = [pc EXCEPT ![c] = q]
        BY <1>7 DEF Mark, Done, NotMarked, Goto
    <2> QED BY <2>1, <2>2, <2>3, ClientStep
<1>8. CASE FailRead(c)
    BY <1>8, ClientStep DEF FailRead, Done, Goto
<1>9. CASE Fail(c)
    BY <1>9, ClientStep DEF Fail, Done, Goto
<1> QED BY <1>1, <1>2, <1>3, <1>4, <1>5, <1>6, <1>7, <1>8, <1>9 DEF Client

(* Every step of a hook keeps the invariant: a claim takes only leases that*)
(* nobody has, and the lease of a finished request goes with the work.     *)
LEMMA HookKeeps == ASSUME IInv, NEW h \in Hooks, Hook(h) PROVE IInv'
<1>0. h \in Procs /\ None \notin Hooks
    BY DispatchAssumption DEF Procs
<1>1. CASE Claim(h)
    <2>1. PICK S \in SUBSET Claimable(h) :
              /\ lease' = [r \in Requests |-> IF r \in S THEN h ELSE lease[r]]
              /\ mine' = [mine EXCEPT ![h] = S]
              /\ Goto(h, IF S = {} THEN "idle" ELSE "inject")
        BY <1>1 DEF Claim
    <2>2. \A r \in S : r \in Requests /\ lease[r] = None
        BY DEF Claimable, Drainable
    <2>3. Typed'
        BY <1>0, <2>1, <2>2 DEF IInv, Typed, Goto, HookSteps
    <2>4. WorkIsLeased'
        <3> SUFFICES ASSUME NEW g \in Hooks, NEW r \in mine'[g] PROVE lease'[r] = g
            BY DEF WorkIsLeased
        <3>1. CASE g = h
            BY <3>1, <1>0, <2>1, <2>2 DEF IInv, Typed
        <3>2. CASE g # h
            BY <3>2, <1>0, <2>1, <2>2 DEF IInv, Typed, WorkIsLeased, Procs
        <3> QED BY <3>1, <3>2
    <2>5. DeadHaveNoWork'
        BY <1>0, <2>1 DEF IInv, Typed, DeadHaveNoWork, Goto
    <2> QED BY <2>3, <2>4, <2>5 DEF IInv
<1>2. CASE Inject(h)
    BY <1>0, <1>2, MoveOn DEF Inject, Goto, HookSteps
<1>3. CASE Finalize(h)
    <2> DEFINE r == tried[h][1]
    <2>1. /\ lease' = Released(h, {r})
          /\ mine' = [mine EXCEPT ![h] = @ \ {r}]
          /\ \/ pc' = [pc EXCEPT ![h] = "idle"]
             \/ pc' = [pc EXCEPT ![h] = "inject"]
        BY <1>3 DEF Finalize, Finished, Goto
    <2> HIDE DEF r
    <2>2. Typed'
        BY <1>0, <2>1 DEF IInv, Typed, Released, HookSteps
    <2>3. WorkIsLeased'
        BY <1>0, <2>1 DEF IInv, Typed, WorkIsLeased, Released, Procs
    <2>4. DeadHaveNoWork'
        BY <1>0, <2>1 DEF IInv, Typed, DeadHaveNoWork
    <2> QED BY <2>2, <2>3, <2>4 DEF IInv
<1> QED BY <1>1, <1>2, <1>3 DEF Hook

(* Giving up, dying and recovery keep the invariant: who dies or gives up  *)
(* works on nothing any more, and a recovery removes the leases of a dead  *)
(* process only.                                                           *)
LEMMA FailureKeeps == ASSUME IInv, NEW p \in Procs, GiveUp(p) \/ Crash(p) \/ Recover(p) PROVE IInv'
<1>1. CASE GiveUp(p)
    <2>1. CASE p \in Clients
        BY <1>1, <2>1, ClientStep DEF GiveUp, Done, Goto
    <2>2. CASE p \in Hooks
        <3>1. /\ lease' = Released(p, mine[p])
              /\ mine' = [mine EXCEPT ![p] = {}]
              /\ pc' = [pc EXCEPT ![p] = "idle"]
            BY <1>1, <2>2, DispatchAssumption DEF GiveUp, Goto
        <3>2. Typed'
            BY <3>1 DEF IInv, Typed, Released
        <3>3. WorkIsLeased'
            BY <3>1 DEF IInv, Typed, WorkIsLeased, Released, Procs
        <3>4. DeadHaveNoWork'
            BY <3>1 DEF IInv, Typed, DeadHaveNoWork
        <3> QED BY <3>2, <3>3, <3>4 DEF IInv
    <2> QED BY <2>1, <2>2 DEF Procs
<1>2. CASE Crash(p)
    <2>1. /\ lease' = lease
          /\ mine' = [mine EXCEPT ![p] = {}]
          /\ pc' = [pc EXCEPT ![p] = "dead"]
        BY <1>2 DEF Crash, Goto
    <2> QED BY <2>1 DEF IInv, Typed, WorkIsLeased, DeadHaveNoWork, Procs
<1>3. CASE Recover(p)
    <2>1. /\ lease' = Released(p, Requests)
          /\ mine' = mine
          /\ pc' = [pc EXCEPT ![p] = "idle"]
          /\ mine[p] = {}
        BY <1>3 DEF Recover, Goto, IInv, DeadHaveNoWork
    <2> QED BY <2>1 DEF IInv, Typed, WorkIsLeased, DeadHaveNoWork, Released, Procs
<1> QED BY <1>1, <1>2, <1>3

(* Every step keeps the invariant as long as no live hook outlasts a       *)
(* lease.                                                                  *)
LEMMA NextKeeps == ASSUME Slow = {}, IInv, [Next]_vars PROVE IInv'
<1>1. ASSUME NEW c \in Clients, NEW k \in Keys, NEW hook \in BOOLEAN, Start(c, k, hook) PROVE IInv'
    BY <1>1, ClientStep DEF Start, Goto, ClientSteps
<1>2. ASSUME NEW p \in Procs, Enters(p) PROVE IInv'
    <2>1. \E q \in {"queue", "marking", "failing", "claim", "finalizing"} :
              /\ lease' = lease /\ mine' = mine /\ pc' = [pc EXCEPT ![p] = q]
              /\ pc[p] # "dead"
        BY <1>2 DEF Enters, Enter, Goto
    <2> QED BY <2>1, MoveOn DEF ClientSteps, HookSteps
<1>3. ASSUME NEW h \in Hooks, Outlasted(h) PROVE IInv'
    BY <1>3 DEF Outlasted
<1>4. CASE OtherExec \/ UNCHANGED vars
    BY <1>4 DEF OtherExec, vars, IInv, Typed, WorkIsLeased, DeadHaveNoWork
<1> QED BY <1>1, <1>2, <1>3, <1>4, ClientKeeps, HookKeeps, FailureKeeps DEF Next

(* Two hooks never work on the same request at the same time, with any     *)
(* number of crashes: a lease is only taken from a dead hook.              *)
THEOREM LeasesExclude == Slow = {} /\ Spec => []OneHookPerRequest
<1> SUFFICES ASSUME Slow = {} PROVE Spec => []OneHookPerRequest
    OBVIOUS
<1>1. IInv /\ [Next]_vars => IInv'
    BY NextKeeps
<1> QED BY InitLeased, LeasedExclusive, <1>1, PTL DEF Spec

-----------------------------------------------------------------------------
(* The types, who is in the lock, and what a process holds at each step.   *)

Types ==
    /\ file \in List /\ engine \in List /\ view \in List \cup {None}
    /\ lock \in Procs \cup {None}
    /\ got \in [Procs -> List \cup {None}]
    /\ lease \in [Requests -> Hooks \cup {None}]
    /\ pc \in [Procs -> {"idle", "dead"} \cup ClientSteps \cup HookSteps]
    /\ mine \in [Procs -> SUBSET Requests]
    /\ job \in [Clients -> Job \cup {None}]
    /\ from \in [Clients -> Statuses \cup {None}]
    /\ tried \in [Hooks -> (Requests \X Results) \cup {None}]
    /\ injected \in [Requests -> 0 .. MaxInjected]
    /\ told \subseteq Requests
    /\ crashes \in 0 .. MaxCrashes /\ timeouts \in 0 .. MaxTimeouts

InLock == {"queue", "marking", "failing", "claim", "finalizing"}

Held == \A p \in Procs : /\ pc[p] \in InLock => lock = p
                         /\ pc[p] \in InLock <=> got[p] # None

ClientPost(c) ==
    /\ pc[c] \in {"idle", "dead"} \cup ClientSteps
    /\ pc[c] \notin {"idle", "dead"} => job[c] # None
    /\ IF pc[c] \in {"idle", "dead", "enqueue", "queue"}
       THEN mine[c] = {}
       ELSE \E r \in Requests : mine[c] = {r}
    /\ pc[c] \in {"markExec", "mark", "marking", "fail", "failing"} => from[c] # None

HookPost(h) ==
    /\ pc[h] \in {"idle", "dead"} \cup HookSteps
    /\ pc[h] \in {"idle", "dead", "claim"} => mine[h] = {}
    /\ IF pc[h] \in {"result", "finalizing"}
       THEN tried[h] # None /\ tried[h][1] \in mine[h]
       ELSE tried[h] = None

Posts == (\A c \in Clients : ClientPost(c)) /\ (\A h \in Hooks : HookPost(h))

Shape == Types /\ Held /\ Posts

(* Transitions and outcomes make records of records.                       *)
LEMMA RecordsMade ==
    ASSUME NEW v \in Record
    PROVE  /\ v # None /\ v.status \in Statuses /\ v.attempts \in Nat
           /\ \A b \in Statuses : Moved(v, b) \in Record
           /\ \A result \in Results : Outcome(v, result) \in Record
<1>1. v # None /\ v.status \in Statuses /\ v.attempts \in Nat
    BY DispatchAssumption DEF Record
<1>2. \A b \in Statuses : Moved(v, b) \in Record
    <2> SUFFICES ASSUME NEW b \in Statuses PROVE Moved(v, b) \in Record
        OBVIOUS
    <2> DEFINE w == [v EXCEPT !.status = b]
    <2>1. w \in Record
        BY DEF Record
    <2>2. \A n \in Nat : [w EXCEPT !.attempts = n] \in Record
        BY <2>1 DEF Record
    <2>3. Moved(v, b) = [w EXCEPT !.attempts = IF v.status = b THEN v.attempts ELSE v.attempts + 1]
        BY DEF Moved, Record
    <2> HIDE DEF w
    <2> QED BY <1>1, <2>2, <2>3
<1>3. \A result \in Results : Outcome(v, result) \in Record
    <2> DEFINE counted == [v EXCEPT !.attempts = @ + 1]
    <2>1. counted \in Record
        BY DEF Record
    <2>2. \A s \in Statuses : [counted EXCEPT !.status = s] \in Record
        BY <2>1 DEF Record
    <2> HIDE DEF counted
    <2>3. \A result \in Results : Outcome(v, result) \in 
            {counted} \cup {[counted EXCEPT !.status = s] : s \in Statuses}
        BY DEF Outcome, Statuses, counted
    <2> QED BY <2>1, <2>2, <2>3
<1> QED BY <1>1, <1>2, <1>3

(* One record written into a list gives a list.                            *)
LEMMA ListsMade ==
    ASSUME NEW list \in List, NEW r \in Requests, NEW v \in Record
    PROVE  [list EXCEPT ![r] = v] \in List
BY DEF List

(* A step of one process: what it leaves to the others.                    *)
Alone(p) ==
    /\ \A o \in Procs \ {p} :
          pc'[o] = pc[o] /\ mine'[o] = mine[o] /\ got'[o] = got[o]
    /\ \A c \in Clients \ {p} : job'[c] = job[c] /\ from'[c] = from[c]
    /\ \A h \in Hooks \ {p} : tried'[h] = tried[h]
    /\ lock' = lock \/ (lock \in {p, None} /\ lock' \in {p, None})
    /\ pc'[p] \in InLock => lock' = p
    /\ pc'[p] \in InLock <=> got'[p] # None

(* Such a step keeps what the lock and the other processes are owed.       *)
LEMMA StepAlone ==
    ASSUME Shape, Types', NEW p \in Procs, Alone(p),
           p \in Clients => ClientPost(p)', p \in Hooks => HookPost(p)'
    PROVE  Shape'
<1> USE DEF Shape
<1>1. ASSUME NEW o \in Procs
      PROVE  (pc'[o] \in InLock => lock' = o) /\ (pc'[o] \in InLock <=> got'[o] # None)
    <2>1. CASE o = p
        BY <2>1 DEF Alone
    <2>2. CASE o # p
        <3>1. pc'[o] = pc[o] /\ got'[o] = got[o]
            BY <2>2 DEF Alone
        <3>2. lock = o => lock' = lock
            BY <2>2, DispatchAssumption DEF Alone
        <3> QED BY <3>1, <3>2 DEF Held
    <2> QED BY <2>1, <2>2
<1>2. ASSUME NEW c \in Clients PROVE ClientPost(c)'
    <2>1. CASE c = p
        BY <2>1
    <2>2. CASE c # p
        <3>1. pc'[c] = pc[c] /\ mine'[c] = mine[c] /\ job'[c] = job[c] /\ from'[c] = from[c]
            BY <2>2 DEF Alone, Procs
        <3> QED BY <3>1 DEF Posts, ClientPost
    <2> QED BY <2>1, <2>2
<1>3. ASSUME NEW h \in Hooks PROVE HookPost(h)'
    <2>1. CASE h = p
        BY <2>1
    <2>2. CASE h # p
        <3>1. pc'[h] = pc[h] /\ mine'[h] = mine[h] /\ tried'[h] = tried[h]
            BY <2>2 DEF Alone, Procs
        <3> QED BY <3>1 DEF Posts, HookPost
    <2> QED BY <2>1, <2>2
<1> QED BY <1>1, <1>2, <1>3 DEF Held, Posts

-----------------------------------------------------------------------------
(* The section that queues a request.                                      *)
LEMMA QueueShape == ASSUME Shape, NEW c \in Clients, Queue(c) PROVE Shape'
<1> USE DEF Shape
<1>0. /\ c \in Procs /\ c \notin Hooks /\ pc[c] = "queue" /\ lock = c /\ got[c] \in List
      /\ job[c] \in Job /\ mine[c] = {} /\ None \notin Procs
    BY DispatchAssumption DEF Queue, Held, Posts, ClientPost, Types, Procs, InLock
<1>1. lock' = None /\ got' = [got EXCEPT ![c] = None]
    BY <1>0 DEF Queue, Leave
<1>2. /\ UNCHANGED <<lease, tried, injected, told, crashes, timeouts>>
      /\ \E q \in {"idle", "wait", "notify"} : pc' = [pc EXCEPT ![c] = q]
      /\ IF pc'[c] = "idle"
         THEN /\ mine' = [mine EXCEPT ![c] = {}]
              /\ job' = [job EXCEPT ![c] = None]
              /\ from' = [from EXCEPT ![c] = None]
         ELSE UNCHANGED call /\ \E r \in Requests : mine' = [mine EXCEPT ![c] = {r}]
    <2>1. CASE Deduped(c)
        BY <1>0, <2>1 DEF Queue, Deduped, EquivalentPending, Goto, Done, Types
    <2>2. CASE Queued(c)
        <3>1. \E q \in {"wait", "notify"} : pc' = [pc EXCEPT ![c] = q]
            BY <2>2 DEF Queued, Goto
        <3>2. \E r \in Requests : mine' = [mine EXCEPT ![c] = {r}]
            BY <2>2 DEF Queued
        <3>3. UNCHANGED <<lease, tried, injected, told, crashes, timeouts>> /\ UNCHANGED call
            BY <2>2 DEF Queue, Queued
        <3>4. pc'[c] \in {"wait", "notify"} /\ pc'[c] # "idle"
            BY <1>0, <3>1 DEF Types
        <3>5. \E q \in {"idle", "wait", "notify"} : pc' = [pc EXCEPT ![c] = q]
            BY <3>1
        <3> QED BY <3>2, <3>3, <3>4, <3>5
    <2>3. CASE NoId(c)
        BY <1>0, <2>3 DEF Queue, NoId, Goto, Done, Types
    <2>4. Deduped(c) \/ Queued(c) \/ NoId(c)
        BY DEF Queue
    <2> QED BY <2>1, <2>2, <2>3, <2>4
<1>3. file' \in List /\ engine' \in List /\ view' \in List \cup {None}
    <2>1. CASE Deduped(c) \/ NoId(c)
        BY <2>1 DEF Deduped, NoId, store, Types
    <2>2. CASE Queued(c)
        <3> DEFINE new == [key |-> job[c].key, hook |-> job[c].hook, status |-> "pending", attempts |-> 0]
        <3>1. new \in Record
            BY <1>0 DEF Job, Record, Statuses
        <3>2. \A r \in Requests : [engine EXCEPT ![r] = new] \in List /\ [got[c] EXCEPT ![r] = new] \in List
            BY <1>0, <3>1, ListsMade DEF Types
        <3> HIDE DEF new
        <3>3. PICK r \in Requests :
                 IF Bridge
                 THEN Exec([engine EXCEPT ![r] = new]) /\ UNCHANGED file
                 ELSE WriteList([got[c] EXCEPT ![r] = new]) /\ UNCHANGED engine
            BY <2>2 DEF Queued, new
        <3> QED BY <3>2, <3>3 DEF Exec, WriteList, Types
    <2> QED BY <2>1, <2>2 DEF Queue
<1>4. Types'
    BY <1>0, <1>1, <1>2, <1>3 DEF Types, ClientSteps, call
<1>5. Alone(c)
    BY <1>0, <1>1, <1>2 DEF Types, Alone, InLock, Procs, call
<1>6. ClientPost(c)'
    BY <1>0, <1>1, <1>2, DispatchAssumption DEF Types, ClientPost, ClientSteps, call
<1> QED BY <1>0, <1>4, <1>5, <1>6, StepAlone
(* What a client does outside the lock, after it has queued its request.   *)
LightEffect(c) ==
    /\ UNCHANGED <<lock, got, lease, tried, injected, crashes, timeouts>>
    /\ pc'[c] \in {"idle"} \cup (ClientSteps \ {"enqueue", "queue", "marking", "failing"})
    /\ pc' = [pc EXCEPT ![c] = pc'[c]]
    /\ IF pc'[c] = "idle"
       THEN /\ mine' = [mine EXCEPT ![c] = {}]
            /\ job' = [job EXCEPT ![c] = None]
            /\ from' = [from EXCEPT ![c] = None]
       ELSE /\ mine' = mine /\ job' = job
            /\ from' = from \/ \E s \in Statuses : from' = [from EXCEPT ![c] = s]
            /\ pc'[c] \in {"markExec", "mark", "fail"} => from'[c] # None

(* Such a step keeps the invariant.                                        *)
LEMMA LightShape ==
    ASSUME Shape, NEW c \in Clients, LightEffect(c), UNCHANGED store, told' \subseteq Requests,
           pc[c] \in ClientSteps \ {"enqueue", "queue", "marking", "failing"}
    PROVE  Shape'
<1> USE DEF Shape
<1>0. c \in Procs /\ c \notin Hooks
    BY DispatchAssumption DEF Procs
<1>1. Types'
    <2>1. UNCHANGED <<lock, got, lease, tried, injected, crashes, timeouts>>
        BY DEF LightEffect
    <2>2. pc' \in [Procs -> {"idle", "dead"} \cup ClientSteps \cup HookSteps]
          /\ mine' \in [Procs -> SUBSET Requests]
        BY <1>0 DEF LightEffect, Types
    <2>3. job' \in [Clients -> Job \cup {None}] /\ from' \in [Clients -> Statuses \cup {None}]
        BY <1>0 DEF LightEffect, Types
    <2> QED BY <2>1, <2>2, <2>3 DEF Types, store
<1>2. Alone(c)
    BY <1>0 DEF Types, Alone, InLock, Procs, LightEffect, ClientSteps, Held
<1>3. ClientPost(c)'
    BY <1>0 DEF Types, ClientPost, Posts, ClientSteps, LightEffect
<1> QED BY <1>0, <1>1, <1>2, <1>3, StepAlone

(* A status that is read is one of the table, or there is no such request. *)
LEMMA StatusRead ==
    ASSUME Shape, NEW r \in Requests
    PROVE  StatusOf(r) \in Statuses \cup {None}
<1>1. Listed \in List
    BY DEF Listed, Shape, Types
<1> QED BY <1>1, RecordsMade DEF StatusOf, List

(* A client works on one request.                                          *)
LEMMA MineIsOne ==
    ASSUME NEW c, NEW r \in Requests, mine[c] = {r}
    PROVE  Mine(c) = r
BY DEF Mine

(* Every step of a client that is not in the lock.                         *)
LEMMA LightSteps ==
    ASSUME Shape, NEW c \in Clients,
           Receipt(c) \/ ReceiptTimeout(c) \/ Notify(c) \/ MarkRead(c) \/ FailRead(c)
    PROVE  /\ UNCHANGED store /\ told' \subseteq Requests
           /\ LightEffect(c)
           /\ pc[c] \in ClientSteps \ {"enqueue", "queue", "marking", "failing"}
<1> USE DEF ClientSteps
<1>0. /\ c \in Procs /\ pc \in [Procs -> {"idle", "dead"} \cup ClientSteps \cup HookSteps]
      /\ mine \in [Procs -> SUBSET Requests]
      /\ job \in [Clients -> Job \cup {None}] /\ from \in [Clients -> Statuses \cup {None}]
      /\ told \subseteq Requests
      /\ pc[c] \in {"markExec", "mark", "fail"} => from[c] # None
    BY DEF Shape, Types, Procs, Posts, ClientPost
<1>1. CASE Receipt(c)
    <2>1. /\ pc[c] = "wait" /\ UNCHANGED store /\ UNCHANGED <<lock, got, lease, tried, injected, crashes, timeouts>>
          /\ told' \in {told, told \cup mine[c]}
        BY <1>1 DEF Receipt, store, section
    <2>2. \/ Done(c)
          \/ Goto(c, "notify") /\ UNCHANGED <<mine, call>>
          \/ Goto(c, "patchRead") /\ UNCHANGED <<mine, call>>
          \/ /\ from' = [from EXCEPT ![c] = "failed"]
             /\ Goto(c, "fail") /\ UNCHANGED <<mine, job>>
        BY <1>1, Zenon DEF Receipt
    <2>3. LightEffect(c)
        BY <1>0, <2>1, <2>2, DispatchAssumption DEF LightEffect, Done, Goto, call, Statuses
    <2> QED BY <1>0, <2>1, <2>3
<1>2. CASE ReceiptTimeout(c)
    BY <1>0, <1>2 DEF ReceiptTimeout, LightEffect, Done, Goto, section, call, store
<1>3. CASE Notify(c)
    BY <1>0, <1>3 DEF Notify, LightEffect, Done, Goto, section, call, store
<1>4. CASE MarkRead(c)
    BY <1>0, <1>4, DispatchAssumption DEF MarkRead, NotMarked, LightEffect, Done, Goto, section, call, store, Statuses
<1>5. CASE FailRead(c)
    <2>1. PICK r \in Requests : mine[c] = {r}
        BY <1>5 DEF FailRead, Shape, Posts, ClientPost
    <2>2. StatusOf(Mine(c)) \in Statuses \cup {None} /\ None \notin Statuses
        BY <2>1, MineIsOne, StatusRead, DispatchAssumption
    <2> HIDE DEF Statuses
    <2>3. /\ pc[c] \in {"failRead", "patchRead"} /\ UNCHANGED store /\ told' = told
          /\ UNCHANGED <<lock, got, lease, tried, injected, crashes, timeouts>>
        BY <1>5 DEF FailRead, store, section
    <2>4. \/ Done(c)
          \/ /\ StatusOf(Mine(c)) # None
             /\ from' = [from EXCEPT ![c] = StatusOf(Mine(c))]
             /\ Goto(c, "fail") /\ UNCHANGED <<mine, job>>
        BY <1>5 DEF FailRead
    <2>5. LightEffect(c)
        BY <1>0, <2>2, <2>3, <2>4 DEF LightEffect, Done, Goto
    <2> QED BY <1>0, <2>3, <2>5
<1> QED BY <1>1, <1>2, <1>3, <1>4, <1>5

(* The engine's word for a request the client has sent.                    *)
LEMMA MarkExecShape == ASSUME Shape, NEW c \in Clients, MarkExec(c) PROVE Shape'
<1> USE DEF Shape
<1>0. /\ c \in Procs /\ c \notin Hooks /\ pc[c] = "markExec" /\ None \notin Procs
      /\ from[c] \in Statuses /\ from[c] # None /\ job[c] # None /\ None \notin Statuses
    BY DispatchAssumption DEF MarkExec, Posts, ClientPost, Types, Procs
<1>1. PICK r \in Requests : mine[c] = {r} /\ Mine(c) = r
    BY <1>0, MineIsOne DEF Posts, ClientPost
<1>2. /\ UNCHANGED <<file, lock, got, lease, tried, injected, told, crashes, timeouts>>
      /\ \/ Exec(Logged(r, "notified")) /\ EngineAccepts(r, "notified") /\ Done(c)
         \/ Goto(c, "mark") /\ UNCHANGED <<view, engine, mine, job, from>>
    BY <1>1 DEF MarkExec, section, call
<1>3. engine' \in List /\ view' \in List \cup {None}
    <2>1. EngineAccepts(r, "notified") => Logged(r, "notified") \in List
        <3> SUFFICES ASSUME EngineAccepts(r, "notified") PROVE Logged(r, "notified") \in List
            OBVIOUS
        <3>1. engine[r] \in Record
            BY <1>1 DEF EngineAccepts, Types, List
        <3>2. [engine[r] EXCEPT !.status = "notified"] \in Record
            BY <3>1 DEF Record, Statuses
        <3>3. Logged(r, "notified") = [engine EXCEPT ![r] = [engine[r] EXCEPT !.status = "notified"]]
            BY DEF Logged
        <3> QED BY <1>1, <3>2, <3>3, ListsMade DEF Types
    <2> QED BY <1>2, <2>1 DEF Exec, Types
<1>4. Types'
    BY <1>0, <1>2, <1>3 DEF Types, ClientSteps, Done, Goto
<1>5. Alone(c)
    BY <1>0, <1>2 DEF Types, Alone, InLock, Procs, Done, Goto, Held
<1>6. ClientPost(c)'
    BY <1>0, <1>1, <1>2 DEF Types, ClientPost, ClientSteps, Done, Goto
<1> QED BY <1>0, <1>4, <1>5, <1>6, StepAlone

(* What the locked transition writes is a list.                            *)
LEMMA TransitionWrites ==
    ASSUME Shape, NEW c \in Clients, NEW r \in Requests, mine[c] = {r},
           NEW to \in Statuses, got[c] \in List, Transition(c, to)
    PROVE  /\ file' \in List /\ view' \in List \cup {None}
           /\ \/ file' = file /\ view' = view
              \/ /\ Movable(got[c][r], from[c], to)
                 /\ got[c][r] \in Record /\ Moved(got[c][r], to) \in Record
                 /\ WriteList([got[c] EXCEPT ![r] = Moved(got[c][r], to)])
<1>1. Mine(c) = r
    BY MineIsOne
<1>2. CASE Movable(got[c][r], from[c], to)
    <2>1. got[c][r] \in Record
        BY <1>2 DEF Movable, List
    <2>2. Moved(got[c][r], to) \in Record
        BY <2>1, RecordsMade
    <2>3. [got[c] EXCEPT ![r] = Moved(got[c][r], to)] \in List
        BY <2>2, ListsMade
    <2>4. WriteList([got[c] EXCEPT ![r] = Moved(got[c][r], to)])
        BY <1>1, <1>2 DEF Transition
    <2> HIDE DEF Moved
    <2> QED BY <1>2, <2>1, <2>2, <2>3, <2>4 DEF WriteList, Shape, Types
<1>3. CASE ~Movable(got[c][r], from[c], to)
    BY <1>1, <1>3 DEF Transition, Shape, Types
<1> QED BY <1>2, <1>3

(* The locked sections of a client.                                        *)
LEMMA MarkShape == ASSUME Shape, NEW c \in Clients, Mark(c) \/ Fail(c) PROVE Shape'
<1> USE DEF Shape
<1>0. /\ c \in Procs /\ c \notin Hooks /\ pc[c] \in {"marking", "failing"} /\ lock = c
      /\ got[c] \in List /\ None \notin Procs
      /\ job[c] # None
    BY DispatchAssumption DEF Mark, Fail, Held, Posts, ClientPost, Types, Procs, InLock
<1>1. PICK r \in Requests : mine[c] = {r}
    BY <1>0 DEF Posts, ClientPost
<1>2. \E to \in Statuses : Transition(c, to)
    BY DEF Mark, Fail, Statuses
<1>3. file' \in List /\ view' \in List \cup {None}
    BY <1>0, <1>1, <1>2, TransitionWrites
<1>4. /\ UNCHANGED <<engine, lease, tried, injected, told, crashes, timeouts>>
      /\ lock' = None /\ got' = [got EXCEPT ![c] = None]
      /\ \/ Done(c)
         \/ Goto(c, "patchRead") /\ UNCHANGED <<mine, call>>
    BY <1>0 DEF Mark, Fail, Leave, NotMarked
<1>5. Types'
    BY <1>0, <1>3, <1>4 DEF Types, ClientSteps, Done, Goto, call
<1>6. Alone(c)
    BY <1>0, <1>4 DEF Types, Alone, InLock, Procs, Done, Goto, call
<1>7. ClientPost(c)'
    BY <1>0, <1>1, <1>4 DEF Types, ClientPost, ClientSteps, Done, Goto, call
<1> QED BY <1>0, <1>5, <1>6, <1>7, StepAlone

(* A call begins, or a process enters the lock.                            *)
LEMMA StartShape ==
    ASSUME Shape, NEW c \in Clients, NEW k \in Keys, NEW hook \in BOOLEAN, Start(c, k, hook)
    PROVE  Shape'
<1> USE DEF Shape
<1>0. c \in Procs /\ c \notin Hooks /\ pc[c] = "idle" /\ mine[c] = {}
    BY DispatchAssumption DEF Procs, Start, Posts, ClientPost
<1>1. [key |-> k, hook |-> hook] \in Job /\ None \notin Job
    BY DispatchAssumption DEF Job
<1>2. Types'
    BY <1>0, <1>1 DEF Start, Types, Goto, ClientSteps, store, section
<1>3. Alone(c)
    BY <1>0 DEF Start, Types, Alone, InLock, Procs, Goto, section, Held
<1>4. ClientPost(c)'
    BY <1>0, <1>1 DEF Start, Types, ClientPost, Goto, ClientSteps
<1> QED BY <1>0, <1>2, <1>3, <1>4, StepAlone

(* A process enters the lock and reads the list.                           *)
LEMMA EnterShape == ASSUME Shape, NEW p \in Procs, Enters(p) PROVE Shape'
<1> USE DEF Shape
<1>1. PICK at \in {"enqueue", "mark", "fail", "idle", "result"},
           next \in {"queue", "marking", "failing", "claim", "finalizing"} :
              /\ Enter(p, at, next)
              /\ p \in Clients => \/ at = "enqueue" /\ next = "queue"
                                  \/ at = "mark" /\ next = "marking"
                                  \/ at = "fail" /\ next = "failing"
              /\ p \in Hooks => \/ at = "idle" /\ next = "claim"
                                \/ at = "result" /\ next = "finalizing"
    BY DispatchAssumption, Zenon DEF Enters
<1>2. /\ pc[p] = at /\ lock = None /\ lock' = p /\ got' = [got EXCEPT ![p] = Listed]
      /\ pc' = [pc EXCEPT ![p] = next]
      /\ UNCHANGED <<store, lease, mine, call, tried, injected, told, crashes, timeouts>>
    BY <1>1 DEF Enter, Goto
<1>3. Listed \in List /\ Listed # None
    BY DispatchAssumption DEF Listed, Types
<1>4. Types'
    BY <1>2, <1>3 DEF Types, ClientSteps, HookSteps, store, call
<1>5. Alone(p)
    BY <1>2, <1>3 DEF Types, Alone, InLock, Procs, call
<1>6. p \in Clients => ClientPost(p)'
    BY <1>1, <1>2 DEF Types, ClientPost, Posts, ClientSteps, call
<1>7. p \in Hooks => HookPost(p)'
    BY <1>1, <1>2 DEF Types, HookPost, Posts, HookSteps
<1> QED BY <1>4, <1>5, <1>6, <1>7, StepAlone

(* A hook claims a batch, types one request of it, and writes the outcome. *)
LEMMA ClaimShape == ASSUME Shape, NEW h \in Hooks, Claim(h) PROVE Shape'
<1> USE DEF Shape
<1>0. /\ h \in Procs /\ h \notin Clients /\ pc[h] = "claim" /\ lock = h /\ got[h] \in List
      /\ None \notin Procs /\ tried[h] = None
    BY DispatchAssumption DEF Claim, Held, Posts, HookPost, Types, Procs, InLock
<1>1. PICK S \in SUBSET Claimable(h) :
          /\ lease' = [r \in Requests |-> IF r \in S THEN h ELSE lease[r]]
          /\ mine' = [mine EXCEPT ![h] = S]
          /\ \/ Drainable(h) # {} /\ WriteList(got[h])
             \/ UNCHANGED <<file, view>>
          /\ Goto(h, IF S = {} THEN "idle" ELSE "inject")
    BY DEF Claim
<1>2. S \subseteq Requests
    BY DEF Claimable, Drainable
<1>3. /\ lock' = None /\ got' = [got EXCEPT ![h] = None]
      /\ UNCHANGED <<engine, job, from, tried, injected, told, crashes, timeouts>>
    BY <1>0 DEF Claim, Leave, call
<1>4. file' \in List /\ view' \in List \cup {None}
    BY <1>0, <1>1 DEF WriteList, Types
<1>5. Types'
    BY <1>0, <1>1, <1>2, <1>3, <1>4 DEF Types, Goto, HookSteps
<1>6. Alone(h)
    BY <1>0, <1>1, <1>3 DEF Types, Alone, InLock, Procs, Goto
<1>7. HookPost(h)'
    BY <1>0, <1>1, <1>3 DEF Types, HookPost, Goto, HookSteps
<1> QED BY <1>0, <1>5, <1>6, <1>7, StepAlone

(* An entry of the engine's log takes a status.                            *)
LEMMA LoggedMade ==
    ASSUME Shape, NEW r \in Requests, NEW to \in Statuses, EngineAccepts(r, to)
    PROVE  /\ engine[r] \in Record /\ to \in Moves[engine[r].status]
           /\ [engine[r] EXCEPT !.status = to] \in Record
           /\ Logged(r, to) = [engine EXCEPT ![r] = [engine[r] EXCEPT !.status = to]]
           /\ Logged(r, to) \in List
<1>1. engine[r] \in Record /\ to \in Moves[engine[r].status]
    BY DEF EngineAccepts, Shape, Types, List
<1>2. [engine[r] EXCEPT !.status = to] \in Record
    BY <1>1 DEF Record
<1>3. Logged(r, to) = [engine EXCEPT ![r] = [engine[r] EXCEPT !.status = to]]
    BY DEF Logged
<1>4. \A w \in Record : [engine EXCEPT ![r] = w] \in List
    BY ListsMade DEF Shape, Types
<1> QED BY <1>1, <1>2, <1>3, <1>4

(* A hook types a request; the engine may take its word for it.            *)
LEMMA InjectShape == ASSUME Shape, NEW h \in Hooks, Inject(h) PROVE Shape'
<1> USE DEF Shape
<1>0. /\ h \in Procs /\ h \notin Clients /\ pc[h] = "inject" /\ mine[h] \subseteq Requests
      /\ got[h] = None
    BY DispatchAssumption DEF Inject, Held, Types, Procs, InLock
<1>1. PICK r \in mine[h], result \in Results :
          /\ result = "error" \/ injected[r] < MaxInjected
          /\ injected' = IF result = "error" THEN injected ELSE [injected EXCEPT ![r] = @ + 1]
          /\ IF result = "confirmed" /\ Bridge /\ EngineAccepts(r, "delivered")
             THEN Exec(Logged(r, "delivered"))
             ELSE UNCHANGED <<engine, view>>
          /\ tried' = [tried EXCEPT ![h] = <<r, result>>]
          /\ Goto(h, "result")
    BY DEF Inject
<1>2. /\ UNCHANGED <<file, lock, got, lease, mine, job, from, told, crashes, timeouts>>
      /\ r \in Requests /\ <<r, result>> # None /\ <<r, result>>[1] = r
      /\ <<r, result>> \in Requests \X Results
    BY <1>0, DispatchAssumption DEF Inject, section, call
<1>3. engine' \in List /\ view' \in List \cup {None}
    BY <1>1, <1>2, LoggedMade DEF Exec, Types, Statuses
<1>4. injected' \in [Requests -> 0 .. MaxInjected]
    BY <1>1, <1>2, DispatchAssumption DEF Types
<1>5. Types'
    BY <1>0, <1>1, <1>2, <1>3, <1>4 DEF Types, Goto, HookSteps
<1>6. Alone(h)
    BY <1>0, <1>1, <1>2 DEF Types, Alone, InLock, Procs, Goto
<1>7. HookPost(h)'
    BY <1>0, <1>1, <1>2 DEF Types, HookPost, Goto, HookSteps
<1> QED BY <1>0, <1>5, <1>6, <1>7, StepAlone

(* What a hook writes about the request it has tried.                      *)
LEMMA FinalizeWrites ==
    ASSUME Shape, NEW h \in Hooks, Finalize(h)
    PROVE  \E r \in Requests, result \in Results :
              /\ tried[h] = <<r, result>> /\ r \in mine[h] /\ got[h] \in List
              /\ \/ /\ UNCHANGED store
                    /\ ~(got[h][r] # None /\ got[h][r].hook /\ got[h][r].status = "pending")
                 \/ /\ got[h][r] \in Record /\ got[h][r].status = "pending"
                    /\ Outcome(got[h][r], result) \in Record
                    /\ WriteList([got[h] EXCEPT ![r] = Outcome(got[h][r], result)])
                    /\ engine' = IF /\ Bridge
                                    /\ EngineAccepts(r, Outcome(got[h][r], result).status)
                                 THEN Logged(r, Outcome(got[h][r], result).status) ELSE engine
<1> USE DEF Shape
<1>0. /\ h \in Procs /\ pc[h] = "finalizing" /\ got[h] \in List
      /\ tried[h] \in Requests \X Results /\ tried[h][1] \in mine[h]
    BY DEF Finalize, Held, Posts, HookPost, Types, Procs, InLock
<1>1. PICK r \in Requests, result \in Results : tried[h] = <<r, result>>
    BY <1>0
<1>2. tried[h][1] = r /\ tried[h][2] = result
    BY <1>1
<1>3. CASE got[h][r] # None /\ got[h][r].hook /\ got[h][r].status = "pending"
    <2>1. got[h][r] \in Record /\ Outcome(got[h][r], result) \in Record
        BY <1>0, <1>3, RecordsMade DEF List
    <2>2. WriteList([got[h] EXCEPT ![r] = Outcome(got[h][r], result)])
        BY <1>2, <1>3 DEF Finalize
    <2>3. engine' = IF Bridge /\ EngineAccepts(r, Outcome(got[h][r], result).status)
                    THEN Logged(r, Outcome(got[h][r], result).status) ELSE engine
        BY <1>2, <1>3 DEF Finalize
    <2> HIDE DEF Outcome
    <2> QED BY <1>0, <1>1, <1>2, <1>3, <2>1, <2>2, <2>3
<1>4. CASE ~(got[h][r] # None /\ got[h][r].hook /\ got[h][r].status = "pending")
    <2>1. UNCHANGED store
        BY <1>2, <1>4 DEF Finalize
    <2> QED BY <1>0, <1>1, <1>2, <1>4, <2>1
<1> QED BY <1>3, <1>4

(* The section that writes the outcome.                                    *)
LEMMA FinalizeShape == ASSUME Shape, NEW h \in Hooks, Finalize(h) PROVE Shape'
<1> USE DEF Shape
<1>0. /\ h \in Procs /\ h \notin Clients /\ pc[h] = "finalizing" /\ lock = h /\ None \notin Procs
    BY DispatchAssumption DEF Finalize, Held, Types, Procs, InLock
<1>1. PICK r \in Requests, result \in Results :
              /\ tried[h] = <<r, result>> /\ r \in mine[h] /\ got[h] \in List
              /\ \/ UNCHANGED store
                 \/ /\ got[h][r] \in Record /\ got[h][r].status = "pending"
                    /\ Outcome(got[h][r], result) \in Record
                    /\ WriteList([got[h] EXCEPT ![r] = Outcome(got[h][r], result)])
                    /\ engine' = IF /\ Bridge
                                    /\ EngineAccepts(r, Outcome(got[h][r], result).status)
                                 THEN Logged(r, Outcome(got[h][r], result).status) ELSE engine
    BY FinalizeWrites
<1>2. file' \in List /\ engine' \in List /\ view' \in List \cup {None}
    <2>1. CASE UNCHANGED store
        BY <2>1 DEF store, Types
    <2>2. CASE ~UNCHANGED store
        <3>1. Outcome(got[h][r], result).status \in Statuses
            BY <1>1, <2>2 DEF Record
        <3>2. [got[h] EXCEPT ![r] = Outcome(got[h][r], result)] \in List
            BY <1>1, <2>2, ListsMade
        <3>3. /\ WriteList([got[h] EXCEPT ![r] = Outcome(got[h][r], result)])
              /\ engine' = IF /\ Bridge
                              /\ EngineAccepts(r, Outcome(got[h][r], result).status)
                           THEN Logged(r, Outcome(got[h][r], result).status) ELSE engine
            BY <1>1, <2>2
        <3>4. engine' \in List
            BY <3>1, <3>3, LoggedMade DEF Types
        <3>5. file' \in List /\ view' \in List \cup {None}
            BY <3>2, <3>3 DEF WriteList, Types
        <3> QED BY <3>4, <3>5
    <2> QED BY <2>1, <2>2
<1>3. /\ lock' = None /\ got' = [got EXCEPT ![h] = None]
      /\ UNCHANGED <<job, from, injected, told, crashes, timeouts>>
      /\ lease' = Released(h, {tried[h][1]})
      /\ mine' = [mine EXCEPT ![h] = @ \ {tried[h][1]}]
      /\ tried' = [tried EXCEPT ![h] = None]
      /\ \/ pc' = [pc EXCEPT ![h] = "idle"] /\ mine'[h] = {}
         \/ pc' = [pc EXCEPT ![h] = "inject"]
    BY <1>0 DEF Finalize, Finished, Leave, call, Goto
<1>4. Types'
    BY <1>0, <1>2, <1>3 DEF Types, HookSteps, Released
<1>5. Alone(h)
    BY <1>0, <1>3 DEF Types, Alone, InLock, Procs
<1>6. HookPost(h)'
    BY <1>0, <1>3 DEF Types, HookPost, HookSteps
<1> QED BY <1>0, <1>4, <1>5, <1>6, StepAlone

(* A process gives up, dies or is recovered from.                          *)
LEMMA FailureShape ==
    ASSUME Shape, NEW p \in Procs, GiveUp(p) \/ Crash(p) \/ Recover(p)
    PROVE  Shape'
<1> USE DEF Shape
<1>0. \/ p \in Clients /\ p \notin Hooks
      \/ p \in Hooks /\ p \notin Clients
    BY DispatchAssumption, Zenon DEF Procs
<1>1. CASE GiveUp(p)
    <2>1. /\ UNCHANGED <<store, lock, got, injected, told, crashes>>
          /\ pc' = [pc EXCEPT ![p] = "idle"] /\ mine' = [mine EXCEPT ![p] = {}]
          /\ p \in Clients => /\ job' = [job EXCEPT ![p] = None]
                              /\ from' = [from EXCEPT ![p] = None]
                              /\ UNCHANGED <<lease, tried>>
          /\ p \in Hooks => /\ lease' = Released(p, mine[p])
                            /\ tried' = [tried EXCEPT ![p] = None]
                            /\ UNCHANGED <<job, from>>
          /\ got[p] = None
        BY <1>0, <1>1, DispatchAssumption DEF GiveUp, Done, Goto, section, call, Waiting, InLock, Held
    <2>2. timeouts' \in 0 .. MaxTimeouts
        BY <1>1, DispatchAssumption DEF GiveUp, Types
    <2>3. Types'
        BY <1>0, <2>1, <2>2 DEF Types, store, Released
    <2>4. Alone(p)
        BY <2>1 DEF Types, Alone, InLock, Procs
    <2>5. (p \in Clients => ClientPost(p)') /\ (p \in Hooks => HookPost(p)')
        BY <2>1 DEF Types, ClientPost, HookPost
    <2> QED BY <2>3, <2>4, <2>5, StepAlone
<1>2. CASE Crash(p)
    <2>1. /\ UNCHANGED <<store, lock, lease, injected, told, timeouts>>
          /\ crashes < MaxCrashes /\ crashes' = crashes + 1
          /\ pc' = [pc EXCEPT ![p] = "dead"] /\ mine' = [mine EXCEPT ![p] = {}]
          /\ got' = [got EXCEPT ![p] = None]
          /\ p \in Clients => /\ job' = [job EXCEPT ![p] = None]
                              /\ from' = [from EXCEPT ![p] = None]
                              /\ UNCHANGED tried
          /\ p \in Hooks => /\ tried' = [tried EXCEPT ![p] = None]
                            /\ UNCHANGED <<job, from>>
        BY <1>0, <1>2 DEF Crash, Goto, call
    <2>2. Types'
        BY <1>0, <2>1, DispatchAssumption DEF Types, store
    <2>3. Alone(p)
        BY <2>1 DEF Types, Alone, InLock, Procs
    <2>4. (p \in Clients => ClientPost(p)') /\ (p \in Hooks => HookPost(p)')
        BY <2>1 DEF Types, ClientPost, HookPost
    <2> QED BY <2>2, <2>3, <2>4, StepAlone
<1>3. CASE Recover(p)
    <2>1. /\ UNCHANGED <<store, got, mine, job, from, tried, injected, told, crashes, timeouts>>
          /\ pc[p] = "dead" /\ pc' = [pc EXCEPT ![p] = "idle"]
          /\ lock' = (IF lock = p THEN None ELSE lock)
          /\ lease' = Released(p, Requests)
          /\ got[p] = None
        BY <1>3 DEF Recover, Goto, call, Held, InLock
    <2>2. Types'
        BY <2>1 DEF Types, store, Released
    <2>3. Alone(p)
        BY <2>1 DEF Types, Alone, InLock, Procs
    <2>4. (p \in Clients => ClientPost(p)') /\ (p \in Hooks => HookPost(p)')
        BY <2>1 DEF Types, ClientPost, HookPost, Posts
    <2> QED BY <2>2, <2>3, <2>4, StepAlone
<1> QED BY <1>1, <1>2, <1>3

(* At the beginning nothing is held, listed or worked on.                  *)
LEMMA ShapeInit == Init => Shape
<1> SUFFICES ASSUME Init PROVE Shape
    OBVIOUS
<1>1. Types
    BY DispatchAssumption DEF Init, Types, NoList, List
<1>2. Held /\ Posts
    BY DispatchAssumption DEF Init, Held, Posts, InLock, ClientPost, HookPost, Procs, ClientSteps, HookSteps
<1> QED BY <1>1, <1>2 DEF Shape

(* Every step keeps types, lock and what is held at each step.             *)
LEMMA ShapeNext == ASSUME Shape, [Next]_vars PROVE Shape'
<1>1. ASSUME NEW c \in Clients, Client(c) PROVE Shape'
    <2>1. CASE Queue(c)
        BY <2>1, QueueShape
    <2>2. CASE Receipt(c) \/ ReceiptTimeout(c) \/ Notify(c) \/ MarkRead(c) \/ FailRead(c)
        BY <2>2, LightSteps, LightShape
    <2>3. CASE MarkExec(c)
        BY <2>3, MarkExecShape
    <2>4. CASE Mark(c) \/ Fail(c)
        BY <2>4, MarkShape
    <2> QED BY <1>1, <2>1, <2>2, <2>3, <2>4 DEF Client
<1>2. ASSUME NEW h \in Hooks, Outlasted(h) PROVE Shape'
    <2>1. /\ lease' \in [Requests -> Hooks \cup {None}]
          /\ UNCHANGED <<store, section, pc, mine, call, tried, injected, told, crashes, timeouts>>
        BY <1>2 DEF Outlasted, Shape, Types
    <2>2. Types'
        BY <2>1 DEF Shape, Types, store, section, call
    <2>3. Held' /\ Posts'
        BY <2>1 DEF Shape, Held, Posts, ClientPost, HookPost, section, call
    <2> QED BY <2>2, <2>3 DEF Shape
<1>3. CASE OtherExec \/ UNCHANGED vars
    <2>1. /\ file' = file /\ engine' = engine /\ view' \in {view, engine}
          /\ UNCHANGED <<section, lease, pc, mine, call, tried, injected, told, crashes, timeouts>>
        BY <1>3 DEF OtherExec, Exec, vars, store
    <2>2. Types'
        BY <2>1 DEF Shape, Types, section, call
    <2>3. Held' /\ Posts'
        BY <2>1 DEF Shape, Held, Posts, ClientPost, HookPost, section, call
    <2> QED BY <2>2, <2>3 DEF Shape
<1>4. ASSUME NEW h \in Hooks, Hook(h) PROVE Shape'
    BY <1>4, ClaimShape, InjectShape, FinalizeShape DEF Hook
<1> QED BY <1>1, <1>2, <1>3, <1>4, StartShape, EnterShape, FailureShape DEF Next

-----------------------------------------------------------------------------
(* What a step can make of the store.                                      *)

NewRequest(v) == v \in Record /\ v.status = "pending" /\ v.attempts = 0

(* A client queues a request that nobody knows.                            *)
Adds(c, r, v) ==
    /\ file[r] = None /\ engine[r] = None /\ NewRequest(v)
    /\ EquivalentPending(got[c], v.key) = {}
    /\ IF Bridge
       THEN Exec([engine EXCEPT ![r] = v]) /\ file' = file
       ELSE WriteList([got[c] EXCEPT ![r] = v]) /\ engine' = engine

(* A client moves its request, or the engine's record of it.               *)
Transits(c, r, to) ==
    /\ mine[c] = {r} /\ to \in {"notified", "failed"}
    /\ to = "notified" => pc[c] = "marking"
    /\ to = "failed" => pc[c] = "failing"
    /\ got[c][r] \in Record /\ Movable(got[c][r], from[c], to)
    /\ Moved(got[c][r], to) \in Record
    /\ WriteList([got[c] EXCEPT ![r] = Moved(got[c][r], to)])
    /\ engine' = engine

Marks(c, r) ==
    /\ mine[c] = {r} /\ pc[c] = "markExec"
    /\ EngineAccepts(r, "notified") /\ Exec(Logged(r, "notified"))
    /\ file' = file

(* A hook writes an outcome, or its list as it was, or has its success     *)
(* accepted by the engine.                                                 *)
Concludes(h, r, result) ==
    /\ tried[h] = <<r, result>> /\ r \in mine[h] /\ pc[h] = "finalizing"
    /\ got[h][r] \in Record /\ got[h][r].status = "pending"
    /\ Outcome(got[h][r], result) \in Record
    /\ WriteList([got[h] EXCEPT ![r] = Outcome(got[h][r], result)])
    /\ engine' = IF Bridge /\ EngineAccepts(r, Outcome(got[h][r], result).status)
                 THEN Logged(r, Outcome(got[h][r], result).status) ELSE engine

Rewrites(h) == WriteList(got[h]) /\ engine' = engine

Delivers(h, r) ==
    /\ r \in mine[h] /\ injected'[r] > 0
    /\ EngineAccepts(r, "delivered") /\ Exec(Logged(r, "delivered"))
    /\ file' = file

(* A write of a list is the last step of a section under the lock.         *)
Writes(p) == lock = p /\ got[p] \in List /\ got[p] # None /\ got'[p] = None

StoreStep ==
    \/ UNCHANGED store
    \/ \E c \in Clients, r \in Requests, v \in Record : Writes(c) /\ Adds(c, r, v)
    \/ \E c \in Clients, r \in Requests, to \in Statuses : Writes(c) /\ Transits(c, r, to)
    \/ \E c \in Clients, r \in Requests : Marks(c, r)
    \/ \E h \in Hooks, r \in Requests, result \in Results : Writes(h) /\ Concludes(h, r, result)
    \/ \E h \in Hooks : Writes(h) /\ Rewrites(h)
    \/ \E h \in Hooks, r \in Requests : Delivers(h, r)
    \/ Bridge /\ Exec(engine) /\ file' = file

(* Who leaves the lock held it, with a list read in it.                    *)
LEMMA Inside ==
    ASSUME Shape, NEW p \in Procs, pc[p] \in InLock, Leave(p)
    PROVE  Writes(p)
<1>1. lock = p /\ got[p] \in List /\ got[p] # None
    BY DEF Shape, Held, Types
<1>2. got'[p] = None
    BY DEF Leave, Shape, Types
<1> QED BY <1>1, <1>2 DEF Writes

(* Every step of a client makes one of these of the store.                 *)
LEMMA ClientStores == ASSUME Shape, NEW c \in Clients, Client(c) PROVE StoreStep
<1>0. c \in Procs
    BY DEF Procs
<1>1. CASE Queue(c)
    <2>1. pc[c] = "queue" /\ Writes(c)
        BY <1>0, <1>1, Inside DEF Queue, InLock
    <2>2. CASE Deduped(c) \/ NoId(c)
        BY <2>2 DEF Deduped, NoId, StoreStep
    <2>3. CASE Queued(c)
        <3> DEFINE new == [key |-> job[c].key, hook |-> job[c].hook, status |-> "pending", attempts |-> 0]
        <3>1. job[c] \in Job
            BY <2>1 DEF Shape, Types, Posts, ClientPost, ClientSteps
        <3>2. NewRequest(new) /\ new \in Record /\ new.key = job[c].key
            BY <3>1 DEF Job, Record, Statuses, NewRequest
        <3> HIDE DEF new
        <3>3. PICK r \in Requests :
                 /\ file[r] = None /\ engine[r] = None
                 /\ IF Bridge
                    THEN Exec([engine EXCEPT ![r] = new]) /\ UNCHANGED file
                    ELSE WriteList([got[c] EXCEPT ![r] = new]) /\ UNCHANGED engine
            BY <2>3 DEF Queued, new
        <3>4. EquivalentPending(got[c], new.key) = {}
            BY <2>3, <3>2 DEF Queued
        <3>5. Adds(c, r, new)
            BY <3>2, <3>3, <3>4 DEF Adds
        <3> QED BY <2>1, <3>2, <3>5 DEF StoreStep
    <2> QED BY <1>1, <2>2, <2>3 DEF Queue
<1>2. CASE Receipt(c) \/ ReceiptTimeout(c) \/ Notify(c) \/ MarkRead(c) \/ FailRead(c)
    BY <1>2, LightSteps DEF StoreStep
<1>3. CASE MarkExec(c)
    <2>1. PICK r \in Requests : mine[c] = {r} /\ Mine(c) = r
        BY <1>3, MineIsOne DEF MarkExec, Shape, Posts, ClientPost
    <2>2. \/ Marks(c, r)
          \/ UNCHANGED store
        BY <1>3, <2>1 DEF MarkExec, Marks, store
    <2> QED BY <2>2 DEF StoreStep
<1>4. CASE Mark(c) \/ Fail(c)
    <2>1. Writes(c) /\ pc[c] \in {"marking", "failing"}
        BY <1>0, <1>4, Inside DEF Mark, Fail, InLock
    <2>2. PICK r \in Requests : mine[c] = {r}
        BY <2>1 DEF Shape, Posts, ClientPost
    <2>3. PICK to \in {"notified", "failed"} :
              /\ Transition(c, to) /\ engine' = engine
              /\ to = "notified" => pc[c] = "marking"
              /\ to = "failed" => pc[c] = "failing"
        BY <1>4 DEF Mark, Fail
    <2>4. to \in Statuses
        BY DEF Statuses
    <2>5. \/ UNCHANGED store
          \/ Transits(c, r, to)
        BY <2>1, <2>2, <2>3, <2>4, TransitionWrites DEF Transits, Writes, store
    <2> QED BY <2>1, <2>4, <2>5 DEF StoreStep
<1> QED BY <1>1, <1>2, <1>3, <1>4 DEF Client

(* So does every step of a hook.                                           *)
LEMMA HookStores == ASSUME Shape, NEW h \in Hooks, Hook(h) PROVE StoreStep
<1>0. h \in Procs
    BY DEF Procs
<1>1. CASE Claim(h)
    <2>1. Writes(h)
        BY <1>0, <1>1, Inside DEF Claim, InLock
    <2>2. \/ Rewrites(h)
          \/ UNCHANGED store
        BY <1>1 DEF Claim, Rewrites, store
    <2> QED BY <2>1, <2>2 DEF StoreStep
<1>2. CASE Inject(h)
    <2>1. PICK r \in mine[h], result \in Results :
          /\ result = "error" \/ injected[r] < MaxInjected
          /\ injected' = IF result = "error" THEN injected ELSE [injected EXCEPT ![r] = @ + 1]
          /\ IF result = "confirmed" /\ Bridge /\ EngineAccepts(r, "delivered")
             THEN Exec(Logged(r, "delivered"))
             ELSE UNCHANGED <<engine, view>>
        BY <1>2 DEF Inject
    <2>2. r \in Requests /\ injected[r] \in Nat /\ injected \in [Requests -> 0 .. MaxInjected]
        BY <1>0, DispatchAssumption DEF Shape, Types
    <2>3. result = "confirmed" => injected'[r] > 0
        BY <2>1, <2>2
    <2>4. \/ Delivers(h, r)
          \/ UNCHANGED store
        BY <1>2, <2>1, <2>3 DEF Inject, Delivers, store
    <2> QED BY <2>2, <2>4 DEF StoreStep
<1>3. CASE Finalize(h)
    <2>1. Writes(h) /\ pc[h] = "finalizing"
        BY <1>0, <1>3, Inside DEF Finalize, InLock
    <2>2. PICK r \in Requests, result \in Results :
              /\ tried[h] = <<r, result>> /\ r \in mine[h] /\ got[h] \in List
              /\ \/ UNCHANGED store
                 \/ /\ got[h][r] \in Record /\ got[h][r].status = "pending"
                    /\ Outcome(got[h][r], result) \in Record
                    /\ WriteList([got[h] EXCEPT ![r] = Outcome(got[h][r], result)])
                    /\ engine' = IF /\ Bridge
                                    /\ EngineAccepts(r, Outcome(got[h][r], result).status)
                                 THEN Logged(r, Outcome(got[h][r], result).status) ELSE engine
        BY <1>3, FinalizeWrites
    <2>3. \/ UNCHANGED store
          \/ Concludes(h, r, result)
        BY <2>1, <2>2 DEF Concludes
    <2> QED BY <2>1, <2>3 DEF StoreStep
<1> QED BY <1>1, <1>2, <1>3 DEF Hook

(* So does every step.                                                     *)
LEMMA StoreSteps == ASSUME Shape, [Next]_vars PROVE StoreStep
<1>1. CASE UNCHANGED vars
    BY <1>1 DEF vars, StoreStep
<1>2. CASE OtherExec
    BY <1>2 DEF OtherExec, StoreStep
<1>3. ASSUME NEW c \in Clients, NEW k \in Keys, NEW hook \in BOOLEAN, Start(c, k, hook)
      PROVE  StoreStep
    BY <1>3 DEF Start, StoreStep
<1>4. ASSUME NEW p \in Procs, Enters(p) \/ GiveUp(p) \/ Crash(p) \/ Recover(p) PROVE StoreStep
    BY <1>4 DEF Enters, Enter, GiveUp, Crash, Recover, StoreStep
<1>5. ASSUME NEW h \in Hooks, Outlasted(h) PROVE StoreStep
    BY <1>5 DEF Outlasted, StoreStep
<1> QED BY <1>1, <1>2, <1>3, <1>4, <1>5, ClientStores, HookStores DEF Next

-----------------------------------------------------------------------------
(* What a step can make of a list that was read, and of the requests that  *)
(* a process works on.                                                     *)
GotStep ==
    \/ got' = got
    \/ \E p \in Procs : lock = p /\ got' = [got EXCEPT ![p] = None]
    \/ \E p \in Procs : got' = [got EXCEPT ![p] = None] /\ UNCHANGED store
    \/ \E p \in Procs : got' = [got EXCEPT ![p] = Listed] /\ UNCHANGED store

Taken(p, S) ==
    \A r \in S : \/ r \in mine[p]
                 \/ got[p] # None /\ got[p][r] # None
                 \/ IF Bridge THEN engine'[r] # None ELSE file'[r] # None

MineStep ==
    \/ mine' = mine
    \/ \E p \in Procs, S \in SUBSET Requests : mine' = [mine EXCEPT ![p] = S] /\ Taken(p, S)

(* A client reads and takes on requests in this way.                       *)
LEMMA ClientReads == ASSUME Shape, NEW c \in Clients, Client(c) PROVE GotStep /\ MineStep
<1>0. c \in Procs /\ {} \in SUBSET Requests /\ Taken(c, {})
    BY DEF Procs, Taken
<1>1. CASE Queue(c)
    <2>1. Writes(c) /\ Leave(c)
        BY <1>0, <1>1, Inside DEF Queue, InLock
    <2>2. GotStep
        BY <1>0, <2>1 DEF Writes, Leave, GotStep
    <2>3. CASE Deduped(c)
        <3>1. PICK r \in EquivalentPending(got[c], job[c].key) :
                  \/ mine' = [mine EXCEPT ![c] = {r}]
                  \/ mine' = [mine EXCEPT ![c] = {}]
            BY <2>3 DEF Deduped, Done
        <3>2. r \in Requests /\ got[c][r] # None
            BY DEF EquivalentPending
        <3>3. {r} \in SUBSET Requests /\ Taken(c, {r})
            BY <2>1, <3>2 DEF Taken, Writes
        <3> QED BY <1>0, <2>2, <3>1, <3>3 DEF MineStep
    <2>4. CASE Queued(c)
        <3> DEFINE new == [key |-> job[c].key, hook |-> job[c].hook, status |-> "pending", attempts |-> 0]
        <3>1. job[c] \in Job
            BY <1>1 DEF Queue, Shape, Types, Posts, ClientPost, ClientSteps
        <3>2. new \in Record
            BY <3>1 DEF Job, Record, Statuses
        <3>3. new # None
            BY <3>2, RecordsMade
        <3> HIDE DEF new
        <3>4. PICK r \in Requests :
                 /\ IF Bridge
                    THEN Exec([engine EXCEPT ![r] = new]) /\ UNCHANGED file
                    ELSE WriteList([got[c] EXCEPT ![r] = new]) /\ UNCHANGED engine
                 /\ mine' = [mine EXCEPT ![c] = {r}]
            BY <2>4 DEF Queued, new
        <3>5. IF Bridge THEN engine'[r] = new ELSE file'[r] = new
            BY <2>1, <3>4 DEF Exec, WriteList, Writes, Shape, Types, List
        <3>6. Taken(c, {r})
            BY <3>3, <3>5 DEF Taken
        <3> QED BY <1>0, <2>2, <3>4, <3>6 DEF MineStep
    <2>5. CASE NoId(c)
        BY <1>0, <2>2, <2>5 DEF NoId, Done, MineStep
    <2> QED BY <1>1, <2>3, <2>4, <2>5 DEF Queue
<1>2. CASE Receipt(c) \/ ReceiptTimeout(c) \/ Notify(c) \/ MarkRead(c) \/ FailRead(c)
    BY <1>0, <1>2, LightSteps DEF LightEffect, GotStep, MineStep
<1>3. CASE MarkExec(c)
    BY <1>0, <1>3 DEF MarkExec, Done, call, section, GotStep, MineStep
<1>4. CASE Mark(c) \/ Fail(c)
    <2>1. Writes(c) /\ Leave(c)
        BY <1>0, <1>4, Inside DEF Mark, Fail, InLock
    <2>2. GotStep
        BY <1>0, <2>1 DEF Writes, Leave, GotStep
    <2>3. \/ mine' = mine
          \/ mine' = [mine EXCEPT ![c] = {}]
        BY <1>4 DEF Mark, Fail, NotMarked, Done
    <2> QED BY <1>0, <2>2, <2>3 DEF MineStep
<1> QED BY <1>1, <1>2, <1>3, <1>4 DEF Client

(* So does a hook.                                                         *)
LEMMA HookReads == ASSUME Shape, NEW h \in Hooks, Hook(h) PROVE GotStep /\ MineStep
<1>0. h \in Procs /\ mine[h] \subseteq Requests
    BY DEF Procs, Shape, Types
<1>1. CASE Claim(h)
    <2>1. Writes(h) /\ Leave(h)
        BY <1>0, <1>1, Inside DEF Claim, InLock
    <2>2. PICK S \in SUBSET Claimable(h) : mine' = [mine EXCEPT ![h] = S]
        BY <1>1 DEF Claim
    <2>3. S \in SUBSET Requests /\ Taken(h, S)
        BY <2>1 DEF Claimable, Drainable, Taken, Writes
    <2> QED BY <1>0, <2>1, <2>2, <2>3 DEF Writes, Leave, GotStep, MineStep
<1>2. CASE Inject(h)
    BY <1>2 DEF Inject, section, GotStep, MineStep
<1>3. CASE Finalize(h)
    <2>1. Writes(h) /\ Leave(h)
        BY <1>0, <1>3, Inside DEF Finalize, InLock
    <2>2. mine' = [mine EXCEPT ![h] = mine[h] \ {tried[h][1]}]
        BY <1>3 DEF Finalize, Finished
    <2>3. mine[h] \ {tried[h][1]} \in SUBSET Requests /\ Taken(h, mine[h] \ {tried[h][1]})
        BY <1>0 DEF Taken
    <2> QED BY <1>0, <2>1, <2>2, <2>3 DEF Writes, Leave, GotStep, MineStep
<1> QED BY <1>1, <1>2, <1>3 DEF Hook

(* So does every step.                                                     *)
LEMMA ReadSteps == ASSUME Shape, [Next]_vars PROVE GotStep /\ MineStep
<1>1. CASE UNCHANGED vars
    BY <1>1 DEF vars, section, GotStep, MineStep
<1>2. CASE OtherExec
    BY <1>2 DEF OtherExec, section, GotStep, MineStep
<1>3. ASSUME NEW c \in Clients, NEW k \in Keys, NEW hook \in BOOLEAN, Start(c, k, hook)
      PROVE  GotStep /\ MineStep
    BY <1>3 DEF Start, section, GotStep, MineStep
<1>4. ASSUME NEW p \in Procs, Enters(p) PROVE GotStep /\ MineStep
    BY <1>4 DEF Enters, Enter, GotStep, MineStep
<1>5. ASSUME NEW p \in Procs, GiveUp(p) \/ Crash(p) \/ Recover(p) PROVE GotStep /\ MineStep
    <2>1. Taken(p, {}) /\ {} \in SUBSET Requests
        BY DEF Taken
    <2>2. \/ mine' = mine
          \/ mine' = [mine EXCEPT ![p] = {}]
        BY <1>5 DEF GiveUp, Done, Crash, Recover
    <2>3. GotStep
        BY <1>5 DEF GiveUp, Crash, Recover, section, GotStep
    <2> QED BY <2>1, <2>2, <2>3 DEF MineStep
<1>6. ASSUME NEW h \in Hooks, Outlasted(h) PROVE GotStep /\ MineStep
    BY <1>6 DEF Outlasted, section, GotStep, MineStep
<1> QED BY <1>1, <1>2, <1>3, <1>4, <1>5, <1>6, ClientReads, HookReads DEF Next

-----------------------------------------------------------------------------
(* With the bridge the engine knows every request, without it the file is  *)
(* all there is and a list read in the lock is the file.                   *)
OneSource ==
    IF Bridge
    THEN \A r \in Requests : engine[r] = None => file[r] = None
    ELSE view = None /\ engine = NoList /\ \A p \in Procs : got[p] \in {None, file}

Source == IF Bridge THEN engine ELSE file

Backed == \A r \in Requests : Source[r] = None =>
             /\ view # None => view[r] = None
             /\ \A p \in Procs : (got[p] # None => got[p][r] = None) /\ r \notin mine[p]

Stored == Shape /\ OneSource /\ Backed

(* Without the bridge every step writes the file or nothing, by replacing  *)
(* one record of what is there.                                            *)
FileStep ==
    \/ file' = file
    \/ \E c \in Clients, r \in Requests, v \in Record :
          /\ Writes(c) /\ NewRequest(v) /\ file[r] = None /\ EquivalentPending(file, v.key) = {}
          /\ file' = [file EXCEPT ![r] = v]
    \/ \E c \in Clients, r \in Requests, to \in {"notified", "failed"} :
          /\ Writes(c) /\ Transits(c, r, to) /\ got[c] = file /\ file[r] \in Record
          /\ Movable(file[r], from[c], to) /\ Moved(file[r], to) \in Record
          /\ file' = [file EXCEPT ![r] = Moved(file[r], to)]
    \/ \E h \in Hooks, r \in Requests, result \in Results :
          /\ Writes(h) /\ Concludes(h, r, result) /\ got[h] = file /\ file[r] \in Record
          /\ Outcome(file[r], result) \in Record
          /\ file[r].status = "pending" /\ file' = [file EXCEPT ![r] = Outcome(file[r], result)]

(* With StoreSteps: a list that is written was read from the same file.    *)
LEMMA FileSteps ==
    ASSUME Shape, ~Bridge, OneSource, [Next]_vars
    PROVE  view' = None /\ engine' = NoList /\ FileStep
<1>1. view = None /\ engine = NoList /\ \A p \in Procs : got[p] \in {None, file}
    BY DEF OneSource
<1>2. \A r \in Requests, to \in Statuses : ~EngineAccepts(r, to)
    BY <1>1 DEF EngineAccepts, NoList
<1>3. \A p \in Procs : Writes(p) => got[p] = file
    BY <1>1 DEF Writes
<1>4. Clients \subseteq Procs /\ Hooks \subseteq Procs
    BY DEF Procs
<1>5. CASE UNCHANGED store
    BY <1>1, <1>5 DEF store, FileStep
<1>6. ASSUME NEW c \in Clients, NEW r \in Requests, NEW v \in Record, Writes(c), Adds(c, r, v)
      PROVE  view' = None /\ engine' = NoList /\ FileStep
    BY <1>1, <1>3, <1>4, <1>6 DEF Adds, WriteList, FileStep
<1>7. ASSUME NEW c \in Clients, NEW r \in Requests, NEW to \in Statuses, Writes(c), Transits(c, r, to)
      PROVE  view' = None /\ engine' = NoList /\ FileStep
    <2>1. got[c] = file
        BY <1>3, <1>4, <1>7
    <2>2. /\ to \in {"notified", "failed"} /\ file[r] \in Record
          /\ Movable(file[r], from[c], to) /\ Moved(file[r], to) \in Record
          /\ WriteList([file EXCEPT ![r] = Moved(file[r], to)]) /\ engine' = engine
        BY <1>7, <2>1 DEF Transits
    <2> QED BY <1>1, <1>7, <2>1, <2>2 DEF WriteList, FileStep
<1>8. ASSUME NEW h \in Hooks, NEW r \in Requests, NEW result \in Results,
             Writes(h), Concludes(h, r, result)
      PROVE  view' = None /\ engine' = NoList /\ FileStep
    <2>1. got[h] = file
        BY <1>3, <1>4, <1>8
    <2>2. /\ file[r] \in Record /\ file[r].status = "pending"
          /\ Outcome(file[r], result) \in Record
          /\ WriteList([file EXCEPT ![r] = Outcome(file[r], result)]) /\ engine' = engine
        BY <1>8, <2>1 DEF Concludes
    <2> QED BY <1>1, <1>8, <2>1, <2>2 DEF WriteList, FileStep
<1>9. ASSUME NEW h \in Hooks, Writes(h), Rewrites(h)
      PROVE  view' = None /\ engine' = NoList /\ FileStep
    BY <1>1, <1>3, <1>4, <1>9 DEF Rewrites, WriteList, FileStep
<1>10. "notified" \in Statuses /\ "delivered" \in Statuses
    BY DEF Statuses
<1> QED BY <1>2, <1>5, <1>6, <1>7, <1>8, <1>9, <1>10, StoreSteps DEF StoreStep, Marks, Delivers

(* A request never gets lost from where it is kept, and nothing writes a   *)
(* request elsewhere that is not kept there.                               *)
LEMMA SourceSteps ==
    ASSUME Stored, [Next]_vars, NEW r \in Requests, Source'[r] = None
    PROVE  /\ Source[r] = None /\ file[r] = None /\ file'[r] = None
           /\ view' # None => view'[r] = None
<1> USE DEF Stored
<1>1. ASSUME Source[r] = None
      PROVE  /\ file[r] = None
             /\ view # None => view[r] = None
             /\ \A p \in Procs : (got[p] # None => got[p][r] = None) /\ r \notin mine[p]
             /\ Bridge => engine[r] = None
    BY <1>1 DEF Backed, Source, OneSource
<1>2. file \in List /\ engine \in List /\ \A p \in Procs : got[p] \in List \cup {None}
    BY DEF Shape, Types
<1>3. Clients \subseteq Procs /\ Hooks \subseteq Procs
    BY DEF Procs
<1>4. CASE Bridge
    <2>0. engine'[r] = None
        BY <1>4 DEF Source
    <2> DEFINE Goal == /\ engine[r] = None
                       /\ engine[r] = None => file'[r] = None /\ (view' # None => view'[r] = None)
    <2> SUFFICES Goal
        BY <1>1, <1>4 DEF Source
    <2>1. CASE UNCHANGED store
        BY <1>1, <1>4, <2>0, <2>1 DEF store, Source
    <2>2. ASSUME NEW c \in Clients, NEW x \in Requests, NEW v \in Record, Writes(c), Adds(c, x, v)
          PROVE  Goal
        <3>1. engine' = [engine EXCEPT ![x] = v] /\ view' = engine' /\ file' = file /\ v # None
            BY <1>4, <2>2, RecordsMade DEF Adds, Exec
        <3> QED BY <1>1, <1>2, <1>4, <2>0, <3>1 DEF List, Source
    <2>3. ASSUME NEW c \in Clients, NEW x \in Requests, NEW to \in Statuses,
                 Writes(c), Transits(c, x, to)
          PROVE  Goal
        <3>1. /\ engine' = engine /\ x \in mine[c] /\ got[c] # None
              /\ \E w : file' = [got[c] EXCEPT ![x] = w]
              /\ view' = file'
            BY <1>4, <2>3 DEF Transits, WriteList, Writes
        <3> QED BY <1>1, <1>2, <1>3, <1>4, <2>0, <3>1 DEF List, Source
    <2>4. ASSUME NEW x \in Requests, NEW to \in Statuses, EngineAccepts(x, to),
                 Exec(Logged(x, to)), file' = file
          PROVE  Goal
        <3>1. /\ engine[x] # None
              /\ \E w \in Record : engine' = [engine EXCEPT ![x] = w]
              /\ view' = engine'
            BY <2>4, LoggedMade, RecordsMade DEF Exec
        <3>2. \A w \in Record : w # None
            BY RecordsMade
        <3> QED BY <1>1, <1>2, <1>4, <2>0, <2>4, <3>1, <3>2 DEF List, Source
    <2>5. ASSUME NEW h \in Hooks, NEW x \in Requests, NEW result \in Results,
                 Writes(h), Concludes(h, x, result)
          PROVE  Goal
        <3>1. /\ x \in mine[h] /\ got[h] # None
              /\ \E w : file' = [got[h] EXCEPT ![x] = w]
              /\ view' = file'
            BY <1>4, <2>5 DEF Concludes, WriteList, Writes
        <3>2. Outcome(got[h][x], result).status \in Statuses
            BY <2>5 DEF Concludes, Record
        <3>3. \/ engine' = engine
              \/ \E w \in Record : engine' = [engine EXCEPT ![x] = w]
            <4> DEFINE to == Outcome(got[h][x], result).status
            <4>1. engine' = IF Bridge /\ EngineAccepts(x, to) THEN Logged(x, to) ELSE engine
                BY <2>5 DEF Concludes
            <4>2. to \in Statuses
                BY <3>2
            <4> HIDE DEF to
            <4>3. EngineAccepts(x, to) => \E w \in Record : Logged(x, to) = [engine EXCEPT ![x] = w]
                BY <4>2, LoggedMade
            <4> QED BY <4>1, <4>3
        <3>4. \A w \in Record : w # None
            BY RecordsMade
        <3> QED BY <1>1, <1>2, <1>3, <1>4, <2>0, <3>1, <3>3, <3>4 DEF List, Source
    <2>6. ASSUME NEW h \in Hooks, Writes(h), Rewrites(h)
          PROVE  Goal
        <3>1. engine' = engine /\ got[h] # None /\ file' = got[h] /\ view' = file'
            BY <1>4, <2>6 DEF Rewrites, WriteList, Writes
        <3> QED BY <1>1, <1>3, <1>4, <2>0, <3>1 DEF Source
    <2>7. CASE Exec(engine) /\ file' = file
        BY <1>1, <1>4, <2>0, <2>7 DEF Exec, Source
    <2>8. "notified" \in Statuses /\ "delivered" \in Statuses
        BY DEF Statuses
    <2> QED BY <2>1, <2>2, <2>3, <2>4, <2>5, <2>6, <2>7, <2>8, StoreSteps DEF StoreStep, Marks, Delivers
<1>5. CASE ~Bridge
    <2>1. view' = None /\ FileStep /\ file'[r] = None
        BY <1>5, FileSteps DEF Source
    <2>2. file[r] = None
        <3>1. \A v : NewRequest(v) => v # None
            BY RecordsMade DEF NewRequest
        <3>2. \A x \in Requests : \A w : file' = [file EXCEPT ![x] = w] /\ w # None => file[r] = None
            BY <1>2, <2>1 DEF List
        <3>3. \A w \in Record : w # None
            BY RecordsMade
        <3> QED BY <2>1, <3>1, <3>2, <3>3 DEF FileStep
    <2> QED BY <1>5, <2>1, <2>2 DEF Source
<1> QED BY <1>4, <1>5

(* There is nothing to back in the beginning.                              *)
LEMMA StoredInit == Init => Stored
<1> SUFFICES ASSUME Init PROVE Stored
    OBVIOUS
<1>1. OneSource
    BY DEF Init, OneSource, NoList
<1>2. Backed
    BY DEF Init, Backed, Source, NoList
<1> QED BY <1>1, <1>2, ShapeInit DEF Stored

(* Every step keeps what is listed anywhere backed.                        *)
LEMMA StoredNext == ASSUME Stored, [Next]_vars PROVE Stored'
<1>1. Shape /\ OneSource /\ Backed
    BY DEF Stored
<1>2. Shape'
    BY <1>1, ShapeNext
<1>3. GotStep /\ MineStep
    BY <1>1, ReadSteps
<1>4. got \in [Procs -> List \cup {None}] /\ mine \in [Procs -> SUBSET Requests]
    BY <1>1 DEF Shape, Types
<1>5. OneSource'
    <2>1. CASE Bridge
        BY <2>1, SourceSteps DEF OneSource, Source
    <2>2. CASE ~Bridge
        <3>1. view' = None /\ engine' = NoList /\ FileStep
            BY <1>1, <2>2, FileSteps
        <3>2. ASSUME NEW p \in Procs PROVE got'[p] \in {None, file'}
            <4>1. got[p] \in {None, file}
                BY <1>1, <2>2 DEF OneSource
            <4>2. file' # file => got'[p] = None
                <5>1. \A q \in Procs : Writes(q) /\ q # p => got[p] = None
                    BY <1>1, DispatchAssumption DEF Writes, Shape, Held
                <5>2. file' # file => \E q \in Procs : Writes(q)
                    BY <3>1 DEF FileStep, Procs
                <5>3. file' # file => ~ UNCHANGED store
                    BY DEF store
                <5> QED BY <1>3, <1>4, <5>1, <5>2, <5>3 DEF GotStep, Writes
            <4>3. file' = file => got'[p] \in {None, file}
                <5>1. Listed = file
                    BY <2>2 DEF Listed
                <5> QED BY <1>3, <1>4, <4>1, <5>1 DEF GotStep
            <4> QED BY <4>2, <4>3
        <3> QED BY <2>2, <3>1, <3>2 DEF OneSource
    <2> QED BY <2>1, <2>2
<1>6. Backed'
    <2> SUFFICES ASSUME NEW r \in Requests, Source'[r] = None
                 PROVE  /\ view' # None => view'[r] = None
                        /\ \A p \in Procs : (got'[p] # None => got'[p][r] = None) /\ r \notin mine'[p]
        BY DEF Backed
    <2>1. /\ Source[r] = None /\ file[r] = None
          /\ view' # None => view'[r] = None
        BY SourceSteps
    <2>2. /\ view # None => view[r] = None
          /\ \A p \in Procs : (got[p] # None => got[p][r] = None) /\ r \notin mine[p]
        BY <1>1, <2>1 DEF Backed
    <2>3. ASSUME NEW p \in Procs PROVE got'[p] # None => got'[p][r] = None
        <3>1. Listed[r] = None
            BY <2>1, <2>2 DEF Listed
        <3> QED BY <1>3, <1>4, <2>2, <3>1 DEF GotStep
    <2>4. ASSUME NEW p \in Procs PROVE r \notin mine'[p]
        BY <1>3, <1>4, <2>2 DEF MineStep, Taken, Source
    <2> QED BY <2>1, <2>3, <2>4
<1> QED BY <1>2, <1>5, <1>6 DEF Stored

(* Every variable keeps its type, who holds a list has the lock, and one   *)
(* works on requests that are listed.                                      *)
THEOREM DispatchTypes == Spec => []TypeOK
<1>1. Stored => TypeOK
    <2> SUFFICES ASSUME Stored PROVE TypeOK
        OBVIOUS
    <2>1. \A p \in Procs : got[p] # None => lock = p
        BY DEF Stored, Shape, Held
    <2>2. \A p \in Procs : \A r \in mine[p] : file[r] # None \/ engine[r] # None
        <3>1. \A p \in Procs : mine[p] \subseteq Requests
            BY DEF Stored, Shape, Types
        <3> QED BY <3>1 DEF Stored, Backed, Source
    <2> QED BY <2>1, <2>2 DEF TypeOK, Stored, Shape, Types
<1> QED BY <1>1, StoredInit, StoredNext, PTL DEF Spec

-----------------------------------------------------------------------------
(* What is said to be notified or delivered was sent: in every list that   *)
(* is kept or has been read.                                               *)
Sent(r) == injected[r] > 0 \/ r \in told

Tells(list) ==
    \A r \in Requests :
       list[r] # None /\ list[r].status \in {"notified", "delivered"} => Sent(r)

Sending == {"markRead", "markExec", "mark", "marking"}

ClientSent(c) == pc[c] \in Sending => mine[c] \subseteq told

HookSent(h) == tried[h] # None /\ tried[h][2] = "confirmed" => injected[tried[h][1]] > 0

Senders == (\A c \in Clients : ClientSent(c)) /\ (\A h \in Hooks : HookSent(h))

AllTell == /\ Tells(file) /\ Tells(engine) /\ (view # None => Tells(view))
           /\ \A p \in Procs : got[p] # None => Tells(got[p])

SendsGrow == told \subseteq told' /\ \A r \in Requests : injected'[r] >= injected[r]

(* A step of one process that keeps what it has sent in mind.              *)
SendStep(p) ==
    /\ SendsGrow
    /\ \A c \in Clients \ {p} : pc'[c] = pc[c] /\ mine'[c] = mine[c]
    /\ \A h \in Hooks \ {p} : tried'[h] = tried[h]
    /\ p \in Clients => ClientSent(p)'
    /\ p \in Hooks => HookSent(p)'

Unsent == SendsGrow /\ UNCHANGED <<pc, mine, tried>>

(* Who sends nothing loses nothing that was sent.                          *)
LEMMA NothingSent == ASSUME Shape, told' = told, injected' = injected PROVE SendsGrow
BY DispatchAssumption DEF Shape, Types, SendsGrow

(* A client marks a request only after it has sent the trigger.            *)
LEMMA ClientSends == ASSUME Shape, Senders, NEW c \in Clients, Client(c) PROVE SendStep(c)
<1>0. /\ c \in Procs /\ c \notin Hooks /\ ClientSent(c)
      /\ pc \in [Procs -> {"idle", "dead"} \cup ClientSteps \cup HookSteps]
      /\ mine \in [Procs -> SUBSET Requests]
    BY DispatchAssumption DEF Procs, Senders, Shape, Types
<1>1. CASE Queue(c)
    <2>1. UNCHANGED <<tried, told, injected>>
        BY <1>1 DEF Queue
    <2>2. \E q \in {"idle", "wait", "notify"}, S \in SUBSET Requests :
              pc' = [pc EXCEPT ![c] = q] /\ mine' = [mine EXCEPT ![c] = S]
        <3>1. CASE Deduped(c)
            BY <3>1, Zenon DEF Deduped, EquivalentPending, Goto, Done
        <3>2. CASE Queued(c)
            BY <3>2, Zenon DEF Queued, Goto
        <3>3. CASE NoId(c)
            BY <3>3, Zenon DEF NoId, Goto, Done
        <3> QED BY <1>1, <3>1, <3>2, <3>3 DEF Queue
    <2> QED BY <1>0, <2>1, <2>2, NothingSent DEF SendStep, ClientSent, Sending, Procs
<1>2. CASE Receipt(c)
    <2>1. told \subseteq told' /\ UNCHANGED <<tried, injected>>
        BY <1>2 DEF Receipt
    <2>2. SendsGrow
        BY <2>1, DispatchAssumption DEF SendsGrow, Shape, Types
    <2>3. \E q \in {"idle", "notify", "patchRead", "fail"} : pc' = [pc EXCEPT ![c] = q]
        BY <1>2, Zenon DEF Receipt, Done, Goto
    <2>4. \/ mine' = mine
          \/ mine' = [mine EXCEPT ![c] = {}]
        BY <1>2 DEF Receipt, Done
    <2> QED BY <1>0, <2>1, <2>2, <2>3, <2>4 DEF SendStep, ClientSent, Sending, Procs
<1>3. CASE ReceiptTimeout(c)
    BY <1>0, <1>3, NothingSent DEF ReceiptTimeout, Goto, SendStep, ClientSent, Sending, Procs
<1>4. CASE Notify(c)
    <2>1. told \subseteq told' /\ UNCHANGED <<tried, injected, mine>>
        BY <1>4 DEF Notify
    <2>2. SendsGrow
        BY <2>1, DispatchAssumption DEF SendsGrow, Shape, Types
    <2>3. \/ pc' = [pc EXCEPT ![c] = "markRead"] /\ mine[c] \subseteq told'
          \/ pc' = [pc EXCEPT ![c] = "failRead"]
        BY <1>4 DEF Notify, Goto
    <2> QED BY <1>0, <2>1, <2>2, <2>3 DEF SendStep, ClientSent, Sending, Procs
<1>5. CASE MarkRead(c) \/ MarkExec(c) \/ Mark(c)
    <2>1. UNCHANGED <<tried, told, injected>> /\ pc[c] \in Sending
        BY <1>5 DEF MarkRead, MarkExec, Mark, Sending
    <2>2. \/ pc' = [pc EXCEPT ![c] = "idle"] /\ mine' = [mine EXCEPT ![c] = {}]
          \/ mine' = mine /\ pc' = [pc EXCEPT ![c] = "patchRead"]
          \/ mine' = mine /\ pc' = [pc EXCEPT ![c] = "markExec"]
          \/ mine' = mine /\ pc' = [pc EXCEPT ![c] = "mark"]
        BY <1>5 DEF MarkRead, MarkExec, Mark, NotMarked, Done, Goto
    <2> QED BY <1>0, <2>1, <2>2, NothingSent DEF SendStep, ClientSent, Sending, Procs
<1>6. CASE FailRead(c) \/ Fail(c)
    <2>1. UNCHANGED <<tried, told, injected>>
        BY <1>6 DEF FailRead, Fail
    <2>2. \/ pc' = [pc EXCEPT ![c] = "idle"] /\ mine' = [mine EXCEPT ![c] = {}]
          \/ mine' = mine /\ pc' = [pc EXCEPT ![c] = "fail"]
        BY <1>6 DEF FailRead, Fail, Done, Goto
    <2> QED BY <1>0, <2>1, <2>2, NothingSent DEF SendStep, ClientSent, Sending, Procs
<1> QED BY <1>1, <1>2, <1>3, <1>4, <1>5, <1>6 DEF Client

(* A hook has a confirmed outcome only of what it has typed.               *)
LEMMA HookSends == ASSUME Shape, Senders, NEW h \in Hooks, Hook(h) PROVE SendStep(h)
<1>0. /\ h \in Procs /\ h \notin Clients /\ HookSent(h)
      /\ pc \in [Procs -> {"idle", "dead"} \cup ClientSteps \cup HookSteps]
      /\ mine \in [Procs -> SUBSET Requests] /\ tried \in [Hooks -> (Requests \X Results) \cup {None}]
    BY DispatchAssumption DEF Procs, Senders, Shape, Types
<1>1. CASE Claim(h)
    <2>1. /\ UNCHANGED <<tried, told, injected>>
          /\ \E q \in {"idle", "inject"} : pc' = [pc EXCEPT ![h] = q]
          /\ \E S \in SUBSET Claimable(h) : mine' = [mine EXCEPT ![h] = S]
        BY <1>1, Zenon DEF Claim, Goto
    <2> QED BY <1>0, <2>1, NothingSent DEF SendStep, HookSent, Procs
<1>2. CASE Inject(h)
    <2>1. PICK r \in mine[h], result \in Results :
          /\ injected' = IF result = "error" THEN injected ELSE [injected EXCEPT ![r] = @ + 1]
          /\ tried' = [tried EXCEPT ![h] = <<r, result>>]
          /\ Goto(h, "result")
        BY <1>2 DEF Inject
    <2>2. r \in Requests /\ injected \in [Requests -> Nat] /\ told' = told /\ mine' = mine
        BY <1>0, <1>2, DispatchAssumption DEF Shape, Types, Inject
    <2>3. SendsGrow /\ (result = "confirmed" => injected'[r] > 0)
        BY <2>1, <2>2 DEF SendsGrow
    <2>4. HookSent(h)'
        BY <1>0, <2>1, <2>3 DEF HookSent
    <2> QED BY <1>0, <2>1, <2>2, <2>3, <2>4 DEF SendStep, Goto, Procs
<1>3. CASE Finalize(h)
    <2>1. /\ UNCHANGED <<told, injected>>
          /\ tried' = [tried EXCEPT ![h] = None]
          /\ \E q \in {"idle", "inject"} : pc' = [pc EXCEPT ![h] = q]
          /\ mine' = [mine EXCEPT ![h] = mine[h] \ {tried[h][1]}]
        BY <1>3, Zenon DEF Finalize, Finished, Goto
    <2> QED BY <1>0, <2>1, NothingSent DEF SendStep, HookSent, Procs
<1> QED BY <1>1, <1>2, <1>3 DEF Hook

(* Every step is such a step of one process, or sends nothing.             *)
LEMMA SendSteps ==
    ASSUME Shape, Senders, [Next]_vars
    PROVE  Unsent \/ \E p \in Procs : SendStep(p)
<1>1. CASE UNCHANGED vars \/ OtherExec
    BY <1>1, NothingSent DEF vars, OtherExec, Unsent
<1>2. ASSUME NEW h \in Hooks, Outlasted(h) PROVE Unsent
    BY <1>2, NothingSent DEF Outlasted, Unsent
<1>3. ASSUME NEW c \in Clients, NEW k \in Keys, NEW hook \in BOOLEAN, Start(c, k, hook)
      PROVE  SendStep(c)
    <2>1. pc' = [pc EXCEPT ![c] = "enqueue"] /\ UNCHANGED <<mine, tried, told, injected>>
        BY <1>3 DEF Start, Goto
    <2> QED BY <2>1, NothingSent, DispatchAssumption
            DEF SendStep, ClientSent, Sending, Procs, Shape, Types
<1>4. ASSUME NEW p \in Procs, Enters(p) PROVE SendStep(p)
    <2>1. /\ UNCHANGED <<mine, tried, told, injected>>
          /\ \/ pc' = [pc EXCEPT ![p] = "marking"] /\ pc[p] = "mark"
             \/ \E q \in {"queue", "failing", "claim", "finalizing"} : pc' = [pc EXCEPT ![p] = q]
        BY <1>4 DEF Enters, Enter, Goto
    <2> QED BY <2>1, NothingSent
            DEF SendStep, ClientSent, HookSent, Sending, Procs, Shape, Types, Senders
<1>5. ASSUME NEW p \in Procs, GiveUp(p) \/ Crash(p) \/ Recover(p) PROVE SendStep(p)
    <2>1. /\ UNCHANGED <<told, injected>>
          /\ \E q \in {"idle", "dead"} : pc' = [pc EXCEPT ![p] = q]
          /\ \/ mine' = mine
             \/ mine' = [mine EXCEPT ![p] = {}]
        BY <1>5 DEF GiveUp, Crash, Recover, Done, Goto
    <2>2. \/ tried' = tried
          \/ p \in Hooks /\ tried' = [tried EXCEPT ![p] = None]
        BY <1>5 DEF GiveUp, Crash, Recover, Procs
    <2>3. (p \in Clients => ClientSent(p)') /\ (p \in Hooks => HookSent(p)')
        BY <2>1, <2>2 DEF ClientSent, HookSent, Sending, Shape, Types, Senders
    <2>4. \A o \in Procs \ {p} : pc'[o] = pc[o] /\ mine'[o] = mine[o]
        BY <2>1 DEF Shape, Types
    <2>5. \A h \in Hooks \ {p} : tried'[h] = tried[h]
        BY <2>2 DEF Shape, Types
    <2> QED BY <2>1, <2>3, <2>4, <2>5, NothingSent DEF SendStep, Procs
<1> QED BY <1>1, <1>2, <1>3, <1>4, <1>5, ClientSends, HookSends DEF Next, Procs

(* Who is about to mark a request has sent it, at every step.              *)
LEMMA SendersKeep == ASSUME Shape, Senders, [Next]_vars PROVE Senders' /\ SendsGrow
<1>0. injected \in [Requests -> Nat] /\ injected' \in [Requests -> Nat]
    BY ShapeNext, DispatchAssumption DEF Shape, Types
<1>1. SendsGrow
    BY SendSteps DEF Unsent, SendStep
<1>2. ASSUME NEW c \in Clients PROVE ClientSent(c)'
    <2>1. \/ pc'[c] = pc[c] /\ mine'[c] = mine[c]
          \/ ClientSent(c)'
        BY SendSteps DEF Unsent, SendStep
    <2> QED BY <1>1, <2>1 DEF SendsGrow, Senders, ClientSent
<1>3. ASSUME NEW h \in Hooks PROVE HookSent(h)'
    <2>1. \/ tried'[h] = tried[h]
          \/ HookSent(h)'
        BY SendSteps DEF Unsent, SendStep
    <2>2. tried[h] # None => tried[h][1] \in Requests
        BY DEF Shape, Types
    <2> QED BY <1>0, <1>1, <2>1, <2>2 DEF SendsGrow, Senders, HookSent
<1> QED BY <1>1, <1>2, <1>3 DEF Senders

(* The same of a list, said of the state after the step.                   *)
TellsThen(list) ==
    \A r \in Requests :
       list[r] # None /\ list[r].status \in {"notified", "delivered"} => Sent(r)'

(* What was sent stays sent, and one more record that tells the truth does *)
(* no harm.                                                                *)
LEMMA TellsOn ==
    ASSUME Shape, [Next]_vars, SendsGrow, NEW list \in List, Tells(list)
    PROVE  /\ TellsThen(list)
           /\ \A r \in Requests, v \in Record :
                 (v.status \in {"notified", "delivered"} => Sent(r)')
                    => TellsThen([list EXCEPT ![r] = v])
<1>1. injected \in [Requests -> Nat] /\ injected' \in [Requests -> Nat]
    BY ShapeNext, DispatchAssumption DEF Shape, Types
<1>2. \A r \in Requests : Sent(r) => Sent(r)'
    BY <1>1 DEF SendsGrow, Sent
<1> QED BY <1>2 DEF Tells, TellsThen, List

TellInv == Stored /\ Senders /\ AllTell

(* No step makes a list say what is not so.                                *)
LEMMA TellNext == ASSUME TellInv, [Next]_vars PROVE TellInv'
<1>1. Shape /\ Senders /\ AllTell /\ Stored'
    BY StoredNext DEF TellInv, Stored
<1>2. Senders' /\ SendsGrow
    BY <1>1, SendersKeep
<1>3. file \in List /\ engine \in List /\ view \in List \cup {None} /\ got \in [Procs -> List \cup {None}]
    BY <1>1 DEF Shape, Types
<1>4. ASSUME NEW list \in List, Tells(list), NEW r \in Requests, NEW v \in Record,
             v.status \in {"notified", "delivered"} => Sent(r)'
      PROVE  TellsThen([list EXCEPT ![r] = v])
    BY <1>1, <1>2, <1>4, TellsOn
<1>5. /\ TellsThen(file) /\ TellsThen(engine) /\ (view # None => TellsThen(view))
      /\ \A p \in Procs : got[p] # None => TellsThen(got[p])
    BY <1>1, <1>2, <1>3, TellsOn DEF AllTell
<1>6. ASSUME NEW r \in Requests, NEW to \in Statuses, EngineAccepts(r, to),
             to \in {"notified", "delivered"} => Sent(r)'
      PROVE  TellsThen(Logged(r, to))
    <2>1. PICK w \in Record : w.status = to /\ Logged(r, to) = [engine EXCEPT ![r] = w]
        <3> DEFINE w == [engine[r] EXCEPT !.status = to]
        <3>1. engine[r] \in Record /\ w \in Record /\ Logged(r, to) = [engine EXCEPT ![r] = w]
            BY <1>1, <1>6, LoggedMade
        <3>2. w.status = to
            BY <3>1 DEF Record
        <3> HIDE DEF w
        <3> QED BY <3>1, <3>2
    <2>2. Tells(engine) /\ engine \in List
        BY <1>1, <1>3 DEF AllTell
    <2>3. TellsThen([engine EXCEPT ![r] = w])
        BY <1>4, <1>6, <2>1, <2>2
    <2> QED BY <2>1, <2>3
<1>7. Clients \subseteq Procs /\ Hooks \subseteq Procs
    BY DEF Procs
<1> DEFINE Goal == TellsThen(file') /\ TellsThen(engine') /\ (view' # None => TellsThen(view'))
<1>8. Goal
    <2>1. CASE UNCHANGED store
        BY <1>5, <2>1 DEF store
    <2>2. ASSUME NEW c \in Clients, NEW r \in Requests, NEW v \in Record, Writes(c), Adds(c, r, v)
          PROVE  Goal
        <3>1. Tells(got[c]) /\ v.status \notin {"notified", "delivered"}
            BY <1>1, <1>7, <2>2 DEF AllTell, Writes, Adds, NewRequest
        <3>2. TellsThen([got[c] EXCEPT ![r] = v]) /\ TellsThen([engine EXCEPT ![r] = v])
            BY <1>1, <1>3, <1>4, <2>2, <3>1 DEF AllTell, Writes
        <3> QED BY <1>5, <2>2, <3>2 DEF Adds, Exec, WriteList
    <2>3. ASSUME NEW c \in Clients, NEW r \in Requests, NEW to \in Statuses,
                 Writes(c), Transits(c, r, to)
          PROVE  Goal
        <3>1. Tells(got[c]) /\ got[c] \in List
            BY <1>1, <1>7, <2>3 DEF AllTell, Writes
        <3>2. Moved(got[c][r], to).status = to
            BY <2>3 DEF Transits, Moved, Record
        <3>3. to = "notified" => Sent(r)'
            BY <1>1, <1>2, <2>3 DEF Transits, Senders, ClientSent, Sending, SendsGrow, Sent
        <3>4. TellsThen([got[c] EXCEPT ![r] = Moved(got[c][r], to)])
            BY <1>4, <2>3, <3>1, <3>2, <3>3 DEF Transits
        <3> QED BY <1>5, <2>3, <3>4 DEF Transits, WriteList
    <2>4. ASSUME NEW c \in Clients, NEW r \in Requests, Marks(c, r) PROVE Goal
        <3>1. Sent(r)'
            BY <1>1, <1>2, <2>4 DEF Marks, Senders, ClientSent, Sending, SendsGrow, Sent
        <3> QED BY <1>5, <1>6, <2>4, <3>1 DEF Marks, Exec, Statuses
    <2>5. ASSUME NEW h \in Hooks, NEW r \in Requests, NEW result \in Results,
                 Writes(h), Concludes(h, r, result)
          PROVE  Goal
        <3>1. Tells(got[h]) /\ got[h] \in List
            BY <1>1, <1>7, <2>5 DEF AllTell, Writes
        <3> DEFINE new == Outcome(got[h][r], result)
        <3>2. /\ new.status \in Statuses
              /\ new.status \in {"notified", "delivered"} => result = "confirmed"
            BY <2>5 DEF Concludes, Outcome, Record, Statuses
        <3>3. result = "confirmed" => Sent(r)'
            <4>1. tried[h][1] = r /\ tried[h][2] = result /\ tried[h] # None
                BY <2>5, DispatchAssumption DEF Concludes
            <4>2. injected[r] \in Nat /\ injected'[r] \in Nat
                BY <1>1, ShapeNext, DispatchAssumption DEF Shape, Types
            <4> QED BY <1>1, <1>2, <4>1, <4>2 DEF Senders, HookSent, SendsGrow, Sent
        <3>4. /\ WriteList([got[h] EXCEPT ![r] = new]) /\ new \in Record
              /\ engine' = IF Bridge /\ EngineAccepts(r, new.status)
                           THEN Logged(r, new.status) ELSE engine
            BY <2>5 DEF Concludes
        <3> HIDE DEF new
        <3>5. TellsThen([got[h] EXCEPT ![r] = new])
            BY <1>4, <3>1, <3>2, <3>3, <3>4
        <3>6. TellsThen(engine')
            BY <1>5, <1>6, <3>2, <3>3, <3>4
        <3> QED BY <1>5, <3>4, <3>5, <3>6 DEF WriteList
    <2>6. ASSUME NEW h \in Hooks, Writes(h), Rewrites(h) PROVE Goal
        BY <1>5, <1>7, <2>6 DEF Rewrites, WriteList, Writes
    <2>7. ASSUME NEW h \in Hooks, NEW r \in Requests, Delivers(h, r) PROVE Goal
        <3>1. Sent(r)'
            BY <2>7 DEF Delivers, Sent
        <3> QED BY <1>5, <1>6, <2>7, <3>1 DEF Delivers, Exec, Statuses
    <2>8. CASE Exec(engine) /\ file' = file
        BY <1>5, <2>8 DEF Exec
    <2> QED BY <1>1, <2>1, <2>2, <2>3, <2>4, <2>5, <2>6, <2>7, <2>8, StoreSteps DEF StoreStep
<1>9. \A p \in Procs : got'[p] # None => TellsThen(got'[p])
    <2>1. TellsThen(Listed)
        BY <1>5 DEF Listed
    <2> QED BY <1>1, <1>3, <1>5, <2>1, ReadSteps DEF GotStep
<1>10. AllTell'
    BY <1>8, <1>9 DEF AllTell, Tells, TellsThen
<1> QED BY <1>1, <1>2, <1>10 DEF TellInv

(* A request is marked notified or delivered only when its trigger was     *)
(* sent, with and without the bridge.                                      *)
THEOREM OnlySentIsNotified == Spec => []NotifiedWasSent
<1>1. Init => TellInv
    <2> SUFFICES ASSUME Init PROVE Senders /\ AllTell
        BY StoredInit DEF TellInv
    <2>1. Senders
        BY DEF Init, Senders, ClientSent, HookSent, Sending, Procs
    <2>2. AllTell
        BY DEF Init, AllTell, Tells, NoList
    <2> QED BY <2>1, <2>2
<1>2. TellInv => NotifiedWasSent
    <2> SUFFICES ASSUME TellInv, NEW r \in Requests, StatusOf(r) \in {"notified", "delivered"}
                 PROVE  Sent(r)
        BY DEF NotifiedWasSent, Sent
    <2>1. Tells(Listed)
        BY DEF TellInv, AllTell, Listed
    <2>2. Listed[r] # None /\ Listed[r].status \in {"notified", "delivered"}
        BY DispatchAssumption DEF StatusOf, Statuses
    <2> QED BY <2>1, <2>2 DEF Tells
<1>3. TellInv /\ [Next]_vars => TellInv'
    BY TellNext
<1> QED BY <1>1, <1>2, <1>3, PTL DEF Spec

-----------------------------------------------------------------------------
(* Without the bridge the list is one file, rewritten as a whole under the *)
(* lock by who has read all of it.                                         *)

(* A transition moves a status along the table and keeps the rest.         *)
LEMMA MovedHow ==
    ASSUME NEW v \in Record, NEW a, NEW to \in {"notified", "failed"}, Movable(v, a, to)
    PROVE  /\ Moved(v, to).status = to /\ Moved(v, to).key = v.key
           /\ Moved(v, to).hook = v.hook
           /\ MayMove(v.status, to)
BY DEF Moved, Movable, Record

(* So does the outcome of an injection, of a pending request.              *)
LEMMA OutcomeHow ==
    ASSUME NEW v \in Record, NEW result \in Results, v.status = "pending"
    PROVE  /\ Outcome(v, result).key = v.key /\ Outcome(v, result).hook = v.hook
           /\ Outcome(v, result).status \in {"pending", "notified", "failed"}
           /\ MayMove("pending", Outcome(v, result).status)
<1>1. \/ Outcome(v, result) = [[v EXCEPT !.attempts = @ + 1] EXCEPT !.status = "notified"]
      \/ Outcome(v, result) = [[v EXCEPT !.attempts = @ + 1] EXCEPT !.status = "failed"]
      \/ Outcome(v, result) = [v EXCEPT !.attempts = @ + 1]
    BY DEF Outcome
<1> QED BY <1>1 DEF Record, MayMove, Moves

OnePending == \A r, s \in Requests :
    (/\ file[r] # None /\ file[r].status = "pending"
     /\ file[s] # None /\ file[s].status = "pending"
     /\ file[r].key = file[s].key) => r = s

(* Two ways to say the same, without the bridge.                           *)
LEMMA OneKey == ASSUME ~Bridge, Stored PROVE OnePending <=> OnePendingPerKey
<1>1. Listed = file
    BY DEF Listed
<1>2. \A r \in Requests : file[r] # None => file[r].key \in Keys
    BY DEF Stored, Shape, Types, List, Record
<1> QED BY <1>1, <1>2 DEF OnePending, OnePendingPerKey, EquivalentPending

(* One record of the file changes, its key does not.                       *)
LEMMA FileMoves ==
    ASSUME Stored, ~Bridge, [Next]_vars
    PROVE  \/ file' = file
           \/ \E r \in Requests, v \in Record :
                 /\ file' = [file EXCEPT ![r] = v]
                 /\ IF file[r] = None
                    THEN EquivalentPending(file, v.key) = {}
                    ELSE /\ file[r].key = v.key /\ file[r].hook = v.hook
                         /\ MayMove(file[r].status, v.status)
<1>1. FileStep
    BY FileSteps DEF Stored
<1>2. ASSUME NEW c \in Clients, NEW r \in Requests, NEW to \in {"notified", "failed"},
             file[r] \in Record, Movable(file[r], from[c], to)
      PROVE  /\ file[r].key = Moved(file[r], to).key /\ file[r].hook = Moved(file[r], to).hook
             /\ MayMove(file[r].status, Moved(file[r], to).status)
    BY <1>2, MovedHow
<1>3. ASSUME NEW r \in Requests, NEW result \in Results, file[r] \in Record,
             file[r].status = "pending"
      PROVE  /\ file[r].key = Outcome(file[r], result).key
             /\ file[r].hook = Outcome(file[r], result).hook
             /\ MayMove(file[r].status, Outcome(file[r], result).status)
    BY <1>3, OutcomeHow
<1>4. \A v \in Record : v # None
    BY RecordsMade
<1> QED BY <1>1, <1>2, <1>3, <1>4 DEF FileStep, NewRequest

(* A new request is added when none of its key is pending, and nothing     *)
(* becomes pending again.                                                  *)
LEMMA OnePendingNext == ASSUME ~Bridge, Stored, OnePending, [Next]_vars PROVE OnePending'
<1>1. CASE file' = file
    BY <1>1 DEF OnePending
<1>2. ASSUME NEW x \in Requests, NEW v \in Record,
             file' = [file EXCEPT ![x] = v],
             IF file[x] = None
             THEN EquivalentPending(file, v.key) = {}
             ELSE file[x].key = v.key /\ MayMove(file[x].status, v.status)
      PROVE  OnePending'
    <2>1. file \in List
        BY DEF Stored, Shape, Types
    <2>2. file[x] # None /\ v.status = "pending" => file[x].status = "pending" /\ file[x].key = v.key
        BY <1>2, <2>1 DEF MayMove, Moves, List, Record, Statuses
    <2> QED BY <1>2, <2>1, <2>2 DEF OnePending, EquivalentPending, List
<1> QED BY <1>1, <1>2, FileMoves

(* Two calls about the same thing never leave two pending requests for it. *)
THEOREM OnePendingRequest == ~Bridge /\ Spec => []OnePendingPerKey
<1> SUFFICES ASSUME ~Bridge PROVE Spec => []OnePendingPerKey
    OBVIOUS
<1>1. Init => Stored /\ OnePending
    <2> SUFFICES ASSUME Init PROVE OnePending
        BY StoredInit
    <2> QED BY DEF Init, OnePending, NoList
<1>2. Stored /\ OnePending /\ [Next]_vars => (Stored /\ OnePending)'
    BY StoredNext, OnePendingNext
<1>3. Stored /\ OnePending => OnePendingPerKey
    BY OneKey
<1> QED BY <1>1, <1>2, <1>3, PTL DEF Spec

(* A listed request stays listed, and its status moves along the table.    *)
THEOREM StatusesMove == ~Bridge /\ Spec => StatusMoves
<1> SUFFICES ASSUME ~Bridge PROVE Spec => StatusMoves
    OBVIOUS
<1>1. ASSUME Stored, [Next]_vars, NEW r \in Requests, Listed[r] # None
      PROVE  Listed'[r] # None /\ MayMove(Listed[r].status, Listed'[r].status)
    <2>1. Listed = file /\ Listed' = file'
        BY DEF Listed
    <2>2. file \in List
        BY <1>1 DEF Stored, Shape, Types
    <2>3. \A v \in Record : v # None
        BY RecordsMade
    <2> QED BY <1>1, <2>1, <2>2, <2>3, FileMoves DEF List, MayMove
<1>2. Stored /\ [Next]_vars
        => [\A r \in Requests :
               Listed[r] # None => /\ Listed'[r] # None
                                   /\ MayMove(Listed[r].status, Listed'[r].status)]_vars
    BY <1>1
<1> QED BY <1>2, StoredInit, StoredNext, PTL DEF Spec, StatusMoves

-----------------------------------------------------------------------------
(* How often a request was typed, against the attempts that are written:   *)
(* one more while a hook has typed it and not written so, and one more for *)
(* every crash.  While the lock is stuck with a dead process, the crash has*)
(* not been used up by the hook that works on the request.                 *)
Flying(r) == \E h \in Hooks : tried[h] # None /\ tried[h][1] = r /\ tried[h][2] # "error"

Works(r) == \E h \in Hooks : r \in mine[h]

Open(r) == \E h \in Hooks : r \in mine[h] /\ (tried[h] = None \/ tried[h][1] # r)

Stuck == lock # None /\ pc[lock] = "dead"

Excused == crashes + timeouts

OneIf(b) == IF b THEN 1 ELSE 0

Limited(r) ==
    /\ file[r] = None => injected[r] = 0
    /\ file[r] # None =>
          IF file[r].status = "pending"
          THEN /\ file[r].attempts < MaxUnconfirmed
               /\ injected[r] + OneIf(Stuck /\ Works(r))
                     <= file[r].attempts + OneIf(Flying(r)) + Excused
          ELSE injected[r] + OneIf(Open(r)) <= MaxUnconfirmed + Excused

(* A hook works on requests for the hooks.                                 *)
ForHooks == \A h \in Hooks : \A r \in mine[h] : file[r].hook

BoundInv == /\ Stored /\ OneHookPerRequest /\ ForHooks
            /\ \A r \in Requests : Limited(r)

(* The numbers are numbers; a request that is flying is worked on, by who  *)
(* has typed it and by nobody else.                                        *)
LEMMA Counts ==
    ASSUME Shape, NEW r \in Requests
    PROVE  /\ injected[r] \in Nat /\ Excused \in Nat
           /\ file[r] # None => file[r] \in Record /\ file[r].attempts \in Nat
           /\ Flying(r) => Works(r) /\ (OneHookPerRequest => ~Open(r))
<1>1. /\ injected[r] \in Nat /\ Excused \in Nat
      /\ file[r] # None => file[r] \in Record /\ file[r].attempts \in Nat
    BY DispatchAssumption DEF Shape, Types, List, Record, Excused
<1>2. ASSUME NEW h \in Hooks, tried[h] # None, tried[h][1] = r, tried[h][2] # "error"
      PROVE  r \in mine[h]
    BY <1>2 DEF Shape, Posts, HookPost
<1>3. ASSUME Flying(r), OneHookPerRequest, Open(r) PROVE FALSE
    <2>1. PICK h \in Hooks : tried[h] # None /\ tried[h][1] = r /\ r \in mine[h]
        BY <1>2, <1>3 DEF Flying
    <2>2. PICK g \in Hooks : r \in mine[g] /\ (tried[g] = None \/ tried[g][1] # r)
        BY <1>3 DEF Open
    <2>3. g # h
        BY <2>1, <2>2
    <2> QED BY <1>3, <2>1, <2>2, <2>3 DEF OneHookPerRequest
<1> QED BY <1>1, <1>2, <1>3 DEF Flying, Works

(* The hooks' work on a request stays as it is.                            *)
LEMMA HooksRest ==
    ASSUME \A h \in Hooks : mine'[h] = mine[h] /\ tried'[h] = tried[h], NEW r
    PROVE  (Flying(r)' <=> Flying(r)) /\ (Works(r)' <=> Works(r)) /\ (Open(r)' <=> Open(r))
BY DEF Flying, Works, Open

(* A step outside of the file: nobody starts to work on the request, and   *)
(* a lock is stuck only by a crash.                                        *)
LEMMA LimitKept ==
    ASSUME Shape, Shape', NEW r \in Requests, Limited(r),
           file'[r] = file[r], injected'[r] = injected[r],
           Flying(r)' <=> Flying(r), Works(r)' => Works(r), Open(r)' => Open(r),
           \/ Excused' = Excused /\ (Stuck' => Stuck)
           \/ Excused' = Excused + 1
    PROVE  Limited(r)'
<1>1. injected[r] \in Nat /\ Excused \in Nat /\ (file[r] # None => file[r].attempts \in Nat)
    BY Counts
<1>2. OneIf(Flying(r))' = OneIf(Flying(r)) /\ OneIf(Flying(r)) \in {0, 1}
    BY DEF OneIf
<1>3. /\ OneIf(Open(r)) \in {0, 1} /\ OneIf(Open(r))' \in {0, 1}
      /\ OneIf(Open(r))' <= OneIf(Open(r))
    BY DEF OneIf
<1>4. /\ OneIf(Stuck /\ Works(r)) \in {0, 1} /\ OneIf(Stuck /\ Works(r))' \in {0, 1}
      /\ Excused' = Excused => OneIf(Stuck /\ Works(r))' <= OneIf(Stuck /\ Works(r))
      /\ Excused' \in {Excused, Excused + 1}
    BY <1>1 DEF OneIf
<1> HIDE DEF OneIf
<1> QED BY <1>1, <1>2, <1>3, <1>4 DEF Limited, MaxUnconfirmed

(* A client adds a request or settles it.                                  *)
LEMMA ClientLimits ==
    ASSUME BoundInv, ~Bridge, NEW c \in Clients, Client(c), NEW r \in Requests
    PROVE  Limited(r)'
<1>0. /\ Shape /\ OneSource /\ Limited(r) /\ OneHookPerRequest
      /\ c \in Procs /\ c \notin Hooks /\ None \notin Procs
    BY DispatchAssumption DEF BoundInv, Stored, Procs
<1>1. [Next]_vars
    BY DEF Next
<1>2. Shape' /\ FileStep
    BY <1>0, <1>1, ShapeNext, FileSteps
<1>3. UNCHANGED injected /\ Excused' = Excused
    <2>1. UNCHANGED <<injected, crashes, timeouts>>
        BY DEF Client, Queue, Receipt, ReceiptTimeout, Notify, MarkRead, MarkExec, Mark, FailRead, Fail
    <2> QED BY <2>1 DEF Excused
<1>4. UNCHANGED tried /\ \E S : mine' = [mine EXCEPT ![c] = S]
    <2>1. mine = [mine EXCEPT ![c] = mine[c]]
        BY <1>0 DEF Shape, Types
    <2>2. CASE Queue(c)
        BY <2>2, Zenon DEF Queue, Deduped, Queued, NoId, Done
    <2>3. CASE Mark(c) \/ MarkRead(c) \/ MarkExec(c)
        BY <2>1, <2>3 DEF Mark, MarkRead, MarkExec, NotMarked, Done
    <2>4. CASE Fail(c) \/ FailRead(c) \/ Receipt(c) \/ ReceiptTimeout(c) \/ Notify(c)
        BY <2>1, <2>4 DEF Fail, FailRead, Receipt, ReceiptTimeout, Notify, Done
    <2> QED BY <2>2, <2>3, <2>4 DEF Client
<1>5. (Flying(r)' <=> Flying(r)) /\ (Works(r)' <=> Works(r)) /\ (Open(r)' <=> Open(r))
    <2>1. \A h \in Hooks : mine'[h] = mine[h] /\ tried'[h] = tried[h]
        BY <1>0, <1>4 DEF Shape, Types, Procs
    <2> QED BY <2>1, HooksRest
<1>6. (lock' = lock \/ lock' = None) /\ (Stuck' => Stuck) /\ pc[c] # "dead"
    <2>1. \/ UNCHANGED lock
          \/ Leave(c)
        BY DEF Client, Queue, Receipt, ReceiptTimeout, Notify, MarkRead, MarkExec, Mark, FailRead,
               Fail, section
    <2>2. \E q \in {"idle"} \cup ClientSteps : pc' = [pc EXCEPT ![c] = q]
        <3>1. CASE Queue(c)
            BY <3>1, Zenon DEF Queue, Deduped, Queued, NoId, Done, Goto, ClientSteps
        <3>2. CASE Mark(c) \/ MarkRead(c) \/ MarkExec(c)
            BY <3>2 DEF Mark, MarkRead, MarkExec, NotMarked, Done, Goto, ClientSteps
        <3>3. CASE Fail(c) \/ FailRead(c) \/ Receipt(c) \/ ReceiptTimeout(c) \/ Notify(c)
            BY <3>3 DEF Fail, FailRead, Receipt, ReceiptTimeout, Notify, Done, Goto, ClientSteps
        <3> QED BY <3>1, <3>2, <3>3 DEF Client
    <2>3. pc[c] # "dead"
        BY DEF Client, Queue, Receipt, ReceiptTimeout, Notify, MarkRead, MarkExec, Mark, FailRead, Fail
    <2> QED BY <1>0, <2>1, <2>2, <2>3 DEF Stuck, Leave, Shape, Types, ClientSteps
<1>7. CASE file'[r] = file[r]
    BY <1>0, <1>2, <1>3, <1>5, <1>6, <1>7, LimitKept
<1>8. CASE file'[r] # file[r]
    <2>1. \A h \in Hooks : ~Writes(h)
        <3>1. \/ got' = got
              \/ Leave(c)
            BY DEF Client, Queue, Receipt, ReceiptTimeout, Notify, MarkRead, MarkExec, Mark, FailRead,
                   Fail, section
        <3> QED BY <1>0, <3>1 DEF Writes, Leave, Shape, Types, Procs
    <2>2. ~Stuck'
        <3>1. Writes(c) \/ \E o \in Clients \ {c} : Writes(o)
            BY <1>2, <1>8, <2>1 DEF FileStep
        <3>2. lock \in Clients
            BY <3>1 DEF Writes
        <3>3. lock # c => lock' = lock /\ got'[lock] = got[lock] /\ lock \in Procs
            BY <3>2, <1>0 DEF Client, Queue, Receipt, ReceiptTimeout, Notify, MarkRead, MarkExec,
                  Mark, FailRead, Fail, section, Leave, Shape, Types, Procs
        <3>4. ~Stuck
            BY <3>1, <1>0 DEF Stuck, Writes, Shape, Held, InLock, Procs
        <3> QED BY <1>6, <3>4
    <2>3. CASE file[r] = None
        <3>1. PICK v : NewRequest(v) /\ file'[r] = v
            BY <1>0, <1>2, <1>8, <2>1, <2>3, DispatchAssumption DEF FileStep, Shape, Types, List
        <3>2. v \in Record /\ v # None /\ v.status = "pending" /\ v.attempts = 0
            BY <3>1, RecordsMade DEF NewRequest
        <3> QED BY <1>0, <1>3, <2>2, <2>3, <3>1, <3>2, Counts DEF Limited, OneIf, MaxUnconfirmed
    <2>4. CASE file[r] # None
        <3>1. PICK to \in {"notified", "failed"} :
                  /\ file[r] \in Record /\ file'[r] = Moved(file[r], to)
                  /\ Moved(file[r], to) \in Record
            BY <1>0, <1>2, <1>8, <2>1, <2>4 DEF FileStep, Shape, Types, List
        <3>2. Moved(file[r], to).status # "pending" /\ Moved(file[r], to) # None
            BY <3>1, RecordsMade DEF Moved, Record
        <3>3. Flying(r) => ~Open(r)
            BY <1>0, Counts
        <3>4. OneIf(Flying(r)) + OneIf(Open(r)) <= 1 /\ OneIf(Flying(r)) \in {0, 1} /\ OneIf(Open(r)) \in {0, 1}
            BY <3>3 DEF OneIf
        <3>5. OneIf(Open(r))' = OneIf(Open(r)) /\ OneIf(Stuck /\ Works(r)) \in {0, 1}
            BY <1>5 DEF OneIf
        <3> HIDE DEF OneIf
        <3>6. injected[r] \in Nat /\ Excused \in Nat /\ file[r].attempts \in Nat
            BY <1>0, <2>4, Counts
        <3> QED BY <1>0, <1>3, <2>4, <3>1, <3>2, <3>4, <3>5, <3>6 DEF Limited, MaxUnconfirmed
    <2> QED BY <2>3, <2>4
<1> QED BY <1>7, <1>8

(* Who works on a request does so alone.                                   *)
LEMMA WorksAlone ==
    ASSUME OneHookPerRequest, NEW h \in Hooks, NEW r \in mine[h]
    PROVE  \A g \in Hooks \ {h} : r \notin mine[g]
BY DEF OneHookPerRequest

(* A hook claims a request, types it, and writes its attempt.              *)
LEMMA HookLimits ==
    ASSUME BoundInv, ~Bridge, NEW h \in Hooks, Hook(h), NEW r \in Requests
    PROVE  Limited(r)'
<1>0. /\ Shape /\ OneSource /\ Limited(r) /\ OneHookPerRequest
      /\ h \in Procs /\ None \notin Procs
      /\ file \in List /\ mine \in [Procs -> SUBSET Requests]
      /\ tried \in [Hooks -> (Requests \X Results) \cup {None}]
      /\ pc \in [Procs -> {"idle", "dead"} \cup ClientSteps \cup HookSteps]
      /\ \A g \in Hooks : g \in Procs
      /\ \A g \in Hooks : tried[g] # None => tried[g][1] \in mine[g]
    BY DispatchAssumption DEF BoundInv, Stored, Procs, Shape, Types, Posts, HookPost
<1>1. [Next]_vars
    BY DEF Next
<1>2. Shape'
    BY <1>0, <1>1, ShapeNext
<1>3. injected[r] \in Nat /\ Excused \in Nat /\ (file[r] # None => file[r].attempts \in Nat)
    BY <1>0, Counts
<1>4. got[h] # None => got[h] = file
    BY <1>0 DEF OneSource
<1>5. Excused' = Excused
    BY DEF Hook, Claim, Inject, Finalize, Excused
<1>6. CASE Claim(h)
    <2>1. PICK S \in SUBSET Claimable(h) :
              /\ mine' = [mine EXCEPT ![h] = S]
              /\ \/ WriteList(got[h])
                 \/ UNCHANGED <<file, view>>
              /\ \E q \in {"idle", "inject"} : pc' = [pc EXCEPT ![h] = q]
        BY <1>6, Zenon DEF Claim, Goto
    <2>2. Writes(h) /\ Leave(h) /\ pc[h] = "claim"
        BY <1>0, <1>6, Inside DEF Claim, InLock
    <2>3. lock = h /\ lock' = None /\ ~Stuck /\ ~Stuck'
        BY <1>0, <2>2 DEF Writes, Leave, Stuck
    <2>4. UNCHANGED <<injected, tried>> /\ file' = file
        BY <1>4, <1>6, <2>1, <2>2 DEF Claim, WriteList, Writes
    <2>5. Flying(r)' <=> Flying(r)
        BY <2>4 DEF Flying
    <2>6. (file[r] # None => file[r].status # "pending") => (Open(r)' => Open(r))
        <3>1. \A x \in S : file[x] # None /\ file[x].status = "pending"
            BY <1>4, <2>2 DEF Claimable, Drainable, Writes
        <3>2. \A g \in Hooks : g # h => mine'[g] = mine[g]
            BY <1>0, <2>1
        <3>3. mine'[h] = S
            BY <1>0, <2>1
        <3>4. (file[r] # None => file[r].status # "pending") => r \notin S \/ file[r] = None
            BY <3>1
        <3> QED BY <2>4, <3>1, <3>2, <3>3, <3>4 DEF Open
    <2>7. /\ OneIf(Flying(r))' = OneIf(Flying(r)) /\ OneIf(Stuck /\ Works(r))' = 0
          /\ OneIf(Stuck /\ Works(r)) = 0 /\ OneIf(Flying(r)) \in {0, 1}
          /\ OneIf(Open(r)) \in {0, 1} /\ OneIf(Open(r))' \in {0, 1}
          /\ (file[r] # None => file[r].status # "pending") => OneIf(Open(r))' <= OneIf(Open(r))
        BY <2>3, <2>5, <2>6 DEF OneIf
    <2> HIDE DEF OneIf
    <2> QED BY <1>0, <1>3, <1>5, <2>4, <2>7 DEF Limited, MaxUnconfirmed
<1>7. CASE Inject(h)
    <2>1. PICK x \in mine[h], result \in Results :
              /\ injected' = IF result = "error" THEN injected ELSE [injected EXCEPT ![x] = @ + 1]
              /\ tried' = [tried EXCEPT ![h] = <<x, result>>]
              /\ pc' = [pc EXCEPT ![h] = "result"]
        BY <1>7 DEF Inject, Goto
    <2>2. UNCHANGED <<file, lock, mine>> /\ pc[h] = "inject" /\ tried[h] = None /\ x \in Requests
        BY <1>0, <1>7 DEF Inject, section, Shape, Posts, HookPost
    <2>3. Stuck' => Stuck
        BY <1>0, <2>1, <2>2 DEF Stuck
    <2>4. <<x, result>> # None /\ <<x, result>>[1] = x /\ <<x, result>>[2] = result
        BY <2>2, DispatchAssumption
    <2>5. Works(r)' <=> Works(r)
        BY <2>2 DEF Works
    <2>6. /\ \A g \in Hooks : g # h => tried'[g] = tried[g]
          /\ tried'[h] = <<x, result>>
        BY <1>0, <2>1
    <2>7. CASE x # r
        <3>1. Flying(r)' <=> Flying(r)
            BY <2>2, <2>4, <2>6, <2>7 DEF Flying
        <3>2. Open(r)' <=> Open(r)
            BY <2>2, <2>4, <2>6, <2>7 DEF Open
        <3>3. injected'[r] = injected[r]
            BY <1>0, <2>1, <2>2, <2>7 DEF Shape, Types
        <3> QED BY <1>0, <1>2, <1>5, <2>2, <2>3, <2>5, <3>1, <3>2, <3>3, LimitKept
    <2>8. CASE x = r
        <3>1. \A g \in Hooks \ {h} : r \notin mine[g]
            BY <1>0, <2>8, WorksAlone
        <3>2. ~Flying(r) /\ Open(r)
            BY <1>0, <2>1, <2>2, <2>8, <3>1 DEF Flying, Open
        <3>3. (Flying(r)' <=> result # "error") /\ ~Open(r)'
            BY <1>0, <2>1, <2>2, <2>4, <2>6, <2>8, <3>1 DEF Flying, Open
        <3>4. injected'[r] = injected[r] + OneIf(result # "error")
            BY <1>0, <2>1, <2>2, <2>8 DEF Shape, Types, OneIf
        <3>5. file[r] # None
            BY <1>0, <2>8 DEF BoundInv, Stored, Backed, Source
        <3>6. /\ OneIf(Flying(r))' = OneIf(result # "error") /\ OneIf(Flying(r)) = 0
              /\ OneIf(Open(r))' = 0 /\ OneIf(Open(r)) = 1 /\ OneIf(result # "error") \in {0, 1}
              /\ OneIf(Stuck /\ Works(r)) \in {0, 1} /\ OneIf(Stuck /\ Works(r))' \in {0, 1}
              /\ OneIf(Stuck /\ Works(r))' <= OneIf(Stuck /\ Works(r))
            BY <2>3, <2>5, <3>2, <3>3 DEF OneIf
        <3> HIDE DEF OneIf
        <3> QED BY <1>0, <1>3, <1>5, <2>2, <3>4, <3>5, <3>6 DEF Limited, MaxUnconfirmed
    <2> QED BY <2>7, <2>8
<1>8. CASE Finalize(h)
    <2>1. PICK x \in Requests, result \in Results :
              /\ tried[h] = <<x, result>> /\ x \in mine[h] /\ got[h] \in List
              /\ \/ /\ UNCHANGED store
                    /\ ~(got[h][x] # None /\ got[h][x].hook /\ got[h][x].status = "pending")
                 \/ /\ got[h][x] \in Record /\ got[h][x].status = "pending"
                    /\ Outcome(got[h][x], result) \in Record
                    /\ WriteList([got[h] EXCEPT ![x] = Outcome(got[h][x], result)])
                    /\ engine' = IF /\ Bridge
                                    /\ EngineAccepts(x, Outcome(got[h][x], result).status)
                                 THEN Logged(x, Outcome(got[h][x], result).status) ELSE engine
        BY <1>0, <1>8, FinalizeWrites
    <2>2. Writes(h) /\ Leave(h) /\ got[h] = file
        BY <1>0, <1>4, <1>8, Inside DEF Finalize, InLock, Writes
    <2>3. lock = h /\ lock' = None /\ ~Stuck /\ ~Stuck'
        BY <1>0, <1>8, <2>2 DEF Writes, Leave, Stuck, Finalize
    <2>4. tried[h] # None /\ tried[h][1] = x /\ tried[h][2] = result
        BY <2>1, DispatchAssumption
    <2>5. /\ UNCHANGED injected
          /\ mine' = [mine EXCEPT ![h] = mine[h] \ {x}] /\ tried' = [tried EXCEPT ![h] = None]
        BY <1>8, <2>4 DEF Finalize, Finished
    <2>6. /\ mine'[h] = mine[h] \ {x} /\ tried'[h] = None
          /\ \A g \in Hooks : g # h => mine'[g] = mine[g] /\ tried'[g] = tried[g]
        BY <1>0, <2>5
    <2>7. CASE x # r
        <3>1. file'[r] = file[r]
            BY <1>0, <2>1, <2>2, <2>7 DEF WriteList, store, List
        <3>2. Flying(r)' <=> Flying(r)
            BY <2>4, <2>6, <2>7 DEF Flying
        <3>3. (Open(r)' <=> Open(r)) /\ (Works(r)' <=> Works(r))
            BY <2>4, <2>6, <2>7 DEF Open, Works
        <3> QED BY <1>0, <1>2, <1>5, <2>3, <2>5, <3>1, <3>2, <3>3, LimitKept
    <2>8. CASE x = r
        <3>1. \A g \in Hooks \ {h} : r \notin mine[g]
            BY <1>0, <2>1, <2>8, WorksAlone
        <3>2. ~Open(r) /\ (Flying(r) <=> result # "error")
            BY <1>0, <2>4, <2>8, <3>1 DEF Flying, Open
        <3>3. ~Flying(r)' /\ ~Works(r)' /\ ~Open(r)'
            BY <1>0, <2>6, <2>8, <3>1 DEF Flying, Works, Open
        <3>4. file[r] # None
            BY <1>0, <2>1, <2>8 DEF BoundInv, Stored, Backed, Source
        <3>5. /\ OneIf(Flying(r)) = OneIf(result # "error") /\ OneIf(Flying(r))' = 0
              /\ OneIf(Open(r)) = 0 /\ OneIf(Open(r))' = 0 /\ OneIf(Stuck /\ Works(r))' = 0
              /\ OneIf(Stuck /\ Works(r)) = 0
              /\ OneIf(result # "error") = IF result = "error" THEN 0 ELSE 1
            BY <2>3, <3>2, <3>3 DEF OneIf
        <3> HIDE DEF OneIf
        <3>6. CASE file'[r] = file[r] /\ file[r].status # "pending"
            BY <1>0, <1>3, <1>5, <2>5, <3>4, <3>5, <3>6 DEF Limited, MaxUnconfirmed
        <3>7. CASE file[r] \in Record /\ file[r].status = "pending"
                   /\ file'[r] = Outcome(file[r], result) /\ Outcome(file[r], result) \in Record
            <4>1. /\ result = "confirmed" => Outcome(file[r], result).status = "notified"
                  /\ result = "error" => Outcome(file[r], result).status = "failed"
                  /\ Outcome(file[r], result).status = "pending" =>
                        /\ Outcome(file[r], result).attempts = file[r].attempts + 1
                        /\ file[r].attempts + 1 < MaxUnconfirmed
                BY <3>7 DEF Outcome, Record
            <4>2. Outcome(file[r], result) # None
                BY <3>7, RecordsMade
            <4> QED BY <1>0, <1>3, <1>5, <2>5, <3>4, <3>5, <3>7, <4>1, <4>2 DEF Limited, MaxUnconfirmed
        <3>8. file[r].hook
            BY <2>1, <2>8 DEF BoundInv, ForHooks
        <3> QED BY <2>1, <2>2, <2>8, <3>4, <3>6, <3>7, <3>8 DEF store, WriteList, List
    <2> QED BY <2>7, <2>8
<1> QED BY <1>6, <1>7, <1>8 DEF Hook

(* Crashes and what they lead to.                                          *)
LEMMA FailureLimits ==
    ASSUME BoundInv, ~Bridge, NEW p \in Procs, GiveUp(p) \/ Crash(p) \/ Recover(p),
           NEW r \in Requests
    PROVE  Limited(r)'
<1>0. /\ Shape /\ Limited(r) /\ OneHookPerRequest /\ None \notin Procs
      /\ mine \in [Procs -> SUBSET Requests]
      /\ tried \in [Hooks -> (Requests \X Results) \cup {None}]
      /\ pc \in [Procs -> {"idle", "dead"} \cup ClientSteps \cup HookSteps]
      /\ \A g \in Hooks : g \in Procs
      /\ \A g \in Hooks : tried[g] # None => tried[g][1] \in mine[g]
    BY DispatchAssumption DEF BoundInv, Stored, Procs, Shape, Types, Posts, HookPost
<1>1. [Next]_vars
    BY DEF Next
<1>2. Shape' /\ UNCHANGED <<file, injected>>
    BY <1>0, <1>1, ShapeNext DEF GiveUp, Crash, Recover, store
<1>3. injected[r] \in Nat /\ Excused \in Nat /\ (file[r] # None => file[r].attempts \in Nat)
    BY <1>0, Counts
<1>4. CASE Recover(p)
    <2>1. /\ UNCHANGED <<mine, tried, crashes, timeouts>> /\ pc' = [pc EXCEPT ![p] = "idle"]
          /\ lock' = IF lock = p THEN None ELSE lock
        BY <1>4 DEF Recover, Goto
    <2>2. Stuck' => Stuck
        BY <1>0, <2>1 DEF Stuck
    <2>3. (Flying(r)' <=> Flying(r)) /\ (Works(r)' <=> Works(r)) /\ (Open(r)' <=> Open(r))
        BY <2>1, HooksRest
    <2>4. Excused' = Excused
        BY <2>1 DEF Excused
    <2> QED BY <1>0, <1>2, <2>2, <2>3, <2>4, LimitKept
<1>5. CASE GiveUp(p) \/ Crash(p)
    <2>1. mine' = [mine EXCEPT ![p] = {}] /\ lock' = lock
        BY <1>5 DEF GiveUp, Crash, Done, section
    <2>2. \/ tried' = tried /\ p \notin Hooks
          \/ p \in Hooks /\ tried' = [tried EXCEPT ![p] = None]
        BY <1>5, DispatchAssumption DEF GiveUp, Crash, Procs
    <2>3. /\ \A g \in Hooks : g # p => mine'[g] = mine[g] /\ tried'[g] = tried[g]
          /\ p \in Hooks => mine'[p] = {} /\ tried'[p] = None
        BY <1>0, <2>1, <2>2
    <2>4. \/ Excused' = Excused + 1
          \/ Excused' = Excused /\ lock # None /\ (pc[p] = "result" => Stuck)
        BY <1>0, <1>5 DEF GiveUp, Crash, Stuck, Excused, Shape, Types
    <2>5. Excused' = Excused => (Stuck' => Stuck)
        <3>1. CASE GiveUp(p)
            <4>1. pc' = [pc EXCEPT ![p] = "idle"]
                BY <3>1, DispatchAssumption DEF GiveUp, Done, Goto
            <4> QED BY <1>0, <2>1, <4>1 DEF Stuck
        <3>2. CASE Crash(p)
            <4>1. Excused' = Excused + 1
                BY <1>0, <3>2 DEF Crash, Excused, Shape, Types
            <4> QED BY <1>3, <4>1
        <3> QED BY <1>5, <3>1, <3>2
    <2>6. (Works(r)' => Works(r)) /\ (Open(r)' => Open(r))
        BY <2>3 DEF Works, Open
    <2>7. CASE Flying(r)' <=> Flying(r)
        BY <1>0, <1>2, <2>4, <2>5, <2>6, <2>7, LimitKept
    <2>8. CASE ~(Flying(r)' <=> Flying(r))
        <3>1. p \in Hooks /\ r \in mine[p] /\ Flying(r) /\ ~Flying(r)' /\ tried[p] # None
            BY <1>0, <2>3, <2>8 DEF Flying
        <3>2. \A g \in Hooks \ {p} : r \notin mine[g]
            BY <1>0, <3>1, WorksAlone
        <3>3. Works(r) /\ ~Works(r)'
            BY <2>3, <3>1, <3>2 DEF Works
        <3>4. /\ OneIf(Flying(r)) = 1 /\ OneIf(Flying(r))' = 0
              /\ OneIf(Stuck /\ Works(r))' = 0 /\ OneIf(Stuck /\ Works(r)) \in {0, 1}
              /\ Stuck => OneIf(Stuck /\ Works(r)) = 1
              /\ OneIf(Open(r)) \in {0, 1} /\ OneIf(Open(r))' \in {0, 1}
              /\ OneIf(Open(r))' <= OneIf(Open(r))
            BY <2>6, <3>1, <3>3 DEF OneIf
        <3> HIDE DEF OneIf
        <3>5. Excused' = Excused + 1 \/ (Excused' = Excused /\ Stuck)
            <4>1. pc[p] \in {"result", "finalizing"}
                BY <1>0, <3>1 DEF Shape, Posts, HookPost
            <4>2. GiveUp(p) => pc[p] = "result"
                BY <4>1 DEF GiveUp, Waiting
            <4>3. Crash(p) => Excused' = Excused + 1
                BY <1>0 DEF Crash, Excused, Shape, Types
            <4>4. CASE GiveUp(p)
                BY <2>4, <4>2, <4>4
            <4> QED BY <1>5, <4>3, <4>4
        <3> QED BY <1>0, <1>2, <1>3, <3>4, <3>5 DEF Limited, MaxUnconfirmed
    <2> QED BY <2>7, <2>8
<1> QED BY <1>4, <1>5

(* A hook takes on a request only by a claim, from the list it has read.   *)
LEMMA HookTakes ==
    ASSUME Shape, [Next]_vars, NEW h \in Hooks, NEW r \in mine'[h], r \notin mine[h]
    PROVE  got[h] # None /\ r \in Drainable(h)
<1>0. h \in Procs /\ h \notin Clients /\ mine \in [Procs -> SUBSET Requests]
    BY DispatchAssumption DEF Procs, Shape, Types
<1>1. CASE Claim(h)
    <2>1. PICK S \in SUBSET Claimable(h) : mine' = [mine EXCEPT ![h] = S]
        BY <1>1 DEF Claim
    <2>2. Writes(h)
        BY <1>0, <1>1, Inside DEF Claim, InLock
    <2> QED BY <1>0, <2>1, <2>2 DEF Claimable, Writes
<1>2. ASSUME NEW g \in Hooks, Hook(g), ~Claim(h) PROVE r \in mine[h]
    <2>1. CASE Claim(g)
        <3>1. g # h /\ \E S : mine' = [mine EXCEPT ![g] = S]
            BY <1>2, <2>1 DEF Claim
        <3> QED BY <1>0, <3>1
    <2>2. CASE Inject(g)
        BY <2>2 DEF Inject
    <2>3. CASE Finalize(g)
        <3>1. mine' = [mine EXCEPT ![g] = mine[g] \ {tried[g][1]}]
            BY <2>3 DEF Finalize, Finished
        <3> QED BY <1>0, <3>1
    <2> QED BY <1>2, <2>1, <2>2, <2>3 DEF Hook
<1>3. ASSUME NEW c \in Clients, Client(c) PROVE r \in mine[h]
    <2>1. \/ mine' = mine
          \/ \E S : mine' = [mine EXCEPT ![c] = S]
        <3>1. CASE Queue(c)
            BY <3>1, Zenon DEF Queue, Deduped, Queued, NoId, Done
        <3>2. CASE ~Queue(c)
            BY <1>3, <3>2 DEF Client, Mark, MarkRead, MarkExec, NotMarked, Done, Fail, FailRead,
                              Receipt, ReceiptTimeout, Notify
        <3> QED BY <3>1, <3>2
    <2> QED BY <1>0, <2>1
<1>4. ASSUME NEW p \in Procs, GiveUp(p) \/ Crash(p) \/ Recover(p) PROVE r \in mine[h]
    <2>1. \/ mine' = mine
          \/ mine' = [mine EXCEPT ![p] = {}]
        BY <1>4 DEF GiveUp, Crash, Recover, Done
    <2> QED BY <1>0, <2>1
<1>5. mine' # mine
    OBVIOUS
<1> QED BY <1>1, <1>2, <1>3, <1>4, <1>5
        DEF Next, vars, OtherExec, Outlasted, Start, Enters, Enter

(* Every step keeps the account, as long as leases exclude.                *)
LEMMA BoundNext ==
    ASSUME ~Bridge, BoundInv, OneHookPerRequest', [Next]_vars
    PROVE  BoundInv'
<1>0. Stored /\ Shape /\ OneSource /\ Stored'
    BY StoredNext DEF BoundInv, Stored
<1>1. ForHooks'
    <2> SUFFICES ASSUME NEW h \in Hooks, NEW r \in mine'[h] PROVE file'[r].hook
        BY DEF ForHooks
    <2>1. /\ h \in Procs /\ r \in Requests /\ file \in List
          /\ got[h] # None => got[h] = file
        BY <1>0 DEF Procs, Shape, Types, Stored, OneSource
    <2>2. ASSUME file[r] # None, file[r].hook PROVE file'[r].hook
        BY <1>0, <2>1, <2>2, FileMoves DEF List
    <2>3. r \in mine[h] => file[r] # None /\ file[r].hook
        BY <1>0, <2>1 DEF BoundInv, ForHooks, Stored, Backed, Source
    <2>4. r \notin mine[h] => file[r] # None /\ file[r].hook
        BY <1>0, <2>1, HookTakes DEF Drainable
    <2> QED BY <2>2, <2>3, <2>4
<1>2. ASSUME NEW r \in Requests PROVE Limited(r)'
    <2>1. Limited(r) /\ Shape'
        BY <1>0 DEF BoundInv, Stored
    <2>2. ASSUME NEW c \in Clients, NEW k \in Keys, NEW hook \in BOOLEAN, Start(c, k, hook)
          PROVE  Limited(r)'
        <3>1. /\ UNCHANGED <<file, injected, crashes, timeouts, mine, tried, lock>>
              /\ pc' = [pc EXCEPT ![c] = "enqueue"]
            BY <2>2 DEF Start, store, section, Goto
        <3>2. Stuck' => Stuck
            BY <1>0, <3>1, DispatchAssumption DEF Stuck, Shape, Types
        <3>3. Excused' = Excused
            BY <3>1 DEF Excused
        <3> QED BY <1>0, <2>1, <3>1, <3>2, <3>3, HooksRest, LimitKept
    <2>3. ASSUME NEW p \in Procs, Enters(p) PROVE Limited(r)'
        <3>1. /\ UNCHANGED <<file, injected, crashes, timeouts, mine, tried>> /\ lock' = p /\ lock = None
              /\ \E q \in {"queue", "marking", "failing", "claim", "finalizing"} :
                    pc' = [pc EXCEPT ![p] = q]
            BY <2>3 DEF Enters, Enter, store, Goto
        <3>2. ~Stuck'
            BY <1>0, <3>1 DEF Stuck, Shape, Types
        <3>3. Excused' = Excused
            BY <3>1 DEF Excused
        <3> QED BY <1>0, <2>1, <3>1, <3>2, <3>3, HooksRest, LimitKept
    <2>4. CASE OtherExec \/ UNCHANGED vars \/ \E h \in Hooks : Outlasted(h)
        <3>1. UNCHANGED <<file, injected, crashes, timeouts, mine, tried, lock, pc>>
            BY <2>4 DEF OtherExec, Outlasted, vars, store, section
        <3>2. Stuck' => Stuck
            BY <3>1 DEF Stuck
        <3>3. Excused' = Excused
            BY <3>1 DEF Excused
        <3> QED BY <1>0, <2>1, <3>1, <3>2, <3>3, HooksRest, LimitKept
    <2> QED BY <2>2, <2>3, <2>4, ClientLimits, HookLimits, FailureLimits DEF Next
<1> QED BY <1>0, <1>1, <1>2 DEF BoundInv

(* Three unconfirmed attempts are the end of a request: however its hooks, *)
(* its calls and its crashes fall, it is typed at most three times, once   *)
(* more for every crash and once more for every time that a hook ran out   *)
(* of time for the lock with an attempt to write.                          *)
THEOREM InjectionsAreBounded ==
    ~Bridge /\ (Slow = {} \/ \A g, h \in Hooks : g = h) /\ Spec => []BoundedInjections
<1> SUFFICES ASSUME ~Bridge, Slow = {} \/ \A g, h \in Hooks : g = h
             PROVE  Spec => []BoundedInjections
    OBVIOUS
<1>1. Spec => []OneHookPerRequest
    <2>1. (\A g, h \in Hooks : g = h) => OneHookPerRequest
        BY DEF OneHookPerRequest
    <2>2. CASE Slow = {}
        BY <2>2, LeasesExclude
    <2>3. CASE \A g, h \in Hooks : g = h
        <3>1. OneHookPerRequest
            BY <2>3 DEF OneHookPerRequest
        <3> QED BY <3>1, PTL
    <2> QED BY <2>2, <2>3
<1>2. Init => BoundInv
    <2> SUFFICES ASSUME Init PROVE OneHookPerRequest /\ ForHooks /\ \A r \in Requests : Limited(r)
        BY StoredInit DEF BoundInv
    <2> QED BY DEF Init, OneHookPerRequest, ForHooks, Limited, NoList, Procs
<1>3. BoundInv /\ OneHookPerRequest' /\ [Next]_vars => BoundInv'
    BY BoundNext
<1>4. BoundInv => BoundedInjections
    <2> SUFFICES ASSUME BoundInv, NEW r \in Requests
                 PROVE  injected[r] <= MaxUnconfirmed + crashes + timeouts
        BY DEF BoundedInjections
    <2>1. injected[r] \in Nat /\ Excused \in Nat /\ (file[r] # None => file[r].attempts \in Nat)
        BY Counts DEF BoundInv, Stored
    <2>2. /\ OneIf(Flying(r)) \in {0, 1} /\ OneIf(Open(r)) \in {0, 1}
          /\ OneIf(Stuck /\ Works(r)) \in {0, 1}
        BY DEF OneIf
    <2> HIDE DEF OneIf
    <2>3. injected[r] <= MaxUnconfirmed + Excused
        BY <2>1, <2>2 DEF BoundInv, Limited, MaxUnconfirmed
    <2>4. crashes \in Nat /\ timeouts \in Nat
        BY DEF BoundInv, Stored, Shape, Types
    <2> QED BY <2>1, <2>3, <2>4 DEF Excused, MaxUnconfirmed
<1> QED BY <1>1, <1>2, <1>3, <1>4, PTL DEF Spec
=============================================================================
