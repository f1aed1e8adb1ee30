---------------------------- MODULE DispatchQueue ----------------------------
(***************************************************************************)
(* The dispatch requests of a team: src/team/state/dispatch.ts, the leader *)
(* calls that queue a request and fall back when no hook serves it         *)
(* (mcp-comm.ts, dispatchCriticalInboxInstruction of runtime.ts) and the   *)
(* hook that drains the queue (notify-hook/team-dispatch.ts).  A section   *)
(* under the dispatch lock is two steps, the read of the request list and  *)
(* the write of what was made of it; commands to the runtime engine are    *)
(* not under that lock, so with the bridge they fall between the two.      *)
(* The lock itself is DirLock's: here it excludes, and a dead holder is    *)
(* recovered from.                                                         *)
(***************************************************************************)
EXTENDS Naturals

CONSTANTS Requests,    \* request ids, drawn fresh (randomUUID)
          Keys,        \* what a request is about: requests of one key are equivalent
          Clients,     \* leader calls that queue and notify
          Hooks,       \* hook processes that drain the queue
          None,
          Bridge,      \* OMCP_RUNTIME_BRIDGE: the engine owns the status, or the file does
          Slow,        \* hooks whose batch may outlast DISPATCH_REQUEST_LEASE_STALE_MS
          MaxInjected, \* bound: injections of one request
          MaxCrashes,  \* bound: how often a process dies
          MaxTimeouts  \* bound: how often a hook with an outcome to write outwaits a live holder

Procs == Clients \cup Hooks

VARIABLES file,      \* requests.json
          view,      \* dispatch.json beside the engine's log, or None
          engine,    \* per request: its record in the engine's log, or None
          lock,      \* the process in the dispatch lock, or None
          got,       \* per process: the list it has read in the lock, or None
          lease,     \* per request: the hook that has claimed it, or None
          pc,        \* per process: its next step
          mine,      \* per process: the requests it works on
          job,       \* per client: the call it makes, or None
          from,      \* per client: the status it has read outside the lock, or None
          tried,     \* per hook: the request it has typed and how that went, or None
          injected,  \* per request: how often a hook typed it into the pane
          told,      \* the requests whose trigger a client sent itself
          crashes,
          timeouts   \* how often a hook has dropped an outcome, out of time for the lock

store == <<file, view, engine>>
section == <<lock, got>>
call == <<job, from>>
vars == <<store, section, lease, pc, mine, call, tried, injected, told, crashes, timeouts>>

-----------------------------------------------------------------------------
Statuses == {"pending", "notified", "delivered", "failed"}

Results == {"confirmed", "unconfirmed", "error"}

MaxUnconfirmed == 3

(* hook: hook_preferred_with_fallback rather than a direct transport.      *)
Record == [key : Keys, hook : BOOLEAN, status : Statuses, attempts : Nat]

List == [Requests -> Record \cup {None}]

Job == [key : Keys, hook : BOOLEAN]

ASSUME DispatchAssumption ==
    /\ None \notin Procs \cup Record \cup List \cup Job \cup Statuses
    /\ None \notin Requests \X Results
    /\ Clients \cap Hooks = {}
    /\ Slow \subseteq Hooks
    /\ Bridge \in BOOLEAN
    /\ MaxInjected \in Nat /\ MaxCrashes \in Nat /\ MaxTimeouts \in Nat

ClientSteps == {"enqueue", "queue", "wait", "notify", "markRead", "markExec", "mark",
                "marking", "failRead", "patchRead", "fail", "failing"}
HookSteps == {"claim", "inject", "result", "finalizing"}

NoList == [r \in Requests |-> None]

Moves == [pending   |-> {"notified", "failed"},
          notified  |-> {"delivered", "failed"},
          delivered |-> {},
          failed    |-> {}]

MayMove(a, b) == a = b \/ b \in Moves[a]

(* What readDispatchRequests returns: the bridge's records if there are any.*)
Listed == IF Bridge /\ view # None THEN view ELSE file

StatusOf(r) == IF Listed[r] = None THEN None ELSE Listed[r].status

Init == /\ file = NoList /\ view = None /\ engine = NoList
        /\ lock = None /\ got = [p \in Procs |-> None]
        /\ lease = [r \in Requests |-> None]
        /\ pc = [p \in Procs |-> "idle"]
        /\ mine = [p \in Procs |-> {}]
        /\ job = [c \in Clients |-> None] /\ from = [c \in Clients |-> None]
        /\ tried = [h \in Hooks |-> None]
        /\ injected = [r \in Requests |-> 0]
        /\ told = {}
        /\ crashes = 0 /\ timeouts = 0

Goto(p, step) == pc' = [pc EXCEPT ![p] = step]

-----------------------------------------------------------------------------
(* The engine.  Its log keeps the record a request was queued with; every  *)
(* exec writes dispatch.json from the log.                                 *)

EngineAccepts(r, to) == engine[r] # None /\ to \in Moves[engine[r].status]

Exec(e) == engine' = e /\ view' = e

Logged(r, to) == [engine EXCEPT ![r].status = to]

(* Commands of other parts, a mailbox message for one, write the view too. *)
OtherExec == /\ Bridge
             /\ view # engine
             /\ Exec(engine)
             /\ UNCHANGED <<file, section, lease, pc, mine, call, tried, injected, told, crashes,
                            timeouts>>

-----------------------------------------------------------------------------
(* The dispatch lock, and the whole-list write of writeDispatchRequests.   *)

Enter_NoLock(p, at, next) ==
    /\ pc[p] = at
    /\ got' = [got EXCEPT ![p] = Listed]
    /\ Goto(p, next)
    /\ UNCHANGED <<store, lock, lease, mine, call, tried, injected, told, crashes, timeouts>>

Enter(p, at, next) ==
    /\ pc[p] = at
    /\ lock = None
    /\ lock' = p
    /\ got' = [got EXCEPT ![p] = Listed]
    /\ Goto(p, next)
    /\ UNCHANGED <<store, lease, mine, call, tried, injected, told, crashes, timeouts>>

Leave(p) == /\ lock' = IF lock = p THEN None ELSE lock
            /\ got' = [got EXCEPT ![p] = None]

WriteList(list) == /\ file' = list
                   /\ view' = IF Bridge THEN list ELSE view

-----------------------------------------------------------------------------
(* A leader call: queueInboxInstruction, queueDirectMailboxMessage,        *)
(* dispatchCriticalInboxInstruction.                                       *)

Start(c, k, hook) == /\ pc[c] = "idle"
                     /\ \E r \in Requests : file[r] = None /\ engine[r] = None
                     /\ job' = [job EXCEPT ![c] = [key |-> k, hook |-> hook]]
                     /\ Goto(c, "enqueue")
                     /\ UNCHANGED <<store, section, lease, mine, from, tried, injected, told,
                                    crashes, timeouts>>

Done(c) == /\ Goto(c, "idle")
           /\ mine' = [mine EXCEPT ![c] = {}]
           /\ job' = [job EXCEPT ![c] = None]
           /\ from' = [from EXCEPT ![c] = None]

EquivalentPending(list, k) ==
    {r \in Requests : list[r] # None /\ list[r].key = k /\ list[r].status = "pending"}

(* A duplicate of a pending request is not queued again: a hooked call     *)
(* waits for the request that is there.                                    *)
Deduped(c) == /\ \E r \in EquivalentPending(got[c], job[c].key) :
                    IF job[c].hook
                    THEN /\ mine' = [mine EXCEPT ![c] = {r}]
                         /\ Goto(c, "wait")
                         /\ UNCHANGED call
                    ELSE Done(c)
              /\ UNCHANGED store

(* A new one goes to the engine, or into the file.                         *)
Queued_NotDeduped(c) ==
    LET new == [key |-> job[c].key, hook |-> job[c].hook, status |-> "pending", attempts |-> 0]
    IN  /\ \E r \in Requests :
              /\ file[r] = None /\ engine[r] = None
              /\ WriteList([got[c] EXCEPT ![r] = new])
              /\ mine' = [mine EXCEPT ![c] = {r}]
        /\ Goto(c, IF job[c].hook THEN "wait" ELSE "notify")
        /\ UNCHANGED <<engine, call>>

Queued(c) ==
    LET new == [key |-> job[c].key, hook |-> job[c].hook, status |-> "pending", attempts |-> 0]
    IN  /\ EquivalentPending(got[c], job[c].key) = {}
        /\ \E r \in Requests :
              /\ file[r] = None /\ engine[r] = None
              /\ IF Bridge
                 THEN Exec([engine EXCEPT ![r] = new]) /\ UNCHANGED file
                 ELSE WriteList([got[c] EXCEPT ![r] = new]) /\ UNCHANGED engine
              /\ mine' = [mine EXCEPT ![c] = {r}]
        /\ Goto(c, IF job[c].hook THEN "wait" ELSE "notify")
        /\ UNCHANGED call

(* When the bound leaves no fresh id, the call is not made.                *)
NoId(c) == /\ EquivalentPending(got[c], job[c].key) = {}
           /\ \A r \in Requests : file[r] # None \/ engine[r] # None
           /\ Done(c)
           /\ UNCHANGED store

Queue(c) == /\ pc[c] = "queue"
            /\ Deduped(c) \/ Queued(c) \/ NoId(c)
            /\ Leave(c)
            /\ UNCHANGED <<lease, tried, injected, told, crashes, timeouts>>

Mine(c) == CHOOSE r \in Requests : r \in mine[c]

(* waitForDispatchReceipt.  A notified worker that shows no sign of having *)
(* started is told by the client; a failed receipt is followed by a        *)
(* fallback whose outcome leaves the request failed.                       *)
Receipt(c) ==
    LET s == StatusOf(Mine(c))
    IN  /\ pc[c] = "wait"
        /\ \/ s \in {"delivered", "notified"} /\ Done(c) /\ UNCHANGED told
           \/ s = "notified" /\ Goto(c, "notify") /\ UNCHANGED <<mine, call, told>>
           \/ /\ s = "failed"
              /\ told' = told \cup mine[c]
              /\ Goto(c, "patchRead")
              /\ UNCHANGED <<mine, call>>
           \/ /\ s = "failed"
              /\ told' \in {told, told \cup mine[c]}
              /\ from' = [from EXCEPT ![c] = "failed"]
              /\ Goto(c, "fail")
              /\ UNCHANGED <<mine, job>>
        /\ UNCHANGED <<store, section, lease, tried, injected, crashes, timeouts>>

ReceiptTimeout(c) == /\ pc[c] = "wait"
                     /\ StatusOf(Mine(c)) \in {"pending", None}
                     /\ Goto(c, "notify")
                     /\ UNCHANGED <<store, section, lease, mine, call, tried, injected, told,
                                    crashes, timeouts>>

(* The client sends the trigger itself.  The send may fail, and a worker   *)
(* told by the fallback may show no sign of having started.                *)
Notify(c) == /\ pc[c] = "notify"
             /\ \/ told' = told \cup mine[c] /\ Goto(c, "markRead")
                \/ job[c].hook /\ told' = told \cup mine[c] /\ Goto(c, "failRead")
                \/ UNCHANGED told /\ Goto(c, "failRead")
             /\ UNCHANGED <<store, section, lease, mine, call, tried, injected, crashes, timeouts>>

NotMarked(c) == IF job[c].hook THEN Goto(c, "patchRead") /\ UNCHANGED <<mine, call>> ELSE Done(c)

(* markDispatchRequestNotified reads outside the lock, then asks the       *)
(* engine, then falls back to a transition from the status it has read.    *)
MarkRead(c) ==
    LET s == StatusOf(Mine(c))
    IN  /\ pc[c] = "markRead"
        /\ \/ s \in {"notified", "delivered"} /\ Done(c)
           \/ s \in {"failed", None} /\ NotMarked(c)
           \/ /\ s = "pending"
              /\ from' = [from EXCEPT ![c] = "pending"]
              /\ Goto(c, IF Bridge THEN "markExec" ELSE "mark")
              /\ UNCHANGED <<mine, job>>
        /\ UNCHANGED <<store, section, lease, tried, injected, told, crashes, timeouts>>

MarkExec(c) == /\ pc[c] = "markExec"
               /\ IF EngineAccepts(Mine(c), "notified")
                  THEN Exec(Logged(Mine(c), "notified")) /\ Done(c)
                  ELSE Goto(c, "mark") /\ UNCHANGED <<view, engine, mine, call>>
               /\ UNCHANGED <<file, section, lease, tried, injected, told, crashes, timeouts>>

(* transitionDispatchRequest on the list read in the lock.                 *)
Movable_NotChecked(v, a, b) == v # None

Movable(v, a, b) == /\ v # None
                    /\ v.status \in {a, b}
                    /\ MayMove(v.status, b)

Moved(v, b) == [v EXCEPT !.status = b,
                         !.attempts = IF v.status = b THEN @ ELSE @ + 1]

Transition(c, to) ==
    IF Movable(got[c][Mine(c)], from[c], to)
    THEN WriteList([got[c] EXCEPT ![Mine(c)] = Moved(got[c][Mine(c)], to)])
    ELSE UNCHANGED <<file, view>>

Mark(c) == /\ pc[c] = "marking"
           /\ Transition(c, "notified")
           /\ IF Movable(got[c][Mine(c)], from[c], "notified") THEN Done(c) ELSE NotMarked(c)
           /\ Leave(c)
           /\ UNCHANGED <<engine, lease, tried, injected, told, crashes, timeouts>>

(* A failure is written from the status read outside the lock.  A direct   *)
(* call leaves a request alone that is not pending any more, a fallback    *)
(* one that has failed, and the patch after an unmarked notification none. *)
FailRead(c) ==
    LET s == StatusOf(Mine(c))
        leave == \/ s = None
                 \/ pc[c] = "failRead" /\ s = "failed"
                 \/ pc[c] = "failRead" /\ ~job[c].hook /\ s # "pending"
    IN  /\ pc[c] \in {"failRead", "patchRead"}
        /\ \/ leave /\ Done(c)
           \/ /\ ~leave
              /\ from' = [from EXCEPT ![c] = s]
              /\ Goto(c, "fail")
              /\ UNCHANGED <<mine, job>>
        /\ UNCHANGED <<store, section, lease, tried, injected, told, crashes, timeouts>>

Fail(c) == /\ pc[c] = "failing"
           /\ Transition(c, "failed")
           /\ Done(c)
           /\ Leave(c)
           /\ UNCHANGED <<engine, lease, tried, injected, told, crashes, timeouts>>

-----------------------------------------------------------------------------
(* drainPendingTeamDispatch: claim under the lock, type into the pane      *)
(* outside of it, write the outcome under the lock.                        *)

(* What shouldSkipRequest lets pass.                                       *)
Drainable(h) == {r \in Requests : /\ got[h][r] # None
                                  /\ got[h][r].hook
                                  /\ got[h][r].status = "pending"}

Claimable_Leased(h) == Drainable(h)

Claimable(h) == {r \in Drainable(h) : lease[r] = None}

(* Cooldowns and the limit of five per tick may pass over any of them.  The*)
(* list is written back as it was read when a cooldown was reserved or a   *)
(* request was put off for want of a leader pane.                          *)
Claim(h) == /\ pc[h] = "claim"
            /\ \E S \in SUBSET Claimable(h) :
                  /\ lease' = [r \in Requests |-> IF r \in S THEN h ELSE lease[r]]
                  /\ mine' = [mine EXCEPT ![h] = S]
                  /\ \/ Drainable(h) # {} /\ WriteList(got[h])
                     \/ UNCHANGED <<file, view>>
                  /\ Goto(h, IF S = {} THEN "idle" ELSE "inject")
            /\ Leave(h)
            /\ UNCHANGED <<engine, call, tried, injected, told, crashes, timeouts>>

(* The outcomes of injectDispatchRequest.  A confirmed one tells the engine*)
(* "delivered" before the request is notified, which the engine rejects    *)
(* unless somebody else has marked it.                                     *)
Inject(h) ==
    /\ pc[h] = "inject"
    /\ \E r \in mine[h], result \in Results :
          /\ result = "error" \/ injected[r] < MaxInjected
          /\ injected' = IF result = "error" THEN injected ELSE [injected EXCEPT ![r] = @ + 1]
          /\ IF result = "confirmed" /\ Bridge /\ EngineAccepts(r, "delivered")
             THEN Exec(Logged(r, "delivered"))
             ELSE UNCHANGED <<engine, view>>
          /\ tried' = [tried EXCEPT ![h] = <<r, result>>]
          /\ Goto(h, "result")
    /\ UNCHANGED <<file, section, lease, mine, call, told, crashes, timeouts>>

Outcome_NoLimit(v, result) ==
    LET counted == [v EXCEPT !.attempts = @ + 1]
    IN  CASE result = "confirmed" -> [counted EXCEPT !.status = "notified"]
          [] result = "unconfirmed" -> v
          [] OTHER -> [counted EXCEPT !.status = "failed"]

Outcome_ErrorNotified(v, result) == [v EXCEPT !.status = "notified"]

Outcome(v, result) ==
    LET counted == [v EXCEPT !.attempts = @ + 1]
    IN  CASE result = "confirmed" -> [counted EXCEPT !.status = "notified"]
          [] result = "unconfirmed" /\ counted.attempts < MaxUnconfirmed -> counted
          [] OTHER -> [counted EXCEPT !.status = "failed"]

(* releaseDispatchRequestLease gives up a lease that is still one's own.   *)
Released(h, S) == [r \in Requests |-> IF r \in S /\ lease[r] = h THEN None ELSE lease[r]]

Finished_KeepsLease(h) ==
    /\ UNCHANGED lease
    /\ mine' = [mine EXCEPT ![h] = @ \ {tried[h][1]}]
    /\ tried' = [tried EXCEPT ![h] = None]
    /\ Goto(h, IF mine'[h] = {} THEN "idle" ELSE "inject")

Finished(h) == /\ lease' = Released(h, {tried[h][1]})
               /\ mine' = [mine EXCEPT ![h] = @ \ {tried[h][1]}]
               /\ tried' = [tried EXCEPT ![h] = None]
               /\ Goto(h, IF mine'[h] = {} THEN "idle" ELSE "inject")

(* finalizeClaimedDispatchRequest leaves a request alone that somebody     *)
(* else has settled in the meantime.                                       *)
Finalize(h) ==
    LET r == tried[h][1]
        v == got[h][r]
        new == Outcome(v, tried[h][2])
    IN  /\ pc[h] = "finalizing"
        /\ IF v # None /\ v.hook /\ v.status = "pending"
           THEN /\ WriteList([got[h] EXCEPT ![r] = new])
                /\ engine' = IF Bridge /\ EngineAccepts(r, new.status)
                             THEN Logged(r, new.status) ELSE engine
           ELSE UNCHANGED store
        /\ Finished(h)
        /\ Leave(h)
        /\ UNCHANGED <<call, injected, told, crashes, timeouts>>

-----------------------------------------------------------------------------
(* Failures.  Who waits for the lock times out, after 5 seconds in a hook  *)
(* and 15 in a call, whoever holds it: a call is abandoned, a hook drops   *)
(* its batch, and an outcome it was to write with it.  A process dies with *)
(* its lock and its leases, which others take for stale later.             *)

Waiting(p) == pc[p] \in {"enqueue", "mark", "fail", "result"} \/ (p \in Hooks /\ pc[p] = "idle")

(* A live holder waits for the engine and runs plugins in the lock, and so *)
(* may keep it too long, but not for ever: these time-outs are bounded.    *)
GiveUp(p) ==
    /\ lock # None /\ Waiting(p)
    /\ IF pc[p] = "result" /\ pc[lock] # "dead"
       THEN timeouts < MaxTimeouts /\ timeouts' = timeouts + 1
       ELSE UNCHANGED timeouts
    /\ IF p \in Clients
       THEN Done(p) /\ UNCHANGED <<lease, tried>>
       ELSE /\ lease' = Released(p, mine[p])
            /\ mine' = [mine EXCEPT ![p] = {}]
            /\ tried' = [tried EXCEPT ![p] = None]
            /\ Goto(p, "idle")
            /\ UNCHANGED call
    /\ UNCHANGED <<store, section, injected, told, crashes>>

Crash(p) == /\ crashes < MaxCrashes
            /\ pc[p] \notin {"idle", "dead"}
            /\ crashes' = crashes + 1
            /\ Goto(p, "dead")
            /\ mine' = [mine EXCEPT ![p] = {}]
            /\ got' = [got EXCEPT ![p] = None]
            /\ IF p \in Clients
               THEN /\ job' = [job EXCEPT ![p] = None]
                    /\ from' = [from EXCEPT ![p] = None]
                    /\ UNCHANGED tried
               ELSE /\ tried' = [tried EXCEPT ![p] = None]
                    /\ UNCHANGED call
            /\ UNCHANGED <<store, lock, lease, injected, told, timeouts>>

(* The dead one's lock and leases are older than their limits.             *)
Recover(p) == /\ pc[p] = "dead"
              /\ lock' = IF lock = p THEN None ELSE lock
              /\ lease' = Released(p, Requests)
              /\ Goto(p, "idle")
              /\ UNCHANGED <<store, got, mine, call, tried, injected, told, crashes, timeouts>>

(* The lease of a live hook can be taken for stale as well: a batch types  *)
(* its requests one after the other under leases taken at its beginning.   *)
Outlasted(h) == /\ h \in Slow
                /\ pc[h] = "inject"
                /\ \E r \in mine[h] : /\ lease[r] = h
                                      /\ lease' = [lease EXCEPT ![r] = None]
                /\ UNCHANGED <<store, section, pc, mine, call, tried, injected, told, crashes,
                               timeouts>>

-----------------------------------------------------------------------------
Enters(p) == \/ p \in Clients /\ ( \/ Enter(p, "enqueue", "queue")
                                   \/ Enter(p, "mark", "marking")
                                   \/ Enter(p, "fail", "failing") )
             \/ p \in Hooks /\ ( \/ Enter(p, "idle", "claim")
                                 \/ Enter(p, "result", "finalizing") )

Client(c) == \/ Queue(c) \/ Receipt(c) \/ ReceiptTimeout(c) \/ Notify(c)
             \/ MarkRead(c) \/ MarkExec(c) \/ Mark(c) \/ FailRead(c) \/ Fail(c)

Hook(h) == Claim(h) \/ Inject(h) \/ Finalize(h)

Next == \/ \E c \in Clients, k \in Keys, hook \in BOOLEAN : Start(c, k, hook)
        \/ \E p \in Procs : Enters(p) \/ GiveUp(p) \/ Crash(p) \/ Recover(p)
        \/ \E c \in Clients : Client(c)
        \/ \E h \in Hooks : Hook(h) \/ Outlasted(h)
        \/ OtherExec

Spec == Init /\ [][Next]_vars

(* A process that is not dead goes on; the lock is polled every 25 ms by   *)
(* all that want it; a cooldown ends, and then the next tick claims; what  *)
(* a dead one leaves behind gets old enough to be removed.                 *)
FairSpec == /\ Spec
            /\ \A c \in Clients : WF_vars(Client(c))
            /\ \A h \in Hooks : WF_vars(Hook(h))
            /\ \A p \in Procs : SF_vars(Enters(p)) /\ WF_vars(Recover(p))
            /\ \A r \in Requests : SF_vars(\E h \in Hooks : Claim(h) /\ r \in mine'[h])

-----------------------------------------------------------------------------
(* Every variable holds what the code stores there; who holds a list has   *)
(* the lock; one works on requests that are listed.                        *)
TypeOK == /\ file \in List /\ engine \in List /\ view \in List \cup {None}
          /\ lock \in Procs \cup {None}
          /\ got \in [Procs -> List \cup {None}]
          /\ lease \in [Requests -> Hooks \cup {None}]
          /\ pc \in [Procs -> {"idle", "dead"} \cup ClientSteps \cup HookSteps]
          /\ mine \in [Procs -> SUBSET Requests]
          /\ job \in [Clients -> Job \cup {None}]
          /\ from \in [Clients -> Statuses \cup {None}]
          /\ tried \in [Hooks -> (Requests \X Results) \cup {None}]
          /\ injected \in [Requests -> 0 .. MaxInjected]
          /\ told \subseteq Requests
          /\ crashes \in 0 .. MaxCrashes /\ timeouts \in 0 .. MaxTimeouts
          /\ \A p \in Procs : got[p] # None => lock = p
          /\ \A p \in Procs : \A r \in mine[p] : file[r] # None \/ engine[r] # None

(* A listed request stays listed, and its status moves along the table of  *)
(* contracts.ts: nothing settled becomes pending, failed or delivered is   *)
(* final, whatever list the last writer had read.                          *)
StatusMoves ==
    [][\A r \in Requests :
          Listed[r] # None => /\ Listed'[r] # None
                              /\ MayMove(Listed[r].status, Listed'[r].status)]_vars

(* A request that has failed stays failed for the same request id.         *)
FailedIsFinal == [][\A r \in Requests : StatusOf(r) = "failed" => StatusOf(r)' = "failed"]_vars

(* Two calls about the same thing never leave two pending requests for it. *)
OnePendingPerKey == \A k \in Keys : \A r, s \in EquivalentPending(Listed, k) : r = s

(* A request is marked notified or delivered only when its trigger was     *)
(* sent: typed by a hook, or sent by the client.                           *)
NotifiedWasSent ==
    \A r \in Requests : StatusOf(r) \in {"notified", "delivered"} => injected[r] > 0 \/ r \in told

(* Two hooks never work on the same request at the same time.              *)
OneHookPerRequest == \A g, h \in Hooks : g # h => mine[g] \cap mine[h] = {}

(* Three unconfirmed attempts are the end of a request; only a hook that   *)
(* dies, or runs out of time for the lock, before it has written its       *)
(* attempt adds one.                                                       *)
BoundedInjections == \A r \in Requests : injected[r] <= MaxUnconfirmed + crashes + timeouts

(* A request queued for the hooks is settled in the end, notified, delivered*)
(* or failed, even if the call that queued it or a hook that claimed it    *)
(* dies.                                                                   *)
Settles == \A r \in Requests : StatusOf(r) = "pending" /\ Listed[r].hook
                                   ~> StatusOf(r) # "pending"
=============================================================================
