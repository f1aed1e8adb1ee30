----------------------------- MODULE TaskClaims -----------------------------
(***************************************************************************)
(* What the team task store promises to the leader and the workers: a      *)
(* board of tasks, each worked on under an exclusive lease.  A claim is    *)
(* granted on a task that is open, whose dependencies are complete and on  *)
(* which no lease is running; it ends when its holder finishes or hands    *)
(* back the task, or after its lease has run out.  Every operation is one  *)
(* step here.  TaskLifecycle is the implementation: lock directories, file *)
(* reads and writes, several processes that may crash.                     *)
(***************************************************************************)
EXTENDS Naturals

CONSTANTS Tasks,        \* task ids
          Workers,      \* workers of the team
          None,         \* no owner, no claim
          InitialDeps,  \* the dependencies each task is created with
          InitialOwner, \* the worker each task is assigned to at creation, or None
          EditDeps      \* the dependency sets an edit may write

VARIABLES task,         \* the tasks
          lastToken,    \* how many leases were drawn
          lapsed        \* the leases 1 .. lapsed have run out

boardVars == <<task, lastToken, lapsed>>

Terminal == {"completed", "failed"}

(* The lease of task t is running.                                         *)
Held(t) == task[t].claim # None /\ task[t].claim.token > lapsed

DepsCompleted(t) == \A d \in task[t].deps : task[d].status = "completed"

Init == /\ task = [t \in Tasks |-> [status  |-> "pending",
                                    owner   |-> InitialOwner[t],
                                    claim   |-> None,
                                    deps    |-> InitialDeps[t],
                                    version |-> 1]]
        /\ lastToken = 0
        /\ lapsed = 0

(* Every change of a task makes a new version of it.                       *)
Replace(t, changed) ==
    task' = [task EXCEPT ![t] = [changed EXCEPT !.version = task[t].version + 1]]

(* Leases are drawn before they are written into a task.                   *)
Draw == /\ lastToken' = lastToken + 1
        /\ UNCHANGED <<task, lapsed>>

InUse(k) == \E t \in Tasks : task[t].claim # None /\ task[t].claim.token = k

Claim(t, w, k) == /\ task[t].status \notin Terminal
                  /\ ~Held(t)
                  /\ DepsCompleted(t)
                  /\ ~InUse(k)
                  /\ Replace(t, [task[t] EXCEPT !.status = "in_progress",
                                                !.owner  = w,
                                                !.claim  = [owner |-> w, token |-> k]])
                  /\ UNCHANGED <<lastToken, lapsed>>

Finish(t, outcome) == /\ task[t].status = "in_progress"
                      /\ task[t].claim # None
                      /\ Replace(t, [task[t] EXCEPT !.status = outcome, !.claim = None])
                      /\ UNCHANGED <<lastToken, lapsed>>

(* The holder hands the task back, or the lease has run out and the leader *)
(* takes it back.                                                          *)
HandBack(t) == /\ task[t].claim # None
               /\ Replace(t, [task[t] EXCEPT !.status = "pending",
                                             !.owner  = None,
                                             !.claim  = None])
               /\ UNCHANGED <<lastToken, lapsed>>

Edit(t, d) == /\ Replace(t, [task[t] EXCEPT !.deps = d])
              /\ UNCHANGED <<lastToken, lapsed>>

LeaseExpires == /\ lapsed < lastToken
                /\ lapsed' = lapsed + 1
                /\ UNCHANGED <<task, lastToken>>

Next == \/ Draw
        \/ LeaseExpires
        \/ \E t \in Tasks :
              \/ \E w \in Workers, k \in 1 .. lastToken : Claim(t, w, k)
              \/ \E outcome \in Terminal : Finish(t, outcome)
              \/ HandBack(t)
              \/ \E d \in EditDeps : Edit(t, d)

Spec == Init /\ [][Next]_boardVars
=============================================================================
