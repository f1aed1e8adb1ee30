----------------------------- MODULE TeamMonitor -----------------------------
(***************************************************************************)
(* monitorTeam beside the task operations.  A monitor pass reads the       *)
(* snapshot of the pass before it, lists the tasks, appends an event for   *)
(* every task it finds newly completed and writes the next snapshot.  It   *)
(* takes no lock for this, transitionTaskStatus marks the same snapshot    *)
(* without one, and a pass may end early (an error, a killed process); the *)
(* CLI and the runtime loop may run passes of their own at the same time.  *)
(***************************************************************************)
EXTENDS TaskLifecycle

CONSTANTS Monitors,   \* processes that run monitor passes
          MaxEvents   \* bound: events of one task a monitor still appends to

ASSUME MonitorAssumption == MaxEvents \in Nat

VARIABLES stage,      \* per monitor: "idle", "list", "emit" or "save"
          previous,   \* per monitor: the snapshot it has read, or None
          listed,     \* per monitor: the task statuses it has listed
          left        \* per monitor: the tasks it has still to compare

passVars == <<stage, previous, listed, left>>

monitorVars == <<vars, passVars>>

Unseen == [t \in Tasks |-> None]

MonitorInit == /\ Init
               /\ stage = [m \in Monitors |-> "idle"]
               /\ previous = [m \in Monitors |-> None]
               /\ listed = [m \in Monitors |-> Unseen]
               /\ left = [m \in Monitors |-> {}]

ReadPrevious(m) == /\ stage[m] = "idle"
                   /\ previous' = [previous EXCEPT ![m] = snapshot]
                   /\ stage' = [stage EXCEPT ![m] = "list"]
                   /\ UNCHANGED <<vars, listed, left>>

(* The list the events and the next snapshot are made from: the last one   *)
(* of the pass, after reclaims and assignments (operations of their own).  *)
ListTasks(m) == /\ stage[m] = "list"
                /\ listed' = [listed EXCEPT ![m] = [t \in Tasks |-> task[t].status]]
                /\ left' = [left EXCEPT ![m] = Tasks]
                /\ stage' = [stage EXCEPT ![m] = "emit"]
                /\ UNCHANGED <<vars, previous>>

NewlyCompleted_AnyStatus(m, t) ==
    /\ previous[m] # None
    /\ previous[m].status[t] \notin {None, "completed"}
    /\ t \notin previous[m].done

NewlyCompleted_SkipsInProgress(m, t) ==
    /\ previous[m] # None
    /\ previous[m].status[t] = "pending"
    /\ listed[m][t] = "completed"
    /\ t \notin previous[m].done

(* A task seen before as not completed, completed now, and not marked as   *)
(* announced by transitionTaskStatus.                                      *)
NewlyCompleted(m, t) ==
    /\ previous[m] # None
    /\ previous[m].status[t] \notin {None, "completed"}
    /\ listed[m][t] = "completed"
    /\ t \notin previous[m].done

EmitDerived(m) ==
    /\ stage[m] = "emit"
    /\ \E t \in left[m] :
          /\ left' = [left EXCEPT ![m] = @ \ {t}]
          /\ NewlyCompleted(m, t) => events[t].completed < MaxEvents
          /\ events' = IF NewlyCompleted(m, t)
                       THEN [events EXCEPT ![t].completed = @ + 1]
                       ELSE events
    /\ stage' = [stage EXCEPT ![m] = IF left'[m] = {} THEN "save" ELSE "emit"]
    /\ UNCHANGED <<task, lastToken, lapsed, lock, pc, op, draft, snapshot, seen,
                   previous, listed>>

(* The marks are those of the snapshot the pass began with.                *)
SaveSnapshot(m) ==
    /\ stage[m] = "save"
    /\ snapshot' = [status |-> listed[m],
                    done   |-> IF previous[m] = None THEN {} ELSE previous[m].done]
    /\ stage' = [stage EXCEPT ![m] = "idle"]
    /\ previous' = [previous EXCEPT ![m] = None]
    /\ listed' = [listed EXCEPT ![m] = Unseen]
    /\ UNCHANGED <<task, lastToken, lapsed, lock, pc, op, draft, events, seen, left>>

(* A pass that fails or is killed writes no snapshot.                      *)
PassFails(m) == /\ stage[m] # "idle"
                /\ stage' = [stage EXCEPT ![m] = "idle"]
                /\ previous' = [previous EXCEPT ![m] = None]
                /\ listed' = [listed EXCEPT ![m] = Unseen]
                /\ left' = [left EXCEPT ![m] = {}]
                /\ UNCHANGED vars

Pass(m) == ReadPrevious(m) \/ ListTasks(m) \/ EmitDerived(m) \/ SaveSnapshot(m)

MonitorNext == \/ Next /\ UNCHANGED passVars
               \/ \E m \in Monitors : Pass(m) \/ PassFails(m)

MonitorSpec == MonitorInit /\ [][MonitorNext]_monitorVars

(* The runtime loop polls for as long as the team runs: a pass begins      *)
(* again after every pass, and a call that passes reach again and again is *)
(* made in one of them, however many others fail.                          *)
PassesGoOn == \A m \in Monitors : /\ WF_monitorVars(ReadPrevious(m))
                                  /\ SF_monitorVars(ListTasks(m))
                                  /\ SF_monitorVars(EmitDerived(m))

FairMonitorSpec == MonitorSpec /\ PassesGoOn

-----------------------------------------------------------------------------
(* Whoever appends it, a completion event is about a completed task, and   *)
(* what a snapshot or a list calls finished is finished: stale views are   *)
(* behind the tasks, never ahead of them.                                  *)
ViewsAreNeverAhead ==
    /\ \A t \in Tasks : events[t].completed > 0 => task[t].status = "completed"
    /\ \A t \in Tasks, s \in Terminal :
          /\ snapshot # None /\ snapshot.status[t] = s => task[t].status = s
          /\ \A m \in Monitors : listed[m][t] = s => task[t].status = s

(* The monitor makes up for a crash between the write of a completed task  *)
(* and its event: if it had seen the task before it was completed, no pass *)
(* is under way and nobody marks the snapshot any more, it announces the   *)
(* completion.                                                             *)
Unannounced(t) == /\ task[t].status = "completed"
                  /\ events[t].completed = 0
                  /\ snapshot # None
                  /\ snapshot.status[t] \notin {None, "completed"}
                  /\ t \notin snapshot.done
                  /\ \A m \in Monitors : stage[m] = "idle"

NobodyMarks == \A p \in Procs : op[p] = None \/ ~Marks(op[p])

CrashedCompletionIsAnnounced ==
    \A t \in Tasks : [](Unannounced(t) /\ []NobodyMarks => <>(events[t].completed > 0))

(* "Skip if a task_completed event was already emitted by                  *)
(* transitionTaskStatus": a completed task is announced once.              *)
AnnouncedOnce == \A t \in Tasks : events[t].completed <= 1

(* The same comment, the other way: a task marked in completedEventTaskIds *)
(* has been announced.                                                     *)
MarkedMeansAnnounced ==
    snapshot # None => \A t \in snapshot.done : events[t].completed > 0
=============================================================================
