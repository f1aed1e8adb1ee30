----------------------------- MODULE TeamRoster -----------------------------
(***************************************************************************)
(* Who is on a team and which tasks it has: the configuration of a team,   *)
(* its task files and its worker panes, as the calls that change them run  *)
(* side by side: startTeam and shutdownTeam of src/team/runtime.ts,        *)
(* scaleUp and scaleDown of src/team/scaling.ts, createTask of             *)
(* src/team/state.ts.  Each of them reads the configuration once, works    *)
(* on its copy and writes all of it back.  createTask holds the team lock, *)
(* scaling the scaling lock, starting and shutting down hold none, and the *)
(* directory they remove at the end contains both locks.                   *)
(*                                                                         *)
(* config.json matters only while there is no manifest, so writeConfig is  *)
(* one step.  The worktree mode, which scaleUp would save when startTeam   *)
(* had not, and draining, which delays scaleDown, are left out.            *)
(***************************************************************************)
EXTENDS Integers, FiniteSets

CONSTANTS Procs, None,
          StartWorkers, \* workers a team starts with
          StartTasks,   \* tasks a team starts with
          MaxWorkers,   \* max_workers of the configuration
          MaxCalls,     \* bound: calls made
          MaxCrashes    \* bound: processes that may die

VARIABLES manifest,     \* manifest.v2.json, or None
          json,         \* config.json, or None
          task,         \* the task files
          panes,        \* the worker panes that run
          ack,          \* workers asked to shut down, and their shutdown-ack.json
          lock,         \* the holder of the team lock and of the scaling lock
          pc, call,     \* per process: its next step and its local variables
          tick,         \* panes, tasks and times drawn so far, and calls made
          stale,        \* history: processes whose copy is older than a write
          orphans,      \* history: processes whose team was removed under them
          clobbered,    \* history: a stale copy was written back, a team was
                        \* replaced, or removed while a pane of it was running,
                        \* or scaleUp threw after it had opened a pane
          haunted       \* history: an orphan has written a file

vars == <<manifest, json, task, panes, ack, lock, pc, call, tick,
          stale, orphans, clobbered, haunted>>

Files == <<manifest, json, task, panes, ack, lock>>
History == <<stale, orphans, clobbered, haunted>>

Worker == [index : Nat, pane : Nat]
Config == [workers : SUBSET Worker, nextTask : Nat, nextIndex : Nat]
Task == [id : Nat, serial : Nat, open : BOOLEAN]
Ack == [index : Nat, reject : BOOLEAN, at : Nat, during : SUBSET Nat]
NoAcks == [asked |-> {}, given |-> {}]
Locks == {"team", "scaling"}

CreateSteps == {"ctWrite", "ctSave", "ctUnlock"}
Steps == CreateSteps \cup
         {"idle", "dead", "clean", "ctLock", "upLock", "downLock", "scUnlock",
          "upTasks", "upSpawn", "upNotify", "upKill", "upRestore", "downKill",
          "downSave", "stCheck", "stInit", "stTasks", "stSpawn", "stSave",
          "stReady", "stRevert", "stKill", "shRead", "shGate", "shAsk",
          "shWait", "shSave", "shKill"}

NoCall == [back |-> "idle", cfg |-> None, copy |-> None, id |-> 0,
           made |-> {}, added |-> {}, left |-> 0, first |-> 0, out |-> {},
           force |-> FALSE, gate |-> None, stamp |-> 0]

Call == [back : Steps, cfg : Config \cup {None}, copy : Config \cup {None},
         id : Nat, made : SUBSET Nat, added : SUBSET Worker,
         left : Int, first : Nat, out : SUBSET Worker,
         force : BOOLEAN, gate : Nat \cup {None}, stamp : Nat]

ASSUME RosterAssumption ==
    /\ None \notin Procs \cup Config
    /\ {StartWorkers, StartTasks, MaxWorkers, MaxCalls, MaxCrashes} \subseteq Nat

Init == /\ manifest = None /\ json = None
        /\ task = {} /\ panes = {} /\ ack = NoAcks
        /\ lock = [l \in Locks |-> None]
        /\ pc = [p \in Procs |-> "idle"]
        /\ call = [p \in Procs |-> NoCall]
        /\ tick = [pane |-> 0, task |-> 0, time |-> 0, calls |-> 0]
        /\ stale = {} /\ orphans = {} /\ clobbered = FALSE /\ haunted = FALSE

-----------------------------------------------------------------------------
(* The configuration.                                                      *)

(* readTeamConfig migrates config.json when there is no manifest.          *)
Current == IF manifest # None THEN manifest ELSE json
ReadConfig == manifest' = Current /\ UNCHANGED json

(* writeConfig writes config.json and, when there is one, the manifest.    *)
WriteConfig(c) == /\ json' = c
                  /\ manifest' = IF manifest # None THEN c ELSE None

Busy == {p \in Procs : call[p].cfg # None \/ call[p].copy # None}

NoteWrite(p) == /\ stale' = (stale \ {p}) \cup (Busy \ {p})
                /\ clobbered' = (clobbered \/ p \in stale)
                /\ haunted' = (haunted \/ p \in orphans)
                /\ UNCHANGED orphans

Save(p, c) == WriteConfig(c) /\ NoteWrite(p)

Go(p, step) == pc' = [pc EXCEPT ![p] = step]
Local(p, r) == call' = [call EXCEPT ![p] = r]

(* A call returns, or throws, to its caller.                               *)
End(p) == /\ Go(p, "idle")
          /\ Local(p, NoCall)
          /\ stale' = stale \ {p}
          /\ orphans' = orphans \ {p}
          /\ UNCHANGED <<clobbered, haunted>>

Begin(p, step, r) == /\ pc[p] = "idle"
                     /\ tick.calls < MaxCalls
                     /\ tick' = [tick EXCEPT !.calls = @ + 1]
                     /\ Go(p, step)
                     /\ Local(p, r)
                     /\ UNCHANGED <<Files, History>>

(* A lock directory is recovered when it is stale, that is when its holder *)
(* is dead; it is released only when it is still one's own.                *)
Dead == {p \in Procs : pc[p] = "dead"}

Take(p, l) == /\ lock[l] \in Dead \cup {None}
              /\ lock' = [lock EXCEPT ![l] = p]

Drop(p, l) == lock' = IF lock[l] = p THEN [lock EXCEPT ![l] = None] ELSE lock

-----------------------------------------------------------------------------
(* createTask, called by anybody, by scaleUp and by startTeam.             *)

TaskIds == {t.id : t \in task}

IsNextFromDisk_Counter(n) == n = 1

IsNextFromDisk(n) == /\ n \in {i + 1 : i \in TaskIds \cup {0}}
                     /\ \A i \in TaskIds : i < n

(* Where a call goes on when the createTask in it throws.                  *)
Thrown(back) == CASE back = "upTasks" -> "scUnlock"
                  [] back = "stTasks" -> "clean"
                  [] OTHER -> "idle"

Return(p, back) == IF back = "idle"
                   THEN End(p)
                   ELSE /\ Go(p, back)
                        /\ Local(p, [call[p] EXCEPT !.copy = None])
                        /\ UNCHANGED History

BeginCreate(p) == Begin(p, "ctLock", NoCall)

(* The deadline passed, or the team's directory was removed meanwhile.     *)
CreateGivesUp(p) == /\ pc[p] = "ctLock"
                    /\ lock["team"] # None \/ Current = None
                    /\ Return(p, Thrown(call[p].back))
                    /\ UNCHANGED <<Files, tick>>

(* The configuration and the ids are read as soon as the lock is held.     *)
CreateRead(p) ==
    /\ pc[p] = "ctLock"
    /\ Take(p, "team")
    /\ ReadConfig
    /\ IF Current = None
       THEN /\ Local(p, [call[p] EXCEPT !.back = Thrown(@)])
            /\ Go(p, "ctUnlock")
       ELSE \E n \in {i + 1 : i \in TaskIds \cup {0}} :
               /\ IsNextFromDisk(n)
               /\ Local(p, [call[p] EXCEPT !.copy = Current,
                     !.id = IF n > Current.nextTask THEN n ELSE Current.nextTask])
               /\ Go(p, "ctWrite")
    /\ UNCHANGED <<task, panes, ack, tick, History>>

Advanced(c, id) == [c EXCEPT !.nextTask = id + 1]

CreateWrite(p) ==
    LET new == [id |-> call[p].id, serial |-> tick.task + 1, open |-> TRUE]
    IN  /\ pc[p] = "ctWrite"
        /\ task' = {t \in task : t.id # new.id} \cup {new}
        /\ tick' = [tick EXCEPT !.task = @ + 1]
        /\ Local(p, [call[p] EXCEPT !.made = @ \cup {new.id},
                                    !.copy = Advanced(@, new.id)])
        /\ Go(p, "ctSave")
        /\ haunted' = (haunted \/ p \in orphans)
        /\ UNCHANGED <<manifest, json, panes, ack, lock, stale, orphans, clobbered>>

CreateSave(p) == /\ pc[p] = "ctSave"
                 /\ Save(p, call[p].copy)
                 /\ Go(p, "ctUnlock")
                 /\ UNCHANGED <<task, panes, ack, lock, call, tick>>

CreateUnlock(p) == /\ pc[p] = "ctUnlock"
                   /\ Drop(p, "team")
                   /\ Return(p, call[p].back)
                   /\ UNCHANGED <<manifest, json, task, panes, ack, tick>>

Create(p) == \/ CreateGivesUp(p) \/ CreateRead(p)
             \/ CreateWrite(p) \/ CreateSave(p) \/ CreateUnlock(p)

-----------------------------------------------------------------------------
(* scaleUp and scaleDown, under the scaling lock.                          *)

BeginScale(p) == \E step \in {"upLock", "downLock"} : Begin(p, step, NoCall)

ScaleGivesUp(p) == /\ pc[p] \in {"upLock", "downLock"}
                   /\ lock["scaling"] # None \/ Current = None
                   /\ End(p)
                   /\ UNCHANGED <<Files, tick>>

(* Up to two workers and at most one task are asked for.                   *)
UpRead(p) ==
    /\ pc[p] = "upLock"
    /\ Take(p, "scaling")
    /\ ReadConfig
    /\ \E n \in 1 .. 2 :
          IF Current = None \/ Cardinality(Current.workers) + n > MaxWorkers
          THEN Go(p, "scUnlock") /\ UNCHANGED call
          ELSE /\ Local(p, [call[p] EXCEPT !.cfg = Current, !.left = n,
                                           !.first = Current.nextIndex])
               /\ Go(p, "upTasks")
    /\ UNCHANGED <<task, panes, ack, tick, History>>

UpTasks(p) == /\ pc[p] = "upTasks"
              /\ \/ /\ call[p].made = {}
                    /\ Local(p, [call[p] EXCEPT !.back = "upTasks"])
                    /\ Go(p, "ctLock")
                 \/ Go(p, "upSpawn") /\ UNCHANGED call
              /\ UNCHANGED <<Files, tick, History>>

(* The next worker's pane is opened, or cannot be; what throws before that *)
(* ends the call, and keeps the workers it has saved.                      *)
UpSpawn(p) ==
    LET w == [index |-> call[p].cfg.nextIndex, pane |-> tick.pane + 1]
    IN  /\ pc[p] = "upSpawn"
        /\ \/ /\ panes' = panes \cup {w}
              /\ tick' = [tick EXCEPT !.pane = @ + 1]
              /\ Local(p, [call[p] EXCEPT !.added = @ \cup {w}])
              /\ Go(p, "upNotify")
           \/ /\ Go(p, "upKill") \/ Go(p, "scUnlock")
              /\ UNCHANGED <<panes, tick, call>>
        /\ UNCHANGED <<manifest, json, task, ack, lock, History>>

(* Its inbox reaches the worker, which is then saved, or does not.  Nothing*)
(* catches what throws in between: the pane then stays, in no list.        *)
Joined(c, added) == [workers   |-> c.workers \cup added,
                     nextTask  |-> c.nextTask,
                     nextIndex |-> c.nextIndex + 1]

UpNotify(p) ==
    LET c == Joined(call[p].cfg, call[p].added)
    IN  /\ pc[p] = "upNotify"
        /\ \/ /\ Save(p, c)
              /\ Local(p, [call[p] EXCEPT !.cfg = c, !.left = @ - 1])
              /\ Go(p, IF call[p].left = 1 THEN "scUnlock" ELSE "upSpawn")
           \/ Go(p, "upKill") /\ UNCHANGED <<manifest, json, call, History>>
           \/ /\ Go(p, "scUnlock")
              /\ clobbered' = TRUE
              /\ UNCHANGED <<manifest, json, call, stale, orphans, haunted>>
        /\ UNCHANGED <<task, panes, ack, lock, tick>>

(* rollbackScaleUp: panes and task files, then the configuration.          *)
UpKill(p) == /\ pc[p] = "upKill"
             /\ panes' = panes \ call[p].added
             /\ task' = {t \in task : t.id \notin call[p].made}
             /\ Go(p, "upRestore")
             /\ UNCHANGED <<manifest, json, ack, lock, call, tick, History>>

RolledBack(c, r) == [workers   |-> c.workers \ r.added,
                     nextTask  |-> c.nextTask,
                     nextIndex |-> r.first]

UpRestore(p) == /\ pc[p] = "upRestore"
                /\ Save(p, RolledBack(call[p].cfg, call[p]))
                /\ Go(p, "scUnlock")
                /\ UNCHANGED <<task, panes, ack, lock, call, tick>>

(* Some workers, never all, are chosen; their panes go first.              *)
DownRead(p) ==
    /\ pc[p] = "downLock"
    /\ Take(p, "scaling")
    /\ ReadConfig
    /\ IF Current = None \/ Cardinality(Current.workers) < 2
       THEN Go(p, "scUnlock") /\ UNCHANGED call
       ELSE \E out \in SUBSET Current.workers \ {{}, Current.workers} :
               /\ Local(p, [call[p] EXCEPT !.cfg = Current, !.out = out])
               /\ Go(p, "downKill")
    /\ UNCHANGED <<task, panes, ack, tick, History>>

(* A worktree that cannot be removed ends the call before the save.        *)
DownKill(p) == /\ pc[p] = "downKill"
               /\ panes' = panes \ call[p].out
               /\ Go(p, "downSave") \/ Go(p, "scUnlock")
               /\ UNCHANGED <<manifest, json, task, ack, lock, call, tick, History>>

DownSave_Renumbers(p) ==
    /\ pc[p] = "downSave"
    /\ LET c == [call[p].cfg EXCEPT !.workers = @ \ call[p].out]
       IN Save(p, [c EXCEPT !.nextIndex = Cardinality(c.workers) + 1])
    /\ Go(p, "scUnlock")
    /\ UNCHANGED <<task, panes, ack, lock, call, tick>>

DownSave(p) == /\ pc[p] = "downSave"
               /\ Save(p, [call[p].cfg EXCEPT !.workers = @ \ call[p].out])
               /\ Go(p, "scUnlock")
               /\ UNCHANGED <<task, panes, ack, lock, call, tick>>

ScaleUnlock(p) == /\ pc[p] = "scUnlock"
                  /\ Drop(p, "scaling")
                  /\ End(p)
                  /\ UNCHANGED <<manifest, json, task, panes, ack, tick>>

Scale(p) == \/ ScaleGivesUp(p) \/ UpRead(p) \/ UpTasks(p)
            \/ UpSpawn(p) \/ UpNotify(p) \/ UpKill(p)
            \/ UpRestore(p) \/ DownRead(p) \/ DownKill(p) \/ DownSave(p)
            \/ ScaleUnlock(p)

-----------------------------------------------------------------------------
(* Removing the team's directory, with the locks in it: the calls under    *)
(* way, other than those that wait for a lock and hold nothing yet, are    *)
(* orphans from now on.                                                    *)

Waits(q) == pc[q] \in {"ctLock", "upLock", "downLock"} /\ call[q].cfg = None
Orphaned(p) == {q \in Procs \ {p} : pc[q] \notin {"idle", "dead"} /\ ~Waits(q)}

RemoveDirectory(p) == /\ manifest' = None /\ json' = None
                      /\ task' = {} /\ ack' = NoAcks
                      /\ lock' = [l \in Locks |-> None]
                      /\ orphans' = (orphans \cup Orphaned(p)) \ {p}
                      /\ stale' = stale \ {p}
                      /\ haunted' = (haunted \/ p \in orphans)
                      /\ clobbered' = (clobbered \/ panes # {})

Clean_KeepsJson(p) == /\ pc[p] = "clean"
                      /\ manifest' = None /\ UNCHANGED json
                      /\ task' = {} /\ ack' = NoAcks
                      /\ lock' = [l \in Locks |-> None]
                      /\ orphans' = (orphans \cup Orphaned(p)) \ {p}
                      /\ stale' = stale \ {p}
                      /\ haunted' = (haunted \/ p \in orphans)
                      /\ clobbered' = (clobbered \/ panes # {})
                      /\ Go(p, "idle") /\ Local(p, NoCall)
                      /\ UNCHANGED <<panes, tick>>

Clean(p) == /\ pc[p] = "clean"
            /\ RemoveDirectory(p)
            /\ Go(p, "idle") /\ Local(p, NoCall)
            /\ UNCHANGED <<panes, tick>>

-----------------------------------------------------------------------------
(* startTeam, in the leader's tmux window.                                 *)

BeginStart(p) == Begin(p, "stCheck", NoCall)

(* detectAndCleanStaleTeam removes what is left of a team, but no pane.  It*)
(* leaves everything when nothing is left, when the team's session runs or *)
(* outside a git repository.                                               *)
CleanStale(p) == \/ RemoveDirectory(p)
                 \/ ReadConfig /\ UNCHANGED <<task, ack, lock, History>>

(* A team that exists is in the way, unless its phase, which is not in this*)
(* module, is a last one.                                                  *)
StartCheck(p) ==
    /\ pc[p] = "stCheck"
    /\ \/ /\ Current # None
          /\ ReadConfig /\ End(p) /\ UNCHANGED <<task, ack, lock>>
       \/ Go(p, "stInit") /\ UNCHANGED call /\ CleanStale(p)
    /\ UNCHANGED <<panes, tick>>

NewTeam == [workers   |-> {[index |-> i, pane |-> 0] : i \in 1 .. StartWorkers},
            nextTask  |-> 1,
            nextIndex |-> StartWorkers + 1]

(* initTeamState: the configuration is replaced, the task files stay.  Two *)
(* starts may both get here.                                               *)
StartInit(p) == /\ pc[p] = "stInit"
                /\ json' = NewTeam /\ manifest' = NewTeam
                /\ Local(p, [call[p] EXCEPT !.cfg = NewTeam, !.left = StartTasks])
                /\ Go(p, "stTasks")
                /\ stale' = (stale \ {p}) \cup (Busy \ {p})
                /\ clobbered' = (clobbered \/ Current # None)
                /\ haunted' = (haunted \/ p \in orphans)
                /\ UNCHANGED <<task, panes, ack, lock, tick, orphans>>

StartTasksNext(p) ==
    /\ pc[p] = "stTasks"
    /\ IF call[p].left > 0
       THEN /\ Local(p, [call[p] EXCEPT !.left = @ - 1, !.back = "stTasks"])
            /\ Go(p, "ctLock")
       ELSE Go(p, "stSpawn") /\ UNCHANGED call
    /\ UNCHANGED <<Files, tick, History>>

StartSpawn(p) ==
    LET team == {[index |-> i, pane |-> tick.pane + i] : i \in 1 .. StartWorkers}
    IN  /\ pc[p] = "stSpawn"
        /\ \/ /\ panes' = panes \cup team
              /\ tick' = [tick EXCEPT !.pane = @ + StartWorkers]
              /\ Local(p, [call[p] EXCEPT !.cfg = [@ EXCEPT !.workers = team],
                                          !.added = team])
              /\ Go(p, "stSave")
           \/ Go(p, "clean") /\ UNCHANGED <<panes, tick, call>>
        /\ UNCHANGED <<manifest, json, task, ack, lock, History>>

(* The configuration saved here is the one initTeamState returned, with    *)
(* the panes: its nextTask is still 1.  It is saved again when the workers *)
(* are ready, and before the panes go when they are not.                   *)
StartSave(p) == /\ pc[p] = "stSave"
                /\ Save(p, call[p].cfg)
                /\ Go(p, "stReady") \/ Go(p, "stRevert")
                /\ UNCHANGED <<task, panes, ack, lock, call, tick>>

StartReady(p) == /\ pc[p] = "stReady"
                 /\ WriteConfig(call[p].cfg)
                 /\ stale' = (stale \ {p}) \cup (Busy \ {p})
                 /\ clobbered' = (clobbered \/ p \in stale)
                 /\ haunted' = (haunted \/ p \in orphans)
                 /\ orphans' = orphans \ {p}
                 /\ Go(p, "idle") /\ Local(p, NoCall)
                 /\ UNCHANGED <<task, panes, ack, lock, tick>>

StartRevert(p) == /\ pc[p] = "stRevert"
                  /\ Save(p, call[p].cfg)
                  /\ Go(p, "stKill")
                  /\ UNCHANGED <<task, panes, ack, lock, call, tick>>

StartKill(p) == /\ pc[p] = "stKill"
                /\ panes' = panes \ call[p].added
                /\ Go(p, "clean")
                /\ UNCHANGED <<manifest, json, task, ack, lock, call, tick, History>>

Start(p) == \/ StartCheck(p) \/ StartInit(p) \/ StartTasksNext(p)
            \/ StartSpawn(p) \/ StartSave(p) \/ StartReady(p)
            \/ StartRevert(p) \/ StartKill(p)

-----------------------------------------------------------------------------
(* shutdownTeam, with --force or without, issues confirmed.                *)

BeginShutdown(p) == \E force \in BOOLEAN :
                       Begin(p, "shRead", [NoCall EXCEPT !.force = force])

ShutdownRead(p) ==
    /\ pc[p] = "shRead"
    /\ ReadConfig
    /\ Local(p, [call[p] EXCEPT !.cfg = Current])
    /\ Go(p, CASE Current = None -> "clean"
                [] Current # None /\ call[p].force -> "shAsk"
                [] OTHER -> "shGate")
    /\ UNCHANGED <<task, panes, ack, lock, tick, History>>

(* classifyShutdown *)
HasBlockingBacklog == \E t \in task : t.open

ShutdownGate_Skipped(p) ==
    /\ pc[p] = "shGate"
    /\ Local(p, [call[p] EXCEPT !.gate = tick.task])
    /\ Go(p, "shAsk") \/ Go(p, "shSave")
    /\ UNCHANGED <<Files, tick, History>>

(* Open tasks stop the call, unless the governance of the team does not    *)
(* ask for inactive workers; without them, workers are only asked when     *)
(* there are dirty worktrees.                                              *)
ShutdownGate(p) ==
    /\ pc[p] = "shGate"
    /\ IF HasBlockingBacklog
       THEN \/ End(p)
            \/ Go(p, "shAsk") /\ UNCHANGED <<call, History>>
       ELSE /\ Local(p, [call[p] EXCEPT !.gate = tick.task])
            /\ Go(p, "shAsk") \/ Go(p, "shSave")
            /\ UNCHANGED History
    /\ UNCHANGED <<Files, tick>>

Indices(ws) == {w.index : w \in ws}

(* requestedAt is taken before the request is written.                     *)
ShutdownAsk(p) ==
    /\ pc[p] = "shAsk"
    /\ tick' = [tick EXCEPT !.time = @ + 1]
    /\ Local(p, [call[p] EXCEPT !.stamp = tick.time + 1])
    /\ ack' = [ack EXCEPT !.asked = @ \cup Indices(call[p].cfg.workers)]
    /\ Go(p, "shWait")
    /\ UNCHANGED <<manifest, json, task, panes, lock, History>>

(* readShutdownAck with requestedAt as minUpdatedAt.                       *)
Rejections_Any(c) == {a \in ack.given : a.reject /\ a.index \in Indices(c.cfg.workers)}

Rejections(c) == {a \in ack.given : /\ a.reject
                                    /\ a.index \in Indices(c.cfg.workers)
                                    /\ a.at >= c.stamp}

(* A rejection ends the call; fifteen seconds or dead workers end the wait.*)
ShutdownWait(p) ==
    /\ pc[p] = "shWait"
    /\ \/ /\ Rejections(call[p]) # {} /\ ~call[p].force
          /\ End(p)
       \/ Go(p, "shSave") /\ UNCHANGED <<call, History>>
    /\ UNCHANGED <<Files, tick>>

ShutdownSave(p) == /\ pc[p] = "shSave"
                   /\ Save(p, call[p].cfg)
                   /\ Go(p, "shKill")
                   /\ UNCHANGED <<task, panes, ack, lock, call, tick>>

(* Every pane of the window other than the leader's and the HUD's goes.    *)
ShutdownKill(p) == /\ pc[p] = "shKill"
                   /\ panes' = {}
                   /\ Go(p, "clean")
                   /\ UNCHANGED <<manifest, json, task, ack, lock, call, tick, History>>

Shutdown(p) == \/ ShutdownRead(p) \/ ShutdownGate(p) \/ ShutdownAsk(p)
               \/ ShutdownWait(p) \/ ShutdownSave(p) \/ ShutdownKill(p)

-----------------------------------------------------------------------------
(* Workers finish tasks and answer requests; processes die.  A pane that   *)
(* closes by itself leaves less for the properties to speak of.            *)

TaskDone == \E t \in task :
              /\ t.open /\ panes # {}
              /\ task' = (task \ {t}) \cup {[t EXCEPT !.open = FALSE]}
              /\ UNCHANGED <<manifest, json, panes, ack, lock, pc, call, tick, History>>

Stamps == {call[p].stamp : p \in {q \in Procs : pc[q] = "shWait"}}

WorkerAck == \E w \in panes, reject \in BOOLEAN :
               /\ w.index \in ack.asked
               /\ ack' = [ack EXCEPT !.given =
                            {a \in @ : a.index # w.index} \cup
                            {[index |-> w.index, reject |-> reject,
                              at |-> tick.time, during |-> Stamps]}]
               /\ UNCHANGED <<manifest, json, task, panes, lock, pc, call, tick, History>>

Crash(p) == /\ pc[p] \notin {"idle", "dead"}
            /\ Cardinality(Dead) < MaxCrashes
            /\ Go(p, "dead")
            /\ Local(p, NoCall)
            /\ UNCHANGED <<Files, tick, History>>

BeginCall(p) == \/ BeginCreate(p) \/ BeginScale(p)
                \/ BeginStart(p) \/ BeginShutdown(p)

Next == \/ \E p \in Procs : \/ BeginCall(p) \/ Create(p) \/ Scale(p)
                            \/ Start(p) \/ Shutdown(p) \/ Clean(p) \/ Crash(p)
        \/ TaskDone \/ WorkerAck

Spec == Init /\ [][Next]_vars

-----------------------------------------------------------------------------
(* Type invariant.                                                         *)
ConfigsTyped == manifest \in Config \cup {None} /\ json \in Config \cup {None}

TicksTyped == tick \in [pane : Nat, task : Nat, time : Nat, calls : Nat]

CallsTyped == pc \in [Procs -> Steps] /\ call \in [Procs -> Call]

HistoryTyped == /\ stale \subseteq Procs /\ orphans \subseteq Procs
                /\ clobbered \in BOOLEAN /\ haunted \in BOOLEAN

TypeOK == /\ ConfigsTyped /\ TicksTyped /\ CallsTyped /\ HistoryTyped
          /\ task \subseteq Task
          /\ panes \subseteq Worker
          /\ ack \in [asked : SUBSET Nat, given : SUBSET Ack]
          /\ lock \in [Locks -> Procs \cup {None}]

(* createTask never replaces a task: whatever counter the configuration    *)
(* was written back with, by scaling, a start, a roll-back or a crash, the *)
(* id it draws is not in use, as long as no call outlives its team.        *)
NoTaskOverwritten ==
    [][haunted' \/ \A t \in task, u \in task' : u.id = t.id => u.serial = t.serial]_vars

(* While no stale copy was written back, no team was replaced or removed   *)
(* with panes running, scaleUp did not throw over an open pane, no call    *)
(* outlived its team and nobody died: no two workers run under one name,   *)
(* and every pane that runs is in the configuration or about to be.        *)
Listed == IF Current = None THEN {} ELSE Current.workers
InHand == UNION {call[p].added : p \in Procs}
Undisturbed == ~clobbered /\ ~haunted /\ orphans = {} /\ Dead = {}

RosterIsTrue == Undisturbed =>
                  /\ \A v, w \in panes : v.index = w.index => v = w
                  /\ panes \subseteq Listed \cup InHand

(* A shutdown that is not forced, and that the team's governance did not   *)
(* let through with tasks open, removes an unfinished task only if it was  *)
(* created after the gate had looked.                                      *)
ShutdownSparesOpenTasks ==
    [][\A p \in Procs : /\ pc[p] = "clean" /\ pc'[p] = "idle"
                        /\ call[p].gate # None \* None: forced, or let through
                        => \A t \in task : t.open => t.serial > call[p].gate]_vars

(* A rejection that ends a shutdown was written during that very shutdown, *)
(* not left over from an earlier one that was refused.                     *)
RejectionsAreFresh ==
    [][\A p \in Procs : /\ pc[p] = "shWait" /\ pc'[p] = "idle"
                        => \E a \in ack.given : /\ a.reject
                                                /\ call[p].stamp \in a.during]_vars

(* A team that was removed comes back only by startTeam, unless a call     *)
(* that was under way when it was removed writes to it: nothing of it that *)
(* stays behind is taken for a team of the older kind and migrated.        *)
GoneUntilStarted ==
    [][manifest = None /\ manifest' # None =>
          haunted \/ \E p \in Procs : pc[p] = "stInit"]_vars
=============================================================================
