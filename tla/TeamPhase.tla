------------------------------- MODULE TeamPhase -------------------------------
(***************************************************************************)
(* The phase of a team: team-exec, team-verify, team-fix or an end.  Every *)
(* monitor pass (of the runtime CLI, of `omcp team status` and `await`)    *)
(* infers a target from the tasks it has listed, reads the phase file,     *)
(* follows the path to the target in memory, writes the file back and ends *)
(* the team's mode when the phase is an end; no lock is taken.  The native *)
(* hook writes the same file when the transport of a tool has died.        *)
(*                                                                         *)
(* Tasks are created in the order of their ids.  A task is open (pending,  *)
(* blocked or in progress), failed, done, or unverified: completed with    *)
(* requires_code_change and without structured evidence.  team-plan and    *)
(* team-prd are never written to the file, which begins with team-exec.    *)
(***************************************************************************)
EXTENDS Naturals, Sequences, FiniteSets

CONSTANTS Monitors, Cli,  \* processes that run passes, Cli the one that polls
          Prompt,         \* is worker_launch_mode 'prompt'?
          MaxTasks,       \* bound: tasks
          MaxFix,         \* max_fix_attempts
          MaxChanges,     \* bound: deaths, revivals, relabels, hook calls
          MaxCrashes      \* bound: passes that die

ASSUME PhaseAssumption ==
    /\ Cli \in Monitors /\ "hook" \notin Monitors /\ Prompt \in BOOLEAN
    /\ MaxTasks \in Nat /\ MaxFix \in Nat /\ MaxChanges \in Nat /\ MaxCrashes \in Nat

VARIABLES task,   \* the status of every task
          dead,   \* are all workers dead?
          file,   \* phase.json
          mode,   \* the team's mode file: "active" or "ended"
          pc, view, next, \* per monitor: stage, what it listed, what it will write
          hook,   \* what the hook has read of the file, or <<>>
          result, \* what the runtime CLI has exited with
          changes, crashes,
          behind, \* history: who has read a file that was overwritten since
          rounds  \* history: how often team-fix was entered since the team
                  \* began, was reopened or a write undid an update

vars == <<task, dead, file, mode, pc, view, next, hook, result, changes, crashes,
          behind, rounds>>

Tasks == 1 .. MaxTasks

Ends == {"complete", "failed"}

Phases == {"team-exec", "team-verify", "team-fix"} \cup Ends

File == [phase : Phases, fixes : Nat, log : Seq(Phases \X Phases)]

View == [target : Phases, dead : BOOLEAN, listed : 0 .. MaxTasks]

TypeOK ==
    /\ task \in [Tasks -> {"none", "open", "failed", "done", "unverified"}]
    /\ dead \in BOOLEAN
    /\ file \in File /\ mode \in {"active", "ended"}
    /\ pc \in [Monitors -> {"idle", "listed", "read", "sync", "exited"}]
    /\ view \in [Monitors -> View] /\ next \in [Monitors -> File]
    /\ hook \in Seq(File) /\ Len(hook) \in {0, 1}
    /\ result \in {"none", "completed", "failed"}
    /\ changes \in 0 .. MaxChanges /\ crashes \in 0 .. MaxCrashes
    /\ behind \subseteq Monitors \cup {"hook"} /\ rounds \in Nat

NewFile == [phase |-> "team-exec", fixes |-> 0, log |-> <<>>]

NoView == [target |-> "team-exec", dead |-> FALSE, listed |-> 0]

Init ==
    /\ task = [t \in Tasks |-> "none"] /\ dead = FALSE
    /\ file = NewFile /\ mode = "active"
    /\ pc = [m \in Monitors |-> "idle"]
    /\ view = [m \in Monitors |-> NoView] /\ next = [m \in Monitors |-> NewFile]
    /\ hook = <<>> /\ result = "none" /\ changes = 0 /\ crashes = 0
    /\ behind = {} /\ rounds = 0

-----------------------------------------------------------------------------
(* The phase machine *)

Some(status) == \E t \in Tasks : task[t] = status

Target_IgnoresFailed ==
    IF Some("open") THEN IF dead /\ Prompt THEN "failed" ELSE "team-exec"
    ELSE IF Some("unverified") THEN "team-verify" ELSE "complete"

(* inferPhaseTargetFromTaskCounts; a stall of dead prompt workers fails.   *)
Target ==
    IF Some("open") THEN IF dead /\ Prompt THEN "failed" ELSE "team-exec"
    ELSE IF Some("failed") THEN "team-fix"
    ELSE IF Some("unverified") THEN "team-verify" ELSE "complete"

(* transitionPhase throws for any other step; a path never asks for one    *)
(* (TeamPhaseProofs).                                                      *)
Legal(from, to) ==
    \/ from = "team-exec" /\ to = "team-verify"
    \/ from = "team-verify" /\ to \in {"team-fix"} \cup Ends
    \/ from = "team-fix" /\ to \in {"team-exec", "team-verify"} \cup Ends

Path_VerifyStays(from, to) ==
    IF from = "team-exec" THEN IF to = "team-verify" THEN <<to>> ELSE <<"team-verify", to>>
    ELSE IF <<from, to>> = <<"team-fix", "team-verify">> THEN <<"team-exec", to>>
    ELSE IF from = "team-verify" /\ to # "team-fix" THEN <<>>
    ELSE <<to>>

(* The phases on the way from one to another; there is no way back from    *)
(* team-verify to team-exec.                                               *)
Path(from, to) ==
    IF from = "team-exec" THEN IF to = "team-verify" THEN <<to>> ELSE <<"team-verify", to>>
    ELSE IF <<from, to>> = <<"team-fix", "team-verify">> THEN <<"team-exec", to>>
    ELSE IF <<from, to>> = <<"team-verify", "team-exec">> THEN <<>>
    ELSE <<to>>

Moved(f, to, fixes) ==
    [phase |-> to, fixes |-> fixes, log |-> Append(f.log, <<f.phase, to>>)]

Transition_OffByOne(f, to) ==
    IF to # "team-fix" THEN Moved(f, to, f.fixes)
    ELSE IF f.fixes > MaxFix THEN Moved(f, "failed", f.fixes)
    ELSE Moved(f, to, f.fixes + 1)

Transition(f, to) ==
    IF to # "team-fix" THEN Moved(f, to, f.fixes)
    ELSE IF f.fixes + 1 > MaxFix THEN Moved(f, "failed", f.fixes)
    ELSE Moved(f, to, f.fixes + 1)

Follow(f, path) ==
    IF path = <<>> THEN f
    ELSE IF Len(path) = 1 THEN Transition(f, path[1])
    ELSE Transition(Transition(f, path[1]), path[2])

Reconcile_Unlogged(f, target) ==
    IF f.phase = target THEN f
    ELSE IF f.phase \notin Ends THEN Follow(f, Path(f.phase, target))
    ELSE IF target \in Ends THEN f
    ELSE [f EXCEPT !.phase = target, !.fixes = 0]

Reconcile_Final(f, target) ==
    IF f.phase \in Ends \cup {target} THEN f ELSE Follow(f, Path(f.phase, target))

(* A finished team that is reopened begins to count anew; the entries of   *)
(* the log before that one are left out from then on, nothing reads them.  *)
Reconcile(f, target) ==
    IF f.phase = target THEN f
    ELSE IF f.phase \notin Ends THEN Follow(f, Path(f.phase, target))
    ELSE IF target \in Ends THEN f
    ELSE [phase |-> target, fixes |-> 0, log |-> << <<f.phase, target>> >>]

-----------------------------------------------------------------------------
(* Tasks, workers and the hook *)

Passes == <<pc, view, next>>

History == <<behind, rounds>>

Create(t) ==
    /\ task[t] = "none" /\ \A u \in 1 .. t - 1 : task[u] # "none"
    /\ task' = [task EXCEPT ![t] = "open"]
    /\ UNCHANGED <<dead, file, mode, Passes, hook, result, changes, crashes, History>>

Finish(t) ==
    /\ task[t] = "open"
    /\ \E status \in {"done", "unverified", "failed"} : task' = [task EXCEPT ![t] = status]
    /\ UNCHANGED <<dead, file, mode, Passes, hook, result, changes, crashes, History>>

Change == changes < MaxChanges /\ changes' = changes + 1

(* update-task changes requires_code_change, of a completed task as well.  *)
Relabel(t) ==
    /\ Change /\ task[t] \in {"done", "unverified"}
    /\ task' = [task EXCEPT ![t] = IF @ = "done" THEN "unverified" ELSE "done"]
    /\ UNCHANGED <<dead, file, mode, Passes, hook, result, crashes, History>>

(* All workers die, or some are started again (scale up).                  *)
DieOrRevive ==
    /\ Change /\ dead' = ~dead
    /\ UNCHANGED <<task, file, mode, Passes, hook, result, crashes, History>>

Readers == {m \in Monitors : pc[m] = "read"} \cup (IF hook = <<>> THEN {} ELSE {"hook"})

(* The file is written whole: who has read an older one than is there      *)
(* undoes the updates made since.                                          *)
Put(by, new) ==
    LET undoes  == by \in behind /\ new # file
        reopens == file.phase \in Ends /\ new.phase \notin Ends
        enters  == new.phase = "team-fix" /\ file.phase # "team-fix"
    IN  /\ file' = new
        /\ behind' = (IF new = file THEN behind ELSE behind \cup Readers) \ {by}
        /\ rounds' = IF undoes \/ reopens THEN 0 ELSE IF enters THEN rounds + 1 ELSE rounds

(* The hook fails a team that has not ended.  It also asks for the team's  *)
(* mode to be failed, which applyRunOutcomeContract refuses for a mode     *)
(* that is active (the update does not say active: false).                 *)
HookReads ==
    /\ hook = <<>> /\ file.phase \notin Ends /\ Change
    /\ hook' = <<file>>
    /\ UNCHANGED <<task, dead, file, mode, Passes, result, crashes, History>>

HookWrites ==
    /\ hook # <<>>
    /\ Put("hook", Moved(hook[1], "failed", hook[1].fixes))
    /\ hook' = <<>>
    /\ UNCHANGED <<task, dead, mode, Passes, result, changes, crashes>>

-----------------------------------------------------------------------------
(* A monitor pass *)

At(m, from, to) == pc[m] = from /\ pc' = [pc EXCEPT ![m] = to]

(* The workers are looked at, and the tasks 1 .. listed counted.           *)
List(m) ==
    /\ At(m, "idle", "listed")
    /\ view' = [view EXCEPT ![m] =
         [target |-> Target, dead |-> dead,
          listed |-> Cardinality({t \in Tasks : task[t] # "none"})]]
    /\ UNCHANGED <<task, dead, file, mode, next, hook, result, changes, crashes, History>>

(* The CLI looks at the counts again when the pass is over, others do not. *)
Read(m) ==
    /\ At(m, "listed", "read")
    /\ next' = [next EXCEPT ![m] = Reconcile(file, view[m].target)]
    /\ view' = [view EXCEPT ![m] = IF m = Cli THEN @ ELSE NoView]
    /\ UNCHANGED <<task, dead, file, mode, hook, result, changes, crashes, History>>

(* Of what it has written a pass uses only the phase from then on.         *)
Write(m) ==
    /\ At(m, "read", "sync")
    /\ Put(m, next[m])
    /\ next' = [next EXCEPT ![m] = [phase |-> next[m].phase, fixes |-> 0, log |-> <<>>]]
    /\ UNCHANGED <<task, dead, mode, view, hook, result, changes, crashes>>

(* The pass ends; the runtime CLI exits with an end, or because it finds   *)
(* its workers dead: with work left in a pane it still lists, or in        *)
(* team-fix.                                                               *)
Exit(m, outcome) ==
    /\ At(m, "sync", IF outcome = "none" THEN "idle" ELSE "exited")
    /\ result' = IF outcome = "none" THEN result ELSE outcome

Outcomes(phase, v) ==
    CASE phase = "complete" -> {"completed"}
      [] phase = "failed"   -> {"failed"}
      [] OTHER -> {"none"} \cup
           IF v.dead /\ (phase = "team-fix" \/ v.target \in {"team-exec", "failed"})
           THEN {"failed"} ELSE {}

Sync(m) ==
    LET phase == next[m].phase IN
    /\ mode' = IF phase \in Ends THEN "ended" ELSE mode
    /\ \E outcome \in IF m = Cli THEN Outcomes(phase, view[m]) ELSE {"none"} : Exit(m, outcome)
    /\ view' = [view EXCEPT ![m] = NoView] /\ next' = [next EXCEPT ![m] = NewFile]
    /\ UNCHANGED <<task, dead, file, hook, changes, crashes, History>>

(* A pass fails or is killed, and the next poll starts another.            *)
Crash(m) ==
    /\ pc[m] \notin {"idle", "exited"}
    /\ crashes < MaxCrashes /\ crashes' = crashes + 1
    /\ pc' = [pc EXCEPT ![m] = "idle"]
    /\ view' = [view EXCEPT ![m] = NoView] /\ next' = [next EXCEPT ![m] = NewFile]
    /\ behind' = behind \ {m}
    /\ UNCHANGED <<task, dead, file, mode, hook, result, changes, rounds>>

Pass(m) == List(m) \/ Read(m) \/ Write(m) \/ Sync(m)

Next ==
    \/ \E t \in Tasks : Create(t) \/ Finish(t) \/ Relabel(t)
    \/ DieOrRevive \/ HookReads \/ HookWrites
    \/ \E m \in Monitors : Pass(m) \/ Crash(m)

Spec == Init /\ [][Next]_vars

(* Passes are run again and again: the CLI polls until it exits, and the   *)
(* leader asks for the status for as long as the team is there.            *)
FairSpec == Spec /\ (\A m \in Monitors : WF_vars(Pass(m))) /\ WF_vars(HookWrites)

-----------------------------------------------------------------------------
(* Properties *)

Leads(f) ==
    /\ f.phase = IF f.log = <<>> THEN "team-exec" ELSE f.log[Len(f.log)][2]
    /\ \A i \in 1 .. Len(f.log) :
         IF i = 1 THEN f.log[i][1] \in {"team-exec"} \cup Ends
         ELSE f.log[i][1] = f.log[i - 1][2]

(* However passes and the hook overwrite each other's file, its log leads  *)
(* without a gap from where the team began, or was reopened, to its phase. *)
LogLeadsToPhase == Leads(file)

FixEntries(log) ==
    {i \in 1 .. Len(log) : log[i][2] = "team-fix" /\ log[i][1] \notin Ends}

Counted(f) == f.fixes = Cardinality(FixEntries(f.log)) /\ f.fixes <= MaxFix

(* A team enters team-fix at most max_fix_attempts times from its begin, a *)
(* reopening or an update that a stale write of a pass or the hook has     *)
(* undone, until the next of these: so often the phase file really takes   *)
(* on that phase, whatever its log says.  (An update undone may bring back *)
(* a lower count, with as many attempts again as there were at first.)     *)
(* The counter of the file is the number of its log's fix entries.         *)
FixLoopsAreLimited == rounds <= MaxFix /\ Counted(file)

(* The CLI exits with "completed" only if every task its pass listed is    *)
(* completed then, whatever other passes and the hook wrote in between.    *)
(* (With all its workers dead a team that had been complete stays so in    *)
(* spite of new tasks: both are ends.)                                     *)
CompletedMeansDone ==
    [][result' = "completed" /\ result = "none" /\ ~view[Cli].dead =>
         \A t \in 1 .. view[Cli].listed : task[t] \in {"done", "unverified"}]_vars

(* A team whose tasks are all done ends, and its mode with it, through any *)
(* passes that die, stale writes, reopenings and the hook.                 *)
TeamsEnd ==
    <>[](\A t \in Tasks : task[t] = "done") => <>[](file.phase \in Ends /\ mode = "ended")

(* A team with open tasks and a live worker does not stay at an end that a *)
(* stale pass or the hook has written.                                     *)
OpenTeamsReopen ==
    <>[](~dead /\ \E t \in Tasks : task[t] = "open") => <>[](file.phase \notin Ends)
=============================================================================
