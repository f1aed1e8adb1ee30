# Verification of the oh-my-copilot team runtime

TLA+ specifications of the parts of oh-my-copilot in which several processes
work on shared files: the team task store and its locks, the configuration of
a team from its start to its shutdown, the monitor that announces completed
work and moves the team's phase, the Rust runtime engine with its log, the
mailbox and the queue through which workers are told what to do, and the
workflow modes. TLC checks the specifications on small instances, and TLAPS
proves their safety properties for every value of the constants.

Contents: 1 the system, 2 modules, 3 runs, 4 fairness, 5 proofs, 6 where the
code and its documents disagree, 7 what is only model-checked, 8 what is not
modelled, 9 plan, 10 how to run it.

## 1. The system

`omcp team` starts a leader and a number of workers, each an agent in a tmux
pane. They have no server. Every operation is a short-lived Node process (or
the leader's loop, or a hook script that the agent's host starts) that reads
JSON files below `.omcp/state/team/<name>/`, decides and writes them back.
With the runtime bridge (`OMCP_RUNTIME_BRIDGE`, on by default) a Rust program,
`omcp-runtime exec`, is started for every command and keeps a log of its own;
TypeScript reads the files the engine writes beside the log.

| Part | State | Operations | What is hard |
|---|---|---|---|
| Directory locks (`team/state/locks.ts`, `dispatch-lock.ts`) | a directory and an owner file | acquire, release, recover a stale one | check and removal are separate calls, holders die, waiters time out |
| Task store (`team/state/tasks.ts`, `state.ts`) | one file per task with status, owner, claim, dependencies, version; an event log | claim, transition, release, reclaim, update, create | leases run out at any moment, reads outside the lock, crashes between task file, event and mark |
| Monitor (`team/runtime.ts`, `state/monitor.ts`) | the snapshot of the last pass | a pass: read snapshot, list tasks, reclaim, assign, announce, write snapshot | long read-modify-write without a lock, several monitors, passes that die |
| Runtime engine (`crates/omcp-runtime*`, `runtime/bridge.ts`) | `events.json`, `mailbox.json`, `dispatch.json` and further views | `exec` of a command: load, process, compact, persist, write views | nothing is held between load and persist, kills after ten seconds, compaction |
| Dispatch queue (`team/state/dispatch.ts`, `mcp-comm.ts`, `runtime.ts`) | `dispatch/requests.json`, and `dispatch.json` with the bridge | enqueue with deduplication, wait for a receipt, fall back, mark | two owners of one status (file and engine), whole-list writes, status read before the lock |
| Hook drain (`scripts/notify-hook/team-dispatch.ts`) | a lease directory per request, cooldown files | claim, type into a pane, write the outcome | several hooks at once, death between typing and writing, retries |
| Mailbox (`team/state/mailbox.ts`) | one legacy file per worker, the engine's log and its view `mailbox.json`, the delivery log | send with deduplication, mark delivered, mark notified | look-up outside the lock, two stores, commands that fail for their caller only |
| Team roster (`state.ts`, `scaling.ts`, `runtime.ts`) | `config.json`, `manifest.v2.json`, task files, worker panes, request and acknowledgement files of a shutdown | start, create task, scale up and down, shut down | whole-file writes from old copies, the id counter, roll-backs, old acknowledgements, removal of the directory with its locks |
| Team phase (`phase-controller.ts`, `orchestrator.ts`, `runtime.ts`, `runtime-cli.ts`, `codex-native-hook.ts`) | `phase.json`, the team's mode | reconcile with the task counts, fail on a dead transport, exit | unlocked read-modify-write by several monitors and a hook, a loop limit across reopened work |
| Workflow modes (`state/`, `modes/base.ts`) | a file per mode and scope, a list of active modes per scope | start, write, update, cancel, clear with a transition table | exclusive modes checked before they are written, lists copied between scopes |

They meet as follows. The leader's `assignTask` claims a task and queues a
request for its worker; the hook drains the request into the worker's pane; the
worker's CLI calls transition the task, which appends an event and marks the
monitor snapshot; the monitor's passes reclaim expired claims, announce what
nobody announced and derive the phase, which ends the team's mode and lets the
runtime CLI exit. Starting, scaling and shutting down change who is on the team
under all of this. Most files are guarded by the directory locks, the
configuration only by those of createTask and scaling, phase, modes and monitor
snapshot by none; the engine guards its log by a kernel file lock.

What makes each part correct:

- locks: one holder at a time, a lock in use stays, a dead holder's lock goes;
- tasks: finished stays finished, a running lease is exclusive, no update is
  lost, work starts after its dependencies, the log says what happened;
- monitor: views may be old but never ahead of the tasks, each completion is
  announced, and once;
- engine: the files rebuild the engine that wrote them, a load sees a whole
  log, no log is illegal, what was answered stays, every exec ends;
- dispatch: one pending request per subject, a status moves along its table,
  a mark means a send, one hook per request, an end to retries, each request
  is settled;
- mailbox: readers find what the delivery log says, a repeated send makes no
  second copy, what was delivered stays so;
- roster: no task file is replaced, the configuration lists the panes that run,
  names are not shared, a removed team stays away, shutdown spares open work;
- phase: the log explains the phase, fix loops are counted and limited while no
  write undoes another, the CLI reports only finished work, done teams end and
  open ones go on;
- modes: no excluding modes are active together, lists follow the files.

## 2. Modules

| Module | Models | Extends or uses |
|---|---|---|
| `DirLock` | one directory lock, one file system call per step | |
| `DirLockProofs` | its theorems | `DirLock` |
| `TaskClaims` | what the task store promises: a board of tasks under exclusive leases, one step per operation | |
| `TaskLifecycle` | the task operations as processes run them | implements `TaskClaims` |
| `TeamMonitor` | monitor passes beside the task operations | `TaskLifecycle` |
| `TaskLifecycleProofs` | the theorems of both, and that `TaskLifecycle` implements `TaskClaims` | `TeamMonitor` |
| `RuntimeCommands` | the engine as a value: commands, events, compaction, replay | |
| `RuntimeStore` | `exec` processes on one state directory | `RuntimeCommands` |
| `RuntimeStoreProofs` | its theorems, and what its engine's replay computes | `RuntimeStore` |
| `DispatchQueue` | leader calls, hooks and the engine's log around the request list | |
| `DispatchQueueProofs` | its theorems | `DispatchQueue` |
| `TeamRoster` | start, createTask, scaling and shutdown of one team | |
| `TeamRosterProofs` | its theorems | `TeamRoster` |
| `Mailbox` | sends and marks over the engine's view and the legacy file | `RuntimeCommands` as an instance |
| `MailboxProofs` | its theorems | `Mailbox` |
| `TeamPhase` | monitor passes and the hook on `phase.json` | |
| `TeamPhaseProofs` | its theorems | `TeamPhase` |
| `WorkflowModes` | calls that start, end and clear modes in sessions and the root | |
| `WorkflowModesProofs` | its theorems | `WorkflowModes` |
| `MC*` | constants and symmetry of the instances | |

The exact lines behind every definition are in `PROJECT.json` under `map`.
Definitions whose names end in an underscore and a remark (`Claimable_Leased`)
are variants with a mistake in them; no action uses them. They show that a
property can fail: with the variant in place of the definition before the
underscore, TLC reports the property violated.

### DirLock

`dir` is the lock directory with its maker, owner file and age; `pc` holds the
next file system call of every process. `Mkdir`, `WriteOwner`, `Leave`,
`ReadOwner`, `Release` are the calls of the lock function; `Stat` and `Recover`
are the two calls of `maybeRecoverStaleLock`; `Retry` and `GiveUp` are the poll
and the deadline. Time is abstract: `GrowStale` makes the directory of a dead
maker, or of one in `Suspendable`, older than `LOCK_STALE_MS`. All five locks of
the team state are copies of this protocol.

### TaskLifecycle and TaskClaims

A process takes a request (`StartClaim` with its reads before the lock,
`StartTransition`, `StartRelease`, `StartReclaim`, `StartUpdate`), acquires the
lock of its task, decides on the task it then reads (`DecideClaim` and so on,
with the error paths), writes, appends its event, unlocks, and reads and writes
the monitor snapshot after that, as `transitionTaskStatus` does. `Crash` may
fall between any two steps; `RecoverStaleLock` removes the lock a dead process
left. The lock is one variable per task here, which is what `DirLock` shows of
it as long as recoveries do not overlap. Leases run out in the order they were
granted (`LeaseExpires`), since each is granted for the same time; a claim
carries the number of its lease instead of a random token. `TaskClaims` has the
same tasks and leases without processes, lock or files, and
`ImplementsTaskClaims` says that the one is an implementation of the other.

### TeamMonitor

A pass is `ReadPrevious`, `ListTasks`, one `EmitDerived` per task and
`SaveSnapshot`; `PassFails` ends it anywhere. Reclaims and assignments of a pass
are the operations of `TaskLifecycle`, run by its processes. The marks
(`completedEventTaskIds`) in the snapshot it writes are those it has read.

### RuntimeCommands and RuntimeStore

`RuntimeCommands` has the engine as a record and pure operators on it: which
commands it accepts, what they do, what compaction drops, what replaying a log
gives. `RuntimeStore` runs it in processes: shared lock, read of the log, read
of the mailbox file over the replayed mailbox, command, exclusive lock, the two
writes (each an emptying and a filling of a file), unlock, and the views, with
the mailbox file a second time, under no lock. `Killed` may fall between any
two steps and frees the kernel's locks. An exec whose load fails goes on with
an empty engine. Ids are drawn fresh; a file that is absent or half written is
`None`.

### DispatchQueue

A leader call queues a request (`Queue`, under the lock), waits for a hook or
sends the trigger itself, and marks the request notified or failed, with the
reads outside the lock (`MarkRead`, `FailRead`) that the code makes. A hook
claims requests under the lock by taking their leases, types them one by one,
and writes each outcome under the lock. A locked section is two steps: the read
of the whole list and the write of the whole list. Engine commands (`MarkExec`,
`OtherExec`, the ones in `Queue`, `Inject` and `Finalize`) are not under that
lock, so they fall between the two; each of them writes `dispatch.json` from the
log. `Bridge` says who owns the status. `injected` and `told` record what was
really sent. Whoever waits for the lock may time out (`GiveUp`), be its holder
dead or alive and slow: a hook then drops its batch with its leases, also when
it has typed a request and not yet written so (`timeouts` counts these where the
holder lives). A process may die (`Crash`) with its lock and leases, which are
taken from it when they are old enough (`Recover`). `Outlasted` lets the lease
of a slow but living hook be taken for stale.

### TeamRoster

`manifest` and `json` are the two configuration files, `panes` the workers that
run, `lock` the team lock and the scaling lock, which lie in the directory that
a clean-up removes. A call reads the configuration once and keeps its copy in
`call`: `CreateRead` to `CreateUnlock` are `createTask`; `UpRead`, `UpTasks`,
`UpSpawn`, `UpNotify` are `scaleUp` and `UpKill`, `UpRestore` its roll-back;
`DownRead` to `DownSave` are `scaleDown`; the `Start` actions are `startTeam` with
its roll-back (`StartRevert`, `StartKill`), the `Shutdown` actions `shutdownTeam`:
gate, requests, acknowledgements by time, teardown, and `Clean`. `createTask` is
called from `scaleUp` and `startTeam` as well (`back` says where it returns). Workers
finish tasks and acknowledge (`TaskDone`, `WorkerAck`) on their own. A start
goes on over a team whose phase is an end, with its panes perhaps still
running: `CleanStale` removes the old directory, or leaves it for
`initTeamState` to overwrite. An exception inside `scaleUp` is an outcome of
`UpSpawn` and `UpNotify` besides success and roll-back; it leaves an opened pane in
no list. The gate of an unforced shutdown stops at open tasks
(`HasBlockingBacklog`) unless the team's governance lets it pass. Four history
variables (`stale`, `orphans`, `clobbered`, `haunted`) say whether a stale copy was
written back, a team replaced or removed with its panes running, or a pane
left by an exception, and whether a call has outlived its team; the properties
that these break name them.

### Mailbox

`view` is what `mailbox.json` held last as a whole and `half` says that it is
emptied or torn, `logged` is the mailbox that `events.json` replays to (`None`
after a kill in the middle of its write), `legacy` the legacy file, `events` the
delivery log. A send (`Send` with its deduplication, `Shadow`, `Announce`) holds
the mailbox lock from the look-up to the write of the legacy file; a delivery
mark looks the message up before it takes the lock (`BeginDelivered`, then
`MarkDelivered`, `LogDelivered`), a notification mark does the same
(`BeginNotified`, `MarkNotified`). Each runs an engine command, as does
`OtherCommand` about something else. A command is cut where others come in
between: `LoadEngine` under the shared lock, `Persist` and `Fill` under the
exclusive one, `Reopen` and `Refill` (the view) under none, so commands overlap,
and an older engine may be written over a newer one. `Failed` kills it before
any of these steps; a process that dies may leave its command running
(`orphan`). While `mailbox.json` is no JSON, readers take the legacy file
(`ReadMailbox`) and a load takes the mail of the log (`Loaded`). What commands
do is taken from `RuntimeCommands`. History: `behind` are the commands that
another one has overtaken (it saved its events after they were loaded), `lost`
says that such a command has written its files, or that a kill has emptied
`events.json`; `unheard` are the messages marked delivered in the legacy file
only.

### TeamPhase

A pass of a monitor is `List` (workers and task counts), `Read` (reconcile the
phase file in memory), `Write` and `Sync` (end the mode; the runtime CLI exits
on an end). `HookReads` and `HookWrites` are the native hook that fails a team
whose transport is dead. No step takes a lock, and every write is of the whole
file (`Put`): who has read a file that was overwritten since (`behind`) undoes
the updates in between. `rounds` counts how often the file really took on
`team-fix`, from the team's begin, a reopening or such an undoing write. Tasks
are created, end in one of three ways and are relabelled; all workers die or are
revived. The phases `team-plan` and `team-prd` are never persisted. Of the
transition log the entries since the team began or was last reopened are kept.

### WorkflowModes

`files` has a status per scope (a session, or the root) and mode, `lists` the
skill-active file of each scope. A call reconciles with its scopes
(`Reconcile`), completes the modes it takes over from (`Complete`), writes its
own file (`Put`) and synchronises the lists after each of these (`SyncRead`,
`WriteRoot`, `WriteOwn`, `PassOn`). Two kinds of call write a mode file and tell
no list (`PutPlain`): the end of a team's mode at shutdown or by the team
command, once for the root and once for a session (`BeginShutdown`), and the
turn that the hook counts in an active mode, and ends when there were enough
(`BeginTurn`, which is also what `omcp cancel` does to each active mode). The
transition table is `AutoComplete` and `Overlap`. One step each are: completing
a source in its session and in the root, unlinking the files of `clear_all`, and
reading both lists. History variables say which scopes were used, in which calls
overlapped (`clashed`) or died (`torn`), whether a call went by a list alone
(`blind`), and which modes were ended behind the list of a scope (`stale`).

## 3. Runs

Eleven runs must end without an error. Some type invariants that section 5
proves are not checked again in them:

| Run | Instance | What it shows |
|---|---|---|
| `task_lifecycle` | 2 processes, 2 tasks (one waits for the other, one assigned beforehand), 2 workers, versions to 3, 1 death; 1.2 M states | terminal tasks stay terminal; running leases are exclusive; no lost update; claims wait for dependencies; the event log is true; `TaskClaims` is implemented |
| `dir_lock` | 3 processes, 1 death; 1 124 states | while all live the directory of a running function stays; a dead holder's lock goes away; only overlapping recoveries break exclusion |
| `team_monitor` | 2 monitors, 1 process that works on 1 task and may die, at most 2 events; 450 k states | lists, snapshots and events are never ahead of the tasks; a completion whose event a crash swallowed is announced by a later pass |
| `runtime_store_sequential` | 1 process, 2 owners, 2 requests, 1 message, 1 cursor, 4 execs with and without `--compact`; 35 k states | types; between execs the files and what a load rebuilds agree, compacted or not |
| `runtime_store` | 2 processes, 1 owner, 1 request, 3 execs, 1 kill; 200 k states | loads see whole logs; no log holds an event out of turn; the log stays while it is read; every exec ends |
| `dispatch_queue` | files only: 2 calls and a hook whose leases may run out under it, 2 requests with one subject, 1 death, 1 time-out of an outcome on a live holder, up to 6 injections; 5.3 M states | types; one pending request per subject; marked means sent; three unconfirmed attempts are the end (one more per death or such time-out); a status moves along its table |
| `dispatch_bridge` | bridge: 2 calls, 2 hooks, 1 request, 1 death, 1 such time-out; 218 k states | one hook per request; a hooked request is settled in the end |
| `team_roster` | 2 processes, a team of 2 (at most 3) workers and 1 task, any 3 calls, 1 death; 7.0 M states | no task file is replaced; the panes are those of the configuration until a step of the kinds named in the property has happened; a gated shutdown spares open tasks, and hears only its own rejections; a removed team stays away |
| `mailbox` | 2 processes, 2 texts, 3 ids, 4 sends, marks and other commands, which overlap, 2 killed commands, 1 death; 5.6 M states | until an overtaken command writes or a kill empties the log: readers find what is logged; one undelivered copy; delivered stays delivered |
| `workflow_modes` | 2 processes, 3 modes (`ralplan` yields to the others, `ralph` and `team` may overlap), 2 sessions and the root, 3 calls, plain writes among them, 1 death; 4.2 M states | active modes are compatible; lists follow files, but for modes ended behind their back |
| `team_phase` | the CLI and a status command, 2 tasks, 1 fix attempt, 1 of: death or revival of all workers, relabelling, hook call; 1 pass dies; 2.2 M states | the log leads to the phase; fix rounds are counted, and really limited until a stale write undoes one; the CLI reports only what is done; done teams end; open teams reopen |

One run checks what a test says of the locks, and TLC finds a behaviour of the
code that does not comply (section 6): `dir_lock_two_recoveries`.

Why these bounds are enough for what they are asked. Two processes are the
fewest that interleave; the lock needs a third, since a broken exclusion takes a
dead holder and two recoverers. Two tasks are the fewest with a dependency, and
versions to 3 let a task be claimed, taken over or handed back, and finished. In
the monitor one task is enough, as passes treat tasks apart from each other, and
two monitors overlap. The engine's requests and messages do not touch one
another, so that one request suffices for the overlap, and three execs are
queue, notify and fail; the sequential run has two requests, so that compaction
drops one of them and keeps the other. In the dispatch queue the requests meet
in whole-list writes, for which two are needed; six injections are one more than
three attempts, a death and a time-out allow. One death leaves a lock, a lease
or a half-done operation behind, which is what recovery is about; two deaths
would repeat it. Three calls on a team are a start, a call and another that
overlaps it or follows it; a third worker leaves room for one scale-up. Four
mailbox calls are two sends of one text and the marks of one message, or
commands of others that overtake them; two killed commands let a send fail and
its repetition too. A mode, one that takes over from it and one that excludes or
overlaps both are the cases of the transition table; three calls are a start, a
take-over and a later look at what is left. One fix attempt is reached and then
exceeded. Theorems carry the safety properties beyond the bounds.

The bounds are `MaxVersion`, `MaxCrashes`, `MaxTimeouts`, `MaxEvents`,
`MaxCommands`, `MaxInjected`, `MaxCalls`, `MaxFaults`, `MaxTasks` and
`MaxChanges` (`MaxWorkers` and `MaxFix` are limits of the code). Each is a guard
of the action that counts, with another way on, so that no bound makes a process
wait for ever. Deadlock is checked wherever the system never stops;
`TaskLifecycle`, `TeamMonitor`, `RuntimeStore`, `TeamRoster`, `Mailbox`,
`WorkflowModes` and `TeamPhase` stop when their bounds are used up (`TeamPhase`
when the CLI has exited or no change is left), and their configurations say so.

Symmetry is used in runs without temporal properties that involve fairness, over
processes, request ids or owners that no definition tells apart.

## 4. Fairness

- `DirLock`: a living process goes on with its calls and asks for the lock
  again (the monitor and the workers poll), and time passes.
- `TeamMonitor`: the runtime loop calls `monitorTeam` for as long as the team
  runs, so a pass begins again after every pass; a step of a pass that passes
  reach again and again is made in one of them (strong fairness), although any
  number of passes fails.
- `RuntimeStore`: a process runs on, and the kernel grants a file lock that
  comes free again and again (strong fairness).
- `DispatchQueue`: a living process goes on; the lock is polled by all who want
  it, with jitter, so that one who finds it free again and again gets it (strong
  fairness); a dead process's lock and leases get old; and a request that can be
  claimed again and again is claimed, since cooldowns end and a batch of five
  empties the queue tick by tick. Crashes, slow hooks, time-outs and new calls
  are not fair. Hooks that drop an outcome because a live holder has kept the
  lock are bounded: the holder runs engine commands (each killed after five
  seconds) and plugins under it, and if that went on for ever for every hook,
  none would ever settle a request.
- `TeamPhase`: passes are begun and finished again and again, since the CLI polls
  until it exits and the leader asks for the status as long as the team is
  there; a hook that has read the file writes it. Passes that die are bounded.

## 5. Proofs

Every invariant and action property that a passing run checks is proved. All
theorems hold for any number of processes, tasks, requests and so on, under
the assumptions on the constants that the modules name (`None` is no process,
task or record, bounds are natural numbers, sets are of the right kind). A
theorem that needs more says so:

- `Suspendable = {}`: the operating system does not stop a process inside a lock
  for longer than the lock's age. Otherwise the lock is taken from it, and the
  properties are false.
- `Slow = {}`: no batch of injections outlasts its leases. Otherwise two hooks do
  work on one request.
- `~Bridge`: the request list is the files. With the bridge the engine's view
  replaces the list, and section 6 says what that breaks.
- `OnlyExec`: there is one process, and it is not killed. Overlapping execs lose
  events (section 6).

| Module | Theorem | Statement |
|---|---|---|
| `DirLockProofs` | `LockTypes` | `Spec => []TypeOK` |
| | `LockIsExclusiveUnlessRecoveriesOverlap` | if `Suspendable = {}`: `Spec => ([]RecoveryAlone => []MutualExclusion)` |
| | `HeldLockStays` | if `Suspendable = {}`: `Spec => LockStaysWhileHeld` |
| `TaskLifecycleProofs` | `TaskTypes` | `Spec => []TypeOK` |
| | `FinishedTasksStayFinished` | if `Suspendable = {}`: `Spec => TerminalIsFinal` |
| | `LeasesAreExclusive` | if `Suspendable = {}`: `Spec => RunningLeaseIsExclusive` |
| | `UpdatesAreNotLost` | if `Suspendable = {}`: `Spec => NoLostUpdate` |
| | `ClaimsWaitForDependencies` | if `Suspendable = {}`: `Spec => ClaimedOnlyWhenReady` |
| | `EventLogIsTrue` | if `Suspendable = {}`: `Spec => []EventsMatchTasks` |
| | `LifecycleImplementsClaims` | if `Suspendable = {}`: `Spec => ImplementsTaskClaims` |
| | `MonitorsAreNeverAhead` | if `Suspendable = {}`: `MonitorSpec => []ViewsAreNeverAhead` |
| `RuntimeStoreProofs` | `StoreTypes` | `Spec => []TypeOK` |
| | `LoadsReadOneLog` | `Spec => LogStaysWhileRead` |
| | `LogsStayLegal` | `Spec => []DispatchLogIsLegal` |
| | `LoadsMeetALog` | `Spec => []LoadsSeeWholeLogs` |
| | `FilesStayInStep` | if `OnlyExec`: `Spec => []FilesAgree` |
| `DispatchQueueProofs` | `DispatchTypes` | `Spec => []TypeOK` |
| | `LeasesExclude` | if `Slow = {}`: `Spec => []OneHookPerRequest` |
| | `OnlySentIsNotified` | `Spec => []NotifiedWasSent` |
| | `OnePendingRequest` | if `~Bridge`: `Spec => []OnePendingPerKey` |
| | `StatusesMove` | if `~Bridge`: `Spec => StatusMoves` |
| | `InjectionsAreBounded` | if `~Bridge`, and `Slow = {}` or there is one hook: `Spec => []BoundedInjections` |
| `TeamRosterProofs` | `TypeCorrect` | `Spec => []TypeOK` |
| | `TasksAreNotOverwritten` | `Spec => NoTaskOverwritten` |
| | `GoneStaysGone` | `Spec => GoneUntilStarted` |
| | `OpenTasksAreSpared` | `Spec => ShutdownSparesOpenTasks` |
| | `RejectionsAreTimely` | `Spec => RejectionsAreFresh` |
| | `RosterStaysTrue` | `Spec => []RosterIsTrue` |
| `MailboxProofs` | `TypeCorrect` | `Spec => []TypeOK` |
| | `ReadersFindWhatIsLogged` | `Spec => []LogIsTrue` |
| | `SendsAreNotRepeated` | `Spec => []OneUndeliveredCopy` |
| | `DeliveryIsFinal` | `Spec => DeliveredStaysDelivered` |
| `TeamPhaseProofs` | `PathsAreLegal` | every step of `Path(from, to)` is allowed by `Legal` |
| | `TypeCorrect` | `Spec => []TypeOK` |
| | `LogHasNoGap` | `Spec => []LogLeadsToPhase` |
| | `FixLimitHolds` | `Spec => []FixLoopsAreLimited` |
| | `CompletedTeamsAreDone` | `Spec => CompletedMeansDone` |
| `WorkflowModesProofs` | `ModeTypes` | `Spec => []TypeOK` |
| | `ModesGoTogether` | `Spec => []ActiveModesAreCompatible` |
| | `ListsStayTrue` | `Spec => []ListsFollowFiles` |

Hardly any of these properties is inductive. The arguments, with the invariants
that are:

**Lock.** `LockInv` says that a process from its owner-file write to its `rm` has
made the directory that exists, which is fresh (`HoldersMadeIt`), that only a
dead maker's directory is stale (`StaleIsDead`), and that a process about to
remove a directory has that stale directory before it (`RecoverersSawStale`). The
last part is preserved only while `RecoveryAlone` holds: a second recoverer
could have replaced the directory in between. Hence the premise of the theorem,
and `dir_lock_two_recoveries` shows that it cannot be dropped. Until somebody has
died the directory is fresh and nobody recovers (`YoungUntilDeath`), so that
`HeldLockStays` needs no such premise.

**Task store.** Terminal tasks and leases are only as safe as the lock, so the
invariant `SafeInv` has three parts. The types include the request that each step
works on (`StepsHaveRequests`). `LockOwned` says that the process inside the lock
of a task is the one the lock names. `DraftsFit` says that what a process is
about to write still fits the task on file: it has the next version, and what
the process has checked is still so. `Fits` lists that for each kind of request:
for a claim that the task is open, has no running lease and has its
dependencies completed; for a transition or a release that the token is the
claim's; for a reclaim that the claim has expired; for an update that status,
owner and claim are the ones on file. `LockOwned` gives that nobody else writes
the task between the decision and the write; the dependencies are other tasks,
whose completion is final because a draft that fits never reopens one. Each
property then is a property of the one step that writes. `EventInv` adds that an
open task has no terminal event (`OpenIsUnlogged`) and that whoever is about to
append is the first to (`AppendersAreFirst`).

**Task store as a board.** `LifecycleImplementsClaims` maps tasks and leases to
themselves and forgets the rest. Three kinds of step are visible: a decision that
grants a claim draws its lease, time lets a lease run out, and the write of a
process is the operation of the board. For the write `SafeInv` gives the guards;
`DraftsChange` says what a draft changes of the task it replaces, and
`TokensAreFresh` that a lease drawn for a claim is in no task and in no other
draft, so that the board may grant it.

**Monitor.** No lock covers a pass, the snapshot or the mark of a completion. What
saves them is that finished tasks stay as they are: every copy of the statuses
(the snapshot, a list a pass holds, a snapshot some process has read and will
write back) says of a finished task what is so now (`CopiesAreBehind`). A process
about to append has written its task (`AppendersHaveWritten`). The steps of
`TaskLifecycle` preserve `SafeInv` here too; the monitor's own leave tasks and
locks alone.

**Engine.** Readers and the writer exclude each other, and who reads or writes
files has the lock that the step needs (`LockInv`); so no step that changes `events`
is enabled while a load reads. What a log says needs induction over logs. The
engine's replay is a recursive function on the length of a prefix; `Least`
(a set of numbers has a smallest) and `AllPositions` give the induction, from
which the module proves what replaying yields, what one more event adds to it
(`ReplayAppend`), and that dropping the events of requests which the engine calls
finished changes nothing else. `LogInv` says that every log, on file or in
memory, is in turn except perhaps for mailbox events: those may be out of turn
since `mailbox.json` is loaded beside the log and may be newer or older. `WholeInv`
says who is to blame for a missing log until an exec is killed. `AloneInv` follows
the only exec from step to step: which of log, mailbox and view are those of the
engine in its hands, and that every answered command is in the log, or its
request has been compacted away (`Covers`).

**Dispatch.** `IInv` says that a request a hook works on is leased to that hook,
and that dead processes work on nothing. The lease function has one value per
request, so two hooks cannot share one. For the types, who holds a list it has
read has the lock (`Held`), and what each process works on is listed in a file or
the engine (`Backed`). `TellInv`: in every list, on file, in the engine or in
hands, notified or delivered means sent, and a client that is to mark or a hook
that is to write `confirmed` has sent. Without the bridge every step changes at
most one record of the file, and adds one only if none of its key is pending
(`FileMoves`): a status read before the lock does no harm, since it is compared
under the lock once more. `BoundInv` counts injections against attempts, one
more for a hook that has typed and not yet written so, and one for each crash and
each outcome dropped on a live holder (`Excused`); that suffices only because a
request whose hook waits for the lock of a dead process has not used up that crash
(`Stuck`).

**Roster.** Tasks are safe because of the ids, not of the configuration, whose
copies are stale: `IdIsFree` says that the id a process is about to write is above
every id on disk, as `createTask` looks at the disk, and `LockHeld` that only one
process is between the look and the write. Calls whose directory was removed
under them (`orphans`) hold locks that exist no longer and are exempt; once one
of them has written (`haunted`), nothing is claimed. `NoGhosts` says that where
there is no manifest there is no `config.json` to migrate. `Locals` types what a call
holds at each of its steps, and `UniqueIds` that there is one file per id. For
shutdowns, every open task is younger than the gate of any shutdown under way
(`GateIsFresh`), and an acknowledgement that is young enough to count was written
while its shutdown waited (`AnswersMatch`). That the panes are those of the
configuration needs the shape of every copy (`ShapeInv`), the scaling lock
(`ScalingHeld`), and, while nothing has gone wrong (`Calm`): each pane is listed or
in the hands of the call that opened it (`Accounted`), the index a call is to give
out is free (`FreeOf`), and a copy that is not stale is the configuration
(`SyncOf`). A start over an ended team and an exception in `scaleUp` end that time
when they leave a pane behind; before, the arguments stand.

**Mailbox.** The invariant holds until an overtaken command writes (`lost`), so it
has to say what overtaking means. `Engines`: a command that is not behind holds all
that the view shows (`Within`), its log holds its mail and the log on file, and
what it has saved stays on file. `Leader`: of two commands that are both not
behind at most one has saved its events, and the other has loaded what that
one wrote; this makes the unlocked write of the view harmless, since what a later
command will write is more. `Carried` says that an engine in hand shows what its
command is about, `Locked` that the copy of the legacy file that a send holds is the
file, as every write of it is under the lock, and `Fresh` that an id not yet
sent is in no file and in no engine, so that nobody can take one back.
`Logged` is `LogIsTrue` strengthened to the log, the view and every engine in hand
(`Told`), and `Pending` says the same of what a call has seen done and is still to
log. For repeated sends, a message undelivered in the view is so in the
legacy file too (`Findable`), so that the look-up finds it whichever of the two is
read, and a sender has found no message of its text (`OnePerKey`, `Reserved`).

**Phase.** A file is `Good` when its log leads to its phase and its counter agrees
with the log. Every file on disk, in the hook's hand and in the hand of a pass
about to write is good (`GoodFiles`), so that overwriting cannot break it; what has
to be shown is that `Reconcile` and `Moved` keep a file good, along each path. The
CLI's exit rests on `CountHolds`: what its pass takes for a complete team was
complete when it was listed, and done tasks stay done; `InOrder` says which tasks
were counted. `RoundsCounted` relates the rounds really entered to the counter in
the file: whoever is not `behind` holds what follows from the file there is, so
that its write counts on from it.

**Modes.** A call checks a scope and writes its mode steps later. `FitsInv`: in every
scope it has reconciled with, the active modes go with its own, but for the
sources it is still to complete. Other calls cannot spoil that. One that shares
files is in `clashed` (`ClashInv`), and one of another session only completes modes
in the root. For the lists, `SessionInv` (no call in the root) says at each stage of
a call how its scope's list and the list it is about to write relate to the
files: the root's list may have lost entries of a session to another session's
write, never gained one, and the session's own list has them all. `RootInv` (calls
in the root only) has two phases: while the root reconciles with its sessions,
sources it completes stay in its list (`Early`), and are removed when it
reconciles with itself (`Late`). What a list names is `Shown`: the active modes and
those ended behind its back. A plain write only ends what is active (`PlainInv`),
so it moves a mode from the one part to the other. Sessions do not see such a mode
of the root, though, and might start one that excludes it; that the next
call of the root does not find excluding modes in its list needs `TidyInv`.

## 6. Where the code and its documents disagree

`dir_lock_two_recoveries` is a run of its own. The locks are said to serialize
(`team/__tests__/scaling.test.ts:218`). Age check and removal are two calls
(`locks.ts:19-22`), so two waiters that both judged a dead holder's directory can
end with two processes inside: the second one removes the directory that the
first has made since.

For six more the modules have the violated property, without a run that is kept
for it. Each is shown by a configuration with the property as its only
`INVARIANT` or `PROPERTY`:

1. `AnnouncedOnce` (`TeamMonitor`, two processes, one monitor, one task, no death). A
   pass skips what `transitionTaskStatus` has announced, says `runtime.ts:3411`. It
   decides that from marks it read at its beginning (`runtime.ts:2524`), and writes
   those back at its end; a completion in the meantime is announced twice, and its
   mark is dropped.
2. `MarkedMeansAnnounced` (the same instance). A mark means an event, by the same
   comment. `tasks.ts:186-202` marks the task whenever `completed` was asked for, also
   when the transition was rejected. If that task is completed later by a process
   that dies before its event, no pass announces it. (The liveness property of
   `team_monitor` is therefore about completions that were not marked before.)
3. `AnsweredStaysLogged` (`RuntimeStore`, two processes, one request, no kill, no
   compaction). `events.json` is called an append-only log
   (`rust-runtime-thin-adapter-contract.md:40`). An exec loads under one lock and
   writes the whole log under another, so of two overlapping execs one is lost,
   although its caller was told that it was accepted.
4. `FailedIsFinal` (`DispatchQueue`, bridge, one call, two hooks). `failed` is final
   (`dispatch.ts:370`, `team-delivery-state-contract.md:39`). With the bridge a failure
   is written to the files and not told to the engine, and the next command of
   anybody restores the request as pending.
5. `FallbackIsRead` (`Mailbox`, four calls, one killed command). A failed command
   falls back on the legacy file
   (`docs/qa/runtime-team-seam-audit-2026-04-01.md:35`). Readers take `mailbox.json` as
   soon as it exists (`state.ts:1376`), which any command creates: a fallback message
   is then announced and never found.
6. `NoneResurrected` (`WorkflowModes`, one process, one session and the root). Docs ask
   that synchronisation must not resurrect completed source modes
   (`docs/STATE_MODEL.md:206`). A source started in the root has no session in its
   list entry; when a session's start completes it, only entries of that session
   are removed (`skill-active.ts:317`), and the root's entry stays listed as active and
   is copied into the session's list.

Further observations, which no property states:

- The contract says that all files are written atomically
  (`rust-runtime-thin-adapter-contract.md:48`); `persist` (`engine.rs:245`) truncates
  and fills, and the bridge kills it after ten seconds (`bridge.ts:255`).
  `RuntimeStore` has this (`Killed` between the two), and `LoadsSeeWholeLogs` is
  about loads of which none was killed in the middle.
- The views are written after the lock is gone, so that an older `mailbox.json` may
  replace a newer one (`engine.rs:283`), and an exec that others have overtaken writes
  its older log. `mailbox.ts:195` runs the command outside the mailbox lock, so
  messages announced as created may vanish, a delivered one may become undelivered
  again, and a repeated send may find no copy and make a second one. This is what
  `lost` exempts: without it TLC finds all three properties of `mailbox` violated by
  two commands that overlap and no failure.
- A send whose command was killed after the log was saved has its message in the
  log and the legacy file and not in `mailbox.json`. A mark writes the latter over the
  legacy file, so that a repeated send does not find the message; if `mailbox.json`
  is later left without JSON, the next load rebuilds the mail from the log, and the
  first message is back beside the second. (`OneUndeliveredCopy` speaks of
  messages announced through the bridge.)
- With the bridge, `attempt_count` lives in the metadata of `dispatch.json` only;
  every exec writes that file without it, so the limit of three unconfirmed
  attempts (`team-dispatch.ts:454`, `notify-hook-team-dispatch.test.ts:1019`) need
  not be reached. `BoundedInjections` is therefore checked with the files only.
- `rust-runtime-authority-backlog-replay-readiness.md` asks for deduplication of
  replayed items and for stale leases to be detected; `engine.rs` does neither,
  and the models have neither.
- A scale-up that finishes between the teardown and the clean-up of a shutdown
  leaves a pane that no configuration lists, and a `createTask` that throws inside
  `scaleUp` leaves the tasks made before it.
- Nothing in `scaleUp` catches an exception between the opening of a pane and the
  save of its worker (`scaling.ts:451-606`): the roll-back is for the failures it
  tests for, and the pane runs in no list.
- A start over a team whose phase is an end goes on (`runtime.ts:277-280`), removes or
  overwrites its files and kills no pane. Workers of the old team may run beside
  new ones of the same names.
- With `cleanup_requires_all_workers_inactive` off an unforced shutdown removes
  tasks that were open when its gate looked (`runtime.ts:1206-1236`).
- A hook that has typed and then waits five seconds for the lock throws away the
  outcome with its lease (`team-dispatch.ts:215`, `1024-1027`), whoever holds the lock;
  the attempt is not counted and the request is typed once more
  (`BoundedInjections` counts these as it counts deaths).
- Phases: two passes that overlap undo each other's updates, the number of fix
  attempts with them. So a team with a limit of one may enter `team-fix` twice
  (`rounds` starts anew where this happens).
- There is no path from `team-verify` back to `team-exec`, so the phase stays
  while new tasks are open. Reaching the fix limit gives `failed` for one pass; the
  next pass with failed tasks reopens the team with a fresh count
  (`phase-controller.ts:117`), though the CLI has exited by then. With all its
  workers dead a complete team stays complete in spite of new tasks, since both
  are ends. The hook's request to fail the team's mode is refused as long as the
  mode is active, and a reopened team's mode stays ended.
- Modes: shutdown (`runtime.ts:243`), the team command (`cli/team.ts:62`), the
  turn hook (`notify-hook.ts:339`) and `omcp cancel` (`cli/index.ts:3633`) write
  mode files without telling the lists, which go on naming the ended mode until
  another call writes or completes it (`stale`). `startMode` in the root does
  not ask the sessions. A write in the root may have completed sources in one
  session before another session denies it.

## 7. Model-checked only

- Liveness: `DeadHolderIsReplaced`, `CrashedCompletionIsAnnounced`, `ExecsEnd`,
  `Settles`, `TeamsEnd`, `OpenTeamsReopen`. The prover has no rules for fairness with
  `ENABLED`.
- The cases a theorem's hypothesis leaves out. They are not weaker versions of the
  properties waiting for a proof: in those cases TLC finds the properties violated
  (for `Slow`, two hooks type one request, and `BoundedInjections` fails with it),
  or, for a process suspended inside its lock, the lock is taken from it.
- That the variants of `PROJECT.json`'s mutants break the properties.

## 8. Not modelled, or abstracted

In the modelled parts:

- times are abstract: leases run out in order, ages pass a threshold, deadlines
  end a wait. Cooldowns, back-off and jitter only delay and are left out;
- task subjects, descriptions, results, message bodies and trigger texts are left
  out; a request carries a key for what deduplication compares;
- corrupt JSON is read as an absent file where the code does that;
- tmux is a nondeterministic answer (typed, or not), and so is its confirmation;
- in `DispatchQueue` an exec does not fail, `markDispatchRequestDelivered` is not
  used, and a request for the leader's pane, which the hook may put off, is not
  told apart from one for a worker;
- the engine's authority lease has no expiry in its own right, as no command
  reads the clock, and `snapshot.json`, `readiness.json` and `backlog.json`, which
  no load reads back, are left out;
- `TaskLifecycle` begins with its tasks; `createTask` is in `TeamRoster`, which in turn
  knows of a task only whether it is open;
- in `TeamRoster` worktrees, prompt-mode processes and waiting for a draining
  worker are left out, and `writeConfig` is one step, since `config.json` is
  only read where there is no manifest. File system errors end a call only where
  an action says so; that a shutdown cannot write a request (`runtime.ts:2996`)
  does not occur. `kill-pane` is taken to work;
- in `DispatchQueue` an error while an outcome is written, which frees the leases
  as a time-out does, does not occur;
- a lock is taken from dead holders only: a live one that keeps it for more than
  five minutes is `Suspendable` in `DirLock` and `TaskLifecycle`, and does not occur in
  the other modules;
- in `Mailbox` the writes of `events.json` and `mailbox.json` under the exclusive lock
  are two steps (`RuntimeStore` has four), commands about something else leave the mail
  as they loaded it, and a broadcast is one send per recipient;
- in `WorkflowModes` reads of a half-written file and some more writers are left
  out: callers of `state_write` for the skill-active file itself, and the mode
  files and lists written by the keyword detector
  (`hooks/keyword-detector.ts:262`, `694`), the resumption of ralph in a new
  session (`notify-hook/ralph-session-resume.ts`), the clean-up after a launch
  (`cli/index.ts:2291`, which also empties the list of a scope) and the
  enforcement of interview questions (`question/deep-interview.ts:54`).
  `ListsFollowFiles` does not speak of scopes they have written to;
- in `TeamPhase` a failed task stays failed, and passes agree on which workers live.

Not modelled at all, and listed in `PROJECT.json` with the reason: parts around
external programs (tmux sessions, git integration, the multiplexer, explore
and sparkshell crates, notifications), parts that render or parse text (HUD,
command line, wiki, hook heuristics), and records with one writer (approvals,
summaries, ralph and ralplan progress). What remains has a protocol and is
planned. By volume most of the repository is of these kinds (process spawning,
terminal polling, set-up, prompts, rendering), so that the modelled share of all
lines is small although the shared state of a team is covered.

## 9. Plan

1. Assignment: claim, inbox and dispatch with a roll-back, as a composition of
   `TaskLifecycle` and `DispatchQueue`.
2. `DispatchQueue` with engine commands in the steps that `Mailbox` has; the remaining
   writers of mode files in `WorkflowModes`.
3. The pipeline orchestrator, questions with their time-outs, the notification
   registry with its lock.
4. Abstract specifications with their refinement proved: a request that moves
   through its table once, implemented by `DispatchQueue` without the bridge; a
   mailbox that delivers each message once.

## 10. How to run it

    tlc -config TaskLifecycle.cfg MCTaskLifecycle.tla
    tlapm TaskLifecycleProofs.tla

and likewise for the other modules; `runs` in `PROJECT.json` names the module
and the configuration of every run.
