-------------------------- MODULE TeamRosterProofs --------------------------
(***************************************************************************)
(* Proofs about TeamRoster, for every number of processes, workers and     *)
(* calls.  The inductive invariant IInv adds to the types what makes the   *)
(* ids that createTask draws free and keeps a removed team from coming     *)
(* back: a call that is still of its team and inside createTask holds the  *)
(* team lock, the id it has drawn is above every id on disk, and a call    *)
(* that works on a team finds the team's manifest in place.  Calls that    *)
(* outlived their team (orphans) are exempt, and nothing is claimed any    *)
(* more once one of them has written (haunted).                            *)
(*                                                                         *)
(* SInv adds what a shutdown knows of the tasks and the answers, and       *)
(* AllInv what keeps the roster true.  ShapeInv holds whatever happens:    *)
(* every copy of the configuration numbers its workers below its counter,  *)
(* and panes are drawn in order.  RosterInv speaks of the time before      *)
(* anything has gone wrong: every pane is listed or in the hands of the    *)
(* call that opened it, a copy that is not stale is the configuration, and *)
(* the number that a call is about to give out is free.                    *)
(***************************************************************************)
EXTENDS TeamRoster, TLAPS

(* Where createTask may be told to go on: its callers, and their handlers. *)
Backs == {"idle", "upTasks", "stTasks", "scUnlock", "clean"}

(* The steps that use the configuration a call has read.                   *)
ConfigSteps == {"upTasks", "upSpawn", "upNotify", "upKill", "upRestore", "downKill",
                "downSave", "stTasks", "stSpawn", "stSave", "stReady", "stRevert",
                "stKill", "shGate", "shAsk", "shWait", "shSave", "shKill"}

InCreate(p) == pc[p] \in {"ctLock"} \cup CreateSteps

NeedsConfig(p) == \/ pc[p] \in ConfigSteps
                  \/ InCreate(p) /\ call[p].back \in {"upTasks", "stTasks"}

HasTeam(p) == NeedsConfig(p) \/ pc[p] \in {"ctWrite", "ctSave"}

(* What is known of the local variables of a call at each of its steps.    *)
LocalsOf(p) == /\ NeedsConfig(p) => call[p].cfg \in Config
               /\ InCreate(p) => call[p].back \in Backs
               /\ pc[p] = "ctLock" => call[p].back \in {"idle", "upTasks", "stTasks"}
               /\ pc[p] \in {"ctWrite", "ctSave"} => call[p].copy \in Config

Locals == \A p \in Procs : LocalsOf(p)

(* One task file per id.                                                   *)
UniqueIds == \A t, u \in task : t.id = u.id => t = u

(* Whoever is inside createTask, and not an orphan, holds the team lock.   *)
LockHeld == \A p \in Procs \ orphans : pc[p] \in CreateSteps => lock["team"] = p

(* The id a process is about to write is above every id on disk.           *)
IdIsFree == ~haunted => \A p \in Procs \ orphans :
               pc[p] = "ctWrite" => \A t \in task : t.id < call[p].id

(* A call that is not an orphan works on a team with a manifest, and where *)
(* there is no manifest there is no config.json to migrate.                *)
NoGhosts == ~haunted => /\ \A p \in Procs \ orphans : HasTeam(p) => manifest # None
                        /\ manifest = None => json = None

IInv == TypeOK /\ Locals /\ UniqueIds /\ LockHeld /\ IdIsFree /\ NoGhosts

ProcStep(p) == \/ BeginCall(p) \/ Create(p) \/ Scale(p)
               \/ Start(p) \/ Shutdown(p) \/ Clean(p) \/ Crash(p)

(* A fresh call is typed.                                                  *)
LEMMA NoCallTyped == NoCall \in Call
BY DEF NoCall, Call, Steps

(* Changing one field of the local variables of a call.                    *)
LEMMA FieldTyped ==
    ASSUME NEW r \in Call
    PROVE  /\ \A b \in Steps : [r EXCEPT !.back = b] \in Call
           /\ \A c \in Config \cup {None} : [r EXCEPT !.cfg = c] \in Call
           /\ \A c \in Config \cup {None} : [r EXCEPT !.copy = c] \in Call
           /\ \A i \in Nat : [r EXCEPT !.id = i] \in Call
           /\ \A i \in SUBSET Nat : [r EXCEPT !.made = i] \in Call
           /\ \A w \in SUBSET Worker : [r EXCEPT !.added = w] \in Call
           /\ \A i \in Int : [r EXCEPT !.left = i] \in Call
           /\ \A i \in Nat : [r EXCEPT !.first = i] \in Call
           /\ \A w \in SUBSET Worker : [r EXCEPT !.out = w] \in Call
           /\ \A i \in Nat : [r EXCEPT !.gate = i] \in Call
           /\ \A i \in Nat : [r EXCEPT !.stamp = i] \in Call
BY DEF Call

(* createTask draws an id above all ids on disk.                           *)
LEMMA ReadDraws ==
    ASSUME IInv, NEW p \in Procs, CreateRead(p), pc'[p] = "ctWrite"
    PROVE  /\ Current \in Config
           /\ call' \in [Procs -> Call]
           /\ call'[p].back = call[p].back /\ call'[p].cfg = call[p].cfg
           /\ call'[p].copy = Current
           /\ \A t \in task : t.id < call'[p].id
<1>1. /\ call \in [Procs -> Call] /\ pc \in [Procs -> Steps]
      /\ call[p] \in Call
    BY DEF IInv, TypeOK, CallsTyped
<1>2. Current # None
    BY <1>1 DEF CreateRead, Go
<1>3. Current \in Config
    BY <1>2 DEF IInv, TypeOK, ConfigsTyped, Current
<1>4. PICK n \in {i + 1 : i \in TaskIds \cup {0}} :
         /\ IsNextFromDisk(n)
         /\ Local(p, [call[p] EXCEPT !.copy = Current,
                     !.id = IF n > Current.nextTask THEN n ELSE Current.nextTask])
    BY <1>2 DEF CreateRead
<1> DEFINE r == [call[p] EXCEPT !.copy = Current]
           d == IF n > Current.nextTask THEN n ELSE Current.nextTask
<1>5. r \in Call /\ r.back = call[p].back /\ r.cfg = call[p].cfg /\ r.copy = Current
    BY <1>1, <1>3, FieldTyped, ZenonT(30) DEF Call
<1>6. n \in Nat /\ Current.nextTask \in Nat /\ \A t \in task : t.id \in Nat /\ t.id < n
    BY <1>3, <1>4 DEF IsNextFromDisk, TaskIds, Config, IInv, TypeOK, Task
<1>7. d \in Nat /\ \A t \in task : t.id < d
    BY <1>6
<1>8. call' = [call EXCEPT ![p] = [r EXCEPT !.id = d]]
    BY <1>4 DEF Local
<1> HIDE DEF r, d
<1>9. /\ [r EXCEPT !.id = d] \in Call
      /\ [r EXCEPT !.id = d].back = r.back /\ [r EXCEPT !.id = d].cfg = r.cfg
      /\ [r EXCEPT !.id = d].copy = r.copy /\ [r EXCEPT !.id = d].id = d
    BY <1>5, <1>7, FieldTyped, SMTT(30) DEF Call
<1> QED BY <1>1, <1>3, <1>5, <1>7, <1>8, <1>9

(* createTask finds no configuration and throws to its caller.             *)
LEMMA ReadThrows ==
    ASSUME IInv, NEW p \in Procs, CreateRead(p), pc'[p] # "ctWrite"
    PROVE  /\ call' \in [Procs -> Call]
           /\ pc'[p] = "ctUnlock"
           /\ call'[p].back \in Backs \ {"upTasks", "stTasks"}
<1>1. /\ call \in [Procs -> Call] /\ pc \in [Procs -> Steps]
      /\ call[p] \in Call /\ call[p].back \in Backs /\ Thrown(call[p].back) \in Steps
    BY DEF IInv, TypeOK, CallsTyped, Locals, LocalsOf, CreateRead, InCreate, Thrown, Steps
<1>2. Current = None
    BY <1>1 DEF CreateRead, Go
<1>3. call' = [call EXCEPT ![p] = [call[p] EXCEPT !.back = Thrown(call[p].back)]]
    BY <1>2 DEF CreateRead, Local
<1>4. /\ [call[p] EXCEPT !.back = Thrown(call[p].back)] \in Call
      /\ [call[p] EXCEPT !.back = Thrown(call[p].back)].back = Thrown(call[p].back)
    BY <1>1, FieldTyped DEF Call
<1>5. Thrown(call[p].back) \in Backs \ {"upTasks", "stTasks"}
    BY <1>1 DEF Thrown, Backs
<1>6. pc'[p] = "ctUnlock"
    BY <1>1, <1>2 DEF CreateRead, Go
<1> QED BY <1>1, <1>3, <1>4, <1>5, <1>6

(* scaleUp copies the configuration.                                       *)
LEMMA UpReads ==
    ASSUME IInv, NEW p \in Procs, UpRead(p), pc'[p] = "upTasks"
    PROVE  /\ Current \in Config
           /\ call' \in [Procs -> Call]
           /\ call'[p].cfg = Current
<1>1. /\ call \in [Procs -> Call] /\ pc \in [Procs -> Steps] /\ call[p] \in Call
    BY DEF IInv, TypeOK, CallsTyped
<1>2. PICK n \in 1 .. 2 :
         /\ Current # None
         /\ call' = [call EXCEPT ![p] = [call[p] EXCEPT !.cfg = Current, !.left = n,
                                           !.first = Current.nextIndex]]
    BY <1>1 DEF UpRead, Local, Go
<1>3. Current \in Config /\ Current.nextIndex \in Nat
    BY <1>2 DEF IInv, TypeOK, ConfigsTyped, Current, Config
<1> DEFINE r == [call[p] EXCEPT !.cfg = Current]
           s == [r EXCEPT !.left = n]
<1>4. r \in Call /\ r.cfg = Current
    BY <1>1, <1>3, FieldTyped DEF Call
<1>5. call' = [call EXCEPT ![p] = [s EXCEPT !.first = Current.nextIndex]]
    BY <1>2
<1> HIDE DEF r
<1>6. s \in Call /\ s.cfg = r.cfg
    BY <1>4, FieldTyped, SMTT(30) DEF Call
<1> HIDE DEF s
<1>7. /\ [s EXCEPT !.first = Current.nextIndex] \in Call
      /\ [s EXCEPT !.first = Current.nextIndex].cfg = s.cfg
    BY <1>3, <1>6, FieldTyped DEF Call
<1> QED BY <1>1, <1>3, <1>4, <1>5, <1>6, <1>7

(* scaleUp adds the worker to its copy.                                    *)
LEMMA UpNotifies ==
    ASSUME IInv, NEW p \in Procs, UpNotify(p), pc'[p] # "upKill"
    PROVE  /\ call' \in [Procs -> Call]
           /\ call'[p].cfg \in Config
<1>1. /\ call \in [Procs -> Call] /\ pc \in [Procs -> Steps] /\ call[p] \in Call
      /\ call[p].cfg \in Config /\ call[p].added \subseteq Worker /\ call[p].left \in Int
    BY DEF IInv, TypeOK, CallsTyped, UpNotify, Locals, LocalsOf, NeedsConfig, ConfigSteps, Call
<1> DEFINE c == Joined(call[p].cfg, call[p].added)
           k == call[p].left - 1
           r == [call[p] EXCEPT !.cfg = c]
<1>2. c \in Config /\ k \in Int
    BY <1>1 DEF Joined, Config
<1>3. UNCHANGED call \/ call' = [call EXCEPT ![p] = [r EXCEPT !.left = k]]
    BY <1>1 DEF UpNotify, Local, Go
<1> HIDE DEF c, k
<1>4. r \in Call /\ r.cfg = c
    BY <1>1, <1>2, FieldTyped DEF Call
<1> HIDE DEF r
<1>5. /\ [r EXCEPT !.left = k] \in Call
      /\ [r EXCEPT !.left = k].cfg = r.cfg
    BY <1>2, <1>4, FieldTyped DEF Call
<1> QED BY <1>1, <1>2, <1>3, <1>4, <1>5

(* scaleDown copies the configuration.                                     *)
LEMMA DownReads ==
    ASSUME IInv, NEW p \in Procs, DownRead(p), pc'[p] = "downKill"
    PROVE  /\ Current \in Config
           /\ call' \in [Procs -> Call]
           /\ call'[p].cfg = Current
<1>1. /\ call \in [Procs -> Call] /\ pc \in [Procs -> Steps] /\ call[p] \in Call
    BY DEF IInv, TypeOK, CallsTyped
<1>2. Current # None
    BY <1>1 DEF DownRead, Go
<1>3. PICK out \in SUBSET Current.workers :
         call' = [call EXCEPT ![p] = [call[p] EXCEPT !.cfg = Current, !.out = out]]
    BY <1>1, <1>2 DEF DownRead, Local, Go
<1>4. Current \in Config /\ out \in SUBSET Worker
    BY <1>2, <1>3 DEF IInv, TypeOK, ConfigsTyped, Current, Config
<1> DEFINE r == [call[p] EXCEPT !.cfg = Current]
<1>5. r \in Call /\ r.cfg = Current
    BY <1>1, <1>4, FieldTyped DEF Call
<1>6. call' = [call EXCEPT ![p] = [r EXCEPT !.out = out]]
    BY <1>3
<1> HIDE DEF r
<1>7. [r EXCEPT !.out = out] \in Call /\ [r EXCEPT !.out = out].cfg = r.cfg
    BY <1>4, <1>5, FieldTyped DEF Call
<1> QED BY <1>1, <1>4, <1>5, <1>6, <1>7

(* startTeam begins with the configuration that it has just written.       *)
LEMMA StartInits ==
    ASSUME IInv, NEW p \in Procs, StartInit(p)
    PROVE  /\ NewTeam \in Config
           /\ call' \in [Procs -> Call]
           /\ call'[p].cfg = NewTeam
<1>1. /\ call \in [Procs -> Call] /\ call[p] \in Call
    BY DEF IInv, TypeOK, CallsTyped
<1>2. NewTeam \in Config /\ StartTasks \in Int
    BY RosterAssumption DEF NewTeam, Config, Worker
<1> DEFINE r == [call[p] EXCEPT !.cfg = NewTeam]
<1>3. call' = [call EXCEPT ![p] = [r EXCEPT !.left = StartTasks]]
    BY DEF StartInit, Local
<1>4. r \in Call /\ r.cfg = NewTeam
    BY <1>1, <1>2, FieldTyped DEF Call
<1> HIDE DEF r
<1>5. [r EXCEPT !.left = StartTasks] \in Call /\ [r EXCEPT !.left = StartTasks].cfg = r.cfg
    BY <1>2, <1>4, FieldTyped DEF Call
<1> QED BY <1>1, <1>2, <1>3, <1>4, <1>5

(* startTeam calls createTask with its own copy in hand.                   *)
LEMMA StartTakesNext ==
    ASSUME IInv, NEW p \in Procs, StartTasksNext(p)
    PROVE  /\ call' \in [Procs -> Call]
           /\ call'[p].cfg = call[p].cfg
           /\ pc'[p] = "ctLock" => call'[p].back = "stTasks"
<1>1. /\ call \in [Procs -> Call] /\ pc \in [Procs -> Steps]
      /\ call[p] \in Call /\ call[p].left \in Int
    BY DEF IInv, TypeOK, CallsTyped, Call
<1>2. CASE call[p].left > 0
  <2> DEFINE k == call[p].left - 1
             r == [call[p] EXCEPT !.left = k]
  <2>1. call' = [call EXCEPT ![p] = [r EXCEPT !.back = "stTasks"]]
      BY <1>2 DEF StartTasksNext, Local
  <2>0. k \in Int
      BY <1>1
  <2> HIDE DEF k
  <2>2. r \in Call /\ r.cfg = call[p].cfg
      BY <1>1, <2>0, FieldTyped DEF Call
  <2> HIDE DEF r
  <2>3. /\ [r EXCEPT !.back = "stTasks"] \in Call
        /\ [r EXCEPT !.back = "stTasks"].cfg = r.cfg
        /\ [r EXCEPT !.back = "stTasks"].back = "stTasks"
      BY <2>2, FieldTyped, SMTT(30) DEF Call, Steps
  <2> QED BY <1>1, <2>1, <2>2, <2>3
<1>3. CASE ~(call[p].left > 0)
    BY <1>1, <1>3 DEF StartTasksNext, Go
<1> QED BY <1>2, <1>3

(* startTeam's copy gets the panes.                                        *)
LEMMA StartSpawns ==
    ASSUME IInv, NEW p \in Procs, StartSpawn(p)
    PROVE  /\ call' \in [Procs -> Call]
           /\ pc'[p] = "stSave" => call'[p].cfg \in Config
           /\ pc'[p] \in {"stSave", "clean"}
           /\ panes' \subseteq Worker
           /\ TicksTyped'
<1>1. /\ call \in [Procs -> Call] /\ pc \in [Procs -> Steps] /\ call[p] \in Call
      /\ call[p].cfg \in Config
    BY DEF IInv, TypeOK, CallsTyped, StartSpawn, Locals, LocalsOf, NeedsConfig, ConfigSteps
<1>2. CASE pc'[p] = "clean"
    BY <1>1, <1>2 DEF StartSpawn, Go, IInv, TypeOK, TicksTyped
<1>3. CASE pc'[p] # "clean"
  <2> DEFINE team == {[index |-> i, pane |-> tick.pane + i] : i \in 1 .. StartWorkers}
             c == [call[p].cfg EXCEPT !.workers = team]
             r == [call[p] EXCEPT !.cfg = c]
  <2>1. /\ call' = [call EXCEPT ![p] = [r EXCEPT !.added = team]]
        /\ panes' = panes \cup team
        /\ tick' = [tick EXCEPT !.pane = @ + StartWorkers]
        /\ pc'[p] = "stSave"
      BY <1>1, <1>3 DEF StartSpawn, Local, Go
  <2>2. tick.pane \in Nat /\ StartWorkers \in Nat /\ TicksTyped
      BY RosterAssumption DEF IInv, TypeOK, TicksTyped
  <2>3. team \subseteq Worker
      BY <2>2 DEF Worker
  <2>4. TicksTyped'
      BY <2>1, <2>2 DEF TicksTyped
  <2> HIDE DEF team
  <2>5. c \in Config
      BY <1>1, <2>3 DEF Config
  <2> HIDE DEF c
  <2>6. r \in Call /\ r.cfg = c
      BY <1>1, <2>5, FieldTyped DEF Call
  <2> HIDE DEF r
  <2>7. [r EXCEPT !.added = team] \in Call /\ [r EXCEPT !.added = team].cfg = r.cfg
      BY <2>3, <2>6, FieldTyped DEF Call
  <2> QED BY <1>1, <2>1, <2>3, <2>4, <2>5, <2>6, <2>7 DEF IInv, TypeOK
<1> QED BY <1>2, <1>3

(* createTask advances the counter of its copy.                            *)
LEMMA CreateWrites ==
    ASSUME IInv, NEW p \in Procs, CreateWrite(p)
    PROVE  /\ call' \in [Procs -> Call]
           /\ call'[p].back = call[p].back /\ call'[p].cfg = call[p].cfg
           /\ call'[p].copy \in Config
<1>1. /\ call \in [Procs -> Call] /\ call[p] \in Call
      /\ call[p].copy \in Config /\ call[p].id \in Nat /\ call[p].made \subseteq Nat
    BY DEF IInv, TypeOK, CallsTyped, CreateWrite, Locals, LocalsOf, Call
<1> DEFINE c == Advanced(call[p].copy, call[p].id)
           r == [call[p] EXCEPT !.made = @ \cup {call[p].id}]
<1>2. c \in Config
    BY <1>1 DEF Advanced, Config
<1>3. call' = [call EXCEPT ![p] = [r EXCEPT !.copy = c]]
    BY <1>1 DEF CreateWrite, Local, Call
<1>4. r \in Call /\ r.back = call[p].back /\ r.cfg = call[p].cfg
    BY <1>1, FieldTyped, ZenonT(30) DEF Call
<1> HIDE DEF c, r
<1>5. /\ [r EXCEPT !.copy = c] \in Call /\ [r EXCEPT !.copy = c].copy = c
      /\ [r EXCEPT !.copy = c].back = r.back /\ [r EXCEPT !.copy = c].cfg = r.cfg
    BY <1>2, <1>4, FieldTyped, SMTT(30) DEF Call
<1> QED BY <1>1, <1>2, <1>3, <1>4, <1>5

(* The type of one process's part of the state.                            *)
LEMMA CallOf ==
    ASSUME IInv, NEW p \in Procs
    PROVE  /\ call \in [Procs -> Call] /\ pc \in [Procs -> Steps]
           /\ call[p] \in Call /\ pc[p] \in Steps
BY DEF IInv, TypeOK, CallsTyped

(* A shutdown begins with a typed call.                                    *)
LEMMA ForcedTyped ==
    ASSUME NEW f \in BOOLEAN
    PROVE  /\ [NoCall EXCEPT !.force = f] \in Call
           /\ [NoCall EXCEPT !.force = f].back = "idle"
BY DEF NoCall, Call, Steps

(* createTask returns, or throws, to its caller.                           *)
LEMMA Returns ==
    ASSUME IInv, NEW p \in Procs, NEW b \in Steps, Return(p, b)
    PROVE  /\ call' \in [Procs -> Call]
           /\ pc'[p] = b
           /\ b # "idle" => call'[p].cfg = call[p].cfg
           /\ \A q \in Procs \ {p} : pc'[q] = pc[q] /\ call'[q] = call[q]
           /\ haunted' = haunted
           /\ orphans \ {p} \subseteq orphans' /\ orphans' \subseteq orphans
<1>1. CASE b = "idle"
    BY <1>1, CallOf, NoCallTyped DEF Return, End, Go, Local
<1>2. CASE b # "idle"
  <2> DEFINE r == [call[p] EXCEPT !.copy = None]
  <2>0. /\ call \in [Procs -> Call] /\ pc \in [Procs -> Steps] /\ call[p] \in Call
      BY CallOf
  <2>1. r \in Call /\ r.cfg = call[p].cfg
      BY <2>0, FieldTyped, ZenonT(30) DEF Call
  <2>2. /\ call' = [call EXCEPT ![p] = r] /\ pc' = [pc EXCEPT ![p] = b]
        /\ UNCHANGED <<haunted, orphans>>
      BY <1>2 DEF Return, Go, Local, History
  <2> HIDE DEF r
  <2> QED BY <2>0, <2>1, <2>2
<1> QED BY <1>1, <1>2

(* scaleUp calls createTask.                                               *)
LEMMA UpTakesTask ==
    ASSUME IInv, NEW p \in Procs, UpTasks(p)
    PROVE  /\ call' \in [Procs -> Call]
           /\ call'[p].cfg = call[p].cfg
           /\ pc'[p] = "ctLock" => call'[p].back = "upTasks"
<1>0. /\ call \in [Procs -> Call] /\ pc \in [Procs -> Steps] /\ call[p] \in Call
    BY CallOf
<1> DEFINE r == [call[p] EXCEPT !.back = "upTasks"]
<1>1. "upTasks" \in Steps
    BY DEF Steps
<1>2. r \in Call /\ r.cfg = call[p].cfg /\ r.back = "upTasks"
    BY <1>0, <1>1, FieldTyped DEF Call
<1>3. \/ call' = [call EXCEPT ![p] = r]
      \/ call' = call /\ pc' = [pc EXCEPT ![p] = "upSpawn"]
    BY DEF UpTasks, Local, Go
<1> HIDE DEF r
<1> QED BY <1>0, <1>2, <1>3

(* scaleUp opens a pane.                                                   *)
LEMMA UpSpawns ==
    ASSUME IInv, NEW p \in Procs, UpSpawn(p)
    PROVE  /\ call' \in [Procs -> Call]
           /\ call'[p].cfg = call[p].cfg
           /\ panes' \subseteq Worker
           /\ TicksTyped'
<1>0. /\ call \in [Procs -> Call] /\ pc \in [Procs -> Steps] /\ call[p] \in Call
    BY CallOf
<1> DEFINE w == [index |-> call[p].cfg.nextIndex, pane |-> tick.pane + 1]
           a == call[p].added \cup {w}
           r == [call[p] EXCEPT !.added = a]
<1>1. call[p].cfg \in Config /\ call[p].added \subseteq Worker /\ TicksTyped
    BY <1>0 DEF UpSpawn, IInv, TypeOK, Locals, LocalsOf, NeedsConfig, ConfigSteps, Call
<1>2. w \in Worker
    BY <1>1 DEF Worker, Config, TicksTyped
<1>3. \/ /\ call' = [call EXCEPT ![p] = r]
         /\ panes' = panes \cup {w}
         /\ tick' = [tick EXCEPT !.pane = @ + 1]
      \/ UNCHANGED <<call, panes, tick>>
    BY DEF UpSpawn, Local
<1> HIDE DEF w
<1>4. a \subseteq Worker
    BY <1>1, <1>2
<1> HIDE DEF a
<1>5. r \in Call /\ r.cfg = call[p].cfg
    BY <1>0, <1>4, FieldTyped DEF Call
<1> HIDE DEF r
<1>6. TicksTyped'
    BY <1>1, <1>3 DEF TicksTyped
<1> QED BY <1>0, <1>2, <1>3, <1>5, <1>6 DEF IInv, TypeOK

(* shutdownTeam copies the configuration, if there is one.                 *)
LEMMA ShutdownReads ==
    ASSUME IInv, NEW p \in Procs, ShutdownRead(p)
    PROVE  /\ call' \in [Procs -> Call]
           /\ Current \in Config \cup {None}
           /\ call'[p].cfg = Current
<1>0. /\ call \in [Procs -> Call] /\ pc \in [Procs -> Steps] /\ call[p] \in Call
    BY CallOf
<1> DEFINE r == [call[p] EXCEPT !.cfg = Current]
<1>1. Current \in Config \cup {None}
    BY DEF IInv, TypeOK, ConfigsTyped, Current
<1>2. r \in Call /\ r.cfg = Current
    BY <1>0, <1>1, FieldTyped DEF Call
<1>3. call' = [call EXCEPT ![p] = r]
    BY DEF ShutdownRead, Local
<1> HIDE DEF r
<1> QED BY <1>0, <1>1, <1>2, <1>3

(* The gate notes when it looked.                                          *)
LEMMA GatePasses ==
    ASSUME IInv, NEW p \in Procs, ShutdownGate(p), pc'[p] # "idle"
    PROVE  /\ call' \in [Procs -> Call]
           /\ call'[p].cfg = call[p].cfg
<1>0. /\ call \in [Procs -> Call] /\ pc \in [Procs -> Steps] /\ call[p] \in Call
    BY CallOf
<1> DEFINE n == tick.task
           r == [call[p] EXCEPT !.gate = n]
<1>1. n \in Nat
    BY DEF IInv, TypeOK, TicksTyped
<1>2. UNCHANGED call \/ call' = [call EXCEPT ![p] = r]
    BY <1>0 DEF ShutdownGate, HasBlockingBacklog, End, Local, Go
<1> HIDE DEF n
<1>3. r \in Call /\ r.cfg = call[p].cfg
    BY <1>0, <1>1, FieldTyped, ZenonT(30) DEF Call
<1> HIDE DEF r
<1> QED BY <1>0, <1>2, <1>3

(* A request notes when it was made.                                       *)
LEMMA ShutdownAsks ==
    ASSUME IInv, NEW p \in Procs, ShutdownAsk(p)
    PROVE  /\ call' \in [Procs -> Call]
           /\ call'[p].cfg = call[p].cfg
<1>0. /\ call \in [Procs -> Call] /\ pc \in [Procs -> Steps] /\ call[p] \in Call
    BY CallOf
<1> DEFINE n == tick.time + 1
           r == [call[p] EXCEPT !.stamp = n]
<1>1. n \in Nat
    BY DEF IInv, TypeOK, TicksTyped
<1>2. call' = [call EXCEPT ![p] = r]
    BY <1>0 DEF ShutdownAsk, End, Local, Go
<1> HIDE DEF n
<1>3. r \in Call /\ r.cfg = call[p].cfg
    BY <1>0, <1>1, FieldTyped, ZenonT(30) DEF Call
<1> HIDE DEF r
<1> QED BY <1>0, <1>2, <1>3

(* The task file that createTask writes is typed.                          *)
LEMMA CreateWritesTask ==
    ASSUME IInv, NEW p \in Procs, CreateWrite(p)
    PROVE  task' \subseteq Task /\ TicksTyped'
<1> DEFINE new == [id |-> call[p].id, serial |-> tick.task + 1, open |-> TRUE]
<1>1. task \subseteq Task /\ TicksTyped
    BY DEF IInv, TypeOK
<1>2. call[p].id \in Nat /\ tick.task + 1 \in Nat
    BY CallOf, <1>1 DEF Call, TicksTyped
<1>3. new \in Task
    BY <1>2 DEF Task
<1>4. task' = {t \in task : t.id # new.id} \cup {new}
    BY DEF CreateWrite
<1>5. TicksTyped'
    BY <1>1 DEF CreateWrite, TicksTyped
<1> HIDE DEF new
<1> QED BY <1>1, <1>3, <1>4, <1>5

(* Whoever gets the team lock is alone inside createTask, orphans aside.   *)
LEMMA ReadAlone ==
    ASSUME IInv, NEW p \in Procs, CreateRead(p)
    PROVE  /\ \A q \in Procs \ orphans : q # p => pc[q] \notin CreateSteps
           /\ \A q \in Procs \ {p} : pc'[q] = pc[q] /\ call'[q] = call[q]
           /\ pc[p] = "ctLock" /\ lock'["team"] = p /\ pc'[p] \in {"ctWrite", "ctUnlock"}
           /\ manifest' = Current
           /\ UNCHANGED <<json, task, orphans, haunted>>
<1>1. \A q \in Procs \ orphans : q # p => pc[q] \notin CreateSteps
  <2> SUFFICES ASSUME NEW q \in Procs \ orphans, pc[q] \in CreateSteps PROVE FALSE
      OBVIOUS
  <2>1. lock["team"] = q
      BY DEF IInv, LockHeld
  <2>2. q # None /\ q \notin Dead
      BY RosterAssumption DEF Dead, CreateSteps
  <2> QED BY <2>1, <2>2 DEF CreateRead, Take
<1>2. call \in [Procs -> Call] /\ pc \in [Procs -> Steps] /\ "team" \in DOMAIN lock
    BY CallOf DEF IInv, TypeOK, Locks
<1>3. /\ pc'[p] \in {"ctWrite", "ctUnlock"}
      /\ \A q \in Procs \ {p} : pc'[q] = pc[q] /\ call'[q] = call[q]
    BY <1>2 DEF CreateRead, Local, Go
<1> QED BY <1>1, <1>2, <1>3 DEF CreateRead, Take, ReadConfig, History

(* Saving a copy of a team that is there keeps its manifest.               *)
LEMMA Saves ==
    ASSUME IInv, NEW p \in Procs, HasTeam(p), NEW c \in Config, Save(p, c)
    PROVE  /\ haunted => haunted'
           /\ orphans \ {p} \subseteq orphans'
           /\ haunted' \/ manifest' # None
<1>1. c # None
    BY RosterAssumption
<1>2. haunted \/ p \in orphans \/ manifest # None
    BY DEF IInv, NoGhosts, HasTeam, NeedsConfig, InCreate
<1> QED BY <1>1, <1>2 DEF Save, WriteConfig, NoteWrite

-----------------------------------------------------------------------------
(* Types, one variable after the other: the next steps,                    *)
LEMMA PcTyped ==
    ASSUME IInv, NEW p \in Procs, ProcStep(p)
    PROVE  pc' \in [Procs -> Steps]
<1> USE DEF IInv, TypeOK, CallsTyped, Steps, Thrown, Locals, LocalsOf, InCreate,
            Backs, CreateSteps, Go, Local, History
<1>1. CASE BeginCall(p)
  BY <1>1 DEF BeginCall, BeginCreate, Begin, NoCall, Files, BeginScale, BeginStart,
     BeginShutdown
<1>2. CASE Create(p)
  <2>1. CASE CreateGivesUp(p)
    BY <2>1 DEF CreateGivesUp, Return, End, NoCall, Thrown, Files
  <2>2. CASE CreateRead(p)
    BY <2>2 DEF CreateRead, Take, Dead, ReadConfig, Current
  <2>3. CASE CreateWrite(p) \/ CreateSave(p)
    BY <2>3 DEF CreateWrite, Advanced, CreateSave, Save, WriteConfig, NoteWrite
  <2>4. CASE CreateUnlock(p)
    BY <2>4 DEF CreateUnlock, Drop, Return, End, NoCall
  <2> QED BY <1>2, <2>1, <2>2, <2>3, <2>4 DEF Create
<1>3. CASE Scale(p)
  <2>1. CASE ScaleGivesUp(p) \/ UpTasks(p) \/ UpSpawn(p)
    BY <2>1 DEF ScaleGivesUp, End, NoCall, Files, UpTasks, UpSpawn
  <2>2. CASE UpRead(p)
    BY <2>2 DEF UpRead, Take, Dead, ReadConfig, Current
  <2>3. CASE UpNotify(p)
    BY <2>3 DEF UpNotify, Joined, Save, WriteConfig, NoteWrite
  <2>4. CASE UpKill(p) \/ UpRestore(p)
    BY <2>4 DEF UpKill, UpRestore, RolledBack, Save, WriteConfig, NoteWrite
  <2>5. CASE DownRead(p)
    BY <2>5 DEF DownRead, Take, Dead, ReadConfig, Current
  <2>6. CASE DownKill(p) \/ DownSave(p)
    BY <2>6 DEF DownKill, DownSave, Save, WriteConfig, NoteWrite
  <2>7. CASE ScaleUnlock(p)
    BY <2>7 DEF ScaleUnlock, Drop, End, NoCall
  <2> QED BY <1>3, <2>1, <2>2, <2>3, <2>4, <2>5, <2>6, <2>7 DEF Scale
<1>4. CASE Start(p)
  BY <1>4 DEF Start, StartCheck, CleanStale, ReadConfig, Current, End, NoCall, RemoveDirectory,
     NoAcks, Orphaned, Waits, StartInit, NewTeam, StartTasksNext, Files, StartSpawn,
     StartSave, Save, WriteConfig, NoteWrite, StartReady, StartRevert, StartKill
<1>5. CASE Shutdown(p)
  BY <1>5 DEF Shutdown, ShutdownRead, ReadConfig, Current, ShutdownGate, HasBlockingBacklog,
     End, NoCall,
     Files, ShutdownAsk, Indices, ShutdownWait, ShutdownSave, Save, WriteConfig,
     NoteWrite, ShutdownKill
<1>6. CASE Clean(p)
  BY <1>6 DEF Clean, RemoveDirectory, NoAcks, NoCall, Orphaned, Waits
<1>7. CASE Crash(p)
  BY <1>7 DEF Crash, Files, NoCall
<1> QED BY <1>1, <1>2, <1>3, <1>4, <1>5, <1>6, <1>7 DEF ProcStep

(* the locks and what is noted of stale copies and orphans,                *)
LEMMA RestTyped ==
    ASSUME IInv, NEW p \in Procs, ProcStep(p)
    PROVE  /\ lock' \in [Locks -> Procs \cup {None}]
           /\ stale' \subseteq Procs /\ orphans' \subseteq Procs
<1> USE DEF IInv, TypeOK, HistoryTyped, Busy, Locks, Go, Local, History
<1>1. CASE BeginCall(p)
  BY <1>1 DEF BeginCall, BeginCreate, Begin, NoCall, Files, BeginScale, BeginStart,
     BeginShutdown
<1>2. CASE Create(p)
  BY <1>2 DEF Create, CreateGivesUp, Return, End, NoCall, Thrown, Files, CreateRead,
     Take, Dead, ReadConfig, Current, CreateWrite, Advanced, CreateSave, Save,
     WriteConfig, NoteWrite, CreateUnlock, Drop
<1>3. CASE Scale(p)
  BY <1>3 DEF Scale, ScaleGivesUp, End, NoCall, Files, UpRead, Take, Dead, ReadConfig,
     Current, UpTasks, UpSpawn, UpNotify, Joined, Save, WriteConfig, NoteWrite,
     UpKill, UpRestore, RolledBack, DownRead, DownKill, DownSave, ScaleUnlock, Drop
<1>4. CASE Start(p)
  BY <1>4 DEF Start, StartCheck, CleanStale, ReadConfig, Current, End, NoCall, RemoveDirectory,
     NoAcks, Orphaned, Waits, StartInit, NewTeam, StartTasksNext, Files, StartSpawn,
     StartSave, Save, WriteConfig, NoteWrite, StartReady, StartRevert, StartKill
<1>5. CASE Shutdown(p)
  BY <1>5 DEF Shutdown, ShutdownRead, ReadConfig, Current, ShutdownGate, HasBlockingBacklog,
     End, NoCall,
     Files, ShutdownAsk, Indices, ShutdownWait, ShutdownSave, Save, WriteConfig,
     NoteWrite, ShutdownKill
<1>6. CASE Clean(p)
  BY <1>6 DEF Clean, RemoveDirectory, NoAcks, NoCall, Orphaned, Waits
<1>7. CASE Crash(p)
  BY <1>7 DEF Crash, Files, NoCall
<1> QED BY <1>1, <1>2, <1>3, <1>4, <1>5, <1>6, <1>7 DEF ProcStep

(* the requests and acknowledgements,                                      *)
LEMMA AckTyped ==
    ASSUME IInv, NEW p \in Procs, ProcStep(p)
    PROVE  ack' \in [asked : SUBSET Nat, given : SUBSET Ack]
<1> USE DEF IInv, TypeOK, CallsTyped, Call, Config, Worker, Locals, LocalsOf,
            NeedsConfig, ConfigSteps, InCreate, Backs, CreateSteps, Go, Local, History
<1>1. CASE BeginCall(p)
  BY <1>1 DEF BeginCall, BeginCreate, Begin, NoCall, Files, BeginScale, BeginStart,
     BeginShutdown
<1>2. CASE Create(p)
  BY <1>2 DEF Create, CreateGivesUp, Return, End, NoCall, Thrown, Files, CreateRead,
     Take, Dead, ReadConfig, Current, CreateWrite, Advanced, CreateSave, Save,
     WriteConfig, NoteWrite, CreateUnlock, Drop
<1>3. CASE Scale(p)
  BY <1>3 DEF Scale, ScaleGivesUp, End, NoCall, Files, UpRead, Take, Dead, ReadConfig,
     Current, UpTasks, UpSpawn, UpNotify, Joined, Save, WriteConfig, NoteWrite,
     UpKill, UpRestore, RolledBack, DownRead, DownKill, DownSave, ScaleUnlock, Drop
<1>4. CASE Start(p)
  BY <1>4 DEF Start, StartCheck, CleanStale, ReadConfig, Current, End, NoCall, RemoveDirectory,
     NoAcks, Orphaned, Waits, StartInit, NewTeam, StartTasksNext, Files, StartSpawn,
     StartSave, Save, WriteConfig, NoteWrite, StartReady, StartRevert, StartKill
<1>5. CASE Shutdown(p)
  BY <1>5 DEF Shutdown, ShutdownRead, ReadConfig, Current, ShutdownGate, HasBlockingBacklog,
     End, NoCall,
     Files, ShutdownAsk, Indices, ShutdownWait, ShutdownSave, Save, WriteConfig,
     NoteWrite, ShutdownKill
<1>6. CASE Clean(p)
  BY <1>6 DEF Clean, RemoveDirectory, NoAcks, NoCall, Orphaned, Waits
<1>7. CASE Crash(p)
  BY <1>7 DEF Crash, Files, NoCall
<1> QED BY <1>1, <1>2, <1>3, <1>4, <1>5, <1>6, <1>7 DEF ProcStep

(* the local variables,                                                    *)
LEMMA CallTyped ==
    ASSUME IInv, NEW p \in Procs, ProcStep(p)
    PROVE  call' \in [Procs -> Call]
<1> USE DEF IInv, TypeOK, CallsTyped, Go, Local, History
<1>1. CASE BeginCall(p)
  BY <1>1, NoCallTyped, ForcedTyped DEF BeginCall, BeginCreate, BeginScale,
     BeginStart, BeginShutdown, Begin
<1>2. CASE Create(p)
  <2>1. CASE CreateGivesUp(p)
    BY <2>1, Returns DEF Locals, LocalsOf, InCreate, Thrown, Steps, CreateGivesUp
  <2>2. CASE CreateRead(p)
    BY <2>2, ReadDraws, ReadThrows
  <2>3. CASE CreateWrite(p)
    BY <2>3, CreateWrites
  <2>4. CASE CreateUnlock(p)
    BY <2>4, Returns DEF Locals, LocalsOf, InCreate, CreateSteps, Backs, Steps,
       CreateUnlock
  <2>5. CASE CreateSave(p)
    BY <2>5, NoCallTyped DEF CreateSave, Save, WriteConfig, NoteWrite
  <2> QED BY <1>2, <2>1, <2>2, <2>3, <2>4, <2>5 DEF Create
<1>3. CASE Scale(p)
  <2>1. CASE UpRead(p)
    BY <2>1, UpReads DEF UpRead
  <2>2. CASE UpTasks(p)
    BY <2>2, UpTakesTask
  <2>3. CASE UpSpawn(p)
    BY <2>3, UpSpawns
  <2>4. CASE UpNotify(p)
    BY <2>4, UpNotifies DEF UpNotify
  <2>5. CASE DownRead(p)
    BY <2>5, DownReads DEF DownRead
  <2>6. CASE ScaleGivesUp(p) \/ UpKill(p) \/ UpRestore(p) \/ DownKill(p) \/
           DownSave(p) \/ ScaleUnlock(p)
    BY <2>6, NoCallTyped DEF ScaleGivesUp, End, Files, UpKill, UpRestore, RolledBack,
       Save, WriteConfig, NoteWrite, DownKill, DownSave, ScaleUnlock, Drop
  <2> QED BY <1>3, <2>1, <2>2, <2>3, <2>4, <2>5, <2>6 DEF Scale
<1>4. CASE Start(p)
  <2>1. CASE StartInit(p)
    BY <2>1, StartInits
  <2>2. CASE StartTasksNext(p)
    BY <2>2, StartTakesNext
  <2>3. CASE StartSpawn(p)
    BY <2>3, StartSpawns
  <2>4. CASE StartCheck(p) \/ StartSave(p) \/ StartReady(p) \/ StartRevert(p) \/
           StartKill(p)
    BY <2>4, NoCallTyped DEF StartCheck, CleanStale, ReadConfig, Current, End, RemoveDirectory,
       NoAcks, Orphaned, Waits, StartSave, Save, WriteConfig, NoteWrite, StartReady,
       StartRevert, StartKill
  <2> QED BY <1>4, <2>1, <2>2, <2>3, <2>4 DEF Start
<1>5. CASE Shutdown(p)
  <2>1. CASE ShutdownRead(p)
    BY <2>1, ShutdownReads
  <2>2. CASE ShutdownGate(p)
    BY <2>2, CallOf, NoCallTyped, GatePasses DEF ShutdownGate, HasBlockingBacklog, End
  <2>3. CASE ShutdownAsk(p)
    BY <2>3, ShutdownAsks
  <2>4. CASE ShutdownWait(p) \/ ShutdownSave(p) \/ ShutdownKill(p)
    BY <2>4, NoCallTyped DEF ShutdownWait, End, Files, ShutdownSave, Save, WriteConfig,
       NoteWrite, ShutdownKill
  <2> QED BY <1>5, <2>1, <2>2, <2>3, <2>4 DEF Shutdown
<1>6. CASE Clean(p)
  <2>1. CASE Clean(p)
    BY <2>1, NoCallTyped, FieldTyped DEF Clean, RemoveDirectory, NoAcks, Orphaned,
       Waits
  <2> QED BY <1>6, <2>1 DEF Clean
<1>7. CASE Crash(p)
  <2>1. CASE Crash(p)
    BY <2>1, NoCallTyped, FieldTyped DEF Crash, Files
  <2> QED BY <1>7, <2>1 DEF Crash
<1> QED BY <1>1, <1>2, <1>3, <1>4, <1>5, <1>6, <1>7 DEF ProcStep

(* the configuration and the panes,                                        *)
LEMMA FilesTyped ==
    ASSUME IInv, NEW p \in Procs, ProcStep(p)
    PROVE  ConfigsTyped' /\ panes' \subseteq Worker
<1> USE DEF IInv, TypeOK, ConfigsTyped, CallsTyped, Call, Config, Worker, Locals,
            LocalsOf, NeedsConfig, ConfigSteps, InCreate, Backs, CreateSteps, Go,
            Local, History
<1>1. CASE BeginCall(p)
  BY <1>1, RosterAssumption DEF BeginCall, BeginCreate, Begin, NoCall, Files,
     BeginScale, BeginStart, BeginShutdown
<1>2. CASE Create(p)
  <2>1. CASE CreateGivesUp(p)
    BY <2>1, RosterAssumption DEF CreateGivesUp, Return, End, NoCall, Thrown, Files
  <2>2. CASE CreateRead(p)
    BY <2>2, RosterAssumption DEF CreateRead, Take, Dead, ReadConfig, Current
  <2>3. CASE CreateWrite(p) \/ CreateSave(p)
    BY <2>3, RosterAssumption DEF CreateWrite, Advanced, CreateSave, Save, WriteConfig,
       NoteWrite
  <2>4. CASE CreateUnlock(p)
    BY <2>4, RosterAssumption DEF CreateUnlock, Drop, Return, End, NoCall
  <2> QED BY <1>2, <2>1, <2>2, <2>3, <2>4 DEF Create
<1>3. CASE Scale(p)
  <2>1. CASE UpSpawn(p)
    BY <2>1, UpSpawns DEF UpSpawn
  <2>2. CASE UpNotify(p)
    BY <2>2, RosterAssumption DEF UpNotify, Joined, Save, WriteConfig, NoteWrite
  <2>3. CASE UpRestore(p)
    BY <2>3, RosterAssumption DEF UpRestore, RolledBack, Save, WriteConfig, NoteWrite
  <2>4. CASE DownSave(p)
    BY <2>4, RosterAssumption DEF DownSave, Save, WriteConfig, NoteWrite
  <2>5. CASE ScaleGivesUp(p) \/ UpRead(p) \/ UpTasks(p) \/ UpKill(p) \/ DownRead(p) \/
           DownKill(p) \/ ScaleUnlock(p)
    BY <2>5, RosterAssumption DEF ScaleGivesUp, End, NoCall, Files, UpRead, Take,
       Dead, ReadConfig, Current, UpTasks, UpKill, DownRead, DownKill, ScaleUnlock,
       Drop
  <2> QED BY <1>3, <2>1, <2>2, <2>3, <2>4, <2>5 DEF Scale
<1>4. CASE Start(p)
  <2>1. CASE StartSpawn(p)
    BY <2>1, StartSpawns DEF StartSpawn
  <2>2. CASE StartCheck(p) \/ StartInit(p) \/ StartTasksNext(p) \/ StartSave(p) \/
           StartReady(p) \/ StartRevert(p) \/ StartKill(p)
    BY <2>2, RosterAssumption DEF StartCheck, CleanStale, ReadConfig, Current, End, NoCall,
       RemoveDirectory, NoAcks, Orphaned, Waits, StartInit, NewTeam, StartTasksNext,
       Files, StartSave, Save, WriteConfig, NoteWrite, StartReady, StartRevert,
       StartKill
  <2> QED BY <1>4, <2>1, <2>2 DEF Start
<1>5. CASE Shutdown(p)
  BY <1>5, RosterAssumption DEF Shutdown, ShutdownRead, ReadConfig, Current,
     ShutdownGate, HasBlockingBacklog, End, NoCall, Files, ShutdownAsk, Indices, ShutdownWait,
     ShutdownSave, Save, WriteConfig, NoteWrite, ShutdownKill
<1>6. CASE Clean(p)
  BY <1>6, RosterAssumption DEF Clean, RemoveDirectory, NoAcks, NoCall, Orphaned,
     Waits
<1>7. CASE Crash(p)
  BY <1>7, RosterAssumption DEF Crash, Files, NoCall
<1> QED BY <1>1, <1>2, <1>3, <1>4, <1>5, <1>6, <1>7 DEF ProcStep

(* what is noted of writes,                                                *)
LEMMA HistoryBools ==
    ASSUME IInv, NEW p \in Procs, ProcStep(p)
    PROVE  clobbered' \in BOOLEAN /\ haunted' \in BOOLEAN
<1> USE DEF IInv, TypeOK, HistoryTyped, Go, Local, History
<1>1. CASE BeginCall(p)
  BY <1>1, ZenonT(60) DEF BeginCall, BeginCreate, Begin, NoCall, Files, BeginScale,
     BeginStart, BeginShutdown
<1>2. CASE Create(p)
  BY <1>2, ZenonT(60) DEF Create, CreateGivesUp, Return, End, NoCall, Thrown, Files,
     CreateRead, Take, Dead, ReadConfig, Current, CreateWrite, Advanced, CreateSave,
     Save, WriteConfig, NoteWrite, CreateUnlock, Drop
<1>3. CASE Scale(p)
  BY <1>3, ZenonT(60) DEF Scale, ScaleGivesUp, End, NoCall, Files, UpRead, Take, Dead,
     ReadConfig, Current, UpTasks, UpSpawn, UpNotify, Joined, Save, WriteConfig,
     NoteWrite, UpKill, UpRestore, RolledBack, DownRead, DownKill, DownSave,
     ScaleUnlock, Drop
<1>4. CASE Start(p)
  BY <1>4, ZenonT(60) DEF Start, StartCheck, CleanStale, ReadConfig, Current, End, NoCall,
     RemoveDirectory, NoAcks, Orphaned, Waits, StartInit, NewTeam, StartTasksNext,
     Files, StartSpawn, StartSave, Save, WriteConfig, NoteWrite, StartReady,
     StartRevert, StartKill
<1>5. CASE Shutdown(p)
  BY <1>5, ZenonT(60) DEF Shutdown, ShutdownRead, ReadConfig, Current, ShutdownGate,
     HasBlockingBacklog,
     End, NoCall, Files, ShutdownAsk, Indices, ShutdownWait, ShutdownSave, Save,
     WriteConfig, NoteWrite, ShutdownKill
<1>6. CASE Clean(p)
  BY <1>6, ZenonT(60) DEF Clean, RemoveDirectory, NoAcks, NoCall, Orphaned, Waits
<1>7. CASE Crash(p)
  BY <1>7, ZenonT(60) DEF Crash, Files, NoCall
<1> QED BY <1>1, <1>2, <1>3, <1>4, <1>5, <1>6, <1>7 DEF ProcStep

(* the tasks and the counters.                                             *)
LEMMA TicksKept ==
    ASSUME IInv, NEW p \in Procs, ProcStep(p)
    PROVE  task' \subseteq Task /\ TicksTyped'
<1> USE DEF IInv, TypeOK, TicksTyped, Go, Local, History
<1>1. CASE BeginCall(p)
  BY <1>1 DEF BeginCall, BeginCreate, Begin, NoCall, Files, BeginScale, BeginStart,
     BeginShutdown
<1>2. CASE Create(p)
  <2>1. CASE CreateWrite(p)
    BY <2>1, CreateWritesTask
  <2>2. CASE CreateGivesUp(p) \/ CreateRead(p) \/ CreateSave(p) \/ CreateUnlock(p)
    BY <2>2 DEF CreateGivesUp, Return, End, NoCall, Thrown, Files, CreateRead, Take,
       Dead, ReadConfig, Current, CreateSave, Save, WriteConfig, NoteWrite,
       CreateUnlock, Drop
  <2> QED BY <1>2, <2>1, <2>2 DEF Create
<1>3. CASE Scale(p)
  <2>1. CASE UpSpawn(p)
    BY <2>1, UpSpawns DEF UpSpawn
  <2>2. CASE ScaleGivesUp(p) \/ UpRead(p) \/ UpTasks(p) \/ UpNotify(p) \/ UpKill(p) \/
           UpRestore(p) \/ DownRead(p) \/ DownKill(p) \/ DownSave(p) \/ ScaleUnlock(p)
    BY <2>2 DEF ScaleGivesUp, End, NoCall, Files, UpRead, Take, Dead, ReadConfig,
       Current, UpTasks, UpNotify, Joined, Save, WriteConfig, NoteWrite, UpKill,
       UpRestore, RolledBack, DownRead, DownKill, DownSave, ScaleUnlock, Drop
  <2> QED BY <1>3, <2>1, <2>2 DEF Scale
<1>4. CASE Start(p)
  <2>1. CASE StartSpawn(p)
    BY <2>1, StartSpawns DEF StartSpawn
  <2>2. CASE StartCheck(p) \/ StartInit(p) \/ StartTasksNext(p) \/ StartSave(p) \/
           StartReady(p) \/ StartRevert(p) \/ StartKill(p)
    BY <2>2 DEF StartCheck, CleanStale, ReadConfig, Current, End, NoCall, RemoveDirectory, NoAcks,
       Orphaned, Waits, StartInit, NewTeam, StartTasksNext, Files, StartSave, Save,
       WriteConfig, NoteWrite, StartReady, StartRevert, StartKill
  <2> QED BY <1>4, <2>1, <2>2 DEF Start
<1>5. CASE Shutdown(p)
  BY <1>5 DEF Shutdown, ShutdownRead, ReadConfig, Current, ShutdownGate, HasBlockingBacklog,
     End, NoCall,
     Files, ShutdownAsk, Indices, ShutdownWait, ShutdownSave, Save, WriteConfig,
     NoteWrite, ShutdownKill
<1>6. CASE Clean(p)
  BY <1>6 DEF Clean, RemoveDirectory, NoAcks, NoCall, Orphaned, Waits
<1>7. CASE Crash(p)
  BY <1>7 DEF Crash, Files, NoCall
<1> QED BY <1>1, <1>2, <1>3, <1>4, <1>5, <1>6, <1>7 DEF ProcStep

(* A step of one process leaves the locals of the others alone.            *)
LEMMA OthersKeep ==
    ASSUME IInv, NEW p \in Procs, ProcStep(p)
    PROVE  \A q \in Procs \ {p} : pc'[q] = pc[q] /\ call'[q] = call[q]
<1> USE DEF IInv, TypeOK, CallsTyped, Go, Local, History
<1>1. CASE BeginCall(p)
  BY <1>1 DEF BeginCall, BeginCreate, Begin, NoCall, Files, BeginScale, BeginStart,
     BeginShutdown
<1>2. CASE Create(p)
  BY <1>2 DEF Create, CreateGivesUp, Return, End, NoCall, Thrown, Files, CreateRead,
     Take, Dead, ReadConfig, Current, CreateWrite, Advanced, CreateSave, Save,
     WriteConfig, NoteWrite, CreateUnlock, Drop
<1>3. CASE Scale(p)
  BY <1>3 DEF Scale, ScaleGivesUp, End, NoCall, Files, UpRead, Take, Dead, ReadConfig,
     Current, UpTasks, UpSpawn, UpNotify, Joined, Save, WriteConfig, NoteWrite,
     UpKill, UpRestore, RolledBack, DownRead, DownKill, DownSave, ScaleUnlock, Drop
<1>4. CASE Start(p)
  BY <1>4 DEF Start, StartCheck, CleanStale, ReadConfig, Current, End, NoCall, RemoveDirectory,
     NoAcks, Orphaned, Waits, StartInit, NewTeam, StartTasksNext, Files, StartSpawn,
     StartSave, Save, WriteConfig, NoteWrite, StartReady, StartRevert, StartKill
<1>5. CASE Shutdown(p)
  BY <1>5 DEF Shutdown, ShutdownRead, ReadConfig, Current, ShutdownGate, HasBlockingBacklog,
     End, NoCall,
     Files, ShutdownAsk, Indices, ShutdownWait, ShutdownSave, Save, WriteConfig,
     NoteWrite, ShutdownKill
<1>6. CASE Clean(p)
  BY <1>6 DEF Clean, RemoveDirectory, NoAcks, NoCall, Orphaned, Waits
<1>7. CASE Crash(p)
  BY <1>7 DEF Crash, Files, NoCall
<1> QED BY <1>1, <1>2, <1>3, <1>4, <1>5, <1>6, <1>7 DEF ProcStep

(* Only the process that takes a step can break what is known of its call. *)
LEMMA OwnLocals ==
    ASSUME IInv, NEW p \in Procs, ProcStep(p), LocalsOf(p)'
    PROVE  Locals'
<1> SUFFICES ASSUME NEW q \in Procs \ {p} PROVE LocalsOf(q)'
    BY DEF Locals
<1>1. pc'[q] = pc[q] /\ call'[q] = call[q]
    BY OthersKeep
<1>2. LocalsOf(q)
    BY DEF IInv, Locals
<1> QED BY <1>1, <1>2 DEF LocalsOf, NeedsConfig, InCreate

(* Each step keeps what is known of the local variables.                   *)
LEMMA LocalsKept ==
    ASSUME IInv, NEW p \in Procs, ProcStep(p)
    PROVE  Locals'
<1> USE DEF IInv, TypeOK, CallsTyped, ConfigsTyped, Locals, LocalsOf, NeedsConfig,
            ConfigSteps, InCreate, Backs, Call, Config, CreateSteps, Go, Local,
            History
<1>1. CASE BeginCall(p)
  BY <1>1, RosterAssumption DEF BeginCall, BeginCreate, Begin, NoCall, Files,
     BeginScale, BeginStart, BeginShutdown
<1>2. CASE Create(p)
  <2>1. CASE CreateRead(p)
    <3>1. pc[p] = "ctLock" /\ pc'[p] \in {"ctWrite", "ctUnlock"}
        BY <2>1, ReadAlone
    <3>2. LocalsOf(p)
        BY DEF IInv, Locals
    <3>3. CASE pc'[p] = "ctWrite"
        BY <2>1, <3>1, <3>2, <3>3, ReadDraws, OwnLocals
           DEF LocalsOf, NeedsConfig, InCreate, ConfigSteps, CreateSteps, Backs
    <3>4. CASE pc'[p] = "ctUnlock"
        BY <2>1, <3>4, ReadThrows, OwnLocals
           DEF LocalsOf, NeedsConfig, InCreate, ConfigSteps, CreateSteps, Backs
    <3> QED BY <3>1, <3>3, <3>4
  <2>2. CASE CreateWrite(p)
    <3>1. pc[p] = "ctWrite" /\ pc'[p] = "ctSave"
        BY <2>2, CallOf DEF CreateWrite, Go
    <3>2. LocalsOf(p)
        BY DEF IInv, Locals
    <3>3. /\ call'[p].back = call[p].back /\ call'[p].cfg = call[p].cfg
          /\ call'[p].copy \in Config
        BY <2>2, CreateWrites
    <3> QED BY <3>1, <3>2, <3>3, OwnLocals DEF LocalsOf, NeedsConfig, InCreate, ConfigSteps,
               CreateSteps, Backs
  <2>3. CASE CreateUnlock(p)
    <3>1. pc[p] = "ctUnlock" /\ LocalsOf(p) /\ call[p].back \in Backs
        BY <2>3 DEF CreateUnlock, IInv, Locals, LocalsOf, InCreate, CreateSteps
    <3>2. Return(p, call[p].back) /\ call[p].back \in Steps
        BY <2>3, <3>1 DEF CreateUnlock, Backs, Steps
    <3>3. pc'[p] = call[p].back /\ (call[p].back # "idle" => call'[p].cfg = call[p].cfg)
        BY <3>2, Returns
    <3> QED BY <3>1, <3>3, OwnLocals DEF LocalsOf, NeedsConfig, InCreate, ConfigSteps,
               CreateSteps, Backs
  <2>4. CASE CreateGivesUp(p) \/ CreateSave(p)
    BY <2>4, RosterAssumption DEF CreateGivesUp, Return, End, NoCall, Thrown, Files,
       CreateSave, Save, WriteConfig, NoteWrite
  <2> QED BY <1>2, <2>1, <2>2, <2>3, <2>4 DEF Create
<1>3. CASE Scale(p)
  <2>1. CASE UpRead(p)
    <3>1. pc'[p] \in {"upTasks", "scUnlock"}
        BY <2>1, CallOf DEF UpRead, Go
    <3>2. pc'[p] = "upTasks" => call'[p].cfg \in Config
        BY <2>1, UpReads
    <3> QED BY <3>1, <3>2, OwnLocals DEF LocalsOf, NeedsConfig, InCreate, ConfigSteps,
               CreateSteps, Backs
  <2>2. CASE UpNotify(p)
    <3>1. pc'[p] \in {"upKill", "upSpawn", "scUnlock"}
        BY <2>2, CallOf DEF UpNotify, Go
    <3>2. call'[p].cfg \in Config
      <4>1. CASE pc'[p] = "upKill"
          BY <2>2, <4>1, CallOf DEF UpNotify, Go, IInv, Locals, LocalsOf, NeedsConfig, ConfigSteps
      <4>2. CASE pc'[p] # "upKill"
          BY <2>2, <4>2, UpNotifies
      <4> QED BY <4>1, <4>2
    <3> QED BY <3>1, <3>2, OwnLocals DEF LocalsOf, NeedsConfig, InCreate, ConfigSteps,
               CreateSteps, Backs
  <2>3. CASE DownRead(p)
    <3>1. pc'[p] \in {"downKill", "scUnlock"}
        BY <2>3, CallOf DEF DownRead, Go
    <3>2. pc'[p] = "downKill" => call'[p].cfg \in Config
        BY <2>3, DownReads
    <3> QED BY <3>1, <3>2, OwnLocals DEF LocalsOf, NeedsConfig, InCreate, ConfigSteps,
               CreateSteps, Backs
  <2>4. CASE ScaleGivesUp(p) \/ UpTasks(p) \/ UpSpawn(p) \/ UpKill(p) \/ UpRestore(p)
           \/ DownKill(p) \/ DownSave(p) \/ ScaleUnlock(p)
    BY <2>4, RosterAssumption, SMTT(30) DEF ScaleGivesUp, End, NoCall, Files, UpTasks, UpSpawn,
       UpKill, UpRestore, RolledBack, Save, WriteConfig, NoteWrite, DownKill,
       DownSave, ScaleUnlock, Drop
  <2> QED BY <1>3, <2>1, <2>2, <2>3, <2>4 DEF Scale
<1>4. CASE Start(p)
  <2>1. CASE StartInit(p)
    <3>1. pc'[p] \in {"stTasks"}
        BY <2>1, CallOf DEF StartInit, Go
    <3>2. call'[p].cfg \in Config
        BY <2>1, StartInits
    <3> QED BY <3>1, <3>2, OwnLocals DEF LocalsOf, NeedsConfig, InCreate, ConfigSteps,
               CreateSteps, Backs
  <2>2. CASE StartTasksNext(p)
    <3>1. pc'[p] \in {"ctLock", "stSpawn"}
        BY <2>2, CallOf DEF StartTasksNext, Go
    <3>2. call[p].cfg \in Config
        BY <2>2 DEF StartTasksNext, IInv, Locals, LocalsOf, NeedsConfig, ConfigSteps
    <3>3. call'[p].cfg \in Config /\ (pc'[p] = "ctLock" => call'[p].back = "stTasks")
        BY <2>2, <3>2, StartTakesNext
    <3> QED BY <3>1, <3>3, OwnLocals DEF LocalsOf, NeedsConfig, InCreate, ConfigSteps,
               CreateSteps, Backs
  <2>3. CASE StartSpawn(p)
    <3>1. pc'[p] \in {"stSave", "clean"}
        BY <2>3, CallOf DEF StartSpawn, Go
    <3>2. pc'[p] = "stSave" => call'[p].cfg \in Config
        BY <2>3, StartSpawns
    <3> QED BY <3>1, <3>2, OwnLocals DEF LocalsOf, NeedsConfig, InCreate, ConfigSteps,
               CreateSteps, Backs
  <2>4. CASE StartCheck(p) \/ StartSave(p) \/ StartReady(p) \/ StartRevert(p) \/
           StartKill(p)
    BY <2>4, RosterAssumption DEF StartCheck, CleanStale, ReadConfig, Current, End, NoCall,
       RemoveDirectory, NoAcks, Orphaned, Waits, StartSave, Save, WriteConfig,
       NoteWrite, StartReady, StartRevert, StartKill
  <2> QED BY <1>4, <2>1, <2>2, <2>3, <2>4 DEF Start
<1>5. CASE Shutdown(p)
  <2>1. CASE ShutdownRead(p)
    BY <2>1, RosterAssumption DEF ShutdownRead, ReadConfig, Current
  <2>2. CASE ShutdownGate(p)
    BY <2>2, RosterAssumption DEF ShutdownGate, HasBlockingBacklog, End, NoCall, Files
  <2>3. CASE ShutdownWait(p)
    BY <2>3, RosterAssumption DEF ShutdownWait, End, NoCall, Files
  <2>4. CASE ShutdownAsk(p) \/ ShutdownSave(p) \/ ShutdownKill(p)
    BY <2>4, RosterAssumption DEF ShutdownAsk, Indices, ShutdownSave, Save,
       WriteConfig, NoteWrite, ShutdownKill
  <2> QED BY <1>5, <2>1, <2>2, <2>3, <2>4 DEF Shutdown
<1>6. CASE Clean(p)
  BY <1>6, RosterAssumption DEF Clean, RemoveDirectory, NoAcks, NoCall, Orphaned,
     Waits
<1>7. CASE Crash(p)
  BY <1>7, RosterAssumption DEF Crash, Files, NoCall
<1> QED BY <1>1, <1>2, <1>3, <1>4, <1>5, <1>6, <1>7 DEF ProcStep

(* Each step keeps the task ids unique.                                    *)
LEMMA IdsKept ==
    ASSUME IInv, NEW p \in Procs, ProcStep(p)
    PROVE  UniqueIds'
<1> USE DEF IInv, TypeOK, UniqueIds, Task, Go, Local, History
<1>1. CASE BeginCall(p)
  BY <1>1 DEF BeginCall, BeginCreate, Begin, NoCall, Files, BeginScale, BeginStart,
     BeginShutdown
<1>2. CASE Create(p)
  BY <1>2 DEF Create, CreateGivesUp, Return, End, NoCall, Thrown, Files, CreateRead,
     Take, Dead, ReadConfig, Current, CreateWrite, Advanced, CreateSave, Save,
     WriteConfig, NoteWrite, CreateUnlock, Drop
<1>3. CASE Scale(p)
  BY <1>3 DEF Scale, ScaleGivesUp, End, NoCall, Files, UpRead, Take, Dead, ReadConfig,
     Current, UpTasks, UpSpawn, UpNotify, Joined, Save, WriteConfig, NoteWrite,
     UpKill, UpRestore, RolledBack, DownRead, DownKill, DownSave, ScaleUnlock, Drop
<1>4. CASE Start(p)
  BY <1>4 DEF Start, StartCheck, CleanStale, ReadConfig, Current, End, NoCall, RemoveDirectory,
     NoAcks, Orphaned, Waits, StartInit, NewTeam, StartTasksNext, Files, StartSpawn,
     StartSave, Save, WriteConfig, NoteWrite, StartReady, StartRevert, StartKill
<1>5. CASE Shutdown(p)
  BY <1>5 DEF Shutdown, ShutdownRead, ReadConfig, Current, ShutdownGate, HasBlockingBacklog,
     End, NoCall,
     Files, ShutdownAsk, Indices, ShutdownWait, ShutdownSave, Save, WriteConfig,
     NoteWrite, ShutdownKill
<1>6. CASE Clean(p)
  BY <1>6 DEF Clean, RemoveDirectory, NoAcks, NoCall, Orphaned, Waits
<1>7. CASE Crash(p)
  BY <1>7 DEF Crash, Files, NoCall
<1> QED BY <1>1, <1>2, <1>3, <1>4, <1>5, <1>6, <1>7 DEF ProcStep

(* Each step keeps createTask under its lock.                              *)
LEMMA LockKept ==
    ASSUME IInv, NEW p \in Procs, ProcStep(p)
    PROVE  LockHeld'
<1> USE DEF IInv, TypeOK, LockHeld, Locks, Locals, LocalsOf, InCreate, Backs,
            CreateSteps, CallsTyped, Go, Local, History
<1>1. CASE BeginCall(p)
  BY <1>1, RosterAssumption DEF BeginCall, BeginCreate, Begin, NoCall, Files,
     BeginScale, BeginStart, BeginShutdown
<1>2. CASE Create(p)
  <2>1. CASE CreateRead(p)
    <3>1. /\ lock["team"] \in Dead \cup {None}
          /\ lock' = [lock EXCEPT !["team"] = p]
          /\ orphans' = orphans
          /\ \E step \in CreateSteps : pc' = [pc EXCEPT ![p] = step]
      BY <2>1 DEF CreateRead, Take
    <3>2. \A q \in Procs \ orphans : pc[q] \notin CreateSteps
      BY <3>1, RosterAssumption DEF Dead
    <3>3. lock'["team"] = p /\ \A q \in Procs : q # p => pc'[q] = pc[q]
      BY <3>1
    <3> QED BY <3>1, <3>2, <3>3
  <2>2. CASE CreateGivesUp(p) \/ CreateWrite(p) \/ CreateSave(p) \/ CreateUnlock(p)
    BY <2>2, RosterAssumption DEF CreateGivesUp, Return, End, NoCall, Thrown, Files,
       CreateWrite, Advanced, CreateSave, Save, WriteConfig, NoteWrite, CreateUnlock,
       Drop
  <2> QED BY <1>2, <2>1, <2>2 DEF Create
<1>3. CASE Scale(p)
  <2>1. CASE ScaleGivesUp(p) \/ UpTasks(p) \/ UpSpawn(p)
    BY <2>1, RosterAssumption DEF ScaleGivesUp, End, NoCall, Files, UpTasks, UpSpawn
  <2>2. CASE UpRead(p)
    BY <2>2, RosterAssumption DEF UpRead, Take, Dead, ReadConfig, Current
  <2>3. CASE UpNotify(p)
    BY <2>3, RosterAssumption DEF UpNotify, Joined, Save, WriteConfig, NoteWrite
  <2>4. CASE UpKill(p) \/ UpRestore(p)
    BY <2>4, RosterAssumption DEF UpKill, UpRestore, RolledBack, Save, WriteConfig,
       NoteWrite
  <2>5. CASE DownRead(p)
    BY <2>5, RosterAssumption DEF DownRead, Take, Dead, ReadConfig, Current
  <2>6. CASE DownKill(p) \/ DownSave(p)
    BY <2>6, RosterAssumption DEF DownKill, DownSave, Save, WriteConfig, NoteWrite
  <2>7. CASE ScaleUnlock(p)
    BY <2>7, RosterAssumption DEF ScaleUnlock, Drop, End, NoCall
  <2> QED BY <1>3, <2>1, <2>2, <2>3, <2>4, <2>5, <2>6, <2>7 DEF Scale
<1>4. CASE Start(p)
  BY <1>4, RosterAssumption DEF Start, StartCheck, CleanStale, ReadConfig, Current, End, NoCall,
     RemoveDirectory, NoAcks, Orphaned, Waits, StartInit, NewTeam, StartTasksNext,
     Files, StartSpawn, StartSave, Save, WriteConfig, NoteWrite, StartReady,
     StartRevert, StartKill
<1>5. CASE Shutdown(p)
  BY <1>5, RosterAssumption DEF Shutdown, ShutdownRead, ReadConfig, Current,
     ShutdownGate, HasBlockingBacklog, End, NoCall, Files, ShutdownAsk, Indices, ShutdownWait,
     ShutdownSave, Save, WriteConfig, NoteWrite, ShutdownKill
<1>6. CASE Clean(p)
  BY <1>6, RosterAssumption DEF Clean, RemoveDirectory, NoAcks, NoCall, Orphaned,
     Waits
<1>7. CASE Crash(p)
  BY <1>7, RosterAssumption DEF Crash, Files, NoCall
<1> QED BY <1>1, <1>2, <1>3, <1>4, <1>5, <1>6, <1>7 DEF ProcStep

(* Each step keeps the drawn id free.                                      *)
LEMMA IdKept ==
    ASSUME IInv, NEW p \in Procs, ProcStep(p)
    PROVE  IdIsFree'
<1> USE DEF IInv, TypeOK, IdIsFree, Task, LockHeld, Call, CallsTyped, CreateSteps, Go,
            Local, History
<1>1. CASE BeginCall(p)
  BY <1>1, RosterAssumption DEF BeginCall, BeginCreate, Begin, NoCall, Files,
     BeginScale, BeginStart, BeginShutdown
<1>2. CASE Create(p)
  <2>1. CASE CreateRead(p)
    BY <2>1, ReadAlone, ReadDraws
  <2>2. CASE CreateUnlock(p)
    BY <2>2, Returns DEF Locals, LocalsOf, InCreate, Backs, Steps, CreateUnlock
  <2>3. CASE CreateGivesUp(p) \/ CreateWrite(p) \/ CreateSave(p)
    BY <2>3, RosterAssumption, ZenonT(30)
       DEF CreateGivesUp, Return, End, NoCall, Thrown, Files,
       CreateWrite, Advanced, CreateSave, Save, WriteConfig, NoteWrite
  <2> QED BY <1>2, <2>1, <2>2, <2>3 DEF Create
<1>3. CASE Scale(p)
  <2>1. CASE ScaleGivesUp(p) \/ UpTasks(p) \/ UpSpawn(p)
    BY <2>1, RosterAssumption DEF ScaleGivesUp, End, NoCall, Files, UpTasks, UpSpawn
  <2>2. CASE UpRead(p)
    BY <2>2, RosterAssumption DEF UpRead, Take, Dead, ReadConfig, Current
  <2>3. CASE UpNotify(p)
    BY <2>3, RosterAssumption DEF UpNotify, Joined, Save, WriteConfig, NoteWrite
  <2>4. CASE UpKill(p)
    BY <2>4 DEF UpKill
  <2>5. CASE UpRestore(p)
    BY <2>5 DEF UpRestore, RolledBack, Save, WriteConfig, NoteWrite
  <2>6. CASE DownRead(p)
    BY <2>6, RosterAssumption DEF DownRead, Take, Dead, ReadConfig, Current
  <2>7. CASE DownKill(p) \/ DownSave(p)
    BY <2>7 DEF DownKill, DownSave, Save, WriteConfig, NoteWrite
  <2>8. CASE ScaleUnlock(p)
    BY <2>8 DEF ScaleUnlock, Drop, End, NoCall
  <2> QED BY <1>3, <2>1, <2>2, <2>3, <2>4, <2>5, <2>6, <2>7, <2>8 DEF Scale
<1>4. CASE Start(p)
  <2>1. CASE StartCheck(p)
    BY <2>1 DEF StartCheck, CleanStale, ReadConfig, Current, End, NoCall, RemoveDirectory,
       NoAcks, Orphaned, Waits
  <2>2. CASE StartInit(p)
    BY <2>2, RosterAssumption DEF StartInit, NewTeam
  <2>3. CASE StartTasksNext(p) \/ StartSpawn(p)
    BY <2>3, RosterAssumption DEF StartTasksNext, Files, StartSpawn
  <2>4. CASE StartSave(p) \/ StartReady(p) \/ StartRevert(p) \/ StartKill(p)
    BY <2>4 DEF StartSave, Save, WriteConfig, NoteWrite, StartReady, NoCall,
       StartRevert, StartKill
  <2> QED BY <1>4, <2>1, <2>2, <2>3, <2>4 DEF Start
<1>5. CASE Shutdown(p)
  <2>1. CASE ShutdownRead(p)
    BY <2>1, RosterAssumption DEF ShutdownRead, ReadConfig, Current
  <2>2. CASE ShutdownGate(p)
    BY <2>2, RosterAssumption DEF ShutdownGate, HasBlockingBacklog, End, NoCall, Files
  <2>3. CASE ShutdownAsk(p) \/ ShutdownWait(p)
    BY <2>3, RosterAssumption DEF ShutdownAsk, Indices, ShutdownWait, End, NoCall, Files
  <2>4. CASE ShutdownSave(p) \/ ShutdownKill(p)
    BY <2>4, RosterAssumption DEF ShutdownSave, Save, WriteConfig, NoteWrite,
       ShutdownKill
  <2> QED BY <1>5, <2>1, <2>2, <2>3, <2>4 DEF Shutdown
<1>6. CASE Clean(p)
  BY <1>6, RosterAssumption DEF Clean, RemoveDirectory, NoAcks, NoCall, Orphaned,
     Waits
<1>7. CASE Crash(p)
  BY <1>7, RosterAssumption DEF Crash, Files, NoCall
<1> QED BY <1>1, <1>2, <1>3, <1>4, <1>5, <1>6, <1>7 DEF ProcStep

(* A team that the others rely on is still there, and so is its manifest.  *)
LEMMA OwnGhosts ==
    ASSUME IInv, NEW p \in Procs, ProcStep(p),
           haunted => haunted', orphans \ {p} \subseteq orphans',
           haunted' \/ /\ manifest # None => manifest' # None
                       /\ manifest' = None => json' = None
                       /\ p \in orphans' \/ ~HasTeam(p)' \/ manifest' # None
    PROVE  NoGhosts'
<1>1. CASE haunted'
    BY <1>1 DEF NoGhosts
<1>2. CASE ~haunted'
  <2>1. /\ \A q \in Procs \ orphans : HasTeam(q) => manifest # None
        /\ manifest # None => manifest' # None
      BY <1>2 DEF IInv, NoGhosts, HasTeam, NeedsConfig, InCreate
  <2>2. ASSUME NEW q \in Procs \ orphans', HasTeam(q)'
        PROVE  manifest' # None
    <3>1. CASE q = p
        BY <1>2, <2>2, <3>1 DEF HasTeam, NeedsConfig, InCreate
    <3>2. CASE q # p
      <4>1. pc'[q] = pc[q] /\ call'[q] = call[q] /\ q \notin orphans
          BY <2>2, <3>2, OthersKeep
      <4>2. HasTeam(q)
          BY <2>2, <4>1 DEF HasTeam, NeedsConfig, InCreate
      <4> QED BY <2>1, <4>1, <4>2
    <3> QED BY <3>1, <3>2
  <2> QED BY <1>2, <2>2 DEF NoGhosts, HasTeam, NeedsConfig, InCreate
<1> QED BY <1>1, <1>2

(* Each step keeps the manifest of a team that is in use.                  *)
LEMMA GhostsKept ==
    ASSUME IInv, NEW p \in Procs, ProcStep(p)
    PROVE  NoGhosts'
<1> USE DEF IInv, TypeOK, NoGhosts, HasTeam, CallsTyped, ConfigsTyped, Locals,
            LocalsOf, NeedsConfig, ConfigSteps, InCreate, Backs, Call, Config,
            CreateSteps, Go, Local, History
<1>1. CASE BeginCall(p)
  BY <1>1, RosterAssumption DEF BeginCall, BeginCreate, Begin, NoCall, Files,
     BeginScale, BeginStart, BeginShutdown
<1>2. CASE Create(p)
  <2>1. CASE CreateGivesUp(p)
    BY <2>1, RosterAssumption DEF CreateGivesUp, Return, End, NoCall, Thrown, Files
  <2>2. CASE CreateRead(p)
    <3>1. /\ manifest' = Current /\ UNCHANGED <<json, haunted, orphans>>
          /\ pc'[p] \in {"ctWrite", "ctUnlock"}
        BY <2>2, ReadAlone
    <3>2. pc'[p] = "ctWrite" => Current # None
        BY <2>2, ReadDraws, RosterAssumption
    <3>3. HasTeam(p)' => pc'[p] = "ctWrite"
        BY <2>2, <3>1, ReadThrows DEF HasTeam, NeedsConfig, InCreate, ConfigSteps, CreateSteps
    <3>4. haunted \/ (manifest = None => json = None)
        BY DEF IInv, NoGhosts
    <3> QED BY <3>1, <3>2, <3>3, <3>4, OwnGhosts DEF Current
  <2>3. CASE CreateWrite(p)
    BY <2>3, RosterAssumption DEF CreateWrite, Advanced
  <2>4. CASE CreateUnlock(p)
    BY <2>4, RosterAssumption DEF CreateUnlock, Drop, Return, End, NoCall
  <2>5. CASE CreateSave(p)
    BY <2>5, RosterAssumption DEF CreateSave, Save, WriteConfig, NoteWrite
  <2> QED BY <1>2, <2>1, <2>2, <2>3, <2>4, <2>5 DEF Create
<1>3. CASE Scale(p)
  <2>1. CASE UpNotify(p)
    <3> DEFINE c == Joined(call[p].cfg, call[p].added)
    <3>1. HasTeam(p)
        BY <2>1 DEF UpNotify, HasTeam, NeedsConfig, ConfigSteps
    <3>2. c \in Config
        BY <2>1, CallOf DEF UpNotify, IInv, Locals, LocalsOf, NeedsConfig, ConfigSteps, Joined,
                          Config, Call
    <3>3. CASE Save(p, c)
      <4> HIDE DEF c
      <4> QED BY <3>1, <3>2, <3>3, Saves, OwnGhosts
    <3>4. CASE UNCHANGED <<manifest, json, haunted, orphans>>
        BY <3>1, <3>4, OwnGhosts DEF IInv, NoGhosts, HasTeam, NeedsConfig, InCreate
    <3> QED BY <2>1, <3>3, <3>4 DEF UpNotify, History
  <2>2. CASE UpRestore(p)
    <3> DEFINE c == RolledBack(call[p].cfg, call[p])
    <3>1. HasTeam(p)
        BY <2>2 DEF UpRestore, HasTeam, NeedsConfig, ConfigSteps
    <3>2. c \in Config
        BY <2>2, CallOf DEF UpRestore, IInv, Locals, LocalsOf, NeedsConfig, ConfigSteps,
           RolledBack, Config, Call
    <3>3. Save(p, c)
        BY <2>2 DEF UpRestore
    <3> HIDE DEF c
    <3> QED BY <3>1, <3>2, <3>3, Saves, OwnGhosts
  <2>3. CASE DownRead(p)
    <3>1. /\ manifest' = Current /\ UNCHANGED <<json, haunted, orphans>>
          /\ pc'[p] = "downKill" => Current # None
          /\ pc'[p] \in {"downKill", "scUnlock"}
        BY <2>3, CallOf DEF DownRead, ReadConfig, Go, History
    <3>2. HasTeam(p)' => pc'[p] = "downKill"
        BY <3>1 DEF HasTeam, NeedsConfig, InCreate, ConfigSteps, CreateSteps
    <3>3. haunted \/ (manifest = None => json = None)
        BY DEF IInv, NoGhosts
    <3> QED BY <3>1, <3>2, <3>3, OwnGhosts DEF Current
  <2>4. CASE DownSave(p)
    <3> DEFINE c == [call[p].cfg EXCEPT !.workers = @ \ call[p].out]
    <3>1. HasTeam(p)
        BY <2>4 DEF DownSave, HasTeam, NeedsConfig, ConfigSteps
    <3>2. c \in Config
        BY <2>4, CallOf DEF DownSave, IInv, Locals, LocalsOf, NeedsConfig, ConfigSteps, Config,
           Call
    <3>3. Save(p, c)
        BY <2>4 DEF DownSave
    <3> HIDE DEF c
    <3> QED BY <3>1, <3>2, <3>3, Saves, OwnGhosts
  <2>5. CASE ScaleGivesUp(p) \/ UpRead(p) \/ UpTasks(p) \/ UpSpawn(p) \/ UpKill(p) \/
           DownKill(p) \/ ScaleUnlock(p)
    BY <2>5, RosterAssumption DEF ScaleGivesUp, End, NoCall, Files, UpRead, Take,
       Dead, ReadConfig, Current, UpTasks, UpSpawn, UpKill, DownKill, ScaleUnlock,
       Drop
  <2> QED BY <1>3, <2>1, <2>2, <2>3, <2>4, <2>5 DEF Scale
<1>4. CASE Start(p)
  <2>1. CASE StartCheck(p)
    BY <2>1, RosterAssumption, SMTT(30) DEF StartCheck, CleanStale, ReadConfig, Current, End,
       NoCall,
       RemoveDirectory, NoAcks, Orphaned, Waits
  <2>2. CASE StartInit(p)
    <3>1. NewTeam # None
        BY <2>2, StartInits, RosterAssumption
    <3>2. /\ manifest' = NewTeam /\ orphans' = orphans
          /\ haunted' = (haunted \/ p \in orphans)
        BY <2>2 DEF StartInit
    <3> QED BY <3>1, <3>2, OwnGhosts
  <2>3. CASE StartTasksNext(p)
    BY <2>3, RosterAssumption DEF StartTasksNext, Files
  <2>4. CASE StartSpawn(p)
    BY <2>4, RosterAssumption DEF StartSpawn
  <2>5. CASE StartSave(p) \/ StartReady(p) \/ StartRevert(p) \/ StartKill(p)
    BY <2>5, RosterAssumption DEF StartSave, Save, WriteConfig, NoteWrite, StartReady,
       NoCall, StartRevert, StartKill
  <2> QED BY <1>4, <2>1, <2>2, <2>3, <2>4, <2>5 DEF Start
<1>5. CASE Shutdown(p)
  <2>1. CASE ShutdownRead(p)
    BY <2>1, RosterAssumption DEF ShutdownRead, ReadConfig, Current
  <2>2. CASE ShutdownGate(p)
    BY <2>2, RosterAssumption DEF ShutdownGate, HasBlockingBacklog, End, NoCall, Files
  <2>3. CASE ShutdownWait(p)
    BY <2>3, RosterAssumption DEF ShutdownWait, End, NoCall, Files
  <2>4. CASE ShutdownAsk(p) \/ ShutdownSave(p) \/ ShutdownKill(p)
    BY <2>4, RosterAssumption, ZenonT(30) DEF ShutdownAsk, Indices, ShutdownSave, Save,
       WriteConfig, NoteWrite, ShutdownKill
  <2> QED BY <1>5, <2>1, <2>2, <2>3, <2>4 DEF Shutdown
<1>6. CASE Clean(p)
  BY <1>6, RosterAssumption DEF Clean, RemoveDirectory, NoAcks, NoCall, Orphaned,
     Waits
<1>7. CASE Crash(p)
  BY <1>7, RosterAssumption DEF Crash, Files, NoCall
<1> QED BY <1>1, <1>2, <1>3, <1>4, <1>5, <1>6, <1>7 DEF ProcStep

(* No step replaces a task.                                                *)
LEMMA TasksKept ==
    ASSUME IInv, NEW p \in Procs, ProcStep(p)
    PROVE  haunted' \/ \A t \in task, u \in task' : u.id = t.id => u.serial = t.serial
<1> USE DEF IInv, TypeOK, UniqueIds, Task, Go, Local, History
<1>1. CASE BeginCall(p)
  BY <1>1 DEF BeginCall, BeginCreate, Begin, NoCall, Files, BeginScale, BeginStart,
     BeginShutdown
<1>2. CASE Create(p)
  <2>1. CASE CreateWrite(p)
    <3>1. CASE haunted \/ p \in orphans
        BY <2>1, <3>1 DEF CreateWrite
    <3>2. CASE ~(haunted \/ p \in orphans)
      <4>1. pc[p] = "ctWrite"
          BY <2>1 DEF CreateWrite
      <4>2. \A t \in task : t.id \in Nat /\ call[p].id \in Nat /\ t.id < call[p].id
          BY <3>2, <4>1, CallOf DEF IInv, IdIsFree, TypeOK, Task, Call
      <4> QED BY <2>1, <4>2 DEF IInv, UniqueIds, CreateWrite
    <3> QED BY <3>1, <3>2
  <2>2. CASE CreateGivesUp(p) \/ CreateRead(p) \/ CreateSave(p) \/ CreateUnlock(p)
    BY <2>2 DEF CreateGivesUp, Return, End, NoCall, Thrown, Files, CreateRead, Take,
       Dead, ReadConfig, Current, CreateSave, Save, WriteConfig, NoteWrite,
       CreateUnlock, Drop
  <2> QED BY <1>2, <2>1, <2>2 DEF Create
<1>3. CASE Scale(p)
  BY <1>3 DEF Scale, ScaleGivesUp, End, NoCall, Files, UpRead, Take, Dead, ReadConfig,
     Current, UpTasks, UpSpawn, UpNotify, Joined, Save, WriteConfig, NoteWrite,
     UpKill, UpRestore, RolledBack, DownRead, DownKill, DownSave, ScaleUnlock, Drop
<1>4. CASE Start(p)
  BY <1>4 DEF Start, StartCheck, CleanStale, ReadConfig, Current, End, NoCall, RemoveDirectory,
     NoAcks, Orphaned, Waits, StartInit, NewTeam, StartTasksNext, Files, StartSpawn,
     StartSave, Save, WriteConfig, NoteWrite, StartReady, StartRevert, StartKill
<1>5. CASE Shutdown(p)
  BY <1>5 DEF Shutdown, ShutdownRead, ReadConfig, Current, ShutdownGate, HasBlockingBacklog,
     End, NoCall,
     Files, ShutdownAsk, Indices, ShutdownWait, ShutdownSave, Save, WriteConfig,
     NoteWrite, ShutdownKill
<1>6. CASE Clean(p)
  BY <1>6 DEF Clean, RemoveDirectory, NoAcks, NoCall, Orphaned, Waits
<1>7. CASE Crash(p)
  BY <1>7 DEF Crash, Files, NoCall
<1> QED BY <1>1, <1>2, <1>3, <1>4, <1>5, <1>6, <1>7 DEF ProcStep

(* Only startTeam and orphans bring a manifest back.                       *)
LEMMA GoneKept ==
    ASSUME IInv, NEW p \in Procs, ProcStep(p)
    PROVE  manifest = None /\ manifest' # None => haunted \/ pc[p] = "stInit"
<1> USE DEF IInv, TypeOK, NoGhosts, Go, Local, History
<1>1. CASE BeginCall(p)
  BY <1>1, RosterAssumption DEF BeginCall, BeginCreate, Begin, NoCall, Files,
     BeginScale, BeginStart, BeginShutdown
<1>2. CASE Create(p)
  BY <1>2, RosterAssumption DEF Create, CreateGivesUp, Return, End, NoCall, Thrown,
     Files, CreateRead, Take, Dead, ReadConfig, Current, CreateWrite, Advanced,
     CreateSave, Save, WriteConfig, NoteWrite, CreateUnlock, Drop
<1>3. CASE Scale(p)
  BY <1>3, RosterAssumption DEF Scale, ScaleGivesUp, End, NoCall, Files, UpRead, Take,
     Dead, ReadConfig, Current, UpTasks, UpSpawn, UpNotify, Joined, Save, WriteConfig,
     NoteWrite, UpKill, UpRestore, RolledBack, DownRead, DownKill, DownSave,
     ScaleUnlock, Drop
<1>4. CASE Start(p)
  BY <1>4, RosterAssumption DEF Start, StartCheck, CleanStale, ReadConfig, Current, End, NoCall,
     RemoveDirectory, NoAcks, Orphaned, Waits, StartInit, NewTeam, StartTasksNext,
     Files, StartSpawn, StartSave, Save, WriteConfig, NoteWrite, StartReady,
     StartRevert, StartKill
<1>5. CASE Shutdown(p)
  BY <1>5, RosterAssumption DEF Shutdown, ShutdownRead, ReadConfig, Current,
     ShutdownGate, HasBlockingBacklog, End, NoCall, Files, ShutdownAsk, Indices, ShutdownWait,
     ShutdownSave, Save, WriteConfig, NoteWrite, ShutdownKill
<1>6. CASE Clean(p)
  BY <1>6, RosterAssumption DEF Clean, RemoveDirectory, NoAcks, NoCall, Orphaned,
     Waits
<1>7. CASE Crash(p)
  BY <1>7, RosterAssumption DEF Crash, Files, NoCall
<1> QED BY <1>1, <1>2, <1>3, <1>4, <1>5, <1>6, <1>7 DEF ProcStep

(* IInv holds at first,                                                    *)
LEMMA InitHolds == Init => IInv
<1> SUFFICES ASSUME Init PROVE IInv
    OBVIOUS
<1>1. /\ manifest = None /\ json = None /\ task = {} /\ panes = {} /\ ack = NoAcks
      /\ lock = [l \in Locks |-> None]
      /\ pc = [p \in Procs |-> "idle"] /\ call = [p \in Procs |-> NoCall]
      /\ tick = [pane |-> 0, task |-> 0, time |-> 0, calls |-> 0]
      /\ stale = {} /\ orphans = {}
    BY DEF Init
<1>2. clobbered \in BOOLEAN /\ haunted \in BOOLEAN
    BY DEF Init
<1>3. TypeOK
  <2>1. CallsTyped
      BY <1>1, NoCallTyped DEF CallsTyped, Steps
  <2>2. ConfigsTyped /\ TicksTyped /\ HistoryTyped
      BY <1>1, <1>2 DEF ConfigsTyped, TicksTyped, HistoryTyped
  <2>3. /\ task \subseteq Task /\ panes \subseteq Worker
        /\ lock \in [Locks -> Procs \cup {None}]
        /\ ack \in [asked : SUBSET Nat, given : SUBSET Ack]
      BY <1>1 DEF NoAcks
  <2> QED BY <2>1, <2>2, <2>3 DEF TypeOK
<1>4. Locals /\ LockHeld
    BY <1>1 DEF Locals, LocalsOf, NeedsConfig, InCreate, ConfigSteps, CreateSteps, LockHeld
<1>5. UniqueIds /\ IdIsFree /\ NoGhosts
    BY <1>1 DEF UniqueIds, IdIsFree, NoGhosts, HasTeam, NeedsConfig, InCreate, ConfigSteps,
                CreateSteps
<1> QED BY <1>3, <1>4, <1>5 DEF IInv

(* is kept by the calls,                                                   *)
LEMMA ProcKeeps ==
    ASSUME IInv, NEW p \in Procs, ProcStep(p)
    PROVE  IInv'
<1>1. HistoryTyped'
    BY RestTyped, HistoryBools DEF HistoryTyped
<1>2. CallsTyped'
    BY PcTyped, CallTyped DEF CallsTyped
<1>3. TypeOK'
    BY <1>1, <1>2, FilesTyped, TicksKept, RestTyped, AckTyped DEF TypeOK
<1> QED BY <1>3, LocalsKept, IdsKept, LockKept, IdKept, GhostsKept DEF IInv

(* What workers do leaves the calls and the configuration alone.           *)
Quiet == UNCHANGED <<manifest, json, lock, pc, call, tick, History>>

(* and by what leaves the calls alone,                                     *)
LEMMA WorkersKeep ==
    ASSUME IInv, Quiet,
           task' \subseteq Task, panes' \subseteq Worker,
           ack' \in [asked : SUBSET Nat, given : SUBSET Ack],
           UniqueIds', IdIsFree'
    PROVE  IInv'
<1>1. /\ TypeOK' /\ Locals' /\ LockHeld' /\ NoGhosts'
    BY DEF IInv, Quiet, History, TypeOK, ConfigsTyped, TicksTyped, CallsTyped, HistoryTyped,
           Locals, LocalsOf, NeedsConfig, InCreate, LockHeld, NoGhosts, HasTeam
<1> QED BY <1>1 DEF IInv

(* by a worker that finishes a task,                                       *)
LEMMA DoneKeeps ==
    ASSUME IInv, TaskDone
    PROVE  /\ IInv'
           /\ \A t \in task, u \in task' : u.id = t.id => u.serial = t.serial
           /\ UNCHANGED manifest
<1>1. PICK t \in task : /\ task' = (task \ {t}) \cup {[t EXCEPT !.open = FALSE]}
                        /\ UNCHANGED <<manifest, json, panes, ack, lock, pc, call, tick, History>>
    BY DEF TaskDone
<1> DEFINE d == [t EXCEPT !.open = FALSE]
<1>2. t \in Task /\ task \subseteq Task
    BY DEF IInv, TypeOK
<1>3. d \in Task /\ d.id = t.id /\ d.serial = t.serial
    BY <1>2 DEF Task
<1>4. task' = (task \ {t}) \cup {d}
    BY <1>1
<1> HIDE DEF d
<1>5. UniqueIds
    BY DEF IInv
<1>6. UniqueIds' /\ \A v \in task, u \in task' : u.id = v.id => u.serial = v.serial
    BY <1>3, <1>4, <1>5 DEF UniqueIds
<1>7. IdIsFree'
    BY <1>1, <1>3, <1>4 DEF IInv, IdIsFree, History
<1>8. task' \subseteq Task
    BY <1>2, <1>3, <1>4
<1>9. Quiet /\ UNCHANGED <<panes, ack>>
    BY <1>1 DEF Quiet
<1>10. panes' \subseteq Worker /\ ack' \in [asked : SUBSET Nat, given : SUBSET Ack]
    BY <1>9 DEF IInv, TypeOK
<1> QED BY <1>6, <1>7, <1>8, <1>9, <1>10, WorkersKeep DEF Quiet

(* by a worker that answers a request,                                     *)
LEMMA AckKeeps ==
    ASSUME IInv, WorkerAck
    PROVE  IInv' /\ UNCHANGED <<task, manifest>>
<1>1. PICK w \in panes, reject \in BOOLEAN :
         /\ ack' = [ack EXCEPT !.given =
                      {a \in @ : a.index # w.index} \cup
                      {[index |-> w.index, reject |-> reject,
                        at |-> tick.time, during |-> Stamps]}]
         /\ UNCHANGED <<manifest, json, task, panes, lock, pc, call, tick, History>>
    BY DEF WorkerAck
<1>2. Stamps \subseteq Nat /\ tick.time \in Nat /\ w.index \in Nat
    BY CallOf DEF Stamps, Call, IInv, TypeOK, TicksTyped, Worker
<1> DEFINE a == [index |-> w.index, reject |-> reject, at |-> tick.time, during |-> Stamps]
<1>3. a \in Ack
    BY <1>2 DEF Ack
<1>4. ack' = [ack EXCEPT !.given = {b \in ack.given : b.index # w.index} \cup {a}]
    BY <1>1
<1> HIDE DEF a
<1>5. ack' \in [asked : SUBSET Nat, given : SUBSET Ack]
    BY <1>3, <1>4 DEF IInv, TypeOK
<1>6. Quiet /\ UNCHANGED <<task, panes>>
    BY <1>1 DEF Quiet
<1>7. /\ UniqueIds' /\ IdIsFree' /\ task' \subseteq Task /\ panes' \subseteq Worker
    BY <1>6 DEF IInv, TypeOK, UniqueIds, IdIsFree, Quiet, History
<1> QED BY <1>5, <1>6, <1>7, WorkersKeep DEF Quiet

(* and by a step of nothing.                                               *)
LEMMA StutterKeeps == IInv /\ UNCHANGED vars => IInv'
<1> SUFFICES ASSUME IInv, UNCHANGED vars PROVE IInv'
    OBVIOUS
<1>1. Quiet /\ UNCHANGED <<task, panes, ack>>
    BY DEF vars, Quiet, History
<1>2. /\ UniqueIds' /\ IdIsFree' /\ task' \subseteq Task /\ panes' \subseteq Worker
      /\ ack' \in [asked : SUBSET Nat, given : SUBSET Ack]
    BY <1>1 DEF IInv, TypeOK, UniqueIds, IdIsFree, Quiet, History
<1> QED BY <1>1, <1>2, WorkersKeep

(* The three kinds of steps.                                               *)
LEMMA NextCases ==
    ASSUME Next
    PROVE  (\E p \in Procs : ProcStep(p)) \/ TaskDone \/ WorkerAck
BY DEF Next, ProcStep

(* So it always holds.                                                     *)
LEMMA Invariance == Spec => []IInv
<1>1. IInv /\ [Next]_vars => IInv'
    BY NextCases, ProcKeeps, DoneKeeps, AckKeeps, StutterKeeps
<1> QED BY InitHolds, <1>1, PTL DEF Spec

(* Every file, lock and local copy keeps its form.                         *)
THEOREM TypeCorrect == Spec => []TypeOK
<1>1. IInv => TypeOK
    BY DEF IInv
<1> QED BY Invariance, <1>1, PTL

(* createTask never replaces a task, whatever the number of processes, the *)
(* calls they make and the places where they die: the lock excludes the    *)
(* calls whose team still exists, the id drawn is above all ids on disk,   *)
(* and a call that is not excluded is one that outlived its team.          *)
THEOREM TasksAreNotOverwritten == Spec => NoTaskOverwritten
<1>1. IInv /\ [Next]_vars =>
        [haunted' \/ \A t \in task, u \in task' : u.id = t.id => u.serial = t.serial]_vars
    BY NextCases, TasksKept, DoneKeeps, AckKeeps DEF IInv, UniqueIds
<1> QED BY Invariance, <1>1, PTL DEF Spec, NoTaskOverwritten

(* A removed team comes back only by startTeam or by a call that outlived  *)
(* it: nothing that is left of it is migrated.                             *)
THEOREM GoneStaysGone == Spec => GoneUntilStarted
<1>1. IInv /\ [Next]_vars =>
        [manifest = None /\ manifest' # None =>
            haunted \/ \E p \in Procs : pc[p] = "stInit"]_vars
    BY NextCases, GoneKept, DoneKeeps, AckKeeps
<1> QED BY Invariance, <1>1, PTL DEF Spec, GoneUntilStarted

-----------------------------------------------------------------------------
(* Shutdowns                                                               *)

(* Whatever is open was created after the gate of a shutdown that is still *)
(* under way.                                                              *)
GateIsFresh ==
    \A p \in Procs : call[p].gate # None =>
        /\ call[p].gate <= tick.task
        /\ \A t \in task : t.open => t.serial > call[p].gate

(* An answer that is not older than a request that is waited for was       *)
(* written while it was waited for.                                        *)
AnswersMatch ==
    /\ \A a \in ack.given : a.at <= tick.time
    /\ \A p \in Procs : pc[p] = "shWait" =>
          /\ call[p].stamp <= tick.time
          /\ \A a \in ack.given : a.at >= call[p].stamp => call[p].stamp \in a.during

SInv == IInv /\ GateIsFresh /\ AnswersMatch

(* Only the gate sets the gate.                                            *)
LEMMA GateSteps ==
    ASSUME IInv, NEW p \in Procs, ProcStep(p)
    PROVE  \/ call'[p].gate \in {call[p].gate, None}
           \/ /\ call'[p].gate = tick.task
              /\ \A t \in task : ~t.open
              /\ UNCHANGED <<task, tick>>
<1> DEFINE Kept == call'[p].gate \in {call[p].gate, None}
<1>0. /\ call \in [Procs -> Call] /\ pc \in [Procs -> Steps] /\ call[p] \in Call
    BY CallOf
<1>1. ASSUME call' = call \/ call' = [call EXCEPT ![p] = NoCall] PROVE Kept
    BY <1>0, <1>1 DEF NoCall
<1>2. ASSUME NEW r, call' = [call EXCEPT ![p] = r], r.gate = call[p].gate \/ r.gate = None PROVE Kept
    BY <1>0, <1>2
<1> USE DEF Go, Local, History
<1>3. CASE BeginCall(p)
    BY <1>2, <1>3 DEF BeginCall, BeginCreate, Begin, NoCall, BeginScale, BeginStart, BeginShutdown
<1>4. CASE Create(p)
  <2>1. CASE CreateGivesUp(p) \/ CreateUnlock(p)
      BY <1>0, <1>1, <1>2, <2>1 DEF CreateGivesUp, CreateUnlock, Return, End, Call
  <2>2. CASE CreateRead(p)
      BY <1>0, <1>2, <2>2 DEF CreateRead, Call
  <2>3. CASE CreateWrite(p)
      BY <1>0, <1>2, <2>3 DEF CreateWrite, Call
  <2>4. CASE CreateSave(p)
      BY <1>1, <2>4 DEF CreateSave
  <2> QED BY <1>4, <2>1, <2>2, <2>3, <2>4 DEF Create
<1>5. CASE Scale(p)
  <2>1. CASE UpRead(p)
      BY <1>0, <1>1, <1>2, <2>1 DEF UpRead, Call
  <2>2. CASE UpTasks(p)
      BY <1>0, <1>1, <1>2, <2>2 DEF UpTasks, Call
  <2>3. CASE UpSpawn(p)
      BY <1>0, <1>1, <1>2, <2>3 DEF UpSpawn, Call
  <2>4. CASE UpNotify(p)
      BY <1>0, <1>1, <1>2, <2>4 DEF UpNotify, Call
  <2>5. CASE DownRead(p)
      BY <1>0, <1>1, <1>2, <2>5 DEF DownRead, Call
  <2>6. CASE ScaleGivesUp(p) \/ UpKill(p) \/ UpRestore(p) \/ DownKill(p) \/ DownSave(p) \/ ScaleUnlock(p)
      BY <1>1, <2>6 DEF ScaleGivesUp, End, UpKill, UpRestore, DownKill, DownSave, ScaleUnlock
  <2> QED BY <1>5, <2>1, <2>2, <2>3, <2>4, <2>5, <2>6 DEF Scale
<1>6. CASE Start(p)
  <2>1. CASE StartInit(p)
      BY <1>0, <1>2, <2>1 DEF StartInit, Call
  <2>2. CASE StartTasksNext(p)
      BY <1>0, <1>1, <1>2, <2>2 DEF StartTasksNext, Call
  <2>3. CASE StartSpawn(p)
      BY <1>0, <1>1, <1>2, <2>3 DEF StartSpawn, Call
  <2>4. CASE StartCheck(p) \/ StartSave(p) \/ StartReady(p) \/ StartRevert(p) \/ StartKill(p)
      BY <1>1, <2>4 DEF StartCheck, CleanStale, End, StartSave, StartReady, StartRevert, StartKill
  <2> QED BY <1>6, <2>1, <2>2, <2>3, <2>4 DEF Start
<1>7. CASE Shutdown(p)
  <2>1. CASE ShutdownRead(p)
      BY <1>0, <1>2, <2>1 DEF ShutdownRead, Call
  <2>2. CASE ShutdownAsk(p)
      BY <1>0, <1>2, <2>2 DEF ShutdownAsk, Call
  <2>3. CASE ShutdownGate(p)
    <3>1. CASE call' = [call EXCEPT ![p] = NoCall]
        BY <1>1, <3>1
    <3>2. CASE ~\E t \in task : t.open
      <4>1. call' = [call EXCEPT ![p] = [call[p] EXCEPT !.gate = tick.task]]
            /\ UNCHANGED <<task, tick>>
          BY <2>3, <3>2 DEF ShutdownGate, HasBlockingBacklog, Files
      <4>2. [call[p] EXCEPT !.gate = tick.task].gate = tick.task
          BY <1>0 DEF Call
      <4>3. call'[p].gate = tick.task
          BY <1>0, <4>1, <4>2
      <4> QED BY <3>2, <4>1, <4>3
    <3> QED BY <2>3, <3>1, <3>2 DEF ShutdownGate, HasBlockingBacklog, End
  <2>4. CASE ShutdownWait(p) \/ ShutdownSave(p) \/ ShutdownKill(p)
      BY <1>1, <2>4 DEF ShutdownWait, End, ShutdownSave, ShutdownKill
  <2> QED BY <1>7, <2>1, <2>2, <2>3, <2>4 DEF Shutdown
<1>8. CASE Clean(p) \/ Crash(p)
    BY <1>1, <1>8 DEF Clean, Crash
<1> QED BY <1>3, <1>4, <1>5, <1>6, <1>7, <1>8 DEF ProcStep

(* A new task gets the next serial number.                                 *)
LEMMA NewTasksAreLate ==
    ASSUME IInv, NEW p \in Procs, ProcStep(p)
    PROVE  /\ tick.task <= tick'.task
           /\ \A t \in task' \ task : t.serial = tick.task + 1 /\ tick'.task = tick.task + 1
<1> USE DEF IInv, TypeOK, TicksTyped, Go, Local, History
<1>1. CASE BeginCall(p)
  BY <1>1 DEF BeginCall, BeginCreate, Begin, NoCall, Files, BeginScale, BeginStart,
     BeginShutdown
<1>2. CASE Create(p)
  <2>1. CASE CreateWrite(p)
    <3> DEFINE new == [id |-> call[p].id, serial |-> tick.task + 1, open |-> TRUE]
    <3>1. task' = {t \in task : t.id # new.id} \cup {new} /\ tick' = [tick EXCEPT !.task = @ + 1]
        BY <2>1 DEF CreateWrite
    <3>2. new.serial = tick.task + 1
        OBVIOUS
    <3> HIDE DEF new
    <3> QED BY <3>1, <3>2
  <2>2. CASE CreateGivesUp(p) \/ CreateSave(p) \/ CreateUnlock(p)
      BY <2>2 DEF CreateGivesUp, Files, CreateSave, CreateUnlock
  <2>3. CASE CreateRead(p)
    <3>1. task' = task /\ tick' = tick
        BY <2>3, Zenon DEF CreateRead
    <3> QED BY <3>1
  <2> QED BY <1>2, <2>1, <2>2, <2>3 DEF Create
<1>3. CASE Scale(p)
  <2>1. CASE UpKill(p)
      BY <2>1 DEF UpKill
  <2>2. CASE UpSpawn(p)
      BY <2>2 DEF UpSpawn
  <2>3. CASE UpRead(p)
    <3>1. task' = task /\ tick' = tick
        BY <2>3, Zenon DEF UpRead
    <3> QED BY <3>1
  <2>4. CASE DownRead(p)
    <3>1. task' = task /\ tick' = tick
        BY <2>4, Zenon DEF DownRead
    <3> QED BY <3>1
  <2>5. CASE ScaleGivesUp(p) \/ UpTasks(p) \/ UpNotify(p) \/ UpRestore(p)
      BY <2>5 DEF ScaleGivesUp, Files, UpTasks, UpNotify, UpRestore
  <2>6. CASE DownKill(p) \/ DownSave(p) \/ ScaleUnlock(p)
      BY <2>6 DEF DownKill, DownSave, ScaleUnlock
  <2> QED BY <1>3, <2>1, <2>2, <2>3, <2>4, <2>5, <2>6 DEF Scale
<1>4. CASE Start(p)
  BY <1>4 DEF Start, StartCheck, CleanStale, RemoveDirectory, StartInit, StartTasksNext, Files,
     StartSpawn, StartSave, StartReady, StartRevert, StartKill
<1>5. CASE Shutdown(p)
  BY <1>5 DEF Shutdown, ShutdownRead, ShutdownGate, HasBlockingBacklog, Files, ShutdownAsk,
     ShutdownWait,
     ShutdownSave, ShutdownKill
<1>6. CASE Clean(p)
  BY <1>6 DEF Clean, RemoveDirectory
<1>7. CASE Crash(p)
  BY <1>7 DEF Crash, Files
<1> QED BY <1>1, <1>2, <1>3, <1>4, <1>5, <1>6, <1>7 DEF ProcStep

LEMMA GateKept ==
    ASSUME SInv, NEW p \in Procs, ProcStep(p)
    PROVE  GateIsFresh'
<1> USE DEF SInv
<1>1. /\ tick.task \in Nat /\ tick'.task \in Nat /\ call \in [Procs -> Call]
      /\ \A t \in task : t.serial \in Nat
    BY TicksKept DEF IInv, TypeOK, CallsTyped, TicksTyped, Task
<1>2. ASSUME NEW q \in Procs, call[q].gate # None
      PROVE  /\ call[q].gate <= tick'.task
             /\ \A t \in task' : t.open => t.serial > call[q].gate
  <2>1. call[q].gate \in Nat /\ call[q].gate <= tick.task
      BY <1>1, <1>2 DEF GateIsFresh, Call
  <2> QED BY <1>1, <1>2, <2>1, NewTasksAreLate DEF GateIsFresh
<1>3. \A q \in Procs \ {p} : call'[q] = call[q]
    BY OthersKeep
<1>4. call'[p].gate # None =>
        /\ call'[p].gate <= tick'.task
        /\ \A t \in task' : t.open => t.serial > call'[p].gate
    BY <1>1, <1>2, GateSteps
<1> QED BY <1>2, <1>3, <1>4 DEF GateIsFresh

(* Time goes on when a shutdown asks, and only then; answers stay as they  *)
(* are, or go with the directory.                                          *)
LEMMA AnswerSteps ==
    ASSUME IInv, NEW p \in Procs, ProcStep(p)
    PROVE  /\ ack'.given \subseteq ack.given
           /\ \/ pc'[p] # "shWait" /\ tick'.time = tick.time
              \/ /\ pc'[p] = "shWait" /\ call'[p].stamp = tick.time + 1
                 /\ tick'.time = tick.time + 1
<1>0. pc \in [Procs -> Steps]
    BY CallOf
<1> USE <1>0 DEF IInv, TypeOK, TicksTyped, Go, Local, History
<1>1. CASE BeginCall(p)
  BY <1>1 DEF BeginCall, BeginCreate, Begin, NoCall, Files, BeginScale, BeginStart,
     BeginShutdown
<1>2. CASE Create(p)
  <2>1. CASE CreateUnlock(p)
    BY <2>1 DEF CreateUnlock, Return, End, Locals, LocalsOf, InCreate, CreateSteps, Backs
  <2>2. CASE CreateGivesUp(p)
    BY <2>2 DEF CreateGivesUp, Return, End, Files, Thrown
  <2>3. CASE CreateRead(p)
    BY <2>3 DEF CreateRead
  <2>4. CASE CreateWrite(p) \/ CreateSave(p)
    BY <2>4 DEF CreateWrite, CreateSave
  <2> QED BY <1>2, <2>1, <2>2, <2>3, <2>4 DEF Create
<1>3. CASE Scale(p)
  <2>1. CASE UpRead(p)
      BY <2>1 DEF UpRead
  <2>2. CASE UpSpawn(p) \/ UpTasks(p) \/ UpKill(p)
      BY <2>2 DEF UpSpawn, UpTasks, UpKill, Files
  <2>3. CASE DownRead(p)
      BY <2>3 DEF DownRead
  <2>4. CASE UpNotify(p)
      BY <2>4 DEF UpNotify
  <2>5. CASE ScaleGivesUp(p) \/ UpRestore(p) \/ DownKill(p) \/ DownSave(p) \/ ScaleUnlock(p)
      BY <2>5 DEF ScaleGivesUp, Files, End, UpRestore, DownKill, DownSave, ScaleUnlock
  <2> QED BY <1>3, <2>1, <2>2, <2>3, <2>4, <2>5 DEF Scale
<1>4. CASE Start(p)
  BY <1>4 DEF Start, StartCheck, CleanStale, End, RemoveDirectory, NoAcks, StartInit,
     StartTasksNext, Files,
     StartSpawn, StartSave, StartReady, StartRevert, StartKill
<1>5. CASE Shutdown(p)
  <2>1. CASE ShutdownAsk(p)
    <3>1. /\ call' = [call EXCEPT ![p] = [call[p] EXCEPT !.stamp = tick.time + 1]]
          /\ tick' = [tick EXCEPT !.time = @ + 1] /\ pc'[p] = "shWait"
          /\ ack' = [ack EXCEPT !.asked = @ \cup Indices(call[p].cfg.workers)]
        BY <2>1 DEF ShutdownAsk
    <3>2. call \in [Procs -> Call] /\ call[p] \in Call
        BY CallOf
    <3>3. [call[p] EXCEPT !.stamp = tick.time + 1].stamp = tick.time + 1
        BY <3>2 DEF Call
    <3> QED BY <3>1, <3>2, <3>3
  <2>2. CASE ShutdownRead(p) \/ ShutdownSave(p) \/ ShutdownKill(p)
      BY <2>2 DEF ShutdownRead, ShutdownSave, ShutdownKill
  <2>3. CASE ShutdownGate(p)
      BY <2>3 DEF ShutdownGate, HasBlockingBacklog, End, Files
  <2>4. CASE ShutdownWait(p)
      BY <2>4 DEF ShutdownWait, End, Files
  <2> QED BY <1>5, <2>1, <2>2, <2>3, <2>4 DEF Shutdown
<1>6. CASE Clean(p)
  BY <1>6 DEF Clean, RemoveDirectory, NoAcks
<1>7. CASE Crash(p)
  BY <1>7 DEF Crash, Files
<1> QED BY <1>1, <1>2, <1>3, <1>4, <1>5, <1>6, <1>7 DEF ProcStep

LEMMA AnswersKept ==
    ASSUME SInv, NEW p \in Procs, ProcStep(p)
    PROVE  AnswersMatch'
<1> USE DEF SInv
<1>1. /\ tick.time \in Nat
      /\ \A a \in ack.given : a.at \in Nat /\ a.at <= tick.time
      /\ \A q \in Procs : call[q].stamp \in Nat
    BY CallOf DEF IInv, TypeOK, TicksTyped, Ack, AnswersMatch, Call
<1>2. /\ \A q \in Procs \ {p} : pc'[q] = pc[q] /\ call'[q] = call[q]
      /\ ack'.given \subseteq ack.given
    BY OthersKeep, AnswerSteps
<1>3. CASE pc'[p] # "shWait" /\ tick'.time = tick.time
    BY <1>1, <1>2, <1>3 DEF AnswersMatch
<1>4. CASE pc'[p] = "shWait" /\ call'[p].stamp = tick.time + 1 /\ tick'.time = tick.time + 1
    BY <1>1, <1>2, <1>4 DEF AnswersMatch
<1> QED BY <1>3, <1>4, AnswerSteps

LEMMA ShutdownInvariance == Spec => []SInv
<1>1. Init => SInv
  <2> SUFFICES ASSUME Init PROVE GateIsFresh /\ AnswersMatch
      BY InitHolds DEF SInv
  <2> QED BY DEF Init, GateIsFresh, AnswersMatch, NoCall, NoAcks
<1>2. ASSUME SInv, NEW p \in Procs, ProcStep(p) PROVE SInv'
    BY <1>2, ProcKeeps, GateKept, AnswersKept DEF SInv
<1>3. ASSUME SInv, TaskDone PROVE SInv'
  <2>1. PICK t \in task : /\ task' = (task \ {t}) \cup {[t EXCEPT !.open = FALSE]}
                          /\ UNCHANGED <<ack, pc, call, tick>>
      BY <1>3 DEF TaskDone
  <2>2. ~[t EXCEPT !.open = FALSE].open
      BY DEF SInv, IInv, TypeOK, Task
  <2>3. GateIsFresh' /\ AnswersMatch'
      BY <1>3, <2>1, <2>2 DEF SInv, GateIsFresh, AnswersMatch
  <2> QED BY <1>3, <2>3, DoneKeeps DEF SInv
<1>4. ASSUME SInv, WorkerAck PROVE SInv'
  <2>1. PICK w \in panes, reject \in BOOLEAN :
           /\ ack' = [ack EXCEPT !.given =
                        {a \in ack.given : a.index # w.index} \cup
                        {[index |-> w.index, reject |-> reject,
                          at |-> tick.time, during |-> Stamps]}]
           /\ UNCHANGED <<task, pc, call, tick>>
      BY <1>4 DEF WorkerAck
  <2> DEFINE new == [index |-> w.index, reject |-> reject, at |-> tick.time, during |-> Stamps]
  <2>2. ack'.given = {a \in ack.given : a.index # w.index} \cup {new}
      BY <2>1 DEF SInv, IInv, TypeOK
  <2>3. new.at = tick.time /\ new.during = Stamps
      OBVIOUS
  <2>6. tick.time \in Nat
      BY <1>4 DEF SInv, IInv, TypeOK, TicksTyped
  <2>4. \A p \in Procs : pc[p] = "shWait" => call[p].stamp \in Stamps
      BY DEF Stamps
  <2> HIDE DEF new
  <2>5. GateIsFresh' /\ AnswersMatch'
      BY <1>4, <2>1, <2>2, <2>3, <2>4, <2>6 DEF SInv, GateIsFresh, AnswersMatch
  <2> QED BY <1>4, <2>5, AckKeeps DEF SInv
<1>5. ASSUME SInv, UNCHANGED vars PROVE SInv'
    BY <1>5, StutterKeeps DEF SInv, GateIsFresh, AnswersMatch, vars
<1>6. SInv /\ [Next]_vars => SInv'
    BY NextCases, <1>2, <1>3, <1>4, <1>5
<1> QED BY <1>1, <1>6, PTL DEF Spec

(* A shutdown that is neither forced nor let through with open tasks by    *)
(* its team's governance removes no unfinished task but those that were    *)
(* created behind its gate.                                                *)
THEOREM OpenTasksAreSpared == Spec => ShutdownSparesOpenTasks
<1>1. SInv /\ [Next]_vars =>
        [\A p \in Procs : /\ pc[p] = "clean" /\ pc'[p] = "idle"
                          /\ call[p].gate # None
                          => \A t \in task : t.open => t.serial > call[p].gate]_vars
    BY DEF SInv, GateIsFresh
<1> QED BY ShutdownInvariance, <1>1, PTL DEF Spec, ShutdownSparesOpenTasks

(* A rejection that ends a shutdown was given to that shutdown.            *)
THEOREM RejectionsAreTimely == Spec => RejectionsAreFresh
<1>1. ASSUME SInv, Next, NEW p \in Procs, pc[p] = "shWait", pc'[p] = "idle"
      PROVE  \E a \in ack.given : a.reject /\ call[p].stamp \in a.during
  <2>1. PICK q \in Procs : ProcStep(q)
      BY <1>1, NextCases DEF TaskDone, WorkerAck
  <2>2. q = p
      BY <1>1, <2>1, OthersKeep DEF SInv
  <2>3. Rejections(call[p]) # {}
    <3>1. ~Create(p) /\ ~Scale(p) /\ ~Start(p) /\ ~Clean(p) /\ ~BeginCall(p)
        BY <1>1 DEF Create, CreateGivesUp, CreateRead, CreateWrite, CreateSave, CreateUnlock,
           CreateSteps,
           Scale, ScaleGivesUp, UpRead, UpTasks, UpSpawn, UpNotify, UpKill,
           UpRestore, DownRead, DownKill, DownSave, ScaleUnlock, Start, StartCheck, CleanStale,
           StartInit,
           StartTasksNext, StartSpawn, StartSave, StartReady, StartRevert, StartKill, Clean,
           BeginCall, BeginCreate, Begin, BeginScale, BeginStart, BeginShutdown
    <3>2. pc \in [Procs -> Steps]
        BY <1>1 DEF SInv, IInv, TypeOK, CallsTyped
    <3>3. ~Crash(p)
        BY <1>1, <3>2 DEF Crash, Go
    <3>4. ShutdownWait(p)
        BY <1>1, <2>1, <2>2, <3>1, <3>3 DEF ProcStep, Shutdown, ShutdownRead, ShutdownGate,
           HasBlockingBacklog,
           ShutdownAsk, ShutdownSave, ShutdownKill
    <3> QED BY <1>1, <3>2, <3>4 DEF ShutdownWait, Go
  <2>4. PICK a \in ack.given : a.reject /\ a.at >= call[p].stamp
      BY <2>3 DEF Rejections
  <2> QED BY <1>1, <2>4 DEF SInv, AnswersMatch
<1>2. SInv /\ [Next]_vars =>
        [\A p \in Procs : /\ pc[p] = "shWait" /\ pc'[p] = "idle"
                          => \E a \in ack.given : /\ a.reject
                                                  /\ call[p].stamp \in a.during]_vars
    BY <1>1
<1> QED BY ShutdownInvariance, <1>2, PTL DEF Spec, RejectionsAreFresh

-----------------------------------------------------------------------------
(* The roster: who works on which copy                                     *)

(* scaleUp before it opens a pane, or after it has saved the last one.     *)
Growing(p) == \/ pc[p] \in {"upTasks", "upSpawn"}
              \/ InCreate(p) /\ call[p].back = "upTasks"

ScalesUp(p) == Growing(p) \/ pc[p] \in {"upNotify", "upKill", "upRestore"}

(* startTeam before it opens the panes, and until it saves them.           *)
Starting(p) == \/ pc[p] \in {"stTasks", "stSpawn"}
               \/ InCreate(p) /\ call[p].back = "stTasks"

Founding(p) == Starting(p) \/ pc[p] = "stSave"

Copied(p) == pc[p] \in {"downKill", "downSave", "stReady", "stRevert",
                        "shGate", "shAsk", "shWait", "shSave"}

Writing(p) == pc[p] \in {"ctWrite", "ctSave"}

HasCopy(p) == ScalesUp(p) \/ Founding(p) \/ Copied(p)

Bare(p) == ~HasCopy(p) /\ ~Writing(p)

(* What of a call the roster depends on.                                   *)
SameLocals(r, s) == r.cfg = s.cfg /\ r.added = s.added /\ r.first = s.first /\ r.out = s.out

LEMMA FieldsStay ==
    ASSUME NEW r \in Call
    PROVE  /\ \A b : SameLocals([r EXCEPT !.back = b], r) /\ [r EXCEPT !.back = b].back = b
           /\ \A c : SameLocals([r EXCEPT !.copy = c], r) /\ [r EXCEPT !.copy = c].back = r.back
           /\ \A c, d : /\ SameLocals([r EXCEPT !.copy = c, !.id = d], r)
                        /\ [r EXCEPT !.copy = c, !.id = d].copy = c
                        /\ [r EXCEPT !.copy = c, !.id = d].back = r.back
           /\ \A m, c : /\ SameLocals([r EXCEPT !.made = m, !.copy = c], r)
                        /\ [r EXCEPT !.made = m, !.copy = c].copy = c
                        /\ [r EXCEPT !.made = m, !.copy = c].back = r.back
           /\ \A k, b : /\ SameLocals([r EXCEPT !.left = k, !.back = b], r)
                        /\ [r EXCEPT !.left = k, !.back = b].back = b
           /\ \A g : SameLocals([r EXCEPT !.gate = g], r)
           /\ \A t : SameLocals([r EXCEPT !.stamp = t], r)
BY DEF Call, SameLocals

LEMMA ConfigFields ==
    ASSUME NEW r \in Call
    PROVE  /\ \A c : [r EXCEPT !.cfg = c].cfg = c
           /\ \A c, k : /\ [r EXCEPT !.cfg = c, !.left = k].cfg = c
                        /\ [r EXCEPT !.cfg = c, !.left = k].added = r.added
                        /\ [r EXCEPT !.cfg = c, !.left = k].first = r.first
           /\ \A c, k, f : /\ [r EXCEPT !.cfg = c, !.left = k, !.first = f].cfg = c
                           /\ [r EXCEPT !.cfg = c, !.left = k, !.first = f].added = r.added
                           /\ [r EXCEPT !.cfg = c, !.left = k, !.first = f].first = f
           /\ \A c, o : /\ [r EXCEPT !.cfg = c, !.out = o].cfg = c
                        /\ [r EXCEPT !.cfg = c, !.out = o].out = o
           /\ \A c, a : /\ [r EXCEPT !.cfg = c, !.added = a].cfg = c
                        /\ [r EXCEPT !.cfg = c, !.added = a].added = a
           /\ \A a : /\ [r EXCEPT !.added = a].added = a
                     /\ [r EXCEPT !.added = a].cfg = r.cfg
                     /\ [r EXCEPT !.added = a].first = r.first
BY DEF Call

(* One lemma for each kind of step: what it leaves of the call.            *)
LEMMA PcOf ==
    ASSUME IInv, NEW p \in Procs, NEW step, Go(p, step)
    PROVE  pc'[p] = step
BY CallOf DEF Go

LEMMA LocalOf ==
    ASSUME IInv, NEW p \in Procs, NEW r, Local(p, r)
    PROVE  call'[p] = r
BY CallOf DEF Local

Resumed(p) == pc'[p] = call[p].back /\ SameLocals(call'[p], call[p])

LEMMA CreateSteps_Own ==
    ASSUME IInv, NEW p \in Procs, Create(p)
    PROVE  \/ Bare(p)'
           \/ /\ pc[p] = "ctLock" /\ pc'[p] = "ctWrite" /\ Current # None
              /\ call'[p].copy = Current /\ call'[p].back = call[p].back
              /\ SameLocals(call'[p], call[p])
           \/ /\ CreateWrite(p) /\ pc'[p] = "ctSave"
              /\ call'[p].copy = Advanced(call[p].copy, call[p].id)
              /\ call'[p].back = call[p].back /\ SameLocals(call'[p], call[p])
           \/ CreateSave(p) /\ pc'[p] = "ctUnlock" /\ call'[p] = call[p]
           \/ /\ CreateUnlock(p) /\ call[p].back \in {"upTasks", "stTasks"}
              /\ pc'[p] = call[p].back /\ SameLocals(call'[p], call[p])
<1>0. /\ call \in [Procs -> Call] /\ pc \in [Procs -> Steps]
      /\ call[p] \in Call /\ LocalsOf(p)
    BY CallOf DEF IInv, Locals
<1> USE DEF Bare, HasCopy, ScalesUp, Growing, Founding, Starting, Copied, Writing, InCreate,
            CreateSteps
<1>1. CASE CreateGivesUp(p)
  <2>1. Thrown(call[p].back) \in {"scUnlock", "clean", "idle"}
      BY DEF Thrown
  <2>2. pc'[p] \in {"scUnlock", "clean", "idle"}
      BY <1>0, <1>1, <2>1 DEF CreateGivesUp, Return, End, Go
  <2> QED BY <2>2
<1>2. CASE CreateRead(p)
  <2>1. CASE Current = None
    <3>1. pc'[p] = "ctUnlock"
        BY <1>2, <2>1, PcOf DEF CreateRead
    <3>2. call'[p].back \in Backs \ {"upTasks", "stTasks"}
        BY <1>2, <3>1, ReadThrows
    <3> QED BY <3>1, <3>2
  <2>2. CASE Current # None
    <3>1. PICK d : /\ Local(p, [call[p] EXCEPT !.copy = Current, !.id = d])
                   /\ Go(p, "ctWrite")
        BY <1>2, <2>2 DEF CreateRead
    <3> DEFINE r == [call[p] EXCEPT !.copy = Current, !.id = d]
    <3>2. pc[p] = "ctLock" /\ pc'[p] = "ctWrite"
        BY <1>2, <3>1, PcOf DEF CreateRead
    <3>3. r.copy = Current /\ r.back = call[p].back /\ SameLocals(r, call[p])
        BY <1>0, SMTT(30) DEF Call, SameLocals
    <3>4. Local(p, r)
        BY <3>1
    <3> HIDE DEF r
    <3>5. call'[p] = r
        BY <3>4, LocalOf
    <3> QED BY <2>2, <3>2, <3>3, <3>5
  <2> QED BY <2>1, <2>2
<1>3. CASE CreateWrite(p)
  <2> DEFINE m == call[p].made \cup {call[p].id}
             c == Advanced(call[p].copy, call[p].id)
             r == [call[p] EXCEPT !.made = m, !.copy = c]
  <2>1. Local(p, r)
      BY <1>0, <1>3 DEF CreateWrite, Call
  <2>2. pc'[p] = "ctSave"
      BY <1>3, PcOf DEF CreateWrite
  <2> HIDE DEF m, c
  <2>3. r.copy = c /\ r.back = call[p].back /\ SameLocals(r, call[p])
      BY <1>0, SMTT(30) DEF Call, SameLocals
  <2> HIDE DEF r
  <2>4. call'[p] = r
      BY <2>1, LocalOf
  <2> QED BY <1>3, <2>2, <2>3, <2>4 DEF c
<1>4. CASE CreateSave(p)
    BY <1>4, PcOf DEF CreateSave
<1>5. CASE CreateUnlock(p)
  <2>1. Return(p, call[p].back)
      BY <1>5 DEF CreateUnlock
  <2>2. call[p].back \in Backs
      BY <1>0, <1>5 DEF CreateUnlock, LocalsOf
  <2>3. CASE call[p].back \in {"upTasks", "stTasks"}
    <3>1. Go(p, call[p].back) /\ Local(p, [call[p] EXCEPT !.copy = None])
        BY <2>1, <2>3 DEF Return
    <3> DEFINE r == [call[p] EXCEPT !.copy = None]
    <3>2. r.back = call[p].back /\ SameLocals(r, call[p])
        BY <1>0, FieldsStay
    <3> HIDE DEF r
    <3>3. call'[p] = r /\ pc'[p] = call[p].back
        BY <3>1, LocalOf, PcOf DEF r
    <3> QED BY <1>5, <2>3, <3>2, <3>3
  <2>4. CASE call[p].back \notin {"upTasks", "stTasks"}
    <3>1. pc'[p] \in {"idle", "scUnlock", "clean"}
        BY <2>1, <2>2, <2>4, PcOf DEF Return, End, Backs
    <3> QED BY <3>1
  <2> QED BY <2>3, <2>4
<1> QED BY <1>1, <1>2, <1>3, <1>4, <1>5 DEF Create

(* Steps at which a call works on no copy.                                 *)
LEMMA IdleIsBare ==
    ASSUME NEW p \in Procs,
           pc'[p] \in {"idle", "dead", "scUnlock", "clean", "stCheck", "stInit", "stKill",
                       "shRead", "shKill", "upLock", "downLock"}
    PROVE  Bare(p)'
BY DEF Bare, HasCopy, ScalesUp, Growing, Founding, Starting, Copied, Writing, InCreate,
       CreateSteps

(* The panes that scaleUp and startTeam open.                              *)
NewWorker(p) == [index |-> call[p].cfg.nextIndex, pane |-> tick.pane + 1]
NewWorkers == {[index |-> i, pane |-> tick.pane + i] : i \in 1 .. StartWorkers}

(* The same for scaleUp and scaleDown,                                     *)
LEMMA ScaleSteps_Own ==
    ASSUME IInv, NEW p \in Procs, Scale(p)
    PROVE  \/ /\ Bare(p)' /\ pc'[p] \in {"idle", "scUnlock"}
           \/ /\ UpRead(p) /\ pc'[p] = "upTasks" /\ Current # None
              /\ call'[p].cfg = Current /\ call'[p].added = call[p].added
              /\ call'[p].first = Current.nextIndex
           \/ /\ UpTasks(p) /\ pc'[p] \in {"ctLock", "upSpawn"}
              /\ pc'[p] = "ctLock" => call'[p].back = "upTasks"
              /\ SameLocals(call'[p], call[p])
           \/ UpSpawn(p) /\ pc'[p] = "upKill" /\ call'[p] = call[p] /\ UNCHANGED <<panes, tick>>
           \/ /\ UpSpawn(p) /\ pc'[p] = "upNotify"
              /\ panes' = panes \cup {NewWorker(p)}
              /\ tick' = [tick EXCEPT !.pane = @ + 1]
              /\ call'[p].cfg = call[p].cfg /\ call'[p].first = call[p].first
              /\ call'[p].added = call[p].added \cup {NewWorker(p)}
           \/ UpNotify(p) /\ pc'[p] = "upKill" /\ call'[p] = call[p] /\ UNCHANGED <<manifest, json, History>>
           \/ /\ UpNotify(p) /\ pc'[p] \in {"upSpawn", "scUnlock"}
              /\ Save(p, Joined(call[p].cfg, call[p].added))
              /\ call'[p].cfg = Joined(call[p].cfg, call[p].added)
              /\ call'[p].first = call[p].first /\ call'[p].added = call[p].added
           \/ UpKill(p) /\ pc'[p] = "upRestore" /\ call'[p] = call[p]
           \/ /\ DownRead(p) /\ pc'[p] = "downKill" /\ Current # None
              /\ call'[p].cfg = Current /\ call'[p].out \subseteq Current.workers
           \/ DownKill(p) /\ pc'[p] = "downSave" /\ call'[p] = call[p]
<1>0. /\ call \in [Procs -> Call] /\ pc \in [Procs -> Steps] /\ call[p] \in Call
    BY CallOf
<1>1. CASE \/ ScaleGivesUp(p) \/ ScaleUnlock(p) \/ UpRestore(p) \/ DownSave(p)
    <2>1. pc'[p] \in {"idle", "scUnlock"}
        BY <1>1, PcOf DEF ScaleGivesUp, ScaleUnlock, UpRestore, DownSave, End
    <2> QED BY <2>1, IdleIsBare
<1>2. CASE UpRead(p)
  <2>1. CASE pc'[p] = "upTasks"
    <3>1. PICK n \in 1 .. 2 :
             /\ Current # None
             /\ Local(p, [call[p] EXCEPT !.cfg = Current, !.left = n, !.first = Current.nextIndex])
        BY <1>0, <1>2, <2>1 DEF UpRead, Go
    <3> DEFINE r == [call[p] EXCEPT !.cfg = Current, !.left = n, !.first = Current.nextIndex]
    <3>2. r.cfg = Current /\ r.added = call[p].added /\ r.first = Current.nextIndex
        BY <1>0, SMTT(30) DEF Call
    <3>3. Local(p, r)
        BY <3>1
    <3> HIDE DEF r
    <3>4. call'[p] = r
        BY <3>3, LocalOf
    <3> QED BY <1>2, <2>1, <3>1, <3>2, <3>4
  <2>2. CASE pc'[p] # "upTasks"
    <3>1. pc'[p] = "scUnlock"
        BY <1>0, <1>2, <2>2 DEF UpRead, Go
    <3> QED BY <3>1, IdleIsBare
  <2> QED BY <2>1, <2>2
<1>3. CASE UpTasks(p)
  <2>1. CASE Go(p, "upSpawn") /\ UNCHANGED call
      BY <1>3, <2>1, PcOf DEF SameLocals
  <2>2. CASE Local(p, [call[p] EXCEPT !.back = "upTasks"]) /\ Go(p, "ctLock")
    <3> DEFINE r == [call[p] EXCEPT !.back = "upTasks"]
    <3>1. r.back = "upTasks" /\ SameLocals(r, call[p])
        BY <1>0, FieldsStay
    <3> HIDE DEF r
    <3>2. call'[p] = r /\ pc'[p] = "ctLock"
        BY <2>2, LocalOf, PcOf DEF r
    <3> QED BY <1>3, <3>1, <3>2
  <2> QED BY <1>3, <2>1, <2>2 DEF UpTasks
<1>4. CASE UpSpawn(p)
  <2>1. CASE Go(p, "upKill") /\ UNCHANGED <<panes, tick, call>>
      BY <1>4, <2>1, PcOf
  <2>3. CASE Go(p, "scUnlock")
    <3>1. pc'[p] = "scUnlock"
        BY <2>3, PcOf
    <3> QED BY <3>1, IdleIsBare
  <2>2. CASE /\ ~(Go(p, "upKill") /\ UNCHANGED <<panes, tick, call>>)
             /\ ~Go(p, "scUnlock")
    <3>1. /\ panes' = panes \cup {NewWorker(p)}
          /\ tick' = [tick EXCEPT !.pane = @ + 1]
          /\ Local(p, [call[p] EXCEPT !.added = @ \cup {NewWorker(p)}])
          /\ Go(p, "upNotify")
        BY <1>4, <2>2 DEF UpSpawn, NewWorker
    <3> DEFINE a == call[p].added \cup {NewWorker(p)}
               r == [call[p] EXCEPT !.added = a]
    <3>2. Local(p, r)
        BY <1>0, <3>1 DEF Call
    <3> HIDE DEF a
    <3>3. r.added = a /\ r.cfg = call[p].cfg /\ r.first = call[p].first
        BY <1>0, ConfigFields
    <3> HIDE DEF r
    <3>4. call'[p] = r /\ pc'[p] = "upNotify"
        BY <3>1, <3>2, LocalOf, PcOf
    <3> QED BY <1>4, <3>1, <3>3, <3>4 DEF a
  <2> QED BY <2>1, <2>2, <2>3
<1>5. CASE UpNotify(p)
  <2>1. CASE Go(p, "upKill") /\ UNCHANGED <<manifest, json, call, History>>
      BY <1>5, <2>1, PcOf
  <2>3. CASE Go(p, "scUnlock") /\ UNCHANGED call
    <3>1. pc'[p] = "scUnlock"
        BY <2>3, PcOf
    <3> QED BY <3>1, IdleIsBare
  <2>2. CASE /\ ~(Go(p, "upKill") /\ UNCHANGED <<manifest, json, call, History>>)
             /\ ~(Go(p, "scUnlock") /\ UNCHANGED call)
    <3> DEFINE c == Joined(call[p].cfg, call[p].added)
               k == call[p].left - 1
               r == [call[p] EXCEPT !.cfg = c, !.left = k]
    <3>1. /\ Save(p, c) /\ Local(p, r)
          /\ Go(p, IF call[p].left = 1 THEN "scUnlock" ELSE "upSpawn")
        BY <1>0, <1>5, <2>2 DEF UpNotify, Call
    <3>2. pc'[p] \in {"upSpawn", "scUnlock"}
        BY <3>1, PcOf
    <3> HIDE DEF c, k
    <3>3. r.cfg = c /\ r.added = call[p].added /\ r.first = call[p].first
        BY <1>0, SMTT(30) DEF Call
    <3> HIDE DEF r
    <3>4. call'[p] = r
        BY <3>1, LocalOf
    <3> QED BY <1>5, <3>1, <3>2, <3>3, <3>4 DEF c
  <2> QED BY <2>1, <2>2, <2>3
<1>6. CASE UpKill(p)
    BY <1>6, PcOf DEF UpKill
<1>7. CASE DownRead(p)
  <2>1. CASE pc'[p] = "downKill"
    <3>1. PICK out \in SUBSET Current.workers :
             /\ Current # None
             /\ Local(p, [call[p] EXCEPT !.cfg = Current, !.out = out])
        BY <1>0, <1>7, <2>1 DEF DownRead, Go
    <3> DEFINE r == [call[p] EXCEPT !.cfg = Current, !.out = out]
    <3>2. r.cfg = Current /\ r.out = out
        BY <1>0, SMTT(30) DEF Call
    <3>3. Local(p, r)
        BY <3>1
    <3> HIDE DEF r
    <3>4. call'[p] = r
        BY <3>3, LocalOf
    <3> QED BY <1>7, <2>1, <3>1, <3>2, <3>4
  <2>2. CASE pc'[p] # "downKill"
    <3>1. pc'[p] = "scUnlock"
        BY <1>0, <1>7, <2>2 DEF DownRead, Go
    <3> QED BY <3>1, IdleIsBare
  <2> QED BY <2>1, <2>2
<1>8. CASE DownKill(p)
  <2>1. pc'[p] \in {"downSave", "scUnlock"} /\ call'[p] = call[p]
      BY <1>8, PcOf DEF DownKill
  <2> QED BY <1>8, <2>1, IdleIsBare
<1> QED BY <1>1, <1>2, <1>3, <1>4, <1>5, <1>6, <1>7, <1>8 DEF Scale

(* for startTeam                                                           *)
LEMMA StartSteps_Own ==
    ASSUME IInv, NEW p \in Procs, Start(p)
    PROVE  \/ Bare(p)' /\ pc'[p] \in {"idle", "stInit", "stKill", "clean"}
           \/ StartInit(p) /\ pc'[p] = "stTasks" /\ call'[p].cfg = NewTeam
           \/ /\ StartTasksNext(p) /\ pc'[p] \in {"ctLock", "stSpawn"}
              /\ pc'[p] = "ctLock" => call'[p].back = "stTasks"
              /\ SameLocals(call'[p], call[p])
           \/ /\ StartSpawn(p) /\ pc'[p] = "stSave"
              /\ panes' = panes \cup NewWorkers
              /\ tick' = [tick EXCEPT !.pane = @ + StartWorkers]
              /\ call'[p].cfg = [call[p].cfg EXCEPT !.workers = NewWorkers]
              /\ call'[p].added = NewWorkers
           \/ StartSave(p) /\ pc'[p] \in {"stReady", "stRevert"} /\ call'[p] = call[p]
<1>0. /\ call \in [Procs -> Call] /\ pc \in [Procs -> Steps] /\ call[p] \in Call
    BY CallOf
<1>1. CASE StartCheck(p) \/ StartReady(p) \/ StartRevert(p) \/ StartKill(p)
    <2>1. pc'[p] \in {"idle", "stInit", "stKill", "clean"}
        BY <1>1, PcOf DEF StartCheck, CleanStale, StartReady, StartRevert, StartKill, End
    <2> QED BY <2>1, IdleIsBare
<1>2. CASE StartInit(p)
    BY <1>2, StartInits, PcOf DEF StartInit
<1>3. CASE StartTasksNext(p)
  <2>1. CASE call[p].left > 0
    <3> DEFINE k == call[p].left - 1
               r == [call[p] EXCEPT !.left = k, !.back = "stTasks"]
    <3>1. Local(p, r) /\ Go(p, "ctLock")
        BY <1>0, <1>3, <2>1 DEF StartTasksNext, Call
    <3> HIDE DEF k
    <3>2. r.back = "stTasks" /\ SameLocals(r, call[p])
        BY <1>0, SMTT(30) DEF Call, SameLocals
    <3> HIDE DEF r
    <3>3. call'[p] = r /\ pc'[p] = "ctLock"
        BY <3>1, LocalOf, PcOf
    <3> QED BY <1>3, <3>2, <3>3
  <2>2. CASE ~(call[p].left > 0)
      BY <1>3, <2>2, PcOf DEF StartTasksNext, SameLocals
  <2> QED BY <2>1, <2>2
<1>4. CASE StartSpawn(p)
  <2>1. CASE Go(p, "clean")
    <3>1. pc'[p] = "clean"
        BY <2>1, PcOf
    <3> QED BY <3>1, IdleIsBare
  <2>2. CASE ~Go(p, "clean")
    <3> DEFINE c == [call[p].cfg EXCEPT !.workers = NewWorkers]
               r == [call[p] EXCEPT !.cfg = c, !.added = NewWorkers]
    <3>1. /\ panes' = panes \cup NewWorkers
          /\ tick' = [tick EXCEPT !.pane = @ + StartWorkers]
          /\ Local(p, [call[p] EXCEPT !.cfg = [@ EXCEPT !.workers = NewWorkers],
                                      !.added = NewWorkers])
          /\ Go(p, "stSave")
        BY <1>4, <2>2 DEF StartSpawn, NewWorkers
    <3>2. Local(p, r)
        BY <1>0, <3>1 DEF Call
    <3> HIDE DEF c
    <3>3. r.cfg = c /\ r.added = NewWorkers
        BY <1>0, SMTT(30) DEF Call
    <3> HIDE DEF r
    <3>4. call'[p] = r /\ pc'[p] = "stSave"
        BY <3>1, <3>2, LocalOf, PcOf
    <3> QED BY <1>4, <3>1, <3>3, <3>4 DEF c
  <2> QED BY <2>1, <2>2
<1>5. CASE StartSave(p)
    BY <1>5, PcOf DEF StartSave
<1> QED BY <1>1, <1>2, <1>3, <1>4, <1>5 DEF Start

(* and for shutdownTeam.                                                   *)
LEMMA ShutdownSteps_Own ==
    ASSUME IInv, NEW p \in Procs, Shutdown(p)
    PROVE  \/ Bare(p)' /\ pc'[p] \in {"idle", "shKill", "clean"}
           \/ /\ ShutdownRead(p) /\ pc'[p] \in {"shGate", "shAsk"} /\ Current # None
              /\ call'[p].cfg = Current
           \/ /\ ShutdownGate(p) \/ ShutdownAsk(p) \/ ShutdownWait(p)
              /\ pc'[p] \in {"shAsk", "shWait", "shSave"} /\ SameLocals(call'[p], call[p])
<1>0. /\ call \in [Procs -> Call] /\ pc \in [Procs -> Steps] /\ call[p] \in Call
    BY CallOf
<1>1. CASE ShutdownSave(p) \/ ShutdownKill(p)
    <2>1. pc'[p] \in {"idle", "shKill", "clean"}
        BY <1>1, PcOf DEF ShutdownSave, ShutdownKill
    <2> QED BY <2>1, IdleIsBare
<1>2. CASE ShutdownRead(p)
  <2>1. CASE Current = None
    <3>1. pc'[p] = "clean"
        BY <1>2, <2>1, PcOf DEF ShutdownRead
    <3> QED BY <3>1, IdleIsBare
  <2>2. CASE Current # None
    <3>1. pc'[p] \in {"shGate", "shAsk"}
        BY <1>2, <2>2, PcOf DEF ShutdownRead
    <3>2. call'[p] = [call[p] EXCEPT !.cfg = Current]
        BY <1>2, LocalOf DEF ShutdownRead
    <3>3. call'[p].cfg = Current
        BY <1>0, <3>2 DEF Call
    <3> QED BY <1>2, <2>2, <3>1, <3>3
  <2> QED BY <2>1, <2>2
<1>3. CASE ShutdownGate(p)
  <2>1. CASE \E t \in task : t.open
    <3>1. CASE pc'[p] = "idle"
        BY <3>1, IdleIsBare
    <3>2. CASE pc'[p] # "idle"
      <4>1. pc'[p] = "shAsk" /\ UNCHANGED call
          BY <1>3, <2>1, <3>2, PcOf DEF ShutdownGate, HasBlockingBacklog, End
      <4> QED BY <1>3, <4>1 DEF SameLocals
    <3> QED BY <3>1, <3>2
  <2>2. CASE ~\E t \in task : t.open
    <3> DEFINE r == [call[p] EXCEPT !.gate = tick.task]
    <3>1. Local(p, r) /\ (Go(p, "shAsk") \/ Go(p, "shSave"))
        BY <1>3, <2>2 DEF ShutdownGate, HasBlockingBacklog
    <3>2. SameLocals(r, call[p])
        BY <1>0, FieldsStay
    <3> HIDE DEF r
    <3>3. call'[p] = r /\ pc'[p] \in {"shAsk", "shSave"}
        BY <3>1, LocalOf, PcOf
    <3> QED BY <1>3, <3>2, <3>3
  <2> QED BY <2>1, <2>2
<1>4. CASE ShutdownAsk(p)
  <2> DEFINE r == [call[p] EXCEPT !.stamp = tick.time + 1]
  <2>1. Local(p, r) /\ Go(p, "shWait")
      BY <1>4 DEF ShutdownAsk
  <2>2. SameLocals(r, call[p])
      BY <1>0, FieldsStay
  <2> HIDE DEF r
  <2>3. call'[p] = r /\ pc'[p] = "shWait"
      BY <2>1, LocalOf, PcOf
  <2> QED BY <1>4, <2>2, <2>3
<1>5. CASE ShutdownWait(p)
  <2>1. CASE Go(p, "shSave") /\ UNCHANGED <<call, History>>
      BY <1>5, <2>1, PcOf DEF SameLocals
  <2>2. CASE End(p)
    <3>1. pc'[p] = "idle"
        BY <2>2, PcOf DEF End
    <3> QED BY <3>1, IdleIsBare
  <2> QED BY <1>5, <2>1, <2>2 DEF ShutdownWait
<1> QED BY <1>1, <1>2, <1>3, <1>4, <1>5 DEF Shutdown

-----------------------------------------------------------------------------
(* The roster: numbers and panes                                           *)

(* Workers have indices below the counter, above those a team starts with, *)
(* and panes that were drawn already.                                      *)
GoodAt(c, n) == /\ c.nextIndex > StartWorkers
                /\ \A w \in c.workers : w.index < c.nextIndex /\ w.pane <= n

Founders == NewTeam.workers

(* What a call knows of its copy, of the workers it has added and of those *)
(* it takes away.                                                          *)
ScaleShape(p) ==
    /\ ScalesUp(p) => /\ StartWorkers < call[p].first
                      /\ call[p].first <= call[p].cfg.nextIndex
                      /\ \A w \in call[p].cfg.workers \ call[p].added : w.index < call[p].first
                      /\ \A w \in call[p].added : w.pane <= tick.pane
    /\ Growing(p) => /\ call[p].added \subseteq call[p].cfg.workers
                     /\ pc[p] # "upSpawn" => call[p].added = {}
    /\ pc[p] = "upLock" => call[p].added = {}
    /\ pc[p] \in {"upNotify", "upKill"} =>
          \A w \in call[p].added : w.index <= call[p].cfg.nextIndex
    /\ pc[p] \in {"downKill", "downSave"} => \A w \in call[p].out : w.pane <= tick.pane

GoneShape(p) == /\ pc[p] = "downSave" => call[p].out \cap panes = {}
                /\ pc[p] = "upRestore" => call[p].added \cap panes = {}

StartShape(p) ==
    /\ Starting(p) => call[p].cfg.workers = Founders
    /\ pc[p] = "stSave" => /\ call[p].cfg.workers = call[p].added
                           /\ \A w \in call[p].added : w.index \in 1 .. StartWorkers

CopyShape(p) == /\ HasCopy(p) => GoodAt(call[p].cfg, tick.pane)
                /\ Writing(p) => GoodAt(call[p].copy, tick.pane)

ShapeOf(p) == ScaleShape(p) /\ GoneShape(p) /\ StartShape(p) /\ CopyShape(p)

PanesDrawn == \A w \in panes : 1 <= w.pane /\ w.pane <= tick.pane

ShapeInv == /\ Current # None => GoodAt(Current, tick.pane)
            /\ PanesDrawn
            /\ \A p \in Procs : ShapeOf(p)

LEMMA CopyTyped ==
    ASSUME IInv, NEW p \in Procs
    PROVE  /\ HasCopy(p) => call[p].cfg \in Config
           /\ Writing(p) => call[p].copy \in Config
           /\ call[p].added \subseteq Worker /\ call[p].out \subseteq Worker
           /\ call[p].first \in Nat
           /\ Current \in Config \cup {None}
           /\ tick.pane \in Nat
<1>1. LocalsOf(p) /\ call[p] \in Call /\ ConfigsTyped /\ TicksTyped
    BY CallOf DEF IInv, Locals, TypeOK
<1>2. HasCopy(p) => NeedsConfig(p)
    BY DEF HasCopy, ScalesUp, Growing, Founding, Starting, Copied, NeedsConfig, ConfigSteps
<1>3. Writing(p) => call[p].copy \in Config
    BY <1>1 DEF Writing, LocalsOf
<1>4. HasCopy(p) => call[p].cfg \in Config
    BY <1>1, <1>2 DEF LocalsOf
<1> QED BY <1>1, <1>3, <1>4 DEF Call, ConfigsTyped, Current, TicksTyped

(* What the operations on configurations make of a good one.               *)
LEMMA GoodLasts ==
    ASSUME NEW c \in Config, NEW n \in Nat, NEW m \in Nat, n <= m, GoodAt(c, n)
    PROVE  GoodAt(c, m)
BY DEF GoodAt, Config, Worker

LEMMA GoodNew ==
    ASSUME NEW n \in Nat
    PROVE  /\ NewTeam \in Config /\ GoodAt(NewTeam, n)
           /\ NewTeam.nextIndex = StartWorkers + 1
           /\ \A w \in Founders : w.pane = 0 /\ w.index \in 1 .. StartWorkers
BY RosterAssumption DEF NewTeam, Founders, GoodAt, Config, Worker

LEMMA GoodAdvanced ==
    ASSUME NEW c \in Config, NEW n \in Nat, GoodAt(c, n), NEW i \in Nat
    PROVE  /\ Advanced(c, i) \in Config /\ GoodAt(Advanced(c, i), n)
           /\ Advanced(c, i).workers = c.workers
BY DEF Advanced, GoodAt, Config

LEMMA GoodJoined ==
    ASSUME NEW c \in Config, NEW n \in Nat, GoodAt(c, n), NEW a \in SUBSET Worker,
           \A w \in a : w.index <= c.nextIndex /\ w.pane <= n
    PROVE  /\ Joined(c, a) \in Config /\ GoodAt(Joined(c, a), n)
           /\ Joined(c, a).workers = c.workers \cup a
           /\ Joined(c, a).nextIndex = c.nextIndex + 1
BY RosterAssumption DEF Joined, GoodAt, Config, Worker

LEMMA GoodRolledBack ==
    ASSUME NEW c \in Config, NEW n \in Nat, GoodAt(c, n), NEW r \in Call,
           StartWorkers < r.first, \A w \in c.workers \ r.added : w.index < r.first
    PROVE  /\ RolledBack(c, r) \in Config /\ GoodAt(RolledBack(c, r), n)
           /\ RolledBack(c, r).workers = c.workers \ r.added
BY RosterAssumption DEF RolledBack, GoodAt, Config, Worker, Call

LEMMA GoodShrunk ==
    ASSUME NEW c \in Config, NEW n \in Nat, GoodAt(c, n), NEW a
    PROVE  LET d == [c EXCEPT !.workers = @ \ a]
           IN  d \in Config /\ GoodAt(d, n) /\ d.workers = c.workers \ a
BY DEF GoodAt, Config

LEMMA GoodFounded ==
    ASSUME NEW c \in Config, NEW n \in Nat, GoodAt(c, n)
    PROVE  LET team == {[index |-> i, pane |-> n + i] : i \in 1 .. StartWorkers}
               d == [c EXCEPT !.workers = team]
           IN  d \in Config /\ GoodAt(d, n + StartWorkers) /\ d.workers = team
<1> DEFINE team == {[index |-> i, pane |-> n + i] : i \in 1 .. StartWorkers}
           d == [c EXCEPT !.workers = team]
<1>1. /\ team \subseteq Worker
      /\ \A w \in team : w.index <= StartWorkers /\ w.pane <= n + StartWorkers
    BY RosterAssumption DEF Worker
<1> HIDE DEF team
<1>2. d \in Config /\ d.workers = team /\ d.nextIndex = c.nextIndex
    BY <1>1 DEF Config
<1>3. c.nextIndex \in Nat /\ StartWorkers \in Nat /\ \A w \in team : w.index \in Nat
    BY <1>1, RosterAssumption DEF Config, Worker
<1> HIDE DEF d
<1>4. GoodAt(d, n + StartWorkers)
    BY <1>1, <1>2, <1>3 DEF GoodAt
<1> QED BY <1>2, <1>4 DEF d, team

(* What a call writes to the configuration, at the steps that save it.     *)
SaveSteps == {"ctSave", "upNotify", "upRestore", "downSave", "stSave", "stReady",
              "stRevert", "shSave"}

SavedBy(p) == CASE pc[p] = "ctSave" -> call[p].copy
                [] pc[p] = "upNotify" -> Joined(call[p].cfg, call[p].added)
                [] pc[p] = "upRestore" -> RolledBack(call[p].cfg, call[p])
                [] pc[p] = "downSave" -> [call[p].cfg EXCEPT !.workers = @ \ call[p].out]
                [] OTHER -> call[p].cfg

LEMMA SavedIsGood ==
    ASSUME IInv, ShapeInv, NEW p \in Procs, pc[p] \in SaveSteps
    PROVE  /\ SavedBy(p) \in Config /\ GoodAt(SavedBy(p), tick.pane)
           /\ pc[p] = "ctSave" => SavedBy(p).workers = call[p].copy.workers
           /\ pc[p] = "upNotify" => SavedBy(p).workers = call[p].cfg.workers \cup call[p].added
           /\ pc[p] = "upRestore" => SavedBy(p).workers = call[p].cfg.workers \ call[p].added
           /\ pc[p] = "downSave" => SavedBy(p).workers = call[p].cfg.workers \ call[p].out
           /\ pc[p] \in {"stSave", "stReady", "stRevert", "shSave"} => SavedBy(p) = call[p].cfg
<1>0. /\ CopyShape(p) /\ ScaleShape(p) /\ call[p] \in Call /\ tick.pane \in Nat
      /\ HasCopy(p) => call[p].cfg \in Config
      /\ Writing(p) => call[p].copy \in Config
      /\ call[p].added \subseteq Worker
    BY CallOf, CopyTyped DEF ShapeInv, ShapeOf
<1>1. CASE pc[p] = "ctSave"
    BY <1>0, <1>1 DEF SavedBy, CopyShape, Writing
<1>2. CASE pc[p] = "upNotify"
  <2>1. HasCopy(p) /\ ScalesUp(p)
      BY <1>2 DEF HasCopy, ScalesUp
  <2>2. \A w \in call[p].added : w.index <= call[p].cfg.nextIndex /\ w.pane <= tick.pane
      BY <1>0, <1>2, <2>1 DEF ScaleShape
  <2> QED BY <1>0, <1>2, <2>1, <2>2, GoodJoined DEF SavedBy, CopyShape
<1>3. CASE pc[p] = "upRestore"
  <2>1. HasCopy(p) /\ ScalesUp(p)
      BY <1>3 DEF HasCopy, ScalesUp
  <2>2. StartWorkers < call[p].first /\ \A w \in call[p].cfg.workers \ call[p].added : w.index < call[p].first
      BY <1>0, <2>1 DEF ScaleShape
  <2> QED BY <1>0, <1>3, <2>1, <2>2, GoodRolledBack DEF SavedBy, CopyShape
<1>4. CASE pc[p] = "downSave"
  <2>1. HasCopy(p)
      BY <1>4 DEF HasCopy, Copied
  <2> QED BY <1>0, <1>4, <2>1, GoodShrunk DEF SavedBy, CopyShape
<1>5. CASE pc[p] \in {"stSave", "stReady", "stRevert", "shSave"}
  <2>1. HasCopy(p)
      BY <1>5 DEF HasCopy, Copied, Founding
  <2> QED BY <1>0, <1>5, <2>1 DEF SavedBy, CopyShape
<1> QED BY <1>1, <1>2, <1>3, <1>4, <1>5 DEF SaveSteps

-----------------------------------------------------------------------------
(* The roster: what a step does to the files                               *)

LEMMA ReadKeeps == ReadConfig => Current' = Current
BY DEF ReadConfig, Current

LEMMA SaveSets ==
    ASSUME NEW c \in Config, WriteConfig(c)
    PROVE  Current' = c
BY RosterAssumption DEF WriteConfig, Current

(* A step leaves the configuration alone,                                  *)
Looks(p) == /\ Current' = Current
            /\ pc[p] \in SaveSteps => pc'[p] = "upKill" \/ clobbered'
            /\ \/ UNCHANGED <<stale, orphans>>
               \/ stale' = stale \ {p} /\ orphans' = orphans \ {p} /\ Bare(p)'

(* writes a copy back,                                                     *)
Stores(p) == /\ pc[p] \in SaveSteps
             /\ Current' = SavedBy(p)
             /\ Busy \ {p} \subseteq stale'
             /\ clobbered' \/ p \notin stale
             /\ haunted' \/ p \notin orphans
             /\ panes' = panes /\ tick' = tick
             /\ \/ orphans' = orphans
                \/ orphans' = orphans \ {p} /\ Bare(p)'

(* or removes the team.                                                    *)
Removes(p) == /\ RemoveDirectory(p)
              /\ pc'[p] \in {"idle", "stInit"}
              /\ panes' = panes /\ tick' = tick

LEMMA EndLooks ==
    ASSUME IInv, NEW p \in Procs, End(p)
    PROVE  /\ stale' = stale \ {p} /\ orphans' = orphans \ {p} /\ Bare(p)'
           /\ pc'[p] = "idle"
<1>1. pc'[p] = "idle"
    BY PcOf DEF End
<1> QED BY <1>1, IdleIsBare DEF End

LEMMA ReturnLooks ==
    ASSUME IInv, NEW p \in Procs, NEW b, Return(p, b)
    PROVE  \/ UNCHANGED <<stale, orphans>>
           \/ stale' = stale \ {p} /\ orphans' = orphans \ {p} /\ Bare(p)'
BY EndLooks DEF Return, History

LEMMA CreateMoves ==
    ASSUME IInv, ShapeInv, NEW p \in Procs, Create(p)
    PROVE  (Looks(p) \/ Stores(p)) /\ panes' = panes /\ tick'.pane = tick.pane
<1>1. CASE CreateGivesUp(p)
    BY <1>1, ReturnLooks DEF CreateGivesUp, Looks, SaveSteps, Files, Current
<1>2. CASE CreateRead(p)
    BY <1>2, ReadKeeps DEF CreateRead, Looks, SaveSteps, History
<1>3. CASE CreateWrite(p)
    BY <1>3 DEF CreateWrite, Looks, SaveSteps, Current, IInv, TypeOK, TicksTyped
<1>4. CASE CreateSave(p)
  <2>1. pc[p] \in SaveSteps /\ call[p].copy = SavedBy(p)
      BY <1>4 DEF CreateSave, SaveSteps, SavedBy
  <2>2. Current' = SavedBy(p)
      BY <1>4, <2>1, SavedIsGood, SaveSets DEF CreateSave, Save
  <2> QED BY <1>4, <2>1, <2>2 DEF CreateSave, Save, NoteWrite, Stores
<1>5. CASE CreateUnlock(p)
    BY <1>5, ReturnLooks DEF CreateUnlock, Looks, SaveSteps, Current
<1> QED BY <1>1, <1>2, <1>3, <1>4, <1>5 DEF Create

LEMMA ScaleMoves ==
    ASSUME IInv, ShapeInv, NEW p \in Procs, Scale(p)
    PROVE  Looks(p) \/ Stores(p)
<1>1. CASE ScaleGivesUp(p)
    BY <1>1, EndLooks DEF ScaleGivesUp, Looks, SaveSteps, Files, Current
<1>2. CASE UpRead(p)
    BY <1>2, ReadKeeps DEF UpRead, Looks, SaveSteps, History
<1>3. CASE UpTasks(p)
    BY <1>3 DEF UpTasks, Looks, SaveSteps, Current, Files, History
<1>4. CASE UpSpawn(p)
    BY <1>4 DEF UpSpawn, Looks, SaveSteps, Current, History
<1>5. CASE UpNotify(p)
  <2>1. CASE Save(p, Joined(call[p].cfg, call[p].added))
    <3>1. pc[p] \in SaveSteps /\ Joined(call[p].cfg, call[p].added) = SavedBy(p)
        BY <1>5 DEF UpNotify, SaveSteps, SavedBy
    <3>2. Current' = SavedBy(p)
        BY <2>1, <3>1, SavedIsGood, SaveSets DEF Save
    <3> QED BY <1>5, <2>1, <3>1, <3>2 DEF UpNotify, Save, NoteWrite, Stores
  <2>2. CASE Go(p, "upKill") /\ UNCHANGED <<manifest, json, call, History>>
      BY <2>2, PcOf DEF Looks, Current, History
  <2>3. CASE clobbered' = TRUE /\ UNCHANGED <<manifest, json, call, stale, orphans, haunted>>
      BY <2>3 DEF Looks, Current
  <2> QED BY <1>5, <2>1, <2>2, <2>3 DEF UpNotify
<1>6. CASE UpKill(p)
    BY <1>6 DEF UpKill, Looks, SaveSteps, Current, History
<1>7. CASE UpRestore(p)
  <2>1. pc[p] \in SaveSteps /\ RolledBack(call[p].cfg, call[p]) = SavedBy(p)
      BY <1>7 DEF UpRestore, SaveSteps, SavedBy
  <2>2. Current' = SavedBy(p)
      BY <1>7, <2>1, SavedIsGood, SaveSets DEF UpRestore, Save
  <2> QED BY <1>7, <2>1, <2>2 DEF UpRestore, Save, NoteWrite, Stores
<1>8. CASE DownRead(p)
    BY <1>8, ReadKeeps DEF DownRead, Looks, SaveSteps, History
<1>9. CASE DownKill(p)
    BY <1>9 DEF DownKill, Looks, SaveSteps, Current, History
<1>10. CASE DownSave(p)
  <2>1. pc[p] \in SaveSteps /\ [call[p].cfg EXCEPT !.workers = @ \ call[p].out] = SavedBy(p)
      BY <1>10 DEF DownSave, SaveSteps, SavedBy
  <2>2. Current' = SavedBy(p)
      BY <1>10, <2>1, SavedIsGood, SaveSets DEF DownSave, Save
  <2> QED BY <1>10, <2>1, <2>2 DEF DownSave, Save, NoteWrite, Stores
<1>11. CASE ScaleUnlock(p)
    BY <1>11, EndLooks DEF ScaleUnlock, Looks, SaveSteps, Current
<1> QED BY <1>1, <1>2, <1>3, <1>4, <1>5, <1>6, <1>7, <1>8, <1>9, <1>10, <1>11 DEF Scale

LEMMA StartMoves ==
    ASSUME IInv, ShapeInv, NEW p \in Procs, Start(p)
    PROVE  Looks(p) \/ Stores(p) \/ Removes(p) \/ StartInit(p)
<1>1. CASE StartCheck(p)
  <2>1. CASE ReadConfig /\ End(p)
      BY <1>1, <2>1, EndLooks, ReadKeeps DEF StartCheck, CleanStale, Looks, SaveSteps
  <2>2. CASE Go(p, "stInit") /\ RemoveDirectory(p)
      BY <1>1, <2>2, PcOf DEF StartCheck, CleanStale, Removes
  <2>3. CASE ReadConfig /\ UNCHANGED <<task, ack, lock, History>>
      BY <1>1, <2>3, ReadKeeps DEF StartCheck, CleanStale, Looks, SaveSteps, History
  <2> QED BY <1>1, <2>1, <2>2, <2>3 DEF StartCheck, CleanStale
<1>2. CASE StartTasksNext(p)
    BY <1>2 DEF StartTasksNext, Looks, SaveSteps, Current, Files, History
<1>3. CASE StartSpawn(p)
    BY <1>3 DEF StartSpawn, Looks, SaveSteps, Current, History
<1>4. CASE StartSave(p) \/ StartRevert(p)
  <2>1. pc[p] \in SaveSteps /\ call[p].cfg = SavedBy(p)
      BY <1>4 DEF StartSave, StartRevert, SaveSteps, SavedBy
  <2>2. Current' = SavedBy(p)
      BY <1>4, <2>1, SavedIsGood, SaveSets DEF StartSave, StartRevert, Save
  <2> QED BY <1>4, <2>1, <2>2 DEF StartSave, StartRevert, Save, NoteWrite, Stores
<1>5. CASE StartReady(p)
  <2>1. pc[p] \in SaveSteps /\ call[p].cfg = SavedBy(p)
      BY <1>5 DEF StartReady, SaveSteps, SavedBy
  <2>2. Current' = SavedBy(p)
      BY <1>5, <2>1, SavedIsGood, SaveSets DEF StartReady
  <2>3. Bare(p)'
      BY <1>5, PcOf, IdleIsBare DEF StartReady
  <2> QED BY <1>5, <2>1, <2>2, <2>3 DEF StartReady, Stores
<1>6. CASE StartKill(p)
    BY <1>6 DEF StartKill, Looks, SaveSteps, Current, History
<1> QED BY <1>1, <1>2, <1>3, <1>4, <1>5, <1>6 DEF Start

LEMMA ShutdownMoves ==
    ASSUME IInv, ShapeInv, NEW p \in Procs, Shutdown(p)
    PROVE  Looks(p) \/ Stores(p)
<1>1. CASE ShutdownRead(p)
    BY <1>1, ReadKeeps DEF ShutdownRead, Looks, SaveSteps, History
<1>2. CASE ShutdownGate(p) \/ ShutdownWait(p)
    BY <1>2, EndLooks DEF ShutdownGate, HasBlockingBacklog, ShutdownWait, Looks, SaveSteps,
       Current, Files, History
<1>3. CASE ShutdownAsk(p)
    BY <1>3 DEF ShutdownAsk, Looks, SaveSteps, Current, History
<1>4. CASE ShutdownSave(p)
  <2>1. pc[p] \in SaveSteps /\ call[p].cfg = SavedBy(p)
      BY <1>4 DEF ShutdownSave, SaveSteps, SavedBy
  <2>2. Current' = SavedBy(p)
      BY <1>4, <2>1, SavedIsGood, SaveSets DEF ShutdownSave, Save
  <2> QED BY <1>4, <2>1, <2>2 DEF ShutdownSave, Save, NoteWrite, Stores
<1>5. CASE ShutdownKill(p)
    BY <1>5 DEF ShutdownKill, Looks, SaveSteps, Current, History
<1> QED BY <1>1, <1>2, <1>3, <1>4, <1>5 DEF Shutdown

(* The panes that a step opens are new.                                    *)
LEMMA PanesMove ==
    ASSUME IInv, ShapeInv, NEW p \in Procs, ProcStep(p)
    PROVE  /\ tick.pane <= tick'.pane /\ tick.pane \in Nat /\ tick'.pane \in Nat
           /\ PanesDrawn'
           /\ \A w \in panes' : w \in panes \/ w.pane > tick.pane
<1>0. /\ TicksTyped /\ TicksTyped' /\ StartWorkers \in Nat
      /\ \A w \in panes : w.pane \in Nat /\ 1 <= w.pane /\ w.pane <= tick.pane
    BY ProcKeeps, RosterAssumption DEF IInv, TypeOK, ShapeInv, PanesDrawn, Worker
<1>1. \/ panes' \subseteq panes /\ tick'.pane = tick.pane
      \/ UpSpawn(p) /\ panes' = panes \cup {NewWorker(p)} /\ tick' = [tick EXCEPT !.pane = @ + 1]
      \/ StartSpawn(p) /\ panes' = panes \cup NewWorkers /\ tick' = [tick EXCEPT !.pane = @ + StartWorkers]
  <2>1. CASE BeginCall(p)
      BY <2>1, <1>0 DEF BeginCall, BeginCreate, BeginScale, BeginStart, BeginShutdown, Begin,
                  Files, TicksTyped
  <2>2. CASE Create(p)
      BY <2>2, CreateMoves
  <2>3. CASE Scale(p)
    <3>1. CASE UpSpawn(p)
        BY <3>1 DEF UpSpawn, NewWorker
    <3>2. CASE ~UpSpawn(p)
        BY <2>3, <3>2 DEF Scale, ScaleGivesUp, UpRead, UpTasks, UpNotify, UpKill, UpRestore,
           DownRead, DownKill, DownSave, ScaleUnlock, Files
    <3> QED BY <3>1, <3>2
  <2>4. CASE Start(p)
    <3>1. CASE StartSpawn(p)
        BY <3>1 DEF StartSpawn, NewWorkers
    <3>2. CASE ~StartSpawn(p)
        BY <2>4, <3>2 DEF Start, StartCheck, CleanStale, StartInit, StartTasksNext, StartSave,
           StartReady,
           StartRevert, StartKill, Files
    <3> QED BY <3>1, <3>2
  <2>5. CASE Shutdown(p)
      BY <2>5, <1>0 DEF Shutdown, ShutdownRead, ShutdownGate, HasBlockingBacklog, ShutdownAsk,
         ShutdownWait,
         ShutdownSave, ShutdownKill, Files, TicksTyped
  <2>6. CASE Clean(p) \/ Crash(p)
      BY <2>6 DEF Clean, Crash, Files
  <2> QED BY <2>1, <2>2, <2>3, <2>4, <2>5, <2>6 DEF ProcStep
<1>2. CASE panes' \subseteq panes /\ tick'.pane = tick.pane
    BY <1>0, <1>2 DEF PanesDrawn, TicksTyped
<1>3. CASE panes' = panes \cup {NewWorker(p)} /\ tick' = [tick EXCEPT !.pane = @ + 1]
  <2>1. NewWorker(p).pane = tick.pane + 1 /\ tick'.pane = tick.pane + 1 /\ tick.pane \in Nat
      BY <1>0, <1>3 DEF NewWorker, TicksTyped
  <2> HIDE DEF NewWorker
  <2> QED BY <1>0, <1>3, <2>1 DEF PanesDrawn
<1>4. CASE panes' = panes \cup NewWorkers /\ tick' = [tick EXCEPT !.pane = @ + StartWorkers]
  <2>1. /\ tick'.pane = tick.pane + StartWorkers /\ tick.pane \in Nat
        /\ \A w \in NewWorkers : w.pane > tick.pane /\ w.pane <= tick.pane + StartWorkers /\ w.pane \in Nat
      BY <1>0, <1>4 DEF NewWorkers, TicksTyped
  <2> HIDE DEF NewWorkers
  <2> QED BY <1>0, <1>4, <2>1 DEF PanesDrawn
<1> QED BY <1>1, <1>2, <1>3, <1>4

(* A step keeps the shape of the configuration,                            *)
LEMMA CurrentShape ==
    ASSUME IInv, ShapeInv, NEW p \in Procs, ProcStep(p)
    PROVE  Current' # None => GoodAt(Current', tick'.pane)
<1>0. /\ tick.pane <= tick'.pane /\ tick.pane \in Nat /\ tick'.pane \in Nat
      /\ Current \in Config \cup {None}
      /\ Current # None => GoodAt(Current, tick.pane)
    BY PanesMove, CopyTyped DEF ShapeInv
<1>1. CASE Current' = Current \/ Current' = None
    BY <1>0, <1>1, GoodLasts
<1>2. CASE Stores(p)
    BY <1>2, SavedIsGood DEF Stores
<1>3. CASE StartInit(p)
  <2>1. Current' = NewTeam
      BY <1>3, GoodNew, RosterAssumption DEF StartInit, Current
  <2> QED BY <1>0, <2>1, GoodNew
<1>4. CASE Removes(p)
  <2>1. Current' = None
      BY <1>4 DEF Removes, RemoveDirectory, Current
  <2> QED BY <1>1, <2>1
<1>5. CASE BeginCall(p) \/ Crash(p)
  <2>1. Current' = Current
      BY <1>5 DEF BeginCall, BeginCreate, BeginScale, BeginStart, BeginShutdown, Begin, Crash,
         Files, Current
  <2> QED BY <1>1, <2>1
<1>6. CASE Clean(p)
  <2>1. Current' = None
      BY <1>6 DEF Clean, RemoveDirectory, Current
  <2> QED BY <1>1, <2>1
<1>7. CASE Looks(p)
    BY <1>1, <1>7 DEF Looks
<1> QED BY <1>2, <1>3, <1>4, <1>5, <1>6, <1>7, CreateMoves, ScaleMoves, StartMoves,
           ShutdownMoves DEF ProcStep

(* of the calls that do not take it,                                       *)
LEMMA ShapeOthers ==
    ASSUME IInv, ShapeInv, NEW p \in Procs, ProcStep(p), NEW q \in Procs \ {p}
    PROVE  ShapeOf(q)'
<1>0. /\ tick.pane <= tick'.pane /\ tick.pane \in Nat /\ tick'.pane \in Nat
      /\ \A w \in panes' : w \in panes \/ w.pane > tick.pane
      /\ pc'[q] = pc[q] /\ call'[q] = call[q]
      /\ HasCopy(q) => call[q].cfg \in Config
      /\ Writing(q) => call[q].copy \in Config
      /\ call[q].added \subseteq Worker /\ call[q].out \subseteq Worker
    BY PanesMove, OthersKeep, CopyTyped
<1>1. /\ Starting(q)' <=> Starting(q)
      /\ ScalesUp(q)' <=> ScalesUp(q)
      /\ Growing(q)' <=> Growing(q)
      /\ HasCopy(q)' <=> HasCopy(q)
      /\ Writing(q)' <=> Writing(q)
    BY <1>0 DEF HasCopy, ScalesUp, Growing, Founding, Starting, Copied, Writing, InCreate
<1>2. ScaleShape(q) /\ GoneShape(q) /\ StartShape(q) /\ CopyShape(q)
    BY DEF ShapeInv, ShapeOf
<1>3. ScaleShape(q)'
  <2>1. /\ \A w \in call[q].added : w.pane <= tick.pane => w.pane <= tick'.pane
        /\ \A w \in call[q].out : w.pane <= tick.pane => w.pane <= tick'.pane
      BY <1>0 DEF Worker
  <2> QED BY <1>0, <1>1, <1>2, <2>1 DEF ScaleShape
<1>4. GoneShape(q)'
  <2>1. /\ pc[q] = "downSave" => \A w \in call[q].out : w.pane <= tick.pane /\ w.pane \in Nat
        /\ pc[q] = "upRestore" => \A w \in call[q].added : w.pane <= tick.pane /\ w.pane \in Nat
      BY <1>0, <1>2 DEF ScaleShape, ScalesUp, Worker
  <2> QED BY <1>0, <1>2, <2>1 DEF GoneShape
<1>5. StartShape(q)'
    BY <1>0, <1>1, <1>2 DEF StartShape
<1>6. CopyShape(q)'
    BY <1>0, <1>1, <1>2, GoodLasts DEF CopyShape
<1> QED BY <1>3, <1>4, <1>5, <1>6 DEF ShapeOf

(* and of the one that does:                                               *)
LEMMA CreateLands ==
    ASSUME IInv, NEW p \in Procs, Create(p)
    PROVE  pc'[p] # "upLock"
<1>1. LocalsOf(p)
    BY DEF IInv, Locals
<1>2. CASE CreateGivesUp(p)
  <2>1. Thrown(call[p].back) \in {"scUnlock", "clean", "idle"}
      BY DEF Thrown
  <2> QED BY <1>2, <2>1, PcOf DEF CreateGivesUp, Return, End
<1>3. CASE CreateRead(p)
    BY <1>3, ReadAlone
<1>4. CASE CreateWrite(p) \/ CreateSave(p)
    BY <1>4, PcOf DEF CreateWrite, CreateSave
<1>5. CASE CreateUnlock(p)
  <2>1. call[p].back \in Backs
      BY <1>1, <1>5 DEF CreateUnlock, LocalsOf, InCreate, CreateSteps
  <2> QED BY <1>5, <2>1, PcOf DEF CreateUnlock, Return, End, Backs
<1> QED BY <1>2, <1>3, <1>4, <1>5 DEF Create

LEMMA BareShape ==
    ASSUME NEW p \in Procs, Bare(p)', pc'[p] = "upLock" => call'[p].added = {}
    PROVE  ShapeOf(p)'
BY DEF Bare, HasCopy, ScalesUp, Growing, Founding, Starting, Copied, Writing, InCreate,
       CreateSteps, ShapeOf, ScaleShape, GoneShape, StartShape, CopyShape

LEMMA CreateShape ==
    ASSUME IInv, ShapeInv, NEW p \in Procs, Create(p)
    PROVE  ShapeOf(p)'
<1>0. /\ ScaleShape(p) /\ GoneShape(p) /\ StartShape(p) /\ CopyShape(p)
      /\ Current # None => GoodAt(Current, tick.pane)
      /\ panes' = panes /\ tick'.pane = tick.pane /\ tick.pane \in Nat
      /\ call[p] \in Call
      /\ HasCopy(p) => call[p].cfg \in Config
      /\ Writing(p) => call[p].copy \in Config
    BY CreateMoves, CopyTyped, CallOf DEF ShapeInv, ShapeOf
<1>1. CASE Bare(p)'
  <2>1. pc'[p] # "upLock"
      BY CreateLands
  <2> QED BY <1>1, <2>1, BareShape
<1>2. ASSUME InCreate(p), pc'[p] \in CreateSteps \/ pc'[p] = call[p].back,
             pc'[p] \in CreateSteps => call'[p].back = call[p].back,
             call[p].back \in {"upTasks", "stTasks"} \/ pc'[p] \in CreateSteps,
             SameLocals(call'[p], call[p]),
             Writing(p)' => GoodAt(call'[p].copy, tick.pane)
      PROVE  ShapeOf(p)'
  <2>1. /\ Growing(p)' => Growing(p) /\ pc[p] # "upSpawn"
        /\ ScalesUp(p)' => ScalesUp(p)
        /\ Starting(p)' => Starting(p)
        /\ HasCopy(p)' => HasCopy(p)
        /\ pc'[p] \in CreateSteps \cup {"upTasks", "stTasks"}
      BY <1>2 DEF HasCopy, ScalesUp, Growing, Founding, Starting, Copied, InCreate, CreateSteps
  <2>2. ScaleShape(p)'
      BY <1>0, <1>2, <2>1 DEF ScaleShape, SameLocals, CreateSteps
  <2>3. GoneShape(p)' /\ StartShape(p)'
      BY <1>0, <1>2, <2>1 DEF GoneShape, StartShape, SameLocals, CreateSteps
  <2>4. CopyShape(p)'
      BY <1>0, <1>2, <2>1 DEF CopyShape, SameLocals
  <2> QED BY <2>2, <2>3, <2>4 DEF ShapeOf
<1>3. CASE /\ pc[p] = "ctLock" /\ pc'[p] = "ctWrite" /\ Current # None
           /\ call'[p].copy = Current /\ call'[p].back = call[p].back
           /\ SameLocals(call'[p], call[p])
    BY <1>0, <1>2, <1>3 DEF InCreate, CreateSteps
<1>4. CASE /\ CreateWrite(p) /\ pc'[p] = "ctSave"
           /\ call'[p].copy = Advanced(call[p].copy, call[p].id)
           /\ call'[p].back = call[p].back /\ SameLocals(call'[p], call[p])
  <2>1. pc[p] = "ctWrite" /\ call[p].id \in Nat
      BY <1>0, <1>4 DEF CreateWrite, Call
  <2>2. GoodAt(call'[p].copy, tick.pane)
      BY <1>0, <1>4, <2>1, GoodAdvanced DEF CopyShape, Writing
  <2> QED BY <1>2, <1>4, <2>1, <2>2 DEF InCreate, CreateSteps
<1>5. CASE CreateSave(p) /\ pc'[p] = "ctUnlock" /\ call'[p] = call[p]
    BY <1>2, <1>5 DEF InCreate, CreateSteps, CreateSave, SameLocals, Writing
<1>6. CASE /\ CreateUnlock(p) /\ call[p].back \in {"upTasks", "stTasks"}
           /\ pc'[p] = call[p].back /\ SameLocals(call'[p], call[p])
    BY <1>2, <1>6 DEF InCreate, CreateSteps, CreateUnlock, Writing
<1> QED BY <1>1, <1>3, <1>4, <1>5, <1>6, CreateSteps_Own

LEMMA ScaleShapes ==
    ASSUME IInv, ShapeInv, NEW p \in Procs, Scale(p)
    PROVE  ShapeOf(p)'
<1> USE DEF HasCopy, ScalesUp, Growing, Founding, Starting, Copied, Writing, InCreate,
            CreateSteps
<1>0. /\ ScaleShape(p) /\ GoneShape(p) /\ StartShape(p) /\ CopyShape(p)
      /\ Current # None => GoodAt(Current, tick.pane) /\ Current \in Config
      /\ call[p] \in Call /\ call[p].added \subseteq Worker /\ call[p].first \in Nat
      /\ HasCopy(p) => call[p].cfg \in Config
      /\ StartWorkers \in Nat /\ tick.pane \in Nat
    BY CopyTyped, CallOf, RosterAssumption DEF ShapeInv, ShapeOf
<1>1. CASE Bare(p)' /\ pc'[p] \in {"idle", "scUnlock"}
    BY <1>1, BareShape
<1>2. CASE /\ UpRead(p) /\ pc'[p] = "upTasks" /\ Current # None
           /\ call'[p].cfg = Current /\ call'[p].added = call[p].added
           /\ call'[p].first = Current.nextIndex
  <2>1. pc[p] = "upLock" /\ tick' = tick
      BY <1>2 DEF UpRead
  <2>2. call[p].added = {}
      BY <1>0, <2>1 DEF ScaleShape
  <2>3. GoodAt(Current, tick.pane) /\ Current.nextIndex \in Nat
      BY <1>0, <1>2 DEF Config
  <2>4. ScaleShape(p)'
      BY <1>0, <1>2, <2>2, <2>3 DEF ScaleShape, GoodAt
  <2> QED BY <1>2, <2>1, <2>3, <2>4 DEF ShapeOf, GoneShape, StartShape, CopyShape
<1>3. CASE /\ UpTasks(p) /\ pc'[p] \in {"ctLock", "upSpawn"}
           /\ pc'[p] = "ctLock" => call'[p].back = "upTasks"
           /\ SameLocals(call'[p], call[p])
  <2>1. pc[p] = "upTasks" /\ tick' = tick
      BY <1>3 DEF UpTasks, Files
  <2> QED BY <1>0, <1>3, <2>1 DEF ShapeOf, ScaleShape, GoneShape, StartShape, CopyShape,
     SameLocals
<1>4. CASE UpSpawn(p) /\ pc'[p] = "upKill" /\ call'[p] = call[p] /\ UNCHANGED <<panes, tick>>
  <2>1. pc[p] = "upSpawn"
      BY <1>4 DEF UpSpawn
  <2>2. \A w \in call[p].added : w.index <= call[p].cfg.nextIndex
      BY <1>0, <2>1 DEF ScaleShape, CopyShape, GoodAt, Config, Worker
  <2> QED BY <1>0, <1>4, <2>1, <2>2 DEF ShapeOf, ScaleShape, GoneShape, StartShape, CopyShape
<1>5. CASE /\ UpSpawn(p) /\ pc'[p] = "upNotify"
           /\ panes' = panes \cup {NewWorker(p)}
           /\ tick' = [tick EXCEPT !.pane = @ + 1]
           /\ call'[p].cfg = call[p].cfg /\ call'[p].first = call[p].first
           /\ call'[p].added = call[p].added \cup {NewWorker(p)}
  <2>1. pc[p] = "upSpawn" /\ call[p].cfg \in Config
      BY <1>0, <1>5 DEF UpSpawn
  <2>2. tick'.pane = tick.pane + 1
      BY <1>5 DEF IInv, TypeOK, TicksTyped
  <2>3. /\ NewWorker(p).index = call[p].cfg.nextIndex /\ NewWorker(p).pane = tick.pane + 1
        /\ call[p].cfg.nextIndex \in Nat
      BY <2>1 DEF NewWorker, Config
  <2> HIDE DEF NewWorker
  <2>4. /\ GoodAt(call[p].cfg, tick.pane)
        /\ call[p].added \subseteq call[p].cfg.workers
        /\ StartWorkers < call[p].first /\ call[p].first <= call[p].cfg.nextIndex
        /\ \A w \in call[p].cfg.workers \ call[p].added : w.index < call[p].first
        /\ \A w \in call[p].added : w.pane <= tick.pane /\ w.pane \in Nat
      BY <1>0, <2>1 DEF ScaleShape, CopyShape, Worker
  <2>5. /\ \A w \in call'[p].added : w.index <= call[p].cfg.nextIndex
        /\ \A w \in call'[p].added : w.pane <= tick'.pane
      BY <1>0, <1>5, <2>1, <2>2, <2>3, <2>4 DEF GoodAt, Config, Worker
  <2>6. GoodAt(call'[p].cfg, tick'.pane)
      BY <1>0, <1>5, <2>1, <2>2, <2>4, GoodLasts
  <2>7. ScaleShape(p)'
      BY <1>5, <2>4, <2>5 DEF ScaleShape
  <2> QED BY <1>5, <2>6, <2>7 DEF ShapeOf, GoneShape, StartShape, CopyShape
<1>6. CASE UpNotify(p) /\ pc'[p] = "upKill" /\ call'[p] = call[p] /\ UNCHANGED <<manifest, json, History>>
  <2>1. pc[p] = "upNotify" /\ UNCHANGED <<panes, tick>>
      BY <1>6 DEF UpNotify
  <2> QED BY <1>0, <1>6, <2>1 DEF ShapeOf, ScaleShape, GoneShape, StartShape, CopyShape
<1>7. CASE /\ UpNotify(p) /\ pc'[p] \in {"upSpawn", "scUnlock"}
           /\ Save(p, Joined(call[p].cfg, call[p].added))
           /\ call'[p].cfg = Joined(call[p].cfg, call[p].added)
           /\ call'[p].first = call[p].first /\ call'[p].added = call[p].added
  <2>1. pc[p] = "upNotify" /\ UNCHANGED <<panes, tick>> /\ call[p].cfg \in Config
      BY <1>0, <1>7 DEF UpNotify
  <2> DEFINE c == Joined(call[p].cfg, call[p].added)
  <2>2. /\ GoodAt(call[p].cfg, tick.pane)
        /\ StartWorkers < call[p].first /\ call[p].first <= call[p].cfg.nextIndex
        /\ \A w \in call[p].cfg.workers \ call[p].added : w.index < call[p].first
        /\ \A w \in call[p].added : w.pane <= tick.pane /\ w.index <= call[p].cfg.nextIndex
      BY <1>0, <2>1 DEF ScaleShape, CopyShape
  <2>3. /\ GoodAt(c, tick.pane)
        /\ c.workers = call[p].cfg.workers \cup call[p].added
        /\ c.nextIndex = call[p].cfg.nextIndex + 1
      BY <1>0, <2>1, <2>2, GoodJoined
  <2>4. call[p].cfg.nextIndex \in Nat
      BY <2>1 DEF Config
  <2>5. call'[p].cfg = c
      BY <1>7
  <2> HIDE DEF c
  <2>6. call[p].first <= c.nextIndex
      BY <1>0, <2>2, <2>3, <2>4
  <2>7. ScaleShape(p)'
      BY <1>7, <2>1, <2>2, <2>3, <2>5, <2>6 DEF ScaleShape
  <2> QED BY <1>7, <2>1, <2>3, <2>5, <2>7 DEF ShapeOf, GoneShape, StartShape, CopyShape
<1>8. CASE UpKill(p) /\ pc'[p] = "upRestore" /\ call'[p] = call[p]
  <2>1. pc[p] = "upKill" /\ tick' = tick /\ panes' = panes \ call[p].added
      BY <1>8 DEF UpKill
  <2> QED BY <1>0, <1>8, <2>1 DEF ShapeOf, ScaleShape, GoneShape, StartShape, CopyShape
<1>9. CASE /\ DownRead(p) /\ pc'[p] = "downKill" /\ Current # None
           /\ call'[p].cfg = Current /\ call'[p].out \subseteq Current.workers
  <2>1. tick' = tick
      BY <1>9 DEF DownRead
  <2>2. \A w \in call'[p].out : w.pane <= tick.pane
      BY <1>0, <1>9 DEF GoodAt
  <2> QED BY <1>0, <1>9, <2>1, <2>2 DEF ShapeOf, ScaleShape, GoneShape, StartShape, CopyShape
<1>10. CASE DownKill(p) /\ pc'[p] = "downSave" /\ call'[p] = call[p]
  <2>1. pc[p] = "downKill" /\ tick' = tick /\ panes' = panes \ call[p].out
      BY <1>10 DEF DownKill
  <2> QED BY <1>0, <1>10, <2>1 DEF ShapeOf, ScaleShape, GoneShape, StartShape, CopyShape
<1> QED BY <1>1, <1>2, <1>3, <1>4, <1>5, <1>6, <1>7, <1>8, <1>9, <1>10, ScaleSteps_Own

LEMMA StartShapes ==
    ASSUME IInv, ShapeInv, NEW p \in Procs, Start(p)
    PROVE  ShapeOf(p)'
<1> USE DEF HasCopy, ScalesUp, Growing, Founding, Starting, Copied, Writing, InCreate,
            CreateSteps
<1>0. /\ ScaleShape(p) /\ GoneShape(p) /\ StartShape(p) /\ CopyShape(p)
      /\ call[p] \in Call
      /\ HasCopy(p) => call[p].cfg \in Config
      /\ tick.pane \in Nat
    BY CopyTyped, CallOf DEF ShapeInv, ShapeOf
<1>1. CASE Bare(p)' /\ pc'[p] \in {"idle", "stInit", "stKill", "clean"}
    BY <1>1, BareShape
<1>2. CASE StartInit(p) /\ pc'[p] = "stTasks" /\ call'[p].cfg = NewTeam
  <2>1. tick' = tick
      BY <1>2 DEF StartInit
  <2> QED BY <1>0, <1>2, <2>1, GoodNew DEF ShapeOf, ScaleShape, GoneShape, StartShape,
     CopyShape, Founders
<1>3. CASE /\ StartTasksNext(p) /\ pc'[p] \in {"ctLock", "stSpawn"}
           /\ pc'[p] = "ctLock" => call'[p].back = "stTasks"
           /\ SameLocals(call'[p], call[p])
  <2>1. pc[p] = "stTasks" /\ tick' = tick
      BY <1>3 DEF StartTasksNext, Files
  <2> QED BY <1>0, <1>3, <2>1 DEF ShapeOf, ScaleShape, GoneShape, StartShape, CopyShape,
     SameLocals
<1>4. CASE /\ StartSpawn(p) /\ pc'[p] = "stSave"
           /\ panes' = panes \cup NewWorkers
           /\ tick' = [tick EXCEPT !.pane = @ + StartWorkers]
           /\ call'[p].cfg = [call[p].cfg EXCEPT !.workers = NewWorkers]
           /\ call'[p].added = NewWorkers
  <2>1. pc[p] = "stSpawn" /\ call[p].cfg \in Config
      BY <1>0, <1>4 DEF StartSpawn
  <2>2. tick'.pane = tick.pane + StartWorkers
      BY <1>4 DEF IInv, TypeOK, TicksTyped
  <2>3. GoodAt(call[p].cfg, tick.pane)
      BY <1>0, <2>1 DEF CopyShape
  <2>4. GoodAt(call'[p].cfg, tick'.pane) /\ call'[p].cfg.workers = NewWorkers
      BY <1>0, <1>4, <2>1, <2>2, <2>3, GoodFounded DEF NewWorkers
  <2>5. \A w \in NewWorkers : w.index \in 1 .. StartWorkers
      BY DEF NewWorkers
  <2> QED BY <1>4, <2>4, <2>5 DEF ShapeOf, ScaleShape, GoneShape, StartShape, CopyShape
<1>5. CASE StartSave(p) /\ pc'[p] \in {"stReady", "stRevert"} /\ call'[p] = call[p]
  <2>1. pc[p] = "stSave" /\ tick' = tick
      BY <1>5 DEF StartSave
  <2> QED BY <1>0, <1>5, <2>1 DEF ShapeOf, ScaleShape, GoneShape, StartShape, CopyShape
<1> QED BY <1>1, <1>2, <1>3, <1>4, <1>5, StartSteps_Own

LEMMA ShutdownShapes ==
    ASSUME IInv, ShapeInv, NEW p \in Procs, Shutdown(p)
    PROVE  ShapeOf(p)'
<1> USE DEF HasCopy, ScalesUp, Growing, Founding, Starting, Copied, Writing, InCreate,
            CreateSteps
<1>0. /\ ScaleShape(p) /\ GoneShape(p) /\ StartShape(p) /\ CopyShape(p)
      /\ Current # None => GoodAt(Current, tick.pane)
    BY DEF ShapeInv, ShapeOf
<1>1. CASE Bare(p)' /\ pc'[p] \in {"idle", "shKill", "clean"}
    BY <1>1, BareShape
<1>2. CASE /\ ShutdownRead(p) /\ pc'[p] \in {"shGate", "shAsk"} /\ Current # None
           /\ call'[p].cfg = Current
  <2>1. tick' = tick
      BY <1>2 DEF ShutdownRead
  <2> QED BY <1>0, <1>2, <2>1 DEF ShapeOf, ScaleShape, GoneShape, StartShape, CopyShape
<1>3. CASE /\ ShutdownGate(p) \/ ShutdownAsk(p) \/ ShutdownWait(p)
           /\ pc'[p] \in {"shAsk", "shWait", "shSave"} /\ SameLocals(call'[p], call[p])
  <2>1. pc[p] \in {"shGate", "shAsk", "shWait"} /\ tick'.pane = tick.pane
      BY <1>3 DEF ShutdownGate, HasBlockingBacklog, ShutdownAsk, ShutdownWait, Files, IInv,
         TypeOK, TicksTyped
  <2> QED BY <1>0, <1>3, <2>1 DEF ShapeOf, ScaleShape, GoneShape, StartShape, CopyShape,
     SameLocals
<1> QED BY <1>1, <1>2, <1>3, ShutdownSteps_Own

LEMMA BeginShape ==
    ASSUME IInv, NEW p \in Procs, BeginCall(p) \/ Clean(p) \/ Crash(p)
    PROVE  Bare(p)' /\ call'[p].added = {}
<1>1. ASSUME NEW step, NEW r, Begin(p, step, r), step \in Steps, r \in Call,
             r.back = "idle", r.added = {},
             step \in {"ctLock", "upLock", "downLock", "stCheck", "shRead"}
      PROVE  Bare(p)' /\ call'[p].added = {}
  <2>1. pc'[p] = step /\ call'[p] = r
      BY <1>1, PcOf, LocalOf DEF Begin
  <2> QED BY <1>1, <2>1 DEF Bare, HasCopy, ScalesUp, Growing, Founding, Starting, Copied,
             Writing, InCreate, CreateSteps
<1>2. NoCall \in Call /\ NoCall.back = "idle" /\ NoCall.added = {}
    BY NoCallTyped DEF NoCall
<1>3. \A f \in BOOLEAN : /\ [NoCall EXCEPT !.force = f] \in Call
                         /\ [NoCall EXCEPT !.force = f].back = "idle"
                         /\ [NoCall EXCEPT !.force = f].added = {}
    BY ForcedTyped DEF NoCall
<1>4. CASE BeginCall(p)
  <2>1. CASE BeginCreate(p) \/ BeginScale(p) \/ BeginStart(p)
      BY <1>1, <1>2, <2>1 DEF BeginCreate, BeginScale, BeginStart, Steps
  <2>2. CASE BeginShutdown(p)
    <3>1. PICK f \in BOOLEAN : Begin(p, "shRead", [NoCall EXCEPT !.force = f])
        BY <2>2 DEF BeginShutdown
    <3> QED BY <1>1, <1>3, <3>1 DEF Steps
  <2> QED BY <1>4, <2>1, <2>2 DEF BeginCall
<1>5. CASE Clean(p) \/ Crash(p)
  <2>1. pc'[p] \in {"idle", "dead"} /\ call'[p] = NoCall
      BY <1>5, PcOf, LocalOf DEF Clean, Crash
  <2> QED BY <1>2, <2>1, IdleIsBare
<1> QED BY <1>4, <1>5

(* so every step keeps it.                                                 *)
LEMMA ShapeKept ==
    ASSUME IInv, ShapeInv, NEW p \in Procs, ProcStep(p)
    PROVE  ShapeInv'
<1>1. ShapeOf(p)'
    BY CreateShape, ScaleShapes, StartShapes, ShutdownShapes, BeginShape, BareShape DEF ProcStep
<1> QED BY <1>1, CurrentShape, ShapeOthers, PanesMove DEF ShapeInv

-----------------------------------------------------------------------------
(* The roster: panes and configuration agree                               *)

(* Whoever scales the team up, and is not an orphan, holds the lock.       *)
ScalingHeld == \A p \in Procs \ orphans : ScalesUp(p) => lock["scaling"] = p

LEMMA ScalingKept ==
    ASSUME IInv, ScalingHeld, NEW p \in Procs, ProcStep(p)
    PROVE  ScalingHeld'
<1>0. /\ call \in [Procs -> Call] /\ pc \in [Procs -> Steps] /\ LocalsOf(p)
      /\ lock \in [Locks -> Procs \cup {None}]
      /\ \A q \in Procs : HasCopy(q) => call[q].cfg \in Config
      /\ None \notin Config
    BY CallOf, CopyTyped, RosterAssumption DEF IInv, TypeOK, Locals
<1>1. \A q \in Procs \ {p} : /\ ScalesUp(q)' <=> ScalesUp(q)
                             /\ pc'[q] = pc[q] /\ call'[q] = call[q]
    BY OthersKeep DEF ScalesUp, Growing, InCreate
<1>2. ASSUME orphans' = orphans \/ (orphans' = orphans \ {p} /\ ~ScalesUp(p)'),
             lock' = lock \/ (lock'["scaling"] = lock["scaling"]),
             ScalesUp(p)' => ScalesUp(p)
      PROVE  ScalingHeld'
    BY <1>1, <1>2 DEF ScalingHeld
<1>3. Bare(p)' => ~ScalesUp(p)'
    BY DEF Bare, HasCopy
<1>4. CASE BeginCall(p) \/ Crash(p)
  <2>1. UNCHANGED <<orphans, lock>>
      BY <1>4 DEF BeginCall, BeginCreate, BeginScale, BeginStart, BeginShutdown, Begin, Crash,
         Files, History
  <2> QED BY <1>2, <1>3, <1>4, <2>1, BeginShape
<1>5. ASSUME RemoveDirectory(p), ~ScalesUp(p)'
      PROVE  ScalingHeld'
  <2>1. \A q \in Procs \ {p} : ScalesUp(q) => q \in orphans'
    <3> SUFFICES ASSUME NEW q \in Procs \ {p}, ScalesUp(q) PROVE q \in Orphaned(p)
        BY <1>5 DEF RemoveDirectory
    <3>1. call[q].cfg # None
        BY <1>0 DEF HasCopy
    <3> QED BY <3>1 DEF Orphaned, Waits, ScalesUp, Growing, InCreate, CreateSteps
  <2> QED BY <1>1, <1>5, <2>1 DEF ScalingHeld
<1>6. CASE Clean(p)
    BY <1>3, <1>5, <1>6, BeginShape DEF Clean
<1>7. CASE Create(p)
  <2>1. lock' = lock \/ lock'["scaling"] = lock["scaling"]
      BY <1>0, <1>7 DEF Create, CreateGivesUp, CreateRead, CreateWrite, CreateSave, CreateUnlock,
         Take, Drop, Files, Locks
  <2>2. orphans' = orphans \/ (orphans' = orphans \ {p} /\ ~ScalesUp(p)')
    <3>1. CASE CreateGivesUp(p) \/ CreateUnlock(p)
        BY <1>3, <3>1, ReturnLooks DEF CreateGivesUp, CreateUnlock
    <3>2. CASE ~(CreateGivesUp(p) \/ CreateUnlock(p))
        BY <1>7, <3>2 DEF Create, CreateRead, CreateWrite, CreateSave, Save, NoteWrite, History
    <3> QED BY <3>1, <3>2
  <2>3. ScalesUp(p)' => ScalesUp(p)
    <3>1. CASE Bare(p)'
        BY <1>3, <3>1
    <3>2. CASE ~Bare(p)'
        BY <1>7, <3>2, CreateSteps_Own DEF ScalesUp, Growing, InCreate, CreateSteps, CreateWrite,
           CreateSave, CreateUnlock
    <3> QED BY <3>1, <3>2
  <2> QED BY <1>2, <2>1, <2>2, <2>3
<1>8. CASE Scale(p)
  <2>1. CASE UpRead(p)
    <3>1. lock["scaling"] \in Dead \cup {None} /\ lock'["scaling"] = p /\ orphans' = orphans
        BY <1>0, <2>1 DEF UpRead, Take, Locks, History
    <3>2. \A q \in Procs \ orphans : ~ScalesUp(q)
        BY <3>1, RosterAssumption
           DEF ScalingHeld, Dead, ScalesUp, Growing, InCreate, CreateSteps
    <3> QED BY <1>1, <3>1, <3>2 DEF ScalingHeld
  <2>2. CASE DownRead(p)
    <3>1. lock["scaling"] \in Dead \cup {None} /\ orphans' = orphans
        BY <1>0, <2>2 DEF DownRead, Take, Locks, History
    <3>2. \A q \in Procs \ orphans : ~ScalesUp(q)
        BY <3>1, RosterAssumption
           DEF ScalingHeld, Dead, ScalesUp, Growing, InCreate, CreateSteps
    <3>3. pc'[p] \in {"downKill", "scUnlock"}
        BY <1>0, <2>2 DEF DownRead, Go
    <3>4. ~ScalesUp(p)'
        BY <3>3 DEF ScalesUp, Growing, InCreate, CreateSteps
    <3> QED BY <1>1, <3>1, <3>2, <3>4 DEF ScalingHeld
  <2>3. CASE ScaleUnlock(p)
    <3>1. /\ lock'["scaling"] = lock["scaling"] \/ lock["scaling"] = p
          /\ orphans' = orphans \ {p} /\ ~ScalesUp(p)'
        BY <1>0, <1>3, <2>3, EndLooks DEF ScaleUnlock, Drop, Locks
    <3>2. ScalesUp(p) = FALSE
        BY <2>3 DEF ScaleUnlock, ScalesUp, Growing, InCreate, CreateSteps
    <3> QED BY <1>1, <3>1, <3>2 DEF ScalingHeld
  <2>4. CASE ScaleGivesUp(p)
      BY <1>2, <1>3, <2>4, EndLooks DEF ScaleGivesUp, Files
  <2>5. CASE UpTasks(p) \/ UpSpawn(p) \/ UpNotify(p) \/ UpKill(p) \/ UpRestore(p)
    <3>1. lock' = lock /\ orphans' = orphans
        BY <2>5 DEF UpTasks, UpSpawn, UpNotify, UpKill, UpRestore, Save, NoteWrite, Files, History
    <3>2. ScalesUp(p)
        BY <2>5 DEF UpTasks, UpSpawn, UpNotify, UpKill, UpRestore, ScalesUp, Growing
    <3> QED BY <1>2, <3>1, <3>2
  <2>6. CASE DownKill(p) \/ DownSave(p)
    <3>1. lock' = lock /\ orphans' = orphans
        BY <2>6 DEF DownKill, DownSave, Save, NoteWrite, History
    <3>2. pc'[p] \in {"downSave", "scUnlock"}
        BY <2>6, PcOf DEF DownKill, DownSave
    <3>3. ~ScalesUp(p)'
        BY <3>2 DEF ScalesUp, Growing, InCreate, CreateSteps
    <3> QED BY <1>2, <3>1, <3>3
  <2> QED BY <1>8, <2>1, <2>2, <2>3, <2>4, <2>5, <2>6 DEF Scale
<1>9. CASE Start(p)
  <2>1. ~ScalesUp(p)'
    <3>1. CASE Bare(p)'
        BY <1>3, <3>1
    <3>2. CASE ~Bare(p)'
        BY <1>9, <3>2, StartSteps_Own DEF ScalesUp, Growing, InCreate, CreateSteps
    <3> QED BY <3>1, <3>2
  <2>2. CASE StartCheck(p) /\ RemoveDirectory(p)
      BY <1>5, <2>1, <2>2
  <2>3. CASE ~(StartCheck(p) /\ RemoveDirectory(p))
    <3>1. lock' = lock
        BY <1>9, <2>3 DEF Start, StartCheck, CleanStale, StartInit, StartTasksNext, StartSpawn,
           StartSave,
           StartReady, StartRevert, StartKill, Files
    <3>2. orphans' = orphans \/ orphans' = orphans \ {p}
        BY <1>9, <2>3 DEF Start, StartCheck, CleanStale, StartInit, StartTasksNext, StartSpawn,
           StartSave,
           StartReady, StartRevert, StartKill, Save, NoteWrite, End, History
    <3> QED BY <1>2, <2>1, <3>1, <3>2
  <2> QED BY <2>2, <2>3
<1>10. CASE Shutdown(p)
  <2>1. ~ScalesUp(p)'
    <3>1. CASE Bare(p)'
        BY <1>3, <3>1
    <3>2. CASE ~Bare(p)'
        BY <1>10, <3>2, ShutdownSteps_Own DEF ScalesUp, Growing, InCreate, CreateSteps
    <3> QED BY <3>1, <3>2
  <2>2. lock' = lock /\ (orphans' = orphans \/ orphans' = orphans \ {p})
      BY <1>10 DEF Shutdown, ShutdownRead, ShutdownGate, HasBlockingBacklog, ShutdownAsk,
         ShutdownWait,
         ShutdownSave, ShutdownKill, Save, NoteWrite, End, Files, History
  <2> QED BY <1>2, <2>1, <2>2
<1> QED BY <1>4, <1>6, <1>7, <1>8, <1>9, <1>10 DEF ProcStep

(* While nothing has gone wrong yet:                                       *)
Calm == ~clobbered /\ ~haunted /\ Dead = {}

(* the steps at which a call has opened panes that nobody else knows of;   *)
Handing(p) == pc[p] \in {"upNotify", "upKill", "stSave"}

InHands(w) == \E p \in Procs : Handing(p) /\ w \in call[p].added

(* the panes, without those that an orphan has in its hands;               *)
Ours == {w \in panes : \A p \in orphans : Handing(p) => w \notin call[p].added}

Accounted == \A w \in panes : w \in Listed \/ InHands(w)

Distinct == \A v, w \in Ours : v.index = w.index => v = w

(* the number a call is about to give out is free;                         *)
FreeOf(p) == /\ Growing(p) => \A w \in Ours : w.index < call[p].cfg.nextIndex
             /\ Starting(p) => \A w \in Ours : w.index > StartWorkers

(* a copy that is not stale is the configuration.                          *)
SyncOf(p) == /\ ScalesUp(p) \/ Copied(p) \/ Starting(p) => Listed = call[p].cfg.workers
             /\ pc[p] = "stSave" => Listed = Founders
             /\ Writing(p) => Listed = call[p].copy.workers

OneFounder == \A p, q \in Procs \ orphans : Founding(p) /\ Founding(q) => p = q

RosterInv == Calm => /\ Accounted /\ Distinct /\ OneFounder
                     /\ \A p \in Procs \ orphans : FreeOf(p) /\ (p \notin stale => SyncOf(p))

AllInv == IInv /\ ShapeInv /\ ScalingHeld /\ RosterInv

(* What went wrong stays wrong.                                            *)
LEMMA CalmBefore ==
    ASSUME IInv, NEW p \in Procs, ProcStep(p), Calm'
    PROVE  Calm
<1>1. Dead = {}
  <2> SUFFICES ASSUME NEW q \in Dead PROVE FALSE
      OBVIOUS
  <2>1. CASE q = p
      BY <2>1 DEF Dead, ProcStep, BeginCall, BeginCreate, BeginScale, BeginStart, BeginShutdown,
         Begin, Create, CreateGivesUp, CreateRead, CreateWrite, CreateSave, CreateUnlock, Scale,
         ScaleGivesUp, UpRead, UpTasks, UpSpawn, UpNotify, UpKill, UpRestore, DownRead, DownKill,
         DownSave, ScaleUnlock, Start, StartCheck, CleanStale, StartInit, StartTasksNext,
         StartSpawn,
         StartSave, StartReady, StartRevert, StartKill, Shutdown, ShutdownRead, ShutdownGate,
         HasBlockingBacklog,
         ShutdownAsk, ShutdownWait, ShutdownSave, ShutdownKill, Clean, Crash
  <2>2. CASE q # p
      BY <2>2, OthersKeep DEF Dead, Calm
  <2> QED BY <2>1, <2>2
<1>2. (clobbered => clobbered') /\ (haunted => haunted')
  <2>1. UNCHANGED <<clobbered, haunted>> => (clobbered => clobbered') /\ (haunted => haunted')
      OBVIOUS
  <2>2. \A c : Save(p, c) => (clobbered => clobbered') /\ (haunted => haunted')
      BY Zenon DEF Save, NoteWrite
  <2>3. RemoveDirectory(p) => (clobbered => clobbered') /\ (haunted => haunted')
      BY Zenon DEF RemoveDirectory
  <2>4. CASE BeginCall(p) \/ Crash(p) \/ Clean(p)
    <3>1. UNCHANGED <<clobbered, haunted>> \/ RemoveDirectory(p)
        BY <2>4 DEF BeginCall, BeginCreate, BeginScale, BeginStart, BeginShutdown, Begin, Crash,
           Clean, History
    <3> QED BY <2>1, <2>3, <3>1
  <2>5. CASE Create(p)
    <3>1. CASE CreateWrite(p)
        BY <3>1, Zenon DEF CreateWrite
    <3>2. CASE ~CreateWrite(p)
      <4>1. UNCHANGED <<clobbered, haunted>> \/ Save(p, call[p].copy)
          BY <2>5, <3>2 DEF Create, CreateGivesUp, CreateRead, CreateSave, CreateUnlock, Return,
             End, History
      <4> QED BY <2>1, <2>2, <4>1
    <3> QED BY <3>1, <3>2
  <2>6. CASE Scale(p)
    <3>1. \/ UNCHANGED <<clobbered, haunted>> \/ \E c : Save(p, c)
          \/ clobbered' = TRUE /\ haunted' = haunted
        BY <2>6 DEF Scale, ScaleGivesUp, UpRead, UpTasks, UpSpawn, UpNotify, UpKill, UpRestore,
           DownRead, DownKill, DownSave, ScaleUnlock, End, History
    <3> QED BY <2>1, <2>2, <3>1
  <2>7. CASE Start(p)
    <3>1. CASE StartInit(p)
        BY <3>1, Zenon DEF StartInit
    <3>2. CASE StartReady(p)
        BY <3>2, Zenon DEF StartReady
    <3>3. CASE ~StartInit(p) /\ ~StartReady(p)
      <4>1. UNCHANGED <<clobbered, haunted>> \/ RemoveDirectory(p) \/ \E c : Save(p, c)
          BY <2>7, <3>3 DEF Start, StartCheck, CleanStale, StartTasksNext, StartSpawn,
             StartSave, StartRevert,
             StartKill, End, History
      <4> QED BY <2>1, <2>2, <2>3, <4>1
    <3> QED BY <3>1, <3>2, <3>3
  <2>8. CASE Shutdown(p)
    <3>1. UNCHANGED <<clobbered, haunted>> \/ \E c : Save(p, c)
        BY <2>8 DEF Shutdown, ShutdownRead, ShutdownGate, HasBlockingBacklog, ShutdownAsk,
           ShutdownWait,
           ShutdownSave, ShutdownKill, End, History
    <3> QED BY <2>1, <2>2, <3>1
  <2> QED BY <2>4, <2>5, <2>6, <2>7, <2>8 DEF ProcStep
<1> QED BY <1>1, <1>2 DEF Calm

(* A step leaves the phase of the other calls alone.                       *)
LEMMA OthersPhase ==
    ASSUME IInv, NEW p \in Procs, ProcStep(p), NEW q \in Procs \ {p}
    PROVE  /\ pc'[q] = pc[q] /\ call'[q] = call[q]
           /\ Starting(q)' <=> Starting(q)
           /\ ScalesUp(q)' <=> ScalesUp(q)
           /\ Growing(q)' <=> Growing(q)
           /\ Founding(q)' <=> Founding(q)
           /\ Copied(q)' <=> Copied(q)
           /\ HasCopy(q)' <=> HasCopy(q)
           /\ Writing(q)' <=> Writing(q)
           /\ Handing(q)' <=> Handing(q)
           /\ HasCopy(q) \/ Writing(q) => q \in Busy
<1>1. pc'[q] = pc[q] /\ call'[q] = call[q]
    BY OthersKeep
<1>2. HasCopy(q) \/ Writing(q) => q \in Busy
    BY CopyTyped, RosterAssumption DEF Busy
<1> QED BY <1>1, <1>2 DEF HasCopy, ScalesUp, Growing, Founding, Starting, Copied, Writing,
           InCreate, Handing

(* No two calls scale the team up, orphans aside.                          *)
LEMMA OneScaler ==
    ASSUME ScalingHeld, NEW p \in Procs \ orphans, NEW q \in Procs \ orphans,
           ScalesUp(p), ScalesUp(q)
    PROVE  p = q
BY DEF ScalingHeld

(* A pane that is neither listed nor one's own is a founder's.             *)
LEMMA HandsAreLow ==
    ASSUME AllInv, Calm, NEW p \in Procs, lock["scaling"] \in {None, p}, NEW w \in Ours
    PROVE  w \in Listed \/ (Handing(p) /\ w \in call[p].added) \/ w.index <= StartWorkers
<1>1. CASE w \in Listed
    BY <1>1
<1>2. CASE InHands(w)
  <2>1. PICK q \in Procs : Handing(q) /\ w \in call[q].added
      BY <1>2 DEF InHands
  <2>2. q \notin orphans
      BY <2>1 DEF Ours
  <2>3. CASE pc[q] = "stSave"
      BY <2>1, <2>3 DEF AllInv, ShapeInv, ShapeOf, StartShape
  <2>4. CASE pc[q] # "stSave"
    <3>1. ScalesUp(q)
        BY <2>1, <2>4 DEF Handing, ScalesUp, Growing
    <3>2. q = p
        BY <2>2, <3>1, RosterAssumption DEF AllInv, ScalingHeld
    <3> QED BY <2>1, <3>2
  <2> QED BY <2>3, <2>4
<1> QED BY <1>1, <1>2 DEF AllInv, RosterInv, Accounted, Ours

(* A step that opens no pane keeps the roster, if it keeps its own part.   *)
LEMMA QuietStep ==
    ASSUME AllInv, NEW p \in Procs, ProcStep(p), Calm',
           panes' \subseteq panes, Listed \cap panes' \subseteq Listed',
           orphans' = orphans \/ (orphans' = orphans \ {p} /\ Bare(p)'),
           (Listed' = Listed /\ stale \ {p} \subseteq stale') \/ Busy \ {p} \subseteq stale',
           Handing(p) => \/ Handing(p)' /\ call'[p].added = call[p].added
                         \/ call[p].added \cap panes' = {}
                         \/ p \notin orphans /\ call[p].added \cap panes' \subseteq Listed',
           p \notin orphans => /\ Growing(p)' => \A w \in Ours : w.index < call'[p].cfg.nextIndex
                               /\ Starting(p)' => \A w \in Ours : w.index > StartWorkers
                               /\ p \notin stale' => SyncOf(p)'
                               /\ Founding(p)' => \/ Founding(p)
                                                  \/ \A q \in Procs \ orphans : ~Founding(q)
    PROVE  RosterInv'
<1>0. Accounted /\ Distinct /\ OneFounder /\ Calm
    BY CalmBefore DEF AllInv, RosterInv
<1>1. /\ \A q \in Procs \ orphans : FreeOf(q) /\ (q \notin stale => SyncOf(q))
      /\ IInv
    BY <1>0 DEF AllInv, RosterInv
<1>2. p \in orphans /\ p \notin orphans' => ~Growing(p)' /\ ~Starting(p)' /\ ~Founding(p)' /\ SyncOf(p)' /\ ~Handing(p)'
    BY DEF Bare, HasCopy, ScalesUp, Founding, SyncOf, Handing, Growing
<1>3. Accounted'
  <2> SUFFICES ASSUME NEW w \in panes' PROVE w \in Listed' \/ InHands(w)'
      BY DEF Accounted
  <2>1. CASE w \in Listed
      BY <2>1
  <2>2. CASE InHands(w)
    <3>1. PICK q \in Procs : Handing(q) /\ w \in call[q].added
        BY <2>2 DEF InHands
    <3>2. CASE q = p
        BY <3>1, <3>2 DEF InHands
    <3>3. CASE q # p
        BY <1>1, <3>1, <3>3, OthersPhase DEF InHands
    <3> QED BY <3>2, <3>3
  <2> QED BY <1>0, <2>1, <2>2 DEF Accounted
<1>4. Ours' \subseteq Ours
  <2> SUFFICES ASSUME NEW w \in Ours', NEW q \in orphans, Handing(q), w \in call[q].added
               PROVE  FALSE
      BY DEF Ours
  <2>0. w \in panes'
      BY DEF Ours
  <2>1. CASE q = p
    <3>1. Handing(p)' /\ call'[p].added = call[p].added
        BY <2>0, <2>1
    <3>2. p \in orphans'
        BY <1>2, <2>1, <3>1
    <3> QED BY <2>1, <3>1, <3>2 DEF Ours
  <2>2. CASE q # p
    <3>1. q \in orphans' /\ q \in Procs
        BY <1>1, <2>2 DEF IInv, TypeOK, HistoryTyped
    <3> QED BY <1>1, <2>2, <3>1, OthersPhase DEF Ours
  <2> QED BY <2>1, <2>2
<1>5. Distinct'
    BY <1>0, <1>4 DEF Distinct
<1>6. ASSUME NEW q \in Procs \ orphans'
      PROVE  FreeOf(q)' /\ (q \notin stale' => SyncOf(q)')
  <2>1. CASE q = p
      BY <1>2, <1>4, <1>6, <2>1 DEF FreeOf
  <2>2. CASE q # p
    <3>1. q \notin orphans
        BY <1>6, <2>2
    <3>2. FreeOf(q)'
        BY <1>1, <1>4, <2>2, <3>1, OthersPhase DEF FreeOf
    <3>3. ASSUME q \notin stale', HasCopy(q) \/ Writing(q)
          PROVE  Listed' = Listed /\ q \notin stale
        BY <1>1, <2>2, <3>3, OthersPhase
    <3>4. q \notin stale' => SyncOf(q)'
        BY <1>1, <2>2, <3>1, <3>3, OthersPhase DEF SyncOf, HasCopy, Founding
    <3> QED BY <3>2, <3>4
  <2> QED BY <2>1, <2>2
<1>7. OneFounder'
  <2> SUFFICES ASSUME NEW q \in Procs \ orphans', NEW r \in Procs \ orphans',
                      Founding(q)', Founding(r)', q # r
               PROVE  FALSE
      BY DEF OneFounder
  <2>1. \A s \in Procs \ orphans' : s # p /\ Founding(s)' => Founding(s) /\ s \notin orphans
      BY <1>1, OthersPhase
  <2>2. p \notin orphans' /\ Founding(p)' =>
            p \notin orphans /\ (Founding(p) \/ \A s \in Procs \ orphans : ~Founding(s))
      BY <1>2
  <2> QED BY <1>0, <2>1, <2>2 DEF OneFounder
<1> QED BY <1>3, <1>5, <1>6, <1>7 DEF RosterInv

(* Writing back a copy that is not stale,                                  *)
LEMMA StoreKeeps ==
    ASSUME AllInv, NEW p \in Procs, ProcStep(p), Stores(p), Calm',
           \/ Bare(p)'
           \/ pc[p] = "ctSave" /\ pc'[p] = "ctUnlock" /\ call'[p] = call[p]
           \/ /\ pc[p] = "upNotify" /\ pc'[p] = "upSpawn"
              /\ call'[p].cfg = SavedBy(p) /\ call'[p].added = call[p].added
           \/ /\ pc[p] = "stSave" /\ pc'[p] \in {"stReady", "stRevert"} /\ call'[p] = call[p]
    PROVE  RosterInv'
<1>1. Calm /\ p \notin stale /\ p \notin orphans /\ IInv /\ ShapeInv
    BY CalmBefore DEF Stores, Calm, AllInv
<1>2. FreeOf(p) /\ SyncOf(p)
    BY <1>1 DEF AllInv, RosterInv
<1>3. SavedBy(p) \in Config /\ Listed' = SavedBy(p).workers /\ panes' = panes
    BY <1>1, SavedIsGood, RosterAssumption DEF Stores, Listed
<1>4. /\ GoneShape(p) /\ StartShape(p) /\ PanesDrawn /\ CopyShape(p)
    BY <1>1 DEF ShapeInv, ShapeOf
<1>5. Listed \cap panes' \subseteq Listed'
  <2>1. CASE pc[p] = "ctSave"
      BY <1>1, <1>2, <1>3, <2>1, SavedIsGood DEF SyncOf, Writing, SaveSteps
  <2>2. CASE pc[p] = "upNotify"
      BY <1>1, <1>2, <1>3, <2>2, SavedIsGood DEF SyncOf, ScalesUp, SaveSteps
  <2>3. CASE pc[p] = "upRestore"
      BY <1>1, <1>2, <1>3, <1>4, <2>3, SavedIsGood DEF SyncOf, ScalesUp, SaveSteps, GoneShape
  <2>4. CASE pc[p] = "downSave"
      BY <1>1, <1>2, <1>3, <1>4, <2>4, SavedIsGood DEF SyncOf, Copied, SaveSteps, GoneShape
  <2>5. CASE pc[p] = "stSave"
    <3>1. \A w \in Listed : w.pane = 0
        BY <1>1, <1>2, <2>5, CopyTyped, GoodNew DEF SyncOf
    <3>2. \A w \in panes : 1 <= w.pane
        BY <1>4 DEF PanesDrawn
    <3> QED BY <1>3, <3>1, <3>2
  <2>6. CASE pc[p] \in {"stReady", "stRevert", "shSave"}
      BY <1>1, <1>2, <1>3, <2>6, SavedIsGood DEF SyncOf, Copied, SaveSteps
  <2> QED BY <2>1, <2>2, <2>3, <2>4, <2>5, <2>6 DEF Stores, SaveSteps
<1>6. Handing(p) => call[p].added \subseteq Listed'
  <2>1. CASE pc[p] = "upNotify"
      BY <1>1, <1>3, <2>1, SavedIsGood DEF SaveSteps
  <2>2. CASE pc[p] = "stSave"
      BY <1>1, <1>3, <1>4, <2>2, SavedIsGood DEF SaveSteps, StartShape
  <2> QED BY <2>1, <2>2 DEF Stores, SaveSteps, Handing
<1>7. /\ Growing(p)' => \A w \in Ours : w.index < call'[p].cfg.nextIndex
      /\ Starting(p)' => \A w \in Ours : w.index > StartWorkers
      /\ SyncOf(p)'
      /\ Founding(p)' => Founding(p)
  <2>1. CASE Bare(p)'
      BY <2>1 DEF Bare, HasCopy, ScalesUp, Founding, SyncOf
  <2>2. CASE pc[p] = "ctSave" /\ pc'[p] = "ctUnlock" /\ call'[p] = call[p]
    <3>1. /\ Growing(p)' <=> Growing(p)
          /\ Starting(p)' <=> Starting(p)
          /\ Founding(p)' <=> Founding(p)
          /\ ScalesUp(p)' <=> ScalesUp(p)
          /\ ~Copied(p)' /\ ~Writing(p)' /\ pc'[p] # "stSave"
        BY <2>2 DEF Growing, Starting, Founding, ScalesUp, Copied, Writing, InCreate, CreateSteps
    <3>2. Listed' = Listed
        BY <1>1, <1>2, <1>3, <2>2, SavedIsGood DEF SyncOf, Writing, SaveSteps
    <3> QED BY <1>2, <2>2, <3>1, <3>2 DEF FreeOf, SyncOf
  <2>3. CASE /\ pc[p] = "upNotify" /\ pc'[p] = "upSpawn"
             /\ call'[p].cfg = SavedBy(p) /\ call'[p].added = call[p].added
    <3>1. ~Starting(p)' /\ ~Founding(p)' /\ ~Writing(p)' /\ pc'[p] # "stSave"
        BY <2>3 DEF Starting, Founding, Writing, InCreate, CreateSteps
    <3>2. HasCopy(p) /\ ScalesUp(p)
        BY <2>3 DEF HasCopy, ScalesUp
    <3>3. /\ call[p].cfg \in Config /\ GoodAt(call[p].cfg, tick.pane)
          /\ Listed = call[p].cfg.workers /\ lock["scaling"] = p
          /\ \A w \in call[p].added : w.index <= call[p].cfg.nextIndex
        BY <1>1, <1>2, <1>4, <2>3, <3>2, CopyTyped
           DEF CopyShape, SyncOf, AllInv, ScalingHeld, ShapeInv, ShapeOf, ScaleShape
    <3>4. SavedBy(p).nextIndex = call[p].cfg.nextIndex + 1
        BY <2>3, <3>3 DEF SavedBy, Joined
    <3>5. \A w \in Ours : w.index \in Nat
        BY <1>1 DEF Ours, IInv, TypeOK, Worker
    <3>6. \A w \in Ours : w.index < call'[p].cfg.nextIndex
      <4> SUFFICES ASSUME NEW w \in Ours PROVE w.index < call[p].cfg.nextIndex + 1
          BY <2>3, <3>4
      <4>1. w \in Listed \/ w \in call[p].added \/ w.index <= StartWorkers
          BY <1>1, <3>3, HandsAreLow
      <4> QED BY <3>3, <3>5, <4>1, RosterAssumption DEF GoodAt, Config
    <3> QED BY <1>3, <2>3, <3>1, <3>6 DEF SyncOf
  <2>4. CASE pc[p] = "stSave" /\ pc'[p] \in {"stReady", "stRevert"} /\ call'[p] = call[p]
    <3>1. /\ ~Growing(p)' /\ ~Starting(p)' /\ ~Founding(p)' /\ ~ScalesUp(p)' /\ ~Writing(p)'
          /\ pc'[p] # "stSave"
        BY <2>4 DEF Growing, Starting, Founding, ScalesUp, Writing, InCreate, CreateSteps
    <3>2. Listed' = call'[p].cfg.workers
        BY <1>1, <1>3, <2>4, SavedIsGood DEF SaveSteps
    <3> QED BY <3>1, <3>2 DEF SyncOf
  <2> QED BY <2>1, <2>2, <2>3, <2>4
<1> QED BY <1>1, <1>3, <1>5, <1>6, <1>7, QuietStep DEF Stores

(* a step that changes no file but the panes,                              *)
Continues(p) ==
    /\ Growing(p)' => \/ Growing(p) /\ call'[p].cfg = call[p].cfg
                      \/ \A w \in Ours : w.index < call'[p].cfg.nextIndex
    /\ Starting(p)' => Starting(p)
    /\ Founding(p)' => Founding(p)
    /\ ScalesUp(p)' \/ Copied(p)' \/ Starting(p)' =>
          \/ Current # None /\ call'[p].cfg = Current
          \/ (ScalesUp(p) \/ Copied(p) \/ Starting(p)) /\ call'[p].cfg = call[p].cfg
    /\ Writing(p)' => \/ Current # None /\ call'[p].copy = Current
                      \/ Writing(p) /\ call'[p].copy.workers = call[p].copy.workers
    /\ pc'[p] # "stSave"
    /\ Handing(p) => \/ Handing(p)' /\ call'[p].added = call[p].added
                     \/ call[p].added \cap panes' = {}

LEMMA LookKeeps ==
    ASSUME AllInv, NEW p \in Procs, ProcStep(p), Looks(p), Calm', panes' \subseteq panes,
           p \notin orphans => Continues(p),
           Handing(p) => \/ Handing(p)' /\ call'[p].added = call[p].added
                         \/ call[p].added \cap panes' = {}
    PROVE  RosterInv'
<1>1. Calm /\ Listed' = Listed
    BY CalmBefore DEF AllInv, Looks, Listed
<1>2. p \notin orphans => FreeOf(p) /\ (p \notin stale => SyncOf(p))
    BY <1>1 DEF AllInv, RosterInv
<1>3. p \in stale /\ p \notin stale' => SyncOf(p)'
    BY DEF Looks, Bare, HasCopy, Founding, SyncOf
<1>4. ASSUME p \notin orphans, p \notin stale PROVE SyncOf(p)'
    BY <1>1, <1>2, <1>4 DEF Continues, SyncOf, Listed
<1> QED BY <1>1, <1>2, <1>3, <1>4, QuietStep DEF Looks, Continues, FreeOf

LEMMA BareContinues ==
    ASSUME NEW p \in Procs, Bare(p)', ~Handing(p)
    PROVE  Continues(p)
BY DEF Continues, Bare, HasCopy, ScalesUp, Founding

LEMMA CreateKeeps ==
    ASSUME AllInv, NEW p \in Procs, Create(p), Calm'
    PROVE  RosterInv'
<1>0. /\ IInv /\ ShapeInv /\ ProcStep(p) /\ panes' = panes
      /\ Looks(p) \/ Stores(p)
    BY CreateMoves DEF AllInv, ProcStep
<1>1. ~Handing(p)
    BY DEF Create, CreateGivesUp, CreateRead, CreateWrite, CreateSave, CreateUnlock, Handing
<1>2. CASE Looks(p)
  <2>1. Continues(p)
    <3> USE DEF ScalesUp, Growing, Founding, Starting, Copied, Writing, InCreate, CreateSteps,
                SameLocals
    <3>1. CASE Bare(p)'
        BY <1>1, <3>1, BareContinues
    <3>2. CASE /\ pc[p] = "ctLock" /\ pc'[p] = "ctWrite" /\ Current # None
               /\ call'[p].copy = Current /\ call'[p].back = call[p].back
               /\ SameLocals(call'[p], call[p])
        BY <1>1, <3>2 DEF Continues
    <3>3. CASE /\ CreateWrite(p) /\ pc'[p] = "ctSave"
               /\ call'[p].copy = Advanced(call[p].copy, call[p].id)
               /\ call'[p].back = call[p].back /\ SameLocals(call'[p], call[p])
      <4>1. pc[p] = "ctWrite"
          BY <3>3 DEF CreateWrite
      <4>2. call'[p].copy.workers = call[p].copy.workers
          BY <1>0, <3>3, <4>1, CopyTyped DEF Advanced, Config
      <4> QED BY <1>1, <3>3, <4>1, <4>2 DEF Continues
    <3>4. CASE CreateSave(p) /\ pc'[p] = "ctUnlock" /\ call'[p] = call[p]
        BY <1>1, <3>4 DEF Continues, CreateSave
    <3>5. CASE /\ CreateUnlock(p) /\ call[p].back \in {"upTasks", "stTasks"}
               /\ pc'[p] = call[p].back /\ SameLocals(call'[p], call[p])
        BY <1>1, <3>5 DEF Continues, CreateUnlock
    <3> QED BY <1>0, <3>1, <3>2, <3>3, <3>4, <3>5, CreateSteps_Own
  <2> QED BY <1>0, <1>1, <1>2, <2>1, LookKeeps
<1>3. CASE Stores(p)
  <2>1. pc[p] = "ctSave"
      BY <1>3 DEF Stores, SaveSteps, Create, CreateGivesUp, CreateRead, CreateWrite, CreateSave,
         CreateUnlock
  <2>2. Bare(p)' \/ (pc'[p] = "ctUnlock" /\ call'[p] = call[p])
      BY <1>0, <2>1, CreateSteps_Own DEF CreateWrite, CreateUnlock
  <2> QED BY <1>0, <1>3, <2>1, <2>2, StoreKeeps
<1> QED BY <1>0, <1>2, <1>3

(* a pane that scaleUp opens under a new number,                           *)
LEMMA SpawnKeeps ==
    ASSUME AllInv, NEW p \in Procs, UpSpawn(p), pc'[p] = "upNotify",
           panes' = panes \cup {NewWorker(p)},
           call'[p].cfg = call[p].cfg,
           call'[p].added = call[p].added \cup {NewWorker(p)},
           Calm'
    PROVE  RosterInv'
<1> DEFINE W == NewWorker(p)
<1>0. /\ IInv /\ ShapeInv /\ ScalingHeld /\ ProcStep(p) /\ pc[p] = "upSpawn"
      /\ Listed' = Listed /\ UNCHANGED <<stale, orphans>>
    BY DEF AllInv, ProcStep, Scale, UpSpawn, Listed, Current, History
<1>1. /\ Calm /\ Accounted /\ Distinct /\ OneFounder
      /\ \A q \in Procs \ orphans : FreeOf(q) /\ (q \notin stale => SyncOf(q))
    BY <1>0, CalmBefore DEF AllInv, RosterInv
<1>2. /\ Growing(p) /\ ScalesUp(p) /\ HasCopy(p) /\ ~Handing(p) /\ Handing(p)'
      /\ ~Growing(p)' /\ ~Starting(p)' /\ ~Founding(p)' /\ ~Copied(p)' /\ ~Writing(p)'
    BY <1>0 DEF Growing, ScalesUp, HasCopy, Handing, Starting, Founding, Copied, Writing,
       InCreate, CreateSteps
<1>3. /\ W.index = call[p].cfg.nextIndex /\ call[p].cfg \in Config
      /\ GoodAt(call[p].cfg, tick.pane)
    BY <1>0, <1>2, CopyTyped DEF NewWorker, ShapeInv, ShapeOf, CopyShape
<1>4. W.index > StartWorkers /\ W.index \in Nat
    BY <1>3 DEF GoodAt, Config
<1> HIDE DEF W
<1>5. panes' = panes \cup {W} /\ call'[p].added = call[p].added \cup {W}
    BY DEF W
<1>6. Accounted'
  <2> SUFFICES ASSUME NEW w \in panes' PROVE w \in Listed' \/ InHands(w)'
      BY DEF Accounted
  <2>1. CASE w = W
      BY <1>2, <1>5, <2>1 DEF InHands
  <2>2. CASE w \in panes /\ InHands(w)
    <3>1. PICK q \in Procs : Handing(q) /\ w \in call[q].added
        BY <2>2 DEF InHands
    <3>2. CASE q = p
        BY <1>2, <1>5, <3>1, <3>2 DEF InHands
    <3>3. CASE q # p
        BY <1>0, <3>1, <3>3, OthersPhase DEF InHands
    <3> QED BY <3>2, <3>3
  <2> QED BY <1>0, <1>1, <1>5, <2>1, <2>2 DEF Accounted
<1>7. Ours' \subseteq Ours \cup {W} /\ (p \in orphans => Ours' \subseteq Ours)
  <2> SUFFICES ASSUME NEW w \in Ours', w # W \/ p \in orphans PROVE w \in Ours
      OBVIOUS
  <2>1. w # W
      BY <1>0, <1>2, <1>5 DEF Ours
  <2>2. w \in panes
      BY <1>5, <2>1 DEF Ours
  <2>3. \A q \in orphans : Handing(q) => w \notin call[q].added
    <3> SUFFICES ASSUME NEW q \in orphans, Handing(q), w \in call[q].added PROVE FALSE
        OBVIOUS
    <3>1. q \in Procs
        BY <1>0 DEF IInv, TypeOK, HistoryTyped
    <3>2. Handing(q)' /\ w \in call'[q].added /\ q \in orphans'
        BY <1>0, <1>2, <1>5, <3>1, OthersPhase
    <3> QED BY <3>2 DEF Ours
  <2> QED BY <2>2, <2>3 DEF Ours
<1>8. p \notin orphans => \A w \in Ours : w.index < W.index /\ w.index \in Nat
    BY <1>0, <1>1, <1>2, <1>3 DEF FreeOf, Ours, IInv, TypeOK, Worker
<1>9. Distinct'
  <2> SUFFICES ASSUME NEW v \in Ours', NEW w \in Ours', v.index = w.index PROVE v = w
      BY DEF Distinct
  <2>1. CASE p \in orphans
      BY <1>1, <1>7, <2>1 DEF Distinct
  <2>2. CASE p \notin orphans
    <3>1. v \in Ours \cup {W} /\ w \in Ours \cup {W}
        BY <1>7
    <3>2. CASE v \in Ours /\ w \in Ours
        BY <1>1, <3>2 DEF Distinct
    <3> QED BY <1>4, <1>8, <2>2, <3>1, <3>2
  <2> QED BY <2>1, <2>2
<1>10. ASSUME NEW q \in Procs \ orphans'
       PROVE  FreeOf(q)' /\ (q \notin stale' => SyncOf(q)')
  <2>1. CASE q = p
      BY <1>0, <1>1, <1>2, <2>1 DEF FreeOf, SyncOf
  <2>2. CASE q # p
    <3>1. FreeOf(q) /\ (q \notin stale => SyncOf(q)) /\ q \notin orphans
        BY <1>0, <1>1
    <3>2. SyncOf(q)' <=> SyncOf(q)
        BY <1>0, <2>2, OthersPhase DEF SyncOf
    <3>3. Growing(q)' => \A w \in Ours' : w.index < call'[q].cfg.nextIndex
      <4>1. CASE p \in orphans
          BY <1>0, <1>7, <2>2, <3>1, <4>1, OthersPhase DEF FreeOf
      <4>2. CASE p \notin orphans
          BY <1>0, <1>2, <2>2, <3>1, <4>2, OneScaler, OthersPhase DEF ScalesUp
      <4> QED BY <4>1, <4>2
    <3>4. Starting(q)' => \A w \in Ours' : w.index > StartWorkers
        BY <1>0, <1>4, <1>7, <2>2, <3>1, OthersPhase DEF FreeOf
    <3> QED BY <1>0, <3>1, <3>2, <3>3, <3>4 DEF FreeOf
  <2> QED BY <2>1, <2>2
<1>11. OneFounder'
    BY <1>0, <1>1, <1>2, OthersPhase DEF OneFounder
<1> QED BY <1>6, <1>9, <1>10, <1>11 DEF RosterInv

LEMMA ScaleKeeps ==
    ASSUME AllInv, NEW p \in Procs, Scale(p), Calm'
    PROVE  RosterInv'
<1> USE DEF ScalesUp, Growing, Founding, Starting, Copied, Writing, InCreate, CreateSteps, Handing
<1>0. /\ IInv /\ ShapeInv /\ ScalingHeld /\ ProcStep(p) /\ Calm
      /\ Looks(p) \/ Stores(p)
      /\ lock \in [Locks -> Procs \cup {None}]
    BY ScaleMoves, CalmBefore DEF AllInv, ProcStep, IInv, TypeOK
<1>1. CASE Stores(p)
  <2>1. pc[p] \in {"upNotify", "upRestore", "downSave"}
      BY <1>1 DEF Stores, SaveSteps, Scale, ScaleGivesUp, UpRead, UpTasks, UpSpawn, UpNotify,
         UpKill, UpRestore, DownRead, DownKill, DownSave, ScaleUnlock
  <2>2. CASE Bare(p)'
      BY <1>0, <1>1, <2>2, StoreKeeps
  <2>3. CASE UpNotify(p) /\ pc'[p] = "upKill" /\ call'[p] = call[p] /\ UNCHANGED <<manifest, json, History>>
    <3>1. Looks(p)
        BY <2>3 DEF Looks, Current, History
    <3>2. Continues(p)
        BY <2>3 DEF Continues, UpNotify
    <3> QED BY <1>0, <1>1, <3>1, <3>2, <2>3, LookKeeps DEF Stores, Continues
  <2>4. CASE /\ UpNotify(p) /\ pc'[p] \in {"upSpawn", "scUnlock"}
             /\ call'[p].cfg = Joined(call[p].cfg, call[p].added)
             /\ call'[p].added = call[p].added
    <3>1. pc[p] = "upNotify" /\ call'[p].cfg = SavedBy(p)
        BY <2>4 DEF UpNotify, SavedBy
    <3>2. CASE pc'[p] = "scUnlock"
        BY <2>2, <3>2, IdleIsBare
    <3> QED BY <1>0, <1>1, <2>4, <3>1, <3>2, StoreKeeps
  <2> QED BY <1>0, <2>1, <2>2, <2>3, <2>4, ScaleSteps_Own
             DEF UpRead, UpTasks, UpSpawn, UpKill, DownRead, DownKill
<1>2. CASE Looks(p) /\ Bare(p)' /\ pc'[p] \in {"idle", "scUnlock"}
  <2>1. ~Handing(p) /\ panes' \subseteq panes
    <3>1. pc[p] \notin SaveSteps
        BY <1>2 DEF Looks, Calm
    <3>2. pc'[p] \notin {"upNotify", "upKill", "upRestore"}
        BY <1>2
    <3>3. ~UpKill(p) /\ ~UpNotify(p) /\ (UpSpawn(p) => panes' = panes)
        BY <1>0, <3>1, <3>2, PcOf DEF UpSpawn, UpKill, UpNotify, SaveSteps
    <3> QED BY <3>3 DEF Scale, ScaleGivesUp, UpRead, UpTasks, UpSpawn, UpRestore, DownRead,
               DownKill, DownSave, ScaleUnlock, Files
  <2>2. Continues(p)
      BY <1>2, <2>1, BareContinues
  <2> QED BY <1>0, <1>2, <2>1, <2>2, LookKeeps
<1>3. CASE /\ UpRead(p) /\ pc'[p] = "upTasks" /\ Current # None
           /\ call'[p].cfg = Current /\ call'[p].added = call[p].added
           /\ call'[p].first = Current.nextIndex
  <2>1. pc[p] = "upLock" /\ panes' = panes /\ lock["scaling"] = None
      BY <1>0, <1>3 DEF UpRead, Take, Calm, Locks
  <2>2. GoodAt(Current, tick.pane) /\ Listed = Current.workers /\ Current \in Config
      BY <1>0, <1>3, CopyTyped DEF ShapeInv, Listed
  <2>3. \A w \in Ours : w.index < call'[p].cfg.nextIndex
    <3> SUFFICES ASSUME NEW w \in Ours PROVE w.index < Current.nextIndex
        BY <1>3
    <3>1. w \in Listed \/ w.index <= StartWorkers
        BY <1>0, <2>1, HandsAreLow
    <3>2. w.index \in Nat
        BY <1>0 DEF Ours, IInv, TypeOK, Worker
    <3> QED BY <2>2, <3>1, <3>2, RosterAssumption DEF GoodAt, Config
  <2>4. Continues(p)
      BY <1>3, <2>1, <2>3 DEF Continues
  <2>5. Looks(p)
      BY <1>0, <2>1 DEF Stores, SaveSteps
  <2> QED BY <1>0, <2>1, <2>4, <2>5, LookKeeps
<1>4. CASE /\ UpTasks(p) /\ pc'[p] \in {"ctLock", "upSpawn"}
           /\ pc'[p] = "ctLock" => call'[p].back = "upTasks"
           /\ SameLocals(call'[p], call[p])
  <2>1. pc[p] = "upTasks" /\ panes' = panes
      BY <1>4 DEF UpTasks, Files
  <2>2. Continues(p)
      BY <1>4, <2>1 DEF Continues, SameLocals
  <2>3. Looks(p)
      BY <1>0, <2>1 DEF Stores, SaveSteps
  <2> QED BY <1>0, <2>1, <2>2, <2>3, LookKeeps
<1>5. CASE UpSpawn(p) /\ pc'[p] = "upKill" /\ call'[p] = call[p] /\ UNCHANGED <<panes, tick>>
  <2>1. pc[p] = "upSpawn"
      BY <1>5 DEF UpSpawn
  <2>2. Continues(p)
      BY <1>5, <2>1 DEF Continues
  <2>3. Looks(p)
      BY <1>0, <2>1 DEF Stores, SaveSteps
  <2> QED BY <1>0, <1>5, <2>1, <2>2, <2>3, LookKeeps
<1>6. CASE /\ UpSpawn(p) /\ pc'[p] = "upNotify"
           /\ panes' = panes \cup {NewWorker(p)}
           /\ call'[p].cfg = call[p].cfg
           /\ call'[p].added = call[p].added \cup {NewWorker(p)}
    BY <1>6, SpawnKeeps
<1>7. CASE UpNotify(p) /\ Looks(p)
  <2>1. pc[p] = "upNotify" /\ panes' = panes /\ pc'[p] = "upKill"
      BY <1>7 DEF UpNotify, Looks, SaveSteps, Calm
  <2>2. call'[p] = call[p]
      BY <1>0, <1>7, <2>1, IdleIsBare, ScaleSteps_Own DEF UpRead, UpTasks, UpSpawn, UpKill,
         DownRead, DownKill
  <2>3. Continues(p)
      BY <2>1, <2>2 DEF Continues
  <2> QED BY <1>0, <1>7, <2>1, <2>2, <2>3, LookKeeps
<1>8. CASE UpKill(p) /\ pc'[p] = "upRestore" /\ call'[p] = call[p]
  <2>1. pc[p] = "upKill" /\ panes' = panes \ call[p].added
      BY <1>8 DEF UpKill
  <2>2. Continues(p)
      BY <1>8, <2>1 DEF Continues
  <2>3. Looks(p)
      BY <1>0, <2>1 DEF Stores, SaveSteps
  <2> QED BY <1>0, <2>1, <2>2, <2>3, LookKeeps
<1>9. CASE /\ DownRead(p) /\ pc'[p] = "downKill" /\ Current # None
           /\ call'[p].cfg = Current
  <2>1. pc[p] = "downLock" /\ panes' = panes
      BY <1>9 DEF DownRead
  <2>2. Continues(p)
      BY <1>9, <2>1 DEF Continues
  <2>3. Looks(p)
      BY <1>0, <2>1 DEF Stores, SaveSteps
  <2> QED BY <1>0, <2>1, <2>2, <2>3, LookKeeps
<1>10. CASE DownKill(p) /\ pc'[p] = "downSave" /\ call'[p] = call[p]
  <2>1. pc[p] = "downKill" /\ panes' \subseteq panes
      BY <1>10 DEF DownKill
  <2>2. Continues(p)
      BY <1>10, <2>1 DEF Continues
  <2>3. Looks(p)
      BY <1>0, <2>1 DEF Stores, SaveSteps
  <2> QED BY <1>0, <2>1, <2>2, <2>3, LookKeeps
<1> QED BY <1>0, <1>1, <1>2, <1>3, <1>4, <1>5, <1>6, <1>7, <1>8, <1>9, <1>10, ScaleSteps_Own

(* the panes that startTeam opens,                                         *)
LEMMA FoundKeeps ==
    ASSUME AllInv, NEW p \in Procs, StartSpawn(p), pc'[p] = "stSave",
           panes' = panes \cup NewWorkers, call'[p].added = NewWorkers,
           Calm'
    PROVE  RosterInv'
<1> DEFINE W == NewWorkers
<1>0. /\ IInv /\ ShapeInv /\ ScalingHeld /\ ProcStep(p) /\ pc[p] = "stSpawn"
      /\ Listed' = Listed /\ UNCHANGED <<stale, orphans>>
    BY DEF AllInv, ProcStep, Start, StartSpawn, Listed, Current, History
<1>1. /\ Calm /\ Accounted /\ Distinct /\ OneFounder
      /\ \A q \in Procs \ orphans : FreeOf(q) /\ (q \notin stale => SyncOf(q))
    BY <1>0, CalmBefore DEF AllInv, RosterInv
<1>2. /\ Starting(p) /\ Founding(p) /\ Handing(p)' /\ ~Handing(p) /\ Founding(p)'
      /\ ~Growing(p)' /\ ~Starting(p)' /\ ~ScalesUp(p)' /\ ~Copied(p)' /\ ~Writing(p)'
    BY <1>0 DEF Growing, ScalesUp, HasCopy, Handing, Starting, Founding, Copied, Writing,
       InCreate, CreateSteps
<1>3. call[p].cfg.workers = Founders
    BY <1>0, <1>2 DEF ShapeInv, ShapeOf, StartShape
<1>4. /\ \A w \in W : w.index \in 1 .. StartWorkers
      /\ \A v, w \in W : v.index = w.index => v = w
      /\ StartWorkers \in Nat
    BY RosterAssumption DEF NewWorkers
<1> HIDE DEF W
<1>5. panes' = panes \cup W /\ call'[p].added = W
    BY DEF W
<1>6. Accounted'
  <2> SUFFICES ASSUME NEW w \in panes' PROVE w \in Listed' \/ InHands(w)'
      BY DEF Accounted
  <2>1. CASE w \in W
      BY <1>2, <1>5, <2>1 DEF InHands
  <2>2. CASE w \in panes /\ InHands(w)
    <3>1. PICK q \in Procs : Handing(q) /\ w \in call[q].added
        BY <2>2 DEF InHands
    <3> QED BY <1>0, <1>2, <3>1, OthersPhase DEF InHands
  <2> QED BY <1>0, <1>1, <1>5, <2>1, <2>2 DEF Accounted
<1>7. Ours' \subseteq Ours \cup W /\ (p \in orphans => Ours' \subseteq Ours)
  <2> SUFFICES ASSUME NEW w \in Ours', w \notin W \/ p \in orphans PROVE w \in Ours
      OBVIOUS
  <2>1. w \notin W
      BY <1>0, <1>2, <1>5 DEF Ours
  <2>2. w \in panes
      BY <1>5, <2>1 DEF Ours
  <2>3. \A q \in orphans : Handing(q) => w \notin call[q].added
    <3> SUFFICES ASSUME NEW q \in orphans, Handing(q), w \in call[q].added PROVE FALSE
        OBVIOUS
    <3>1. q \in Procs \ {p}
        BY <1>0, <1>2 DEF IInv, TypeOK, HistoryTyped
    <3>2. Handing(q)' /\ w \in call'[q].added /\ q \in orphans'
        BY <1>0, <3>1, OthersPhase
    <3> QED BY <3>2 DEF Ours
  <2> QED BY <2>2, <2>3 DEF Ours
<1>8. p \notin orphans => \A w \in Ours : w.index > StartWorkers
    BY <1>1, <1>2 DEF FreeOf
<1>9. Distinct'
  <2> SUFFICES ASSUME NEW v \in Ours', NEW w \in Ours', v.index = w.index PROVE v = w
      BY DEF Distinct
  <2>1. CASE v \in Ours /\ w \in Ours
      BY <1>1, <2>1 DEF Distinct
  <2>2. CASE v \in W /\ w \in W
      BY <1>4, <2>2
  <2>3. CASE p \notin orphans /\ ((v \in W /\ w \in Ours) \/ (v \in Ours /\ w \in W))
      BY <1>4, <1>8, <2>3
  <2> QED BY <1>7, <2>1, <2>2, <2>3
<1>10. ASSUME NEW q \in Procs \ orphans'
       PROVE  FreeOf(q)' /\ (q \notin stale' => SyncOf(q)')
  <2>1. CASE q = p
      BY <1>0, <1>1, <1>2, <1>3, <2>1 DEF FreeOf, SyncOf
  <2>2. CASE q # p
    <3>1. FreeOf(q) /\ (q \notin stale => SyncOf(q)) /\ q \notin orphans
        BY <1>0, <1>1
    <3>2. SyncOf(q)' <=> SyncOf(q)
        BY <1>0, <2>2, OthersPhase DEF SyncOf
    <3>3. Growing(q)' => \A w \in Ours' : w.index < call'[q].cfg.nextIndex
      <4> SUFFICES ASSUME Growing(q) PROVE \A w \in Ours' : w.index < call[q].cfg.nextIndex
          BY <1>0, <2>2, OthersPhase
      <4>1. call[q].cfg \in Config /\ GoodAt(call[q].cfg, tick.pane)
          BY <1>0, CopyTyped DEF HasCopy, ScalesUp, ShapeInv, ShapeOf, CopyShape
      <4>2. \A w \in W : w.index < call[q].cfg.nextIndex
          BY <1>4, <4>1 DEF GoodAt, Config
      <4> QED BY <1>7, <3>1, <4>2 DEF FreeOf
    <3>4. Starting(q)' => \A w \in Ours' : w.index > StartWorkers
      <4>1. CASE p \in orphans
          BY <1>0, <1>7, <2>2, <3>1, <4>1, OthersPhase DEF FreeOf
      <4>2. CASE p \notin orphans
          BY <1>0, <1>1, <1>2, <2>2, <3>1, <4>2, OthersPhase DEF OneFounder, Founding
      <4> QED BY <4>1, <4>2
    <3> QED BY <1>0, <3>1, <3>2, <3>3, <3>4 DEF FreeOf
  <2> QED BY <2>1, <2>2
<1>11. OneFounder'
    BY <1>0, <1>1, <1>2, OthersPhase DEF OneFounder
<1> QED BY <1>6, <1>9, <1>10, <1>11 DEF RosterInv

(* a new team where there is none,                                         *)
LEMMA InitKeeps ==
    ASSUME AllInv, NEW p \in Procs, StartInit(p), Calm'
    PROVE  RosterInv'
<1>0. /\ IInv /\ ShapeInv /\ ProcStep(p) /\ Calm
      /\ pc[p] = "stInit" /\ pc'[p] = "stTasks" /\ call'[p].cfg = NewTeam
    BY CalmBefore, StartInits, PcOf DEF AllInv, ProcStep, Start, StartInit
<1>1. Current = None /\ p \notin orphans /\ Current' = NewTeam /\ NewTeam # None
    BY <1>0, StartInits, RosterAssumption DEF StartInit, Calm, Current
<1>2. Listed = {} /\ Listed' = Founders /\ panes' = panes /\ orphans' = orphans
      /\ Busy \ {p} \subseteq stale'
    BY <1>1 DEF Listed, Founders, StartInit
<1>3. \A q \in Procs \ orphans : ~HasTeam(q)
    BY <1>0, <1>1, RosterAssumption DEF IInv, NoGhosts, Current, Calm, HasTeam, NeedsConfig,
       InCreate
<1>4. \A q \in Procs \ orphans : ~HasCopy(q) /\ ~Handing(q)
    BY <1>3 DEF HasTeam, NeedsConfig, ConfigSteps, HasCopy, ScalesUp, Growing, Founding, Starting,
       Copied, InCreate, Handing
<1>5. Ours = {}
  <2> SUFFICES ASSUME NEW w \in Ours PROVE FALSE
      OBVIOUS
  <2>1. InHands(w)
      BY <1>0, <1>2 DEF AllInv, RosterInv, Accounted, Ours
  <2> QED BY <1>4, <2>1 DEF InHands, Ours
<1>6. /\ ~Handing(p) /\ ~Growing(p)' /\ ~Copied(p)' /\ ~Writing(p)' /\ ~ScalesUp(p)'
    BY <1>0 DEF Handing, Growing, Copied, Writing, ScalesUp, InCreate, CreateSteps
<1>7. SyncOf(p)'
    BY <1>0, <1>2, <1>6 DEF SyncOf, Founders
<1>8. \A q \in Procs \ orphans : ~Founding(q)
    BY <1>4 DEF HasCopy
<1> QED BY <1>0, <1>2, <1>5, <1>6, <1>7, <1>8, QuietStep

(* the end of a team whose panes are closed.                               *)
LEMMA RemoveKeeps ==
    ASSUME AllInv, NEW p \in Procs, ProcStep(p), RemoveDirectory(p), panes' = panes, Bare(p)',
           Calm'
    PROVE  RosterInv'
<1>0. IInv
    BY DEF AllInv
<1>1. panes' = {}
    BY DEF RemoveDirectory, Calm
<1>2. \A q \in Procs \ orphans' : Bare(q)'
  <2> SUFFICES ASSUME NEW q \in Procs \ orphans' PROVE Bare(q)'
      OBVIOUS
  <2>1. CASE q # p
    <3>1. q \notin Orphaned(p)
        BY <2>1 DEF RemoveDirectory
    <3>2. pc[q] \in {"idle", "dead"} \/ Waits(q)
        BY <2>1, <3>1 DEF Orphaned
    <3>3. HasCopy(q) => call[q].cfg # None
        BY <1>0, CopyTyped, RosterAssumption
    <3>4. ~HasCopy(q) /\ ~Writing(q)
        BY <3>2, <3>3 DEF Waits, HasCopy, ScalesUp, Growing, Founding, Starting, Copied, Writing,
           InCreate, CreateSteps
    <3> QED BY <1>0, <2>1, <3>4, OthersPhase DEF Bare
  <2> QED BY <2>1
<1>3. \A q \in Procs \ orphans' : FreeOf(q)' /\ SyncOf(q)' /\ ~Founding(q)'
    BY <1>2 DEF Bare, HasCopy, ScalesUp, Founding, FreeOf, SyncOf
<1>4. Accounted' /\ Distinct' /\ OneFounder'
    BY <1>1, <1>3 DEF Accounted, Distinct, Ours, OneFounder
<1> QED BY <1>3, <1>4 DEF RosterInv

LEMMA StartKeeps ==
    ASSUME AllInv, NEW p \in Procs, Start(p), Calm'
    PROVE  RosterInv'
<1> USE DEF ScalesUp, Growing, Founding, Starting, Copied, Writing, InCreate, CreateSteps, Handing
<1>0. /\ IInv /\ ShapeInv /\ ProcStep(p)
      /\ Looks(p) \/ Stores(p) \/ Removes(p) \/ StartInit(p)
    BY StartMoves DEF AllInv, ProcStep
<1>1. CASE Stores(p)
  <2>1. pc[p] \in {"stSave", "stReady", "stRevert"}
      BY <1>1 DEF Stores, SaveSteps, Start, StartCheck, CleanStale, StartInit, StartTasksNext,
         StartSpawn,
         StartSave, StartReady, StartRevert, StartKill
  <2>2. Bare(p)' \/ (pc[p] = "stSave" /\ pc'[p] \in {"stReady", "stRevert"} /\ call'[p] = call[p])
      BY <1>0, <2>1, StartSteps_Own DEF StartInit, StartTasksNext, StartSpawn, StartSave
  <2> QED BY <1>0, <1>1, <2>2, StoreKeeps
<1>2. CASE Removes(p)
  <2>1. Bare(p)'
      BY <1>2, IdleIsBare DEF Removes
  <2> QED BY <1>0, <1>2, <2>1, RemoveKeeps DEF Removes
<1>3. CASE StartInit(p)
    BY <1>3, InitKeeps
<1>4. CASE Looks(p) /\ Bare(p)'
  <2>1. pc[p] # "stSave"
      BY <1>4, IdleIsBare DEF Looks, SaveSteps, Bare, HasCopy, Calm
  <2>2. ~Handing(p)
      BY <2>1 DEF Start, StartCheck, CleanStale, StartInit, StartTasksNext, StartSpawn,
         StartSave, StartReady,
         StartRevert, StartKill
  <2>3. panes' \subseteq panes
    <3>1. CASE StartSpawn(p)
      <4>1. ~Go(p, "stSave")
          BY <1>0, <1>4, PcOf DEF Bare, HasCopy
      <4> QED BY <3>1, <4>1 DEF StartSpawn
    <3> QED BY <3>1 DEF Start, StartCheck, CleanStale, StartInit, StartTasksNext, StartSave,
       StartReady,
             StartRevert, StartKill, Files
  <2> QED BY <1>0, <1>4, <2>2, <2>3, BareContinues, LookKeeps
<1>5. CASE /\ Looks(p) /\ StartTasksNext(p) /\ pc'[p] \in {"ctLock", "stSpawn"}
           /\ pc'[p] = "ctLock" => call'[p].back = "stTasks"
           /\ SameLocals(call'[p], call[p])
  <2>1. pc[p] = "stTasks" /\ panes' = panes
      BY <1>5 DEF StartTasksNext, Files
  <2>2. Continues(p)
      BY <1>5, <2>1 DEF Continues, SameLocals
  <2> QED BY <1>0, <1>5, <2>1, <2>2, LookKeeps
<1>6. CASE /\ StartSpawn(p) /\ pc'[p] = "stSave"
           /\ panes' = panes \cup NewWorkers
           /\ call'[p].added = NewWorkers
    BY <1>6, FoundKeeps
<1>7. CASE Looks(p) /\ StartSave(p) /\ pc'[p] \in {"stReady", "stRevert"}
    BY <1>7 DEF Looks, StartSave, SaveSteps, Calm
<1> QED BY <1>0, <1>1, <1>2, <1>3, <1>4, <1>5, <1>6, <1>7, StartSteps_Own

LEMMA ShutdownKeeps ==
    ASSUME AllInv, NEW p \in Procs, Shutdown(p), Calm'
    PROVE  RosterInv'
<1> USE DEF ScalesUp, Growing, Founding, Starting, Copied, Writing, InCreate, CreateSteps, Handing
<1>0. /\ IInv /\ ShapeInv /\ ProcStep(p) /\ ~Handing(p) /\ panes' \subseteq panes
      /\ Looks(p) \/ Stores(p)
    BY ShutdownMoves DEF AllInv, ProcStep, Shutdown, ShutdownRead, ShutdownGate,
       HasBlockingBacklog, ShutdownAsk,
       ShutdownWait, ShutdownSave, ShutdownKill, Files
<1>1. CASE Stores(p)
  <2>1. pc[p] = "shSave"
      BY <1>1 DEF Stores, SaveSteps, Shutdown, ShutdownRead, ShutdownGate, HasBlockingBacklog,
         ShutdownAsk,
         ShutdownWait, ShutdownSave, ShutdownKill
  <2>2. Bare(p)'
      BY <1>0, <2>1, ShutdownSteps_Own DEF ShutdownRead, ShutdownGate, HasBlockingBacklog,
         ShutdownAsk, ShutdownWait
  <2> QED BY <1>0, <1>1, <2>2, StoreKeeps
<1>2. CASE Looks(p)
  <2>1. CASE Bare(p)'
      BY <1>0, <1>2, <2>1, BareContinues, LookKeeps
  <2>2. CASE /\ ShutdownRead(p) /\ pc'[p] \in {"shGate", "shAsk"} /\ Current # None
             /\ call'[p].cfg = Current
    <3>1. Continues(p)
        BY <1>0, <2>2 DEF Continues
    <3> QED BY <1>0, <1>2, <3>1, LookKeeps
  <2>3. CASE /\ ShutdownGate(p) \/ ShutdownAsk(p) \/ ShutdownWait(p)
             /\ pc'[p] \in {"shAsk", "shWait", "shSave"} /\ SameLocals(call'[p], call[p])
    <3>1. pc[p] \in {"shGate", "shAsk", "shWait"}
        BY <2>3 DEF ShutdownGate, HasBlockingBacklog, ShutdownAsk, ShutdownWait
    <3>2. Continues(p)
        BY <1>0, <2>3, <3>1 DEF Continues, SameLocals
    <3> QED BY <1>0, <1>2, <3>2, LookKeeps
  <2> QED BY <1>0, <2>1, <2>2, <2>3, ShutdownSteps_Own
<1> QED BY <1>0, <1>1, <1>2

LEMMA OtherCallsKeep ==
    ASSUME AllInv, NEW p \in Procs, BeginCall(p) \/ Clean(p) \/ Crash(p), Calm'
    PROVE  RosterInv'
<1>0. IInv /\ ProcStep(p) /\ Bare(p)'
    BY BeginShape DEF AllInv, ProcStep
<1>1. CASE BeginCall(p)
  <2>1. UNCHANGED <<Files, History>> /\ pc[p] = "idle"
      BY <1>1 DEF BeginCall, BeginCreate, BeginScale, BeginStart, BeginShutdown, Begin
  <2>2. Looks(p) /\ panes' = panes /\ ~Handing(p)
      BY <2>1 DEF Looks, SaveSteps, Handing, Current, Files, History
  <2> QED BY <1>0, <2>2, BareContinues, LookKeeps
<1>2. CASE Clean(p)
    BY <1>0, <1>2, RemoveKeeps DEF Clean
<1>3. CASE Crash(p)
  <2>1. pc'[p] = "dead"
      BY <1>0, <1>3, PcOf DEF Crash
  <2> QED BY <2>1 DEF Calm, Dead
<1> QED BY <1>1, <1>2, <1>3

(* So the roster is kept by every step, and true.                          *)
LEMMA RosterKept ==
    ASSUME AllInv, NEW p \in Procs, ProcStep(p)
    PROVE  RosterInv'
<1>1. CASE Calm'
    BY <1>1, CreateKeeps, ScaleKeeps, StartKeeps, ShutdownKeeps, OtherCallsKeep DEF ProcStep
<1>2. CASE ~Calm'
    BY <1>2 DEF RosterInv
<1> QED BY <1>1, <1>2

LEMMA RosterQuiet ==
    ASSUME AllInv, Quiet, panes' = panes
    PROVE  ShapeInv' /\ ScalingHeld' /\ RosterInv'
<1>1. UNCHANGED <<manifest, json, lock, pc, call, tick, stale, orphans, clobbered, haunted, panes>>
    BY DEF Quiet, History
<1>2. ShapeInv /\ ScalingHeld /\ RosterInv
    BY DEF AllInv
<1>3. /\ Current' = Current /\ Listed' = Listed
      /\ \A p \in Procs : /\ Growing(p)' <=> Growing(p)
                          /\ ScalesUp(p)' <=> ScalesUp(p)
                          /\ Starting(p)' <=> Starting(p)
                          /\ Founding(p)' <=> Founding(p)
                          /\ Copied(p)' <=> Copied(p)
                          /\ Writing(p)' <=> Writing(p)
                          /\ HasCopy(p)' <=> HasCopy(p)
                          /\ Handing(p)' <=> Handing(p)
    BY <1>1 DEF Current, Listed, Growing, ScalesUp, Starting, Founding, Copied, Writing, HasCopy,
       Handing, InCreate
<1>4. ScalingHeld'
    BY <1>1, <1>2, <1>3 DEF ScalingHeld
<1>5. ShapeInv'
    BY <1>1, <1>2, <1>3 DEF ShapeInv, ShapeOf, ScaleShape, GoneShape, StartShape, CopyShape,
       PanesDrawn
<1>6. Ours' = Ours
    BY <1>1 DEF Ours, Handing
<1>7. Calm' <=> Calm
    BY <1>1 DEF Calm, Dead
<1>8. Accounted' <=> Accounted
    BY <1>1, <1>3 DEF Accounted, InHands
<1>9. /\ Distinct' <=> Distinct
      /\ OneFounder' <=> OneFounder
    BY <1>1, <1>3, <1>6 DEF Distinct, OneFounder
<1>10. \A p \in Procs : (FreeOf(p)' <=> FreeOf(p)) /\ (SyncOf(p)' <=> SyncOf(p))
    BY <1>1, <1>3, <1>6 DEF FreeOf, SyncOf
<1>11. RosterInv'
    BY <1>1, <1>2, <1>7, <1>8, <1>9, <1>10 DEF RosterInv
<1> QED BY <1>4, <1>5, <1>11

LEMMA RosterInvariance == Spec => []AllInv
<1>1. Init => AllInv
  <2> SUFFICES ASSUME Init PROVE ShapeInv /\ ScalingHeld /\ RosterInv
      BY InitHolds DEF AllInv
  <2>1. /\ \A p \in Procs : pc[p] = "idle"
        /\ manifest = None /\ json = None /\ panes = {} /\ orphans = {}
      BY DEF Init
  <2>2. \A p \in Procs : /\ ~Growing(p) /\ ~ScalesUp(p) /\ ~Starting(p) /\ ~Founding(p)
                         /\ ~Copied(p) /\ ~Writing(p) /\ ~HasCopy(p)
      BY <2>1 DEF Growing, ScalesUp, Starting, Founding, Copied, Writing, HasCopy, InCreate,
         CreateSteps
  <2>3. ShapeInv
      BY <2>1, <2>2 DEF ShapeInv, ShapeOf, ScaleShape, GoneShape, StartShape, CopyShape,
         PanesDrawn, Current
  <2>4. RosterInv
      BY <2>1, <2>2 DEF RosterInv, Accounted, Distinct, Ours, OneFounder, FreeOf, SyncOf
  <2> QED BY <2>2, <2>3, <2>4 DEF ScalingHeld
<1>2. AllInv /\ [Next]_vars => AllInv'
  <2> SUFFICES ASSUME AllInv, [Next]_vars PROVE AllInv'
      OBVIOUS
  <2>1. IInv /\ ShapeInv /\ ScalingHeld
      BY DEF AllInv
  <2>2. ASSUME NEW p \in Procs, ProcStep(p) PROVE AllInv'
      BY <2>1, <2>2, ProcKeeps, ShapeKept, ScalingKept, RosterKept DEF AllInv
  <2>3. ASSUME TaskDone \/ WorkerAck \/ UNCHANGED vars PROVE Quiet /\ panes' = panes
      BY <2>3 DEF TaskDone, WorkerAck, vars, Quiet, History
  <2>4. ASSUME TaskDone \/ WorkerAck \/ UNCHANGED vars PROVE AllInv'
      BY <2>1, <2>3, <2>4, RosterQuiet, DoneKeeps, AckKeeps, StutterKeeps DEF AllInv
  <2> QED BY <2>2, <2>4, NextCases
<1> QED BY <1>1, <1>2, PTL DEF Spec

(* While no stale copy was written back, no team was replaced or removed   *)
(* under running panes, scaleUp did not throw over an open pane, no call   *)
(* outlived its team and nobody died, no two panes run under one name, and *)
(* every pane is in the configuration or in the hands of the call that     *)
(* opened it, however starts, shutdowns, scaling and createTask are        *)
(* interleaved.                                                            *)
THEOREM RosterStaysTrue == Spec => []RosterIsTrue
<1>1. AllInv => RosterIsTrue
  <2> SUFFICES ASSUME AllInv, Undisturbed
               PROVE  /\ \A v, w \in panes : v.index = w.index => v = w
                      /\ panes \subseteq Listed \cup InHand
      BY DEF RosterIsTrue
  <2>1. Calm /\ orphans = {}
      BY DEF Undisturbed, Calm
  <2>2. Accounted /\ Distinct /\ Ours = panes
      BY <2>1 DEF AllInv, RosterInv, Ours
  <2>3. \A w : InHands(w) => w \in InHand
      BY DEF InHands, InHand
  <2> QED BY <2>2, <2>3 DEF Accounted, Distinct
<1> QED BY RosterInvariance, <1>1, PTL
=============================================================================
