---------------------------- MODULE TeamPhaseProofs ----------------------------
(***************************************************************************)
(* A file is good when its log leads to its phase and its counter agrees   *)
(* with the log.  Every file that is on disk, was read by the hook or will *)
(* be written by a pass is good, so that no overwriting can break it.  What*)
(* the CLI's pass has counted stays true while the pass lasts, since tasks *)
(* are created in order and a finished one is not opened again.            *)
(***************************************************************************)
EXTENDS TeamPhase, FiniteSetTheorems, TLAPS

Good(f) == f \in File /\ Leads(f) /\ Counted(f)

GoodFiles ==
    /\ Good(file)
    /\ \A m \in Monitors : pc[m] = "read" => Good(next[m])
    /\ hook # <<>> => Good(hook[1]) /\ hook[1].phase \notin Ends

IInv == TypeOK /\ GoodFiles

-----------------------------------------------------------------------------
(* The phase machine *)

(* No monitor pass throws for an illegal transition: every step of a path  *)
(* that buildTransitionPath returns is one that TRANSITIONS allows.        *)
THEOREM PathsAreLegal ==
    ASSUME NEW from \in Phases \ Ends, NEW to \in Phases, from # to
    PROVE  /\ Path(from, to) \in Seq(Phases)
           /\ Len(Path(from, to)) <= 2
           /\ \A i \in 1 .. Len(Path(from, to)) :
                Legal(IF i = 1 THEN from ELSE Path(from, to)[i - 1], Path(from, to)[i])
<1>1. CASE from = "team-exec" /\ to = "team-verify"
  BY <1>1 DEF Path, Phases, Ends, Legal
<1>2. CASE from = "team-exec" /\ to # "team-verify"
  BY <1>2 DEF Path, Phases, Ends, Legal
<1>3. CASE from = "team-fix"
  <2>1. CASE to = "team-verify"
    BY <1>3, <2>1 DEF Path, Phases, Ends, Legal
  <2>2. CASE to # "team-verify"
    <3>1. Path(from, to) = <<to>>
      BY <1>3, <2>2 DEF Path
    <3>2. Legal(from, to) /\ to \in Phases
      BY <1>3, <2>2 DEF Legal, Phases, Ends
    <3> QED BY <3>1, <3>2
  <2> QED BY <2>1, <2>2
<1>4. CASE from = "team-verify"
  <2>1. CASE to = "team-exec"
    BY <1>4, <2>1 DEF Path, Phases
  <2>2. CASE to # "team-exec"
    <3>1. Path(from, to) = <<to>>
      BY <1>4, <2>2 DEF Path
    <3>2. Legal(from, to) /\ to \in Phases
      BY <1>4, <2>2 DEF Legal, Phases, Ends
    <3> QED BY <3>1, <3>2
  <2> QED BY <2>1, <2>2
<1> QED BY <1>1, <1>2, <1>3, <1>4 DEF Phases, Ends

LEMMA FixEntriesFinite ==
    ASSUME NEW log \in Seq(Phases \X Phases)
    PROVE  IsFiniteSet(FixEntries(log)) /\ Cardinality(FixEntries(log)) \in Nat
<1>1. Len(log) \in Nat
  OBVIOUS
<1>2. IsFiniteSet(1 .. Len(log))
  BY <1>1, FS_Interval
<1>3. FixEntries(log) \subseteq 1 .. Len(log)
  BY DEF FixEntries
<1> QED BY <1>2, <1>3, FS_Subset, FS_CardinalityType

LEMMA FixEntriesAppend ==
    ASSUME NEW log \in Seq(Phases \X Phases), NEW from \in Phases, NEW to \in Phases
    PROVE  Cardinality(FixEntries(Append(log, <<from, to>>))) =
             IF to = "team-fix" /\ from \notin Ends
             THEN Cardinality(FixEntries(log)) + 1 ELSE Cardinality(FixEntries(log))
<1> DEFINE new == Append(log, <<from, to>>)
<1>1. /\ Len(new) = Len(log) + 1 /\ Len(log) \in Nat
      /\ new[Len(log) + 1] = <<from, to>>
      /\ \A i \in 1 .. Len(log) : new[i] = log[i]
  OBVIOUS
<1>2. 1 .. Len(new) = (1 .. Len(log)) \cup {Len(log) + 1}
  BY <1>1
<1>3. CASE to = "team-fix" /\ from \notin Ends
  <2>1. FixEntries(new) = FixEntries(log) \cup {Len(log) + 1}
    BY <1>1, <1>2, <1>3 DEF FixEntries
  <2>2. Len(log) + 1 \notin FixEntries(log)
    BY <1>1 DEF FixEntries
  <2> QED BY <2>1, <2>2, <1>3, FixEntriesFinite, FS_AddElement
<1>4. CASE ~(to = "team-fix" /\ from \notin Ends)
  <2>1. FixEntries(new) = FixEntries(log)
    BY <1>1, <1>2, <1>4 DEF FixEntries
  <2> QED BY <2>1, <1>4
<1> QED BY <1>3, <1>4

LEMMA MovedLeads ==
    ASSUME NEW f \in File, Leads(f), NEW to \in Phases, NEW fixes \in Nat
    PROVE  Moved(f, to, fixes) \in File /\ Leads(Moved(f, to, fixes))
<1> DEFINE new == Append(f.log, <<f.phase, to>>)
<1>1. f.log \in Seq(Phases \X Phases) /\ f.phase \in Phases
  BY DEF File
<1>2. /\ Len(new) = Len(f.log) + 1 /\ Len(f.log) \in Nat
      /\ new[Len(f.log) + 1] = <<f.phase, to>>
      /\ \A i \in 1 .. Len(f.log) : new[i] = f.log[i]
      /\ new \in Seq(Phases \X Phases) /\ new # <<>>
  BY <1>1
<1>3. /\ Moved(f, to, fixes).log = new /\ Moved(f, to, fixes).phase = to
      /\ Moved(f, to, fixes) \in File
  BY <1>2 DEF Moved, File
<1>4. ASSUME NEW i \in 1 .. Len(new)
      PROVE  IF i = 1 THEN new[i][1] \in {"team-exec"} \cup Ends
             ELSE new[i][1] = new[i - 1][2]
  <2>1. CASE i \in 1 .. Len(f.log)
    BY <2>1, <1>2 DEF Leads
  <2>2. CASE i = Len(f.log) + 1 /\ f.log = <<>>
    BY <2>2, <1>2 DEF Leads
  <2>3. CASE i = Len(f.log) + 1 /\ f.log # <<>>
    <3>1. Len(f.log) \in 1 .. Len(f.log)
      BY <2>3, <1>1, <1>2
    <3> QED BY <3>1, <2>3, <1>2 DEF Leads
  <2> QED BY <2>1, <2>2, <2>3, <1>2
<1> QED BY <1>2, <1>3, <1>4 DEF Leads

LEMMA TransitionGood ==
    ASSUME NEW f, Good(f), f.phase \notin Ends, NEW to \in Phases
    PROVE  Good(Transition(f, to))
<1>1. /\ f \in File /\ Leads(f) /\ f.fixes \in Nat /\ f.fixes <= MaxFix
      /\ f.log \in Seq(Phases \X Phases) /\ f.phase \in Phases
      /\ f.fixes = Cardinality(FixEntries(f.log))
  BY DEF Good, File, Counted
<1>2. "failed" \in Phases
  BY DEF Phases, Ends
<1>3. CASE to # "team-fix"
  BY <1>1, <1>3, MovedLeads, FixEntriesAppend DEF Transition, Good, Counted, Moved
<1>4. CASE to = "team-fix" /\ f.fixes + 1 > MaxFix
  <2>1. Transition(f, to) = Moved(f, "failed", f.fixes)
    BY <1>4 DEF Transition
  <2>2. Cardinality(FixEntries(Append(f.log, <<f.phase, "failed">>))) = f.fixes
    BY <1>1, <1>2, FixEntriesAppend
  <2>3. Moved(f, "failed", f.fixes) \in File /\ Leads(Moved(f, "failed", f.fixes))
    BY <1>1, <1>2, MovedLeads
  <2>4. Counted(Moved(f, "failed", f.fixes))
    BY <1>1, <2>2 DEF Counted, Moved
  <2> QED BY <2>1, <2>3, <2>4 DEF Good
<1>5. CASE to = "team-fix" /\ ~(f.fixes + 1 > MaxFix)
  <2>1. Transition(f, to) = Moved(f, to, f.fixes + 1)
    BY <1>5 DEF Transition
  <2>2. Cardinality(FixEntries(Append(f.log, <<f.phase, to>>))) = f.fixes + 1
    BY <1>1, <1>5, FixEntriesAppend
  <2>3. f.fixes + 1 \in Nat /\ f.fixes + 1 <= MaxFix
    BY <1>1, <1>5, PhaseAssumption
  <2>4. Moved(f, to, f.fixes + 1) \in File /\ Leads(Moved(f, to, f.fixes + 1))
    BY <1>1, <2>3, MovedLeads
  <2>5. Counted(Moved(f, to, f.fixes + 1))
    BY <2>2, <2>3 DEF Counted, Moved
  <2> QED BY <2>1, <2>4, <2>5 DEF Good
<1> QED BY <1>3, <1>4, <1>5

LEMMA FollowGood ==
    ASSUME NEW f, Good(f), f.phase \notin Ends, NEW to \in Phases, f.phase # to
    PROVE  Good(Follow(f, Path(f.phase, to)))
<1> DEFINE path == Path(f.phase, to)
<1>1. f.phase \in Phases \ Ends
  BY DEF Good, File
<1>2. CASE path = <<>>
  BY <1>2 DEF Follow
<1>3. CASE path = <<to>>
  <2>1. Follow(f, path) = Transition(f, to)
    BY <1>3 DEF Follow
  <2> QED BY <2>1, TransitionGood DEF Phases, Ends
<1>4. ASSUME NEW via \in {"team-verify", "team-exec"}, path = <<via, to>>
      PROVE  Good(Follow(f, path))
  <2>1. Follow(f, path) = Transition(Transition(f, via), to)
    BY <1>4 DEF Follow
  <2>2. Transition(f, via).phase \notin Ends
    BY <1>4 DEF Transition, Moved, Ends
  <2>3. Good(Transition(f, via))
    BY <1>4, TransitionGood DEF Phases
  <2> QED BY <2>1, <2>2, <2>3, TransitionGood DEF Phases, Ends
<1> QED BY <1>1, <1>2, <1>3, <1>4 DEF Path, Phases, Ends

LEMMA ReconcileGood ==
    ASSUME NEW f, Good(f), NEW to \in Phases
    PROVE  Good(Reconcile(f, to))
<1>1. CASE f.phase = to \/ (f.phase \in Ends /\ to \in Ends)
  BY <1>1 DEF Reconcile
<1>2. CASE f.phase # to /\ f.phase \notin Ends
  BY <1>2, FollowGood DEF Reconcile
<1>3. CASE f.phase # to /\ f.phase \in Ends /\ to \notin Ends
  <2> DEFINE new == [phase |-> to, fixes |-> 0, log |-> << <<f.phase, to>> >>]
  <2>1. f.phase \in Phases /\ to \in Phases /\ f \in File
    BY DEF Good, File, Phases, Ends
  <2>2. Reconcile(f, to) = new
    BY <1>3 DEF Reconcile
  <2>3. new \in File /\ Leads(new)
    BY <1>3, <2>1, <2>2 DEF File, Leads
  <2>4. FixEntries(<< <<f.phase, to>> >>) = {}
    BY <1>3 DEF FixEntries
  <2>5. Counted(new)
    BY <2>4, FS_EmptySet, PhaseAssumption DEF Counted
  <2> QED BY <2>2, <2>3, <2>5 DEF Good
<1> QED BY <1>1, <1>2, <1>3

-----------------------------------------------------------------------------
(* The invariant *)

LEMMA InitInv == Init => IInv
<1> SUFFICES ASSUME Init PROVE IInv
  OBVIOUS
<1>1. NewFile \in File
  BY DEF NewFile, File, Phases
<1>2. FixEntries(<<>>) = {}
  BY DEF FixEntries
<1>3. Good(NewFile)
  <2>1. Leads(NewFile)
    BY DEF Leads, NewFile
  <2>2. Counted(NewFile)
    BY <1>2, FS_EmptySet, PhaseAssumption DEF Counted, NewFile
  <2> QED BY <1>1, <2>1, <2>2 DEF Good
<1>4. GoodFiles
  BY <1>3 DEF Init, GoodFiles
<1>5. NoView \in View
  BY PhaseAssumption DEF NoView, View, Phases
<1>6. TypeOK
  <2>1. hook \in Seq(File) /\ Len(hook) \in {0, 1}
    BY DEF Init
  <2>2. changes \in 0 .. MaxChanges /\ crashes \in 0 .. MaxCrashes
    BY PhaseAssumption DEF Init
  <2> QED BY <1>1, <1>5, <2>1, <2>2 DEF Init, TypeOK
<1> QED BY <1>4, <1>6 DEF IInv

LEMMA PutTypes ==
    ASSUME TypeOK, NEW by, NEW new, Put(by, new)
    PROVE  behind' \subseteq Monitors \cup {"hook"} /\ rounds' \in Nat
BY DEF TypeOK, Put, Readers

LEMMA EnvironmentStep ==
    ASSUME IInv,
           \/ \E t \in Tasks : Create(t) \/ Finish(t) \/ Relabel(t)
           \/ DieOrRevive
    PROVE  IInv'
<1>1. UNCHANGED <<file, mode, pc, view, next, hook, result, crashes, behind, rounds>>
  BY DEF Create, Finish, Relabel, DieOrRevive, Passes, History
<1>2. task' \in [Tasks -> {"none", "open", "failed", "done", "unverified"}]
  BY DEF IInv, TypeOK, Create, Finish, Relabel, DieOrRevive
<1>3. dead' \in BOOLEAN
  BY DEF IInv, TypeOK, Create, Finish, Relabel, DieOrRevive
<1>4. changes' \in 0 .. MaxChanges
  BY PhaseAssumption DEF IInv, TypeOK, Create, Finish, Relabel, DieOrRevive, Change
<1>5. TypeOK'
  BY <1>1, <1>2, <1>3, <1>4 DEF IInv, TypeOK
<1>6. GoodFiles'
  BY <1>1 DEF IInv, GoodFiles, Good, Leads, Counted
<1> QED BY <1>5, <1>6 DEF IInv

LEMMA HookStep ==
    ASSUME IInv, HookReads \/ HookWrites
    PROVE  IInv'
<1>1. UNCHANGED <<task, dead, mode, pc, view, next, result, crashes>>
  BY DEF HookReads, HookWrites, Passes
<1>2. CASE HookReads
  <2>1. /\ hook' = <<file>> /\ file.phase \notin Ends /\ UNCHANGED <<file, behind, rounds>>
        /\ changes' \in 0 .. MaxChanges /\ file \in File
    BY <1>2, PhaseAssumption DEF HookReads, Change, History, IInv, TypeOK
  <2>2. hook' \in Seq(File) /\ Len(hook') \in {0, 1} /\ hook'[1] = file
    BY <2>1
  <2>3. TypeOK'
    BY <1>1, <2>1, <2>2 DEF IInv, TypeOK
  <2>4. Good(file)' /\ Good(hook[1])' /\ hook[1].phase' \notin Ends
    BY <2>1, <2>2 DEF IInv, GoodFiles, Good, Leads, Counted
  <2>5. GoodFiles'
    BY <1>1, <2>4 DEF IInv, GoodFiles, Good, Leads, Counted
  <2> QED BY <2>3, <2>5 DEF IInv
<1>3. CASE HookWrites
  <2>1. /\ hook # <<>> /\ hook' = <<>> /\ changes' = changes
        /\ Put("hook", Moved(hook[1], "failed", hook[1].fixes))
        /\ file' = Moved(hook[1], "failed", hook[1].fixes)
    BY <1>3 DEF HookWrites, Put
  <2>2. Good(hook[1]) /\ hook[1].phase \notin Ends
    BY <2>1 DEF IInv, GoodFiles
  <2>3. Transition(hook[1], "failed") = file'
    BY <2>1 DEF Transition
  <2>4. Good(Transition(hook[1], "failed"))
    BY <2>2, TransitionGood DEF Phases, Ends
  <2>5. Good(file)'
    BY <2>3, <2>4 DEF Good, Leads, Counted
  <2>6. TypeOK'
    BY <1>1, <2>1, <2>5, PutTypes DEF IInv, TypeOK, Good
  <2>7. GoodFiles'
    BY <1>1, <2>1, <2>5 DEF IInv, GoodFiles
  <2> QED BY <2>6, <2>7 DEF IInv
<1> QED BY <1>2, <1>3

LEMMA ListStep ==
    ASSUME IInv, NEW m \in Monitors, List(m)
    PROVE  IInv'
<1> DEFINE there == {t \in Tasks : task[t] # "none"}
<1>1. there \subseteq 1 .. MaxTasks /\ IsFiniteSet(1 .. MaxTasks) /\ Cardinality(1 .. MaxTasks) = MaxTasks
  BY FS_Interval, PhaseAssumption DEF Tasks
<1>2. Cardinality(there) \in Nat /\ Cardinality(there) <= MaxTasks
  BY <1>1, FS_Subset, FS_CardinalityType
<1>3. Cardinality(there) \in 0 .. MaxTasks
  BY <1>2, PhaseAssumption
<1>4. Target \in Phases
  BY DEF Target, Phases, Ends
<1>5. [target |-> Target, dead |-> dead, listed |-> Cardinality(there)] \in View
  BY <1>3, <1>4 DEF View, IInv, TypeOK
<1>6. /\ view' = [view EXCEPT ![m] = [target |-> Target, dead |-> dead, listed |-> Cardinality(there)]]
      /\ pc' = [pc EXCEPT ![m] = "listed"]
      /\ UNCHANGED <<task, dead, file, mode, next, hook, result, changes, crashes, behind, rounds>>
  BY DEF List, At, History
<1>7. TypeOK'
  BY <1>5, <1>6 DEF IInv, TypeOK
<1>8. GoodFiles'
  BY <1>6 DEF IInv, TypeOK, GoodFiles, Good, Leads, Counted
<1> QED BY <1>7, <1>8 DEF IInv

LEMMA ReadStep ==
    ASSUME IInv, NEW m \in Monitors, Read(m)
    PROVE  IInv'
<1> DEFINE f == Reconcile(file, view[m].target)
<1>1. /\ next' = [next EXCEPT ![m] = f]
      /\ pc' = [pc EXCEPT ![m] = "read"]
      /\ view' = [view EXCEPT ![m] = IF m = Cli THEN view[m] ELSE NoView]
      /\ UNCHANGED <<task, dead, file, mode, hook, result, changes, crashes, behind, rounds>>
  BY DEF Read, At, History
<1>2. NoView \in View
  BY PhaseAssumption DEF NoView, View, Phases
<1>3. view[m].target \in Phases
  BY DEF IInv, TypeOK, View
<1>4. Good(f)
  BY <1>3, ReconcileGood DEF IInv, GoodFiles
<1>5. TypeOK'
  <2>1. f \in File
    BY <1>4 DEF Good
  <2>2. next' \in [Monitors -> File]
    BY <1>1, <2>1 DEF IInv, TypeOK
  <2>3. view' \in [Monitors -> View]
    BY <1>1, <1>2 DEF IInv, TypeOK
  <2> QED BY <1>1, <2>2, <2>3 DEF IInv, TypeOK
<1>6. ASSUME NEW n \in Monitors, pc'[n] = "read" PROVE Good(next'[n])
  <2>1. CASE n = m
    BY <1>1, <1>4, <2>1 DEF IInv, TypeOK
  <2>2. CASE n # m
    BY <1>1, <1>6, <2>2 DEF IInv, TypeOK, GoodFiles
  <2> QED BY <2>1, <2>2
<1>7. GoodFiles'
  BY <1>1, <1>6 DEF IInv, GoodFiles, Good, Leads, Counted
<1> QED BY <1>5, <1>7 DEF IInv

LEMMA WriteStep ==
    ASSUME IInv, NEW m \in Monitors, Write(m)
    PROVE  IInv'
<1> DEFINE short == [phase |-> next[m].phase, fixes |-> 0, log |-> <<>>]
<1>1. /\ pc[m] = "read" /\ file' = next[m] /\ Put(m, next[m])
      /\ next' = [next EXCEPT ![m] = short]
      /\ pc' = [pc EXCEPT ![m] = "sync"]
      /\ UNCHANGED <<task, dead, mode, view, hook, result, changes, crashes>>
  BY DEF Write, At, Put
<1>2. Good(next[m])
  BY <1>1 DEF IInv, GoodFiles
<1>3. short \in File
  BY <1>2 DEF Good, File
<1>4. TypeOK'
  BY <1>1, <1>2, <1>3, PutTypes DEF IInv, TypeOK, Good
<1>5. GoodFiles'
  BY <1>1, <1>2 DEF IInv, TypeOK, GoodFiles, Good, Leads, Counted
<1> QED BY <1>4, <1>5 DEF IInv

LEMMA EndStep ==
    ASSUME IInv, NEW m \in Monitors, Sync(m) \/ Crash(m)
    PROVE  IInv'
<1>1. /\ view' = [view EXCEPT ![m] = NoView] /\ next' = [next EXCEPT ![m] = NewFile]
      /\ behind' \subseteq behind
      /\ UNCHANGED <<task, dead, file, hook, changes, rounds>>
  BY DEF Sync, Crash, History
<1>2. NoView \in View /\ NewFile \in File
  BY PhaseAssumption DEF NoView, View, Phases, NewFile, File
<1>3. mode' \in {"active", "ended"} /\ crashes' \in 0 .. MaxCrashes
  BY PhaseAssumption DEF Sync, Crash, IInv, TypeOK
<1>4. result' \in {"none", "completed", "failed"}
  BY DEF Sync, Crash, Exit, Outcomes, IInv, TypeOK
<1>5. \E stage \in {"idle", "exited"} : pc' = [pc EXCEPT ![m] = stage]
  BY DEF Sync, Crash, Exit, At
<1>6. TypeOK'
  BY <1>1, <1>2, <1>3, <1>4, <1>5 DEF IInv, TypeOK
<1>7. GoodFiles'
  BY <1>1, <1>5 DEF IInv, TypeOK, GoodFiles, Good, Leads, Counted
<1> QED BY <1>6, <1>7 DEF IInv

LEMMA NextInv == IInv /\ [Next]_vars => IInv'
<1> SUFFICES ASSUME IInv, [Next]_vars PROVE IInv'
  OBVIOUS
<1>1. CASE UNCHANGED vars
  BY <1>1 DEF vars, IInv, TypeOK, GoodFiles, Good, Leads, Counted
<1>2. CASE Next
  BY <1>2, EnvironmentStep, HookStep, ListStep, ReadStep, WriteStep, EndStep DEF Next, Pass
<1> QED BY <1>1, <1>2

LEMMA Invariance == Spec => []IInv
BY InitInv, NextInv, PTL DEF Spec

(* The phase file, the copies of it and what the passes hold keep their    *)
(* form.                                                                   *)
THEOREM TypeCorrect == Spec => []TypeOK
<1>1. IInv => TypeOK
  BY DEF IInv
<1> QED BY <1>1, Invariance, PTL

(* However many monitors and hook calls overwrite each other's phase file, *)
(* its log leads without a gap to its phase.                               *)
THEOREM LogHasNoGap == Spec => []LogLeadsToPhase
<1>1. IInv => LogLeadsToPhase
  BY DEF IInv, GoodFiles, Good, LogLeadsToPhase
<1> QED BY <1>1, Invariance, PTL

-----------------------------------------------------------------------------
(* Fix rounds *)

(* Who is not behind holds what follows from the file there is.  So often  *)
(* as team-fix was entered the counter of that file says at least.         *)
RoundsCounted ==
    /\ rounds <= file.fixes
    /\ \A m \in Monitors :
         pc[m] = "read" /\ m \notin behind => \E to \in Phases : next[m] = Reconcile(file, to)
    /\ hook # <<>> /\ "hook" \notin behind => hook[1] = file

RInv == IInv /\ RoundsCounted

(* new counts what it adds to f.                                           *)
CountsOn(f, new) ==
    \/ f.phase \in Ends /\ new.phase \notin Ends
    \/ new.fixes >= f.fixes + IF new.phase = "team-fix" /\ f.phase # "team-fix" THEN 1 ELSE 0

LEMMA ReconcileCounts ==
    ASSUME NEW f \in File, NEW to \in Phases
    PROVE  CountsOn(f, Reconcile(f, to))
<1>1. f.fixes \in Nat
  BY DEF File
<1>2. CASE f.phase = to \/ (f.phase \in Ends /\ to \in Ends)
  BY <1>1, <1>2 DEF Reconcile, CountsOn
<1>3. CASE f.phase # to /\ f.phase \in Ends /\ to \notin Ends
  BY <1>3 DEF Reconcile, CountsOn
<1>4. CASE f.phase # to /\ f.phase \notin Ends
  <2> DEFINE path == Path(f.phase, to)
             new == Follow(f, path)
  <2>1. Reconcile(f, to) = new
    BY <1>4 DEF Reconcile
  <2>2. CASE path = <<>>
    BY <1>1, <2>1, <2>2 DEF Follow, CountsOn
  <2>3. CASE path = <<to>>
    <3>1. new = Transition(f, to)
      BY <2>3 DEF Follow
    <3> QED BY <1>1, <2>1, <3>1 DEF Transition, Moved, CountsOn
  <2>4. ASSUME NEW via \in {"team-verify", "team-exec"}, path = <<via, to>>
        PROVE  CountsOn(f, new)
    <3>1. new = Transition(Moved(f, via, f.fixes), to)
      BY <2>4 DEF Follow, Transition
    <3> QED BY <1>1, <2>1, <3>1 DEF Transition, Moved, CountsOn
  <2> QED BY <2>1, <2>2, <2>3, <2>4 DEF Path
<1> QED BY <1>2, <1>3, <1>4

LEMMA PutCounts ==
    ASSUME RInv, NEW by, NEW new \in File, Put(by, new), by \notin behind => CountsOn(file, new)
    PROVE  rounds' <= file'.fixes
<1>1. rounds \in Nat /\ rounds <= file.fixes /\ file.fixes \in Nat /\ new.fixes \in Nat
  BY DEF RInv, IInv, TypeOK, RoundsCounted, File
<1>2. file' = new
  BY DEF Put
<1>3. CASE by \in behind
  BY <1>1, <1>2, <1>3 DEF Put
<1>4. CASE by \notin behind
  BY <1>1, <1>2, <1>4 DEF Put, CountsOn
<1> QED BY <1>3, <1>4

(* After a write the others hold what they held, and are behind unless it  *)
(* changed nothing.                                                        *)
LEMMA RoundsOn == ASSUME RInv, [Next]_vars PROVE RInv'
<1>1. IInv' /\ TypeOK /\ TypeOK'
  BY NextInv DEF RInv, IInv
<1>2. ASSUME UNCHANGED <<file, pc, next, hook, behind, rounds>> PROVE RoundsCounted'
  BY <1>2 DEF RInv, RoundsCounted
<1>3. ASSUME HookReads PROVE RoundsCounted'
  <2>1. hook' = <<file>> /\ UNCHANGED <<file, pc, next, behind, rounds>>
    BY <1>3 DEF HookReads, Passes, History
  <2>2. hook'[1] = file
    BY <2>1
  <2>3. \A m \in Monitors : pc'[m] = "read" /\ m \notin behind'
          => \E to \in Phases : next'[m] = Reconcile(file', to)
    BY <2>1 DEF RInv, RoundsCounted
  <2> QED BY <2>1, <2>2, <2>3 DEF RInv, RoundsCounted
<1>4. ASSUME HookWrites PROVE RoundsCounted'
  <2> DEFINE new == Moved(hook[1], "failed", hook[1].fixes)
  <2>1. Put("hook", new) /\ hook # <<>> /\ hook' = <<>> /\ UNCHANGED <<pc, next>>
    BY <1>4 DEF HookWrites, Passes
  <2>2. new \in File /\ file' = new
    BY <1>1, <2>1 DEF Put, TypeOK
  <2>3. "hook" \notin behind => CountsOn(file, new)
    BY <1>1, <2>1 DEF RInv, RoundsCounted, Moved, CountsOn, TypeOK, File
  <2>4. rounds' <= file'.fixes
    BY <2>1, <2>2, <2>3, PutCounts
  <2>5. ASSUME NEW m \in Monitors, pc'[m] = "read", m \notin behind'
        PROVE  m \notin behind /\ file' = file
    BY <2>1, <2>5, PhaseAssumption DEF Put, Readers
  <2>6. \A m \in Monitors : pc'[m] = "read" /\ m \notin behind'
          => \E to \in Phases : next'[m] = Reconcile(file', to)
    BY <2>1, <2>5 DEF RInv, RoundsCounted
  <2> QED BY <2>1, <2>4, <2>6 DEF RoundsCounted
<1>5. ASSUME NEW m \in Monitors, Read(m) PROVE RoundsCounted'
  <2>1. /\ next' = [next EXCEPT ![m] = Reconcile(file, view[m].target)]
        /\ pc' = [pc EXCEPT ![m] = "read"] /\ view[m].target \in Phases
        /\ UNCHANGED <<file, hook, behind, rounds>>
    BY <1>1, <1>5 DEF Read, At, History, TypeOK, View
  <2> QED BY <1>1, <2>1 DEF RInv, RoundsCounted, TypeOK
<1>6. ASSUME NEW m \in Monitors, Write(m) PROVE RoundsCounted'
  <2>1. /\ Put(m, next[m]) /\ pc[m] = "read" /\ pc' = [pc EXCEPT ![m] = "sync"]
        /\ next[m] \in File /\ file' = next[m] /\ hook' = hook
        /\ \A n \in Monitors \ {m} : next'[n] = next[n]
    BY <1>1, <1>6 DEF Write, At, Put, TypeOK
  <2>2. m \notin behind => CountsOn(file, next[m])
    <3> SUFFICES ASSUME m \notin behind PROVE CountsOn(file, next[m])
      OBVIOUS
    <3>1. PICK to \in Phases : next[m] = Reconcile(file, to)
      BY <2>1 DEF RInv, RoundsCounted
    <3> QED BY <1>1, <3>1, ReconcileCounts DEF TypeOK
  <2>3. rounds' <= file'.fixes
    BY <2>1, <2>2, PutCounts
  <2>4. ASSUME NEW n \in Monitors, pc'[n] = "read", n \notin behind'
        PROVE  n # m /\ n \notin behind /\ file' = file /\ pc[n] = "read"
    BY <1>1, <2>1, <2>4 DEF Put, Readers, TypeOK
  <2>5. hook # <<>> /\ "hook" \notin behind' => "hook" \notin behind /\ file' = file
    BY <2>1, PhaseAssumption DEF Put, Readers
  <2> QED BY <2>1, <2>3, <2>4, <2>5 DEF RInv, RoundsCounted
<1>7. ASSUME NEW m \in Monitors, List(m) \/ Sync(m) \/ Crash(m) PROVE RoundsCounted'
  <2>1. /\ \E q \in {"listed", "idle", "exited"} : pc' = [pc EXCEPT ![m] = q]
        /\ \A n \in Monitors \ {m} : next'[n] = next[n]
        /\ UNCHANGED <<file, hook, rounds>>
        /\ behind \ {m} \subseteq behind'
    BY <1>1, <1>7 DEF List, Sync, Crash, Exit, At, History, TypeOK
  <2>2. ASSUME NEW n \in Monitors, pc'[n] = "read", n \notin behind'
        PROVE  pc[n] = "read" /\ n \notin behind /\ next'[n] = next[n]
    BY <1>1, <2>1, <2>2 DEF TypeOK
  <2>3. hook # <<>> /\ "hook" \notin behind' => "hook" \notin behind
    BY <2>1, PhaseAssumption
  <2>4. \A n \in Monitors : pc'[n] = "read" /\ n \notin behind'
          => \E to \in Phases : next'[n] = Reconcile(file', to)
    BY <2>1, <2>2 DEF RInv, RoundsCounted
  <2> QED BY <2>1, <2>3, <2>4 DEF RInv, RoundsCounted
<1>8. RoundsCounted'
  BY <1>2, <1>3, <1>4, <1>5, <1>6, <1>7
  DEF Next, vars, Create, Finish, Relabel, DieOrRevive, Pass, Passes, History
<1> QED BY <1>1, <1>8 DEF RInv

(* For any limit, any number of monitors and however they overwrite each   *)
(* other's file, the team enters team-fix at most so often from its begin, *)
(* a reopening or an undone update to the next, and no file miscounts.     *)
THEOREM FixLimitHolds == Spec => []FixLoopsAreLimited
<1>1. Init => RInv
  <2> SUFFICES ASSUME Init PROVE RoundsCounted
    BY InitInv DEF RInv
  <2> QED BY DEF Init, RoundsCounted, NewFile
<1>2. RInv /\ [Next]_vars => RInv'
  BY RoundsOn
<1>3. RInv => FixLoopsAreLimited
  <2> SUFFICES ASSUME RInv PROVE FixLoopsAreLimited
    OBVIOUS
  <2>1. rounds \in Nat /\ rounds <= file.fixes /\ Counted(file) /\ file.fixes \in Nat
    BY DEF RInv, IInv, TypeOK, GoodFiles, Good, File, RoundsCounted
  <2> QED BY <2>1, PhaseAssumption DEF FixLoopsAreLimited, Counted
<1> QED BY <1>1, <1>2, <1>3, PTL DEF Spec

-----------------------------------------------------------------------------
(* What the CLI has counted *)

(* Tasks are created in the order of their ids.                            *)
InOrder == \A t \in Tasks : task[t] # "none" => \A u \in 1 .. t - 1 : task[u] # "none"

(* While the CLI's pass lasts: what it takes for finished is, and it takes *)
(* a team for complete only if its count says so.                          *)
CountHolds ==
    pc[Cli] \in {"listed", "read", "sync"} /\ ~view[Cli].dead =>
      /\ view[Cli].target # "failed"
      /\ view[Cli].target = "complete" =>
           \A t \in 1 .. view[Cli].listed : task[t] \in {"done", "unverified"}
      /\ pc[Cli] # "listed" /\ next[Cli].phase = "complete" => view[Cli].target = "complete"

CInv == IInv /\ InOrder /\ CountHolds

(* The tasks there are, counted, are the first ones.                       *)
LEMMA CountIsPrefix ==
    ASSUME InOrder, NEW t \in 1 .. Cardinality({u \in Tasks : task[u] # "none"})
    PROVE  t \in Tasks /\ task[t] # "none"
<1> DEFINE there == {u \in Tasks : task[u] # "none"}
<1>1. there \subseteq 1 .. MaxTasks /\ IsFiniteSet(1 .. MaxTasks) /\ Cardinality(1 .. MaxTasks) = MaxTasks
  BY FS_Interval, PhaseAssumption DEF Tasks
<1>2. Cardinality(there) \in Nat /\ Cardinality(there) <= MaxTasks
  BY <1>1, FS_Subset, FS_CardinalityType
<1>3. t \in Nat /\ t >= 1 /\ t <= Cardinality(there) /\ t \in Tasks
  BY <1>2, PhaseAssumption DEF Tasks
<1>4. SUFFICES ASSUME task[t] = "none" PROVE FALSE
  BY <1>3
<1>5. there \subseteq 1 .. t - 1
  <2> SUFFICES ASSUME NEW u \in there PROVE u \in 1 .. t - 1
    OBVIOUS
  <2>1. u \in Nat /\ u >= 1 /\ u \in Tasks /\ task[u] # "none"
    BY PhaseAssumption DEF Tasks
  <2>2. ~(t \in 1 .. u - 1)
    BY <1>4, <2>1 DEF InOrder
  <2>3. u # t
    BY <1>4, <2>1
  <2> QED BY <1>3, <2>1, <2>2, <2>3
<1>6. t - 1 \in Nat /\ IsFiniteSet(1 .. t - 1) /\ Cardinality(1 .. t - 1) = t - 1
  BY <1>3, FS_Interval
<1>7. Cardinality(there) <= t - 1
  BY <1>5, <1>6, FS_Subset
<1> QED BY <1>2, <1>3, <1>7

(* A path ends where it is to lead, or in a failure for want of attempts.  *)
LEMMA FollowEnds ==
    ASSUME NEW f \in File, NEW to \in Phases, f.phase \notin Ends, f.phase # to
    PROVE  LET end == Follow(f, Path(f.phase, to)).phase
           IN  end \in {to, "failed"} \/ end = f.phase
<1> DEFINE path == Path(f.phase, to)
<1>1. \A g, p : Transition(g, p).phase \in {p, "failed"}
  BY DEF Transition, Moved
<1>2. CASE path = <<>>
  BY <1>2 DEF Follow
<1>3. CASE path = <<to>>
  <2>1. Follow(f, path) = Transition(f, to)
    BY <1>3 DEF Follow
  <2> QED BY <1>1, <2>1
<1>4. ASSUME NEW via, path = <<via, to>>
      PROVE  Follow(f, path).phase \in {to, "failed"}
  <2>1. Follow(f, path) = Transition(Transition(f, via), to)
    BY <1>4 DEF Follow
  <2> QED BY <1>1, <2>1
<1> QED BY <1>2, <1>3, <1>4 DEF Path, Phases, Ends

(* A pass finds a team complete because its count says so, or finds it so *)
(* already and counts it failed.                                           *)
LEMMA CompleteIsCounted ==
    ASSUME NEW f \in File, NEW to \in Phases \ {"failed"}, Reconcile(f, to).phase = "complete"
    PROVE  to = "complete"
<1>1. CASE f.phase = to \/ f.phase \in Ends
  BY <1>1 DEF Reconcile, Ends, Phases
<1>2. CASE f.phase # to /\ f.phase \notin Ends
  <2>1. Reconcile(f, to) = Follow(f, Path(f.phase, to))
    BY <1>2 DEF Reconcile
  <2> QED BY <1>2, <2>1, FollowEnds DEF Ends
<1> QED BY <1>1, <1>2

(* Finished tasks stay finished, and the count of the CLI's pass its own.  *)
LEMMA CountOn == ASSUME CInv, [Next]_vars PROVE CInv'
<1>1. IInv' /\ TypeOK /\ TypeOK'
  BY NextInv DEF CInv, IInv
<1>2. InOrder'
  <2>1. CASE UNCHANGED task
    BY <2>1 DEF CInv, InOrder
  <2>2. ASSUME NEW t \in Tasks, Create(t) PROVE InOrder'
    BY <1>1, <2>2 DEF CInv, InOrder, Create, TypeOK, Tasks
  <2>3. ASSUME NEW t \in Tasks, Finish(t) \/ Relabel(t) PROVE InOrder'
    <3>1. task[t] # "none" /\ \E s : s # "none" /\ task' = [task EXCEPT ![t] = s]
      BY <2>3 DEF Finish, Relabel
    <3>2. \A u \in Tasks : task'[u] # "none" <=> task[u] # "none"
      BY <1>1, <3>1 DEF TypeOK
    <3>3. \A u \in Tasks : \A w \in 1 .. u - 1 : w \in Tasks
      BY PhaseAssumption DEF Tasks
    <3> QED BY <3>2, <3>3 DEF CInv, InOrder
  <2> QED BY <2>1, <2>2, <2>3
      DEF Next, vars, DieOrRevive, HookReads, HookWrites, Pass, List, Read, Write, Sync, Crash
<1>3. \A t \in Tasks : task[t] \in {"done", "unverified"} => task'[t] \in {"done", "unverified"}
  <2>1. ASSUME NEW t \in Tasks, Create(t) \/ Finish(t) \/ Relabel(t)
        PROVE \A u \in Tasks : task[u] \in {"done", "unverified"} => task'[u] \in {"done", "unverified"}
    BY <1>1, <2>1 DEF Create, Finish, Relabel, TypeOK
  <2> QED BY <2>1
      DEF Next, vars, DieOrRevive, HookReads, HookWrites, Pass, List, Read, Write, Sync, Crash
<1>4. Cli \in Monitors
  BY PhaseAssumption
<1>5. view[Cli] \in View /\ \A n \in 1 .. view[Cli].listed : n \in Tasks
  BY <1>1, <1>4, PhaseAssumption DEF TypeOK, View, Tasks
<1>6. ASSUME UNCHANGED <<pc[Cli], view[Cli], next[Cli]>> PROVE CountHolds'
  BY <1>3, <1>5, <1>6 DEF CInv, CountHolds
<1>7. ASSUME NEW m \in Monitors, Pass(m) \/ Crash(m) PROVE CountHolds'
  <2>1. CASE m # Cli
    <3>1. UNCHANGED <<pc[Cli], view[Cli], next[Cli]>>
      <4>1. /\ \E q \in {"idle", "listed", "read", "sync", "exited"} : pc' = [pc EXCEPT ![m] = q]
        BY <1>7 DEF Pass, List, Read, Write, Sync, Crash, Exit, At
      <4>2. view' = view \/ \E v : view' = [view EXCEPT ![m] = v]
        BY <1>7, Zenon DEF Pass, List, Read, Write, Sync, Crash
      <4>3. next' = next \/ \E f : next' = [next EXCEPT ![m] = f]
        BY <1>7, Zenon DEF Pass, List, Read, Write, Sync, Crash
      <4> QED BY <1>1, <1>4, <2>1, <4>1, <4>2, <4>3 DEF TypeOK
    <3> QED BY <1>6, <3>1
  <2>2. CASE m = Cli /\ List(m)
    <3> DEFINE n == Cardinality({t \in Tasks : task[t] # "none"})
    <3>1. /\ view'[Cli] = [target |-> Target, dead |-> dead, listed |-> n]
          /\ pc'[Cli] = "listed" /\ task' = task
      BY <1>1, <1>4, <2>2 DEF List, At, TypeOK
    <3>2. /\ ~dead => Target # "failed"
          /\ Target = "complete" => ~Some("open") /\ ~Some("failed")
      BY DEF Target
    <3>3. ASSUME Target = "complete", NEW t \in 1 .. n PROVE task[t] \in {"done", "unverified"}
      <4>1. t \in Tasks /\ task[t] # "none"
        BY <3>3, CountIsPrefix DEF CInv
      <4> QED BY <1>1, <3>2, <3>3, <4>1 DEF Some, TypeOK
    <3> HIDE DEF n
    <3> QED BY <3>1, <3>2, <3>3 DEF CountHolds
  <2>3. CASE m = Cli /\ Read(m)
    <3>1. /\ view'[Cli] = view[Cli] /\ pc[Cli] = "listed" /\ task' = task
          /\ next'[Cli] = Reconcile(file, view[Cli].target)
      BY <1>1, <1>4, <2>3 DEF Read, At, TypeOK
    <3>2. file \in File /\ view[Cli].target \in Phases
      BY <1>1, <1>5 DEF TypeOK, View
    <3> QED BY <3>1, <3>2, CompleteIsCounted DEF CInv, CountHolds
  <2>4. CASE m = Cli /\ Write(m)
    BY <1>1, <1>4, <2>4 DEF Write, At, TypeOK, CInv, CountHolds
  <2>5. CASE m = Cli /\ (Sync(m) \/ Crash(m))
    BY <1>1, <1>4, <2>5 DEF Sync, Crash, Exit, At, TypeOK, CountHolds
  <2> QED BY <1>7, <2>1, <2>2, <2>3, <2>4, <2>5 DEF Pass
<1>8. CountHolds'
  BY <1>6, <1>7 DEF Next, vars, Create, Finish, Relabel, DieOrRevive, HookReads, HookWrites, Passes
<1> QED BY <1>1, <1>2, <1>8 DEF CInv

(* The CLI exits with "completed" only if every task its pass listed is    *)
(* completed then, for any number of tasks and of monitors.                *)
THEOREM CompletedTeamsAreDone == Spec => CompletedMeansDone
<1>1. Init => CInv
  <2> SUFFICES ASSUME Init PROVE InOrder /\ CountHolds
    BY InitInv DEF CInv
  <2> QED BY PhaseAssumption DEF Init, InOrder, CountHolds
<1>2. ASSUME CInv, [Next]_vars, result' = "completed", result = "none", ~view[Cli].dead,
             NEW t \in 1 .. view[Cli].listed
      PROVE  task[t] \in {"done", "unverified"}
  <2>1. PICK m \in Monitors : Sync(m)
    BY <1>2 DEF Next, vars, Create, Finish, Relabel, DieOrRevive, HookReads, HookWrites,
                Pass, List, Read, Write, Crash
  <2>2. m = Cli /\ next[Cli].phase = "complete" /\ pc[Cli] = "sync"
    BY <1>2, <2>1 DEF Sync, Exit, Outcomes, At
  <2> QED BY <1>2, <2>2 DEF CInv, CountHolds
<1>3. CInv /\ [Next]_vars
        => [result' = "completed" /\ result = "none" /\ ~view[Cli].dead =>
              \A t \in 1 .. view[Cli].listed : task[t] \in {"done", "unverified"}]_vars
  BY <1>2
<1>4. CInv /\ [Next]_vars => CInv'
  BY CountOn
<1> QED BY <1>1, <1>3, <1>4, PTL DEF Spec, CompletedMeansDone
=============================================================================
