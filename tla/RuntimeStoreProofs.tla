-------------------------- MODULE RuntimeStoreProofs --------------------------
(***************************************************************************)
(* The file lock and the logs of the runtime store, for any number of      *)
(* execs and kills, and the files of execs that do not overlap.            *)
(***************************************************************************)
EXTENDS RuntimeStore, SequenceTheorems, WellFoundedInduction, TLAPS

Persisting == {"openEvents", "writeEvents", "openMailbox", "writeMailbox", "unlock"}

(* The types the lock needs; that an engine is well typed takes induction  *)
(* over the log it is rebuilt from.                                        *)
LockTyped == /\ pc \in [Procs -> Steps]
             /\ reading \in SUBSET Procs
             /\ writing \in Procs \cup {None}

(* A process holds the shared lock from its first read to its last one,    *)
(* the exclusive lock from its first write to its unlock, and a writer is  *)
(* alone.                                                                  *)
LockInv == /\ LockTyped
           /\ \A p \in reading : pc[p] \in {"readEvents", "readMailbox"}
           /\ \A p \in Procs : pc[p] \in Persisting => writing = p
           /\ writing # None => reading = {}

LEMMA LockInit == Init => LockInv
  BY DEF Init, LockInv, LockTyped, Steps, Persisting

LEMMA LockNext == LockInv /\ [Next]_vars => LockInv'
<1> SUFFICES ASSUME LockInv, [Next]_vars
             PROVE  LockInv'
  OBVIOUS
<1> USE StoreAssumption DEF LockInv, LockTyped, Steps, Persisting, Goto
<1>1. ASSUME NEW p \in Procs, LockShared(p) \/ ReadEvents(p) \/ ReadMailbox(p)
      PROVE  LockInv'
  BY <1>1 DEF LockShared, ReadEvents, ReadMailbox
<1>2. ASSUME NEW p \in Procs, LockExclusive(p) \/ Unlock(p)
      PROVE  LockInv'
  BY <1>2 DEF LockExclusive, Unlock
<1>3. ASSUME NEW p \in Procs, OpenEvents(p) \/ WriteEvents(p)
      PROVE  LockInv'
  BY <1>3 DEF OpenEvents, WriteEvents, Locks
<1>4. ASSUME NEW p \in Procs, OpenMailbox(p) \/ WriteMailbox(p)
      PROVE  LockInv'
  BY <1>4 DEF OpenMailbox, WriteMailbox, Locks
<1>5. ASSUME NEW p \in Procs, ProcessCommand(p) \/ ViewDispatch(p) \/ Answer(p)
      PROVE  LockInv'
  BY <1>5 DEF ProcessCommand, ViewDispatch, Answer, Locks
<1>6. ASSUME NEW p \in Procs, NEW c \in Command, Exec(p, c)
      PROVE  LockInv'
  BY <1>6 DEF Exec, Locks
<1>7. ASSUME NEW p \in Procs, Killed(p)
      PROVE  LockInv'
  BY <1>7 DEF Killed
<1>8. CASE UNCHANGED vars
  BY <1>8 DEF vars
<1>9. QED
  BY <1>1, <1>2, <1>3, <1>4, <1>5, <1>6, <1>7, <1>8 DEF Next, Step

(* Only a persist changes the log, and it runs while nobody reads.         *)
LEMMA OnlyPersistsWrite == LockInv /\ [Next]_vars => (reading # {} => events' = events)
<1> SUFFICES ASSUME LockInv, [Next]_vars, reading # {}
             PROVE  events' = events
  OBVIOUS
<1>1. ASSUME NEW p \in Procs, OpenEvents(p) \/ WriteEvents(p)
      PROVE  FALSE
  BY <1>1, StoreAssumption DEF OpenEvents, WriteEvents, LockInv, Persisting
<1>2. ASSUME NEW p \in Procs, Step(p)
      PROVE  events' = events
  BY <1>1, <1>2 DEF Step, Files, LockShared, ReadEvents, ReadMailbox, ProcessCommand,
                    LockExclusive, OpenMailbox, WriteMailbox, Unlock, ViewDispatch, Answer
<1>3. ASSUME NEW p \in Procs, NEW c \in Command, Exec(p, c)
      PROVE  events' = events
  BY <1>3 DEF Exec, Files
<1>4. ASSUME NEW p \in Procs, Killed(p)
      PROVE  events' = events
  BY <1>4 DEF Killed, Files
<1>5. CASE UNCHANGED vars
  BY <1>5 DEF vars
<1>6. QED
  BY <1>2, <1>3, <1>4, <1>5 DEF Next

(* While any load reads, no persist writes: the log a load reads is one    *)
(* log, whole as its writer left it.                                       *)
THEOREM LoadsReadOneLog == Spec => LogStaysWhileRead
<1>1. LockInv /\ [Next]_vars => [reading # {} => events' = events]_vars
  BY OnlyPersistsWrite
<1>2. QED
  BY LockInit, LockNext, <1>1, PTL DEF Spec, LogStaysWhileRead

-----------------------------------------------------------------------------
(* Induction along a log, on sets of positions: what holds of no event and *)
(* of one event more holds of all.                                         *)

LEMMA Least == ASSUME NEW T, T \subseteq Nat, T # {}
               PROVE  \E n \in T : \A m \in T : n <= m
<1>1. PICK n \in T : \A m \in T : ~ (<<m, n>> \in OpToRel(<, Nat))
  BY NatLessThanWellFounded, WFMin
<1>2. \A m \in T : ~ (m < n)
  BY <1>1 DEF OpToRel
<1>3. QED
  BY <1>2

LEMMA AllPositions ==
    ASSUME NEW N \in Nat, NEW T, 0 \in T, \A n \in 1 .. N : n - 1 \in T => n \in T
    PROVE  \A n \in 0 .. N : n \in T
<1> DEFINE Missing == {n \in 0 .. N : n \notin T}
<1>1. SUFFICES ASSUME Missing # {}
               PROVE  FALSE
  OBVIOUS
<1>2. PICK n \in Missing : \A m \in Missing : n <= m
  <2>1. Missing \subseteq Nat
    OBVIOUS
  <2> HIDE DEF Missing
  <2>2. QED
    BY <1>1, <2>1, Least
<1>3. n \in 1 .. N /\ n - 1 \in 0 .. N /\ n - 1 \notin Missing
  BY <1>2
<1>4. QED
  BY <1>2, <1>3

(* A recursion over the positions of a log defines a function.             *)
Unrolls(f, base, next, N) == /\ f[0] = base
                             /\ \A n \in 1 .. N : f[n] = next[n][f[n - 1]]

LEMMA Recursion ==
    ASSUME NEW S, NEW base \in S, NEW N \in Nat, NEW next \in [1 .. N -> [S -> S]]
    PROVE  \E f \in [0 .. N -> S] : Unrolls(f, base, next, N)
<1> DEFINE Good(n, f) == f = [i \in 0 .. n |-> IF i = 0 THEN base ELSE next[i][f[i - 1]]]
           T == {n \in 0 .. N : \E f \in [0 .. n -> S] : Good(n, f)}
<1>1. 0 \in T
  <2> DEFINE g == [i \in 0 .. 0 |-> base]
  <2>1. g \in [0 .. 0 -> S] /\ Good(0, g)
    OBVIOUS
  <2>2. 0 \in 0 .. N
    OBVIOUS
  <2> HIDE DEF g, Good
  <2>3. QED
    BY <2>1, <2>2
<1>2. ASSUME NEW n \in 1 .. N, n - 1 \in T
      PROVE  n \in T
  <2>1. n - 1 \in 0 .. N /\ n \in 0 .. N
    OBVIOUS
  <2>2. PICK f \in [0 .. n - 1 -> S] : Good(n - 1, f)
    BY <1>2
  <2> DEFINE g == [i \in 0 .. n |-> IF i = n THEN next[n][f[n - 1]] ELSE f[i]]
  <2>3. \A i \in 0 .. n : i # n => i \in 0 .. n - 1
    OBVIOUS
  <2>4. g \in [0 .. n -> S]
    <3>1. f[n - 1] \in S
      BY <2>1
    <3>2. QED
      BY <2>3, <3>1
  <2>5. ASSUME NEW i \in 0 .. n
        PROVE  g[i] = IF i = 0 THEN base ELSE next[i][g[i - 1]]
    <3>1. CASE i = n
      BY <3>1, <2>1
    <3>2. CASE i # n
      <4>1. i \in 0 .. n - 1 /\ (i # 0 => i - 1 \in 0 .. n - 1 /\ i - 1 # n)
        BY <3>2, <2>3
      <4>2. g[i] = f[i] /\ (i # 0 => g[i - 1] = f[i - 1])
        BY <3>2, <4>1
      <4>3. f[i] = IF i = 0 THEN base ELSE next[i][f[i - 1]]
        BY <2>2, <4>1
      <4>4. QED
        BY <4>2, <4>3
    <3>3. QED
      BY <3>1, <3>2
  <2> HIDE DEF g
  <2>6. Good(n, g)
    BY <2>4, <2>5
  <2> HIDE DEF Good
  <2>7. QED
    BY <2>1, <2>4, <2>6
<1>3. N \in T
  <2> HIDE DEF T
  <2>1. \A n \in 0 .. N : n \in T
    BY <1>1, <1>2, AllPositions
  <2>2. QED
    BY <2>1
<1>4. PICK f \in [0 .. N -> S] : Good(N, f)
  BY <1>3
<1>5. f[0] = base
  BY <1>4
<1>6. \A n \in 1 .. N : n \in 0 .. N /\ n # 0
  OBVIOUS
<1>7. \A n \in 1 .. N : f[n] = next[n][f[n - 1]]
  BY <1>4, <1>6
<1>8. QED
  BY <1>5, <1>7 DEF Unrolls

-----------------------------------------------------------------------------
(* Engines and logs.                                                       *)

LEMMA NewEngineTyped == NewEngine \in Engine
  BY DEF NewEngine, Engine, DispatchStatus, MailStatus, Mailbox, Command

LEMMA EffectTyped == ASSUME NEW e \in Engine, NEW c \in Command
                     PROVE  Effect(e, c) \in Engine /\ Effect(e, c).log = e.log
<1>1. CASE c.kind = "AcquireAuthority"
  <2>1. c.id \in Owners
    BY <1>1 DEF Command, DispatchKinds, MailKinds
  <2>2. Effect(e, c) = [e EXCEPT !.owner = c.id]
    BY <1>1 DEF Effect, DispatchKinds, MailKinds
  <2>3. QED
    BY <2>1, <2>2 DEF Engine
<1>2. CASE c.kind \in DispatchKinds
  <2>1. c.id \in Requests /\ NewDispatchStatus[c.kind] \in DispatchStatus
    BY <1>2 DEF Command, DispatchKinds, MailKinds, NewDispatchStatus, DispatchStatus
  <2>2. Effect(e, c) = [e EXCEPT !.dispatch[c.id] = NewDispatchStatus[c.kind]]
    BY <1>2 DEF Effect, DispatchKinds, MailKinds
  <2>3. QED
    BY <2>1, <2>2 DEF Engine
<1>3. CASE c.kind \in MailKinds
  <2>1. c.id \in Messages /\ NewMailStatus[c.kind] \in MailStatus
    BY <1>3 DEF Command, DispatchKinds, MailKinds, NewMailStatus, MailStatus
  <2>2. Effect(e, c) = [e EXCEPT !.mail[c.id] = NewMailStatus[c.kind]]
    BY <1>3 DEF Effect, MailKinds, DispatchKinds
  <2>3. e.mail \in [Messages -> MailStatus]
    BY DEF Engine, Mailbox
  <2>4. [e.mail EXCEPT ![c.id] = NewMailStatus[c.kind]] \in Mailbox
    BY <2>1, <2>3 DEF Mailbox
  <2>5. QED
    BY <2>2, <2>4 DEF Engine
<1>4. CASE c.kind = "RequestReplay"
  <2>1. c.id \in Cursors
    BY <1>4 DEF Command, DispatchKinds, MailKinds
  <2>2. QED
    BY <1>4, <2>1 DEF Effect, Engine, DispatchKinds, MailKinds
<1>5. CASE c.kind \notin {"AcquireAuthority", "RequestReplay"} \cup DispatchKinds \cup MailKinds
  BY <1>5 DEF Effect
<1>6. QED
  BY <1>1, <1>2, <1>3, <1>4, <1>5

LEMMA ReplayEventTyped == ASSUME NEW e \in Engine, NEW c \in Command
                          PROVE  /\ ReplayEvent(e, c) \in Engine
                                 /\ ReplayEvent(e, c).log = e.log
  BY EffectTyped DEF ReplayEvent

LEMMA ReplaySteps ==
    ASSUME NEW log \in Seq(Command)
    PROVE  /\ Replay(log) \in [0 .. Len(log) -> Engine]
           /\ Replay(log)[0] = NewEngine
           /\ \A n \in 1 .. Len(log) :
                 Replay(log)[n] = ReplayEvent(Replay(log)[n - 1], log[n])
<1> DEFINE next == [n \in 1 .. Len(log) |-> [e \in Engine |-> ReplayEvent(e, log[n])]]
           Is(f) == f = [n \in 0 .. Len(log) |->
                           IF n = 0 THEN NewEngine ELSE ReplayEvent(f[n - 1], log[n])]
<1>1. next \in [1 .. Len(log) -> [Engine -> Engine]]
  BY ReplayEventTyped
<1>2. PICK f \in [0 .. Len(log) -> Engine] : Unrolls(f, NewEngine, next, Len(log))
  <2> HIDE DEF next
  <2>1. Len(log) \in Nat
    OBVIOUS
  <2>2. QED
    BY <1>1, <2>1, NewEngineTyped, Recursion
<1>3. Is(f)
  <2>1. ASSUME NEW n \in 0 .. Len(log), n # 0
        PROVE  f[n] = ReplayEvent(f[n - 1], log[n])
    <3>1. n \in 1 .. Len(log) /\ f[n - 1] \in Engine
      BY <2>1
    <3>2. QED
      BY <3>1, <1>2 DEF Unrolls
  <2>2. f[0] = NewEngine
    BY <1>2 DEF Unrolls
  <2>3. QED
    BY <2>1, <2>2
<1>4. Replay(log) = CHOOSE g : Is(g)
  BY DEF Replay
<1>5. Is(Replay(log))
  BY <1>3, <1>4
<1>6. ASSUME NEW n \in 1 .. Len(log)
      PROVE  n \in 0 .. Len(log) /\ n # 0 /\ n - 1 \in 0 .. Len(log)
  OBVIOUS
<1>7. Replay(log)[0] = NewEngine
  BY <1>5
<1>8. \A n \in 1 .. Len(log) : Replay(log)[n] = ReplayEvent(Replay(log)[n - 1], log[n])
  BY <1>5, <1>6
<1>9. Replay(log) \in [0 .. Len(log) -> Engine]
  <2> DEFINE T == {n \in 0 .. Len(log) : Replay(log)[n] \in Engine}
  <2>1. 0 \in T
    BY <1>7, NewEngineTyped
  <2>2. \A n \in 1 .. Len(log) : n - 1 \in T => n \in T
    <3> SUFFICES ASSUME NEW n \in 1 .. Len(log), n - 1 \in T
                 PROVE  n \in T
      OBVIOUS
    <3>1. Replay(log)[n - 1] \in Engine /\ log[n] \in Command
      OBVIOUS
    <3>2. Replay(log)[n] \in Engine
      BY <3>1, <1>8, ReplayEventTyped
    <3>3. QED
      BY <3>2, <1>6
  <2>3. \A n \in 0 .. Len(log) : n \in T
    <3> HIDE DEF T
    <3>1. Len(log) \in Nat
      OBVIOUS
    <3>2. QED
      BY <2>1, <2>2, <3>1, AllPositions
  <2>4. QED
    BY <2>3, <1>5
<1>10. QED
  BY <1>7, <1>8, <1>9

LEMMA RebuildTyped == ASSUME NEW log \in Seq(Command)
                      PROVE  Rebuild(log) \in Engine
  BY ReplaySteps DEF Rebuild

LEMMA RebuildEmpty == Rebuild(<<>>) = NewEngine
<1>1. <<>> \in Seq(Command) /\ Len(<<>>) = 0
  OBVIOUS
<1>2. QED
  BY <1>1, ReplaySteps DEF Rebuild

(* One event more leaves what was rebuilt before it as it was.             *)
LEMMA ReplayAppend ==
    ASSUME NEW log \in Seq(Command), NEW c \in Command
    PROVE  /\ Append(log, c) \in Seq(Command)
           /\ \A n \in 0 .. Len(log) : Replay(Append(log, c))[n] = Replay(log)[n]
           /\ Rebuild(Append(log, c)) = ReplayEvent(Rebuild(log), c)
<1> DEFINE longer == Append(log, c)
           T == {n \in 0 .. Len(log) : Replay(longer)[n] = Replay(log)[n]}
<1>1. /\ longer \in Seq(Command)
      /\ Len(log) \in Nat
      /\ Len(longer) = Len(log) + 1
      /\ longer[Len(log) + 1] = c
      /\ \A n \in 1 .. Len(log) : longer[n] = log[n]
  OBVIOUS
<1> HIDE DEF longer
<1>2. 0 \in T
  BY <1>1, ReplaySteps
<1>3. \A n \in 1 .. Len(log) : n - 1 \in T => n \in T
  <2> SUFFICES ASSUME NEW n \in 1 .. Len(log), n - 1 \in T
               PROVE  n \in T
    OBVIOUS
  <2>1. n \in 0 .. Len(log) /\ n \in 1 .. Len(longer)
    BY <1>1
  <2>2. Replay(log)[n] = ReplayEvent(Replay(log)[n - 1], log[n])
    BY ReplaySteps
  <2>3. Replay(longer)[n] = ReplayEvent(Replay(longer)[n - 1], longer[n])
    BY <1>1, <2>1, ReplaySteps
  <2>4. QED
    BY <1>1, <2>1, <2>2, <2>3
<1>4. \A n \in 0 .. Len(log) : n \in T
  <2> HIDE DEF T
  <2>1. QED
    BY <1>1, <1>2, <1>3, AllPositions
<1>5. Rebuild(longer) = ReplayEvent(Rebuild(log), c)
  <2>1. Len(longer) \in 1 .. Len(longer) /\ Len(longer) - 1 = Len(log) /\ Len(log) \in 0 .. Len(log)
    BY <1>1
  <2>2. Replay(longer)[Len(longer)] = ReplayEvent(Replay(longer)[Len(log)], c)
    BY <1>1, <2>1, ReplaySteps
  <2>3. QED
    BY <1>4, <2>1, <2>2 DEF Rebuild
<1>6. QED
  BY <1>1, <1>4, <1>5 DEF longer

LEMMA KeptSteps ==
    ASSUME NEW log \in Seq(Command), NEW drop
    PROVE  /\ Kept(log, drop) \in [0 .. Len(log) -> Seq(Command)]
           /\ Kept(log, drop)[0] = <<>>
           /\ \A n \in 1 .. Len(log) :
                 Kept(log, drop)[n] = IF log[n] \in drop THEN Kept(log, drop)[n - 1]
                                      ELSE Append(Kept(log, drop)[n - 1], log[n])
<1> DEFINE next == [n \in 1 .. Len(log) |->
                      [k \in Seq(Command) |-> IF log[n] \in drop THEN k ELSE Append(k, log[n])]]
           Is(f) == f = [n \in 0 .. Len(log) |->
                           IF n = 0 THEN <<>> ELSE IF log[n] \in drop THEN f[n - 1]
                                              ELSE Append(f[n - 1], log[n])]
<1>1. next \in [1 .. Len(log) -> [Seq(Command) -> Seq(Command)]]
  OBVIOUS
<1>2. PICK f \in [0 .. Len(log) -> Seq(Command)] : Unrolls(f, <<>>, next, Len(log))
  <2> HIDE DEF next
  <2>1. Len(log) \in Nat /\ <<>> \in Seq(Command)
    OBVIOUS
  <2>2. QED
    BY <1>1, <2>1, Recursion
<1>3. ASSUME NEW n \in 0 .. Len(log), n # 0
      PROVE  f[n] = IF log[n] \in drop THEN f[n - 1] ELSE Append(f[n - 1], log[n])
  <2>1. n \in 1 .. Len(log) /\ f[n - 1] \in Seq(Command)
    BY <1>3
  <2>2. f[n] = next[n][f[n - 1]]
    BY <1>2, <2>1 DEF Unrolls
  <2>3. QED
    BY <2>1, <2>2
<1>4. Is(f)
  <2>1. f[0] = <<>>
    BY <1>2 DEF Unrolls
  <2>2. QED
    BY <1>3, <2>1
<1>5. Kept(log, drop) = CHOOSE g : Is(g)
  BY DEF Kept
<1>6. Is(Kept(log, drop))
  BY <1>4, <1>5
<1> DEFINE K == Kept(log, drop)
           T == {n \in 0 .. Len(log) : K[n] \in Seq(Command)}
<1>7. \A n \in 1 .. Len(log) : n \in 0 .. Len(log) /\ n # 0 /\ log[n] \in Command
  OBVIOUS
<1>8. K[0] = <<>>
  BY <1>6
<1>9. ASSUME NEW n \in 1 .. Len(log)
      PROVE  K[n] = IF log[n] \in drop THEN K[n - 1] ELSE Append(K[n - 1], log[n])
  BY <1>6, <1>7
<1>10. DOMAIN K = 0 .. Len(log) /\ K = [n \in 0 .. Len(log) |-> K[n]]
  BY <1>6
<1> HIDE DEF K
<1>11. 0 \in T
  <2>1. K[0] \in Seq(Command)
    BY <1>8
  <2>2. QED
    BY <2>1
<1>12. \A n \in 1 .. Len(log) : n - 1 \in T => n \in T
  <2> SUFFICES ASSUME NEW n \in 1 .. Len(log), n - 1 \in T
               PROVE  n \in T
    OBVIOUS
  <2>1. K[n - 1] \in Seq(Command) /\ log[n] \in Command
    BY <1>7
  <2>2. K[n] \in Seq(Command)
    <3>1. CASE log[n] \in drop
      BY <2>1, <3>1, <1>9
    <3>2. CASE log[n] \notin drop
      <4>1. K[n] = Append(K[n - 1], log[n])
        BY <3>2, <1>9
      <4>2. QED
        BY <2>1, <4>1
    <3>3. QED
      BY <3>1, <3>2
  <2>3. QED
    BY <2>2, <1>7
<1>13. \A n \in 0 .. Len(log) : n \in T
  <2> HIDE DEF T
  <2>1. Len(log) \in Nat
    OBVIOUS
  <2>2. QED
    BY <1>11, <1>12, <2>1, AllPositions
<1>14. K \in [0 .. Len(log) -> Seq(Command)]
  BY <1>10, <1>13
<1>15. QED
  BY <1>8, <1>9, <1>14 DEF K

LEMMA WithoutTyped == ASSUME NEW log \in Seq(Command), NEW drop
                      PROVE  Without(log, drop) \in Seq(Command)
  BY KeptSteps DEF Without

-----------------------------------------------------------------------------
(* What compaction leaves of a log.                                        *)

(* The events of a log that came out of turn are of some exempt kinds.     *)
InTurn(log, exempt) ==
    \A i \in 1 .. Len(log) : log[i].kind \in exempt \/ Accepts(Replay(log)[i - 1], log[i])

LEMMA InTurnAppend ==
    ASSUME NEW log \in Seq(Command), NEW c \in Command, NEW exempt,
           InTurn(log, exempt), c.kind \in exempt \/ Accepts(Rebuild(log), c)
    PROVE  InTurn(Append(log, c), exempt)
<1> DEFINE longer == Append(log, c)
<1>1. /\ Len(longer) = Len(log) + 1
      /\ longer[Len(log) + 1] = c
      /\ \A i \in 1 .. Len(log) : longer[i] = log[i] /\ i - 1 \in 0 .. Len(log)
      /\ Len(log) \in 0 .. Len(log)
      /\ \A i \in 1 .. Len(log) + 1 : i \in 1 .. Len(log) \/ i = Len(log) + 1
  OBVIOUS
<1>2. \A n \in 0 .. Len(log) : Replay(longer)[n] = Replay(log)[n]
  BY ReplayAppend
<1> HIDE DEF longer
<1>3. ASSUME NEW i \in 1 .. Len(longer)
      PROVE  longer[i].kind \in exempt \/ Accepts(Replay(longer)[i - 1], longer[i])
  <2>1. CASE i \in 1 .. Len(log)
    BY <1>1, <1>2, <2>1 DEF InTurn
  <2>2. CASE i = Len(log) + 1
    <3>1. i - 1 = Len(log)
      BY <2>2
    <3>2. QED
      BY <1>1, <1>2, <2>2, <3>1 DEF Rebuild
  <2>3. QED
    BY <1>1, <2>1, <2>2
<1>4. QED
  BY <1>3 DEF InTurn, longer

LEMMA InTurnEmpty == ASSUME NEW exempt PROVE InTurn(<<>>, exempt)
  BY DEF InTurn

(* Two engines that tell each other apart only by some requests, which the *)
(* first does not know.                                                    *)
AlikeBut(gone, e, f) ==
    /\ e.owner = f.owner
    /\ e.mail = f.mail
    /\ \A r \in Requests : e.dispatch[r] = IF r \in gone THEN "none" ELSE f.dispatch[r]

EventsOf(gone) == {c \in Command : c.kind \in DispatchKinds /\ c.id \in gone}

LEMMA AcceptsAlike ==
    ASSUME NEW gone \in SUBSET Requests, NEW e \in Engine, NEW f \in Engine,
           AlikeBut(gone, e, f), NEW c \in Command, c \notin EventsOf(gone)
    PROVE  Accepts(e, c) <=> Accepts(f, c)
<1>1. CASE c.kind \in {"AcquireAuthority", "RenewAuthority"}
  BY <1>1 DEF Accepts, AlikeBut, Command
<1>2. CASE c.kind \in DispatchKinds
  <2>1. c.id \in Requests /\ c.id \notin gone
    BY <1>2 DEF Command, EventsOf, DispatchKinds, MailKinds
  <2>2. e.dispatch[c.id] = f.dispatch[c.id]
    BY <2>1 DEF AlikeBut
  <2>3. QED
    BY <1>2, <2>2 DEF Accepts, DispatchKinds
<1>3. CASE c.kind \in MailKinds
  BY <1>3 DEF Accepts, AlikeBut, MailKinds
<1>4. CASE c.kind \in {"RequestReplay", "CaptureSnapshot"}
  BY <1>4 DEF Accepts
<1>5. QED
  BY <1>1, <1>2, <1>3, <1>4 DEF Command, DispatchKinds, MailKinds

LEMMA EffectAlike ==
    ASSUME NEW gone \in SUBSET Requests, NEW e \in Engine, NEW f \in Engine,
           AlikeBut(gone, e, f), NEW c \in Command, c \notin EventsOf(gone)
    PROVE  AlikeBut(gone, Effect(e, c), Effect(f, c))
<1>1. CASE c.kind = "AcquireAuthority"
  <2>1. \A g \in Engine : Effect(g, c) = [g EXCEPT !.owner = c.id]
    BY <1>1 DEF Effect, DispatchKinds, MailKinds
  <2>2. QED
    BY <2>1 DEF AlikeBut, Engine
<1>2. CASE c.kind \in DispatchKinds
  <2>1. c.id \in Requests /\ c.id \notin gone
    BY <1>2 DEF Command, EventsOf, DispatchKinds, MailKinds
  <2>2. \A g \in Engine : Effect(g, c) = [g EXCEPT !.dispatch[c.id] = NewDispatchStatus[c.kind]]
    BY <1>2 DEF Effect, DispatchKinds, MailKinds
  <2>3. \A g \in Engine :
           /\ Effect(g, c).owner = g.owner
           /\ Effect(g, c).mail = g.mail
           /\ \A r \in Requests : Effect(g, c).dispatch[r] =
                 IF r = c.id THEN NewDispatchStatus[c.kind] ELSE g.dispatch[r]
    BY <2>2 DEF Engine
  <2>4. QED
    BY <2>1, <2>3 DEF AlikeBut
<1>3. CASE c.kind \in MailKinds
  <2>1. \A g \in Engine : Effect(g, c) = [g EXCEPT !.mail[c.id] = NewMailStatus[c.kind]]
    BY <1>3 DEF Effect, DispatchKinds, MailKinds
  <2>2. ASSUME NEW g \in Engine
        PROVE  /\ Effect(g, c).owner = g.owner
               /\ Effect(g, c).mail = [g.mail EXCEPT ![c.id] = NewMailStatus[c.kind]]
               /\ Effect(g, c).dispatch = g.dispatch
    <3> DEFINE box == [g.mail EXCEPT ![c.id] = NewMailStatus[c.kind]]
    <3>1. Effect(g, c) = [g EXCEPT !.mail = box]
      BY <2>1
    <3> HIDE DEF box
    <3>2. QED
      BY <3>1 DEF Engine, box
  <2>3. e.mail = f.mail /\ e.owner = f.owner
    BY DEF AlikeBut
  <2>4. /\ Effect(e, c).owner = Effect(f, c).owner
        /\ Effect(e, c).mail = Effect(f, c).mail
    <3> DEFINE box(g) == [g.mail EXCEPT ![c.id] = NewMailStatus[c.kind]]
    <3>1. box(e) = box(f)
      BY <2>3
    <3>2. \A g \in Engine : Effect(g, c).owner = g.owner /\ Effect(g, c).mail = box(g)
      BY <2>2
    <3> HIDE DEF box
    <3>3. QED
      BY <3>1, <3>2, <2>3
  <2>5. Effect(e, c).dispatch = e.dispatch /\ Effect(f, c).dispatch = f.dispatch
    BY <2>2
  <2>6. QED
    <3> DEFINE x == Effect(e, c)
               y == Effect(f, c)
    <3>1. \A r \in Requests : e.dispatch[r] = IF r \in gone THEN "none" ELSE f.dispatch[r]
      BY DEF AlikeBut
    <3>2. \A r \in Requests : x.dispatch[r] = IF r \in gone THEN "none" ELSE y.dispatch[r]
      <4>1. x.dispatch = e.dispatch /\ y.dispatch = f.dispatch
        BY <2>5
      <4> HIDE DEF x, y
      <4>2. QED
        BY <3>1, <4>1
    <3>3. x.owner = y.owner /\ x.mail = y.mail
      BY <2>4
    <3> HIDE DEF x, y
    <3>4. AlikeBut(gone, x, y)
      BY <3>2, <3>3 DEF AlikeBut
    <3>5. QED
      BY <3>4 DEF x, y
<1>4. CASE c.kind \in {"RenewAuthority", "CaptureSnapshot"}
  <2>1. \A g \in Engine : Effect(g, c) = g
    BY <1>4 DEF Effect, DispatchKinds, MailKinds
  <2>2. QED
    BY <2>1
<1>5. CASE c.kind = "RequestReplay"
  <2>1. \A g \in Engine : Effect(g, c) = [g EXCEPT !.cursor = c.id]
    BY <1>5 DEF Effect, DispatchKinds, MailKinds
  <2>2. QED
    BY <2>1 DEF AlikeBut, Engine
<1>6. QED
  BY <1>1, <1>2, <1>3, <1>4, <1>5 DEF Command, DispatchKinds, MailKinds

LEMMA DroppedAlike ==
    ASSUME NEW gone \in SUBSET Requests, NEW e \in Engine, NEW f \in Engine,
           AlikeBut(gone, e, f), NEW c \in EventsOf(gone)
    PROVE  AlikeBut(gone, e, ReplayEvent(f, c))
<1>1. c.kind \in DispatchKinds /\ c.id \in gone /\ c.id \in Requests
  BY DEF EventsOf
<1>2. Effect(f, c) = [f EXCEPT !.dispatch[c.id] = NewDispatchStatus[c.kind]]
  BY <1>1 DEF Effect, DispatchKinds, MailKinds
<1>3. AlikeBut(gone, e, Effect(f, c))
  BY <1>1, <1>2 DEF AlikeBut, Engine
<1>4. QED
  BY <1>3 DEF ReplayEvent

(* Without the events of some requests a log rebuilds the same engine but  *)
(* for those requests, and no event it keeps falls out of turn.            *)
LEMMA WithoutAlike ==
    ASSUME NEW log \in Seq(Command), NEW gone \in SUBSET Requests
    PROVE  /\ AlikeBut(gone, Rebuild(Without(log, EventsOf(gone))), Rebuild(log))
           /\ \A exempt : InTurn(log, exempt) => InTurn(Without(log, EventsOf(gone)), exempt)
           /\ \A i \in 1 .. Len(log) :
                 \/ log[i] \in EventsOf(gone)
                 \/ \E j \in 1 .. Len(Without(log, EventsOf(gone))) :
                       Without(log, EventsOf(gone))[j] = log[i]
<1> DEFINE drop == EventsOf(gone)
           K == Kept(log, drop)
           T == {n \in 0 .. Len(log) : AlikeBut(gone, Rebuild(K[n]), Replay(log)[n])}
           U(exempt) == {n \in 0 .. Len(log) : InTurn(K[n], exempt)}
           Holds(k, c) == \E j \in 1 .. Len(k) : k[j] = c
           V == {n \in 0 .. Len(log) :
                   \A i \in 1 .. n : log[i] \in drop \/ Holds(K[n], log[i])}
<1> HIDE DEF drop, K
<1>1. Len(log) \in Nat /\ Len(log) \in 0 .. Len(log)
  OBVIOUS
<1>2. /\ K \in [0 .. Len(log) -> Seq(Command)]
      /\ K[0] = <<>>
      /\ \A n \in 1 .. Len(log) :
            K[n] = IF log[n] \in drop THEN K[n - 1] ELSE Append(K[n - 1], log[n])
  BY KeptSteps DEF K
<1>3. \A n \in 1 .. Len(log) : /\ n \in 0 .. Len(log)
                               /\ n - 1 \in 0 .. Len(log)
                               /\ log[n] \in Command
                               /\ K[n - 1] \in Seq(Command)
                               /\ Rebuild(K[n - 1]) \in Engine
                               /\ Replay(log)[n - 1] \in Engine
  <2>1. ASSUME NEW n \in 1 .. Len(log)
        PROVE  n \in 0 .. Len(log) /\ n - 1 \in 0 .. Len(log) /\ log[n] \in Command
    OBVIOUS
  <2>2. QED
    BY <2>1, <1>2, ReplaySteps, RebuildTyped
<1>4. \A n \in 0 .. Len(log) : n \in T
  <2>1. 0 \in T
    <3>1. AlikeBut(gone, NewEngine, NewEngine)
      BY DEF AlikeBut, NewEngine
    <3>2. QED
      BY <1>1, <1>2, <3>1, RebuildEmpty, ReplaySteps
  <2>2. ASSUME NEW n \in 1 .. Len(log), n - 1 \in T
        PROVE  n \in T
    <3>1. /\ Replay(log)[n] = ReplayEvent(Replay(log)[n - 1], log[n])
          /\ AlikeBut(gone, Rebuild(K[n - 1]), Replay(log)[n - 1])
      BY <2>2, ReplaySteps
    <3>2. CASE log[n] \in drop
      <4>1. K[n] = K[n - 1]
        BY <1>2, <3>2
      <4>2. AlikeBut(gone, Rebuild(K[n - 1]), Replay(log)[n])
        BY <1>3, <3>1, <3>2, DroppedAlike DEF drop
      <4>3. QED
        BY <1>3, <4>1, <4>2
    <3>3. CASE log[n] \notin drop
      <4>1. K[n] = Append(K[n - 1], log[n])
        BY <1>2, <3>3
      <4>2. Rebuild(K[n]) = ReplayEvent(Rebuild(K[n - 1]), log[n])
        BY <1>3, <4>1, ReplayAppend
      <4>3. AlikeBut(gone, ReplayEvent(Rebuild(K[n - 1]), log[n]),
                           ReplayEvent(Replay(log)[n - 1], log[n]))
        BY <1>3, <3>1, <3>3, AcceptsAlike, EffectAlike DEF drop, ReplayEvent
      <4>4. QED
        BY <1>3, <3>1, <4>2, <4>3
    <3>4. QED
      BY <3>2, <3>3
  <2> HIDE DEF T
  <2>3. QED
    BY <1>1, <2>1, <2>2, AllPositions
<1>5. ASSUME NEW exempt, InTurn(log, exempt)
      PROVE  \A n \in 0 .. Len(log) : n \in U(exempt)
  <2>1. 0 \in U(exempt)
    BY <1>1, <1>2, InTurnEmpty
  <2>2. ASSUME NEW n \in 1 .. Len(log), n - 1 \in U(exempt)
        PROVE  n \in U(exempt)
    <3>1. CASE log[n] \in drop
      <4>1. K[n] = K[n - 1]
        BY <1>2, <3>1
      <4>2. QED
        BY <1>3, <2>2, <4>1
    <3>2. CASE log[n] \notin drop
      <4>1. K[n] = Append(K[n - 1], log[n])
        BY <1>2, <3>2
      <4>2. log[n].kind \in exempt \/ Accepts(Replay(log)[n - 1], log[n])
        BY <1>5 DEF InTurn
      <4>3. AlikeBut(gone, Rebuild(K[n - 1]), Replay(log)[n - 1])
        BY <1>3, <1>4
      <4>4. log[n].kind \in exempt \/ Accepts(Rebuild(K[n - 1]), log[n])
        BY <1>3, <3>2, <4>2, <4>3, AcceptsAlike DEF drop
      <4>5. InTurn(Append(K[n - 1], log[n]), exempt)
        BY <1>3, <2>2, <4>4, InTurnAppend
      <4>6. QED
        BY <1>3, <4>1, <4>5
    <3>3. QED
      BY <3>1, <3>2
  <2> HIDE DEF U
  <2>3. QED
    BY <1>1, <2>1, <2>2, AllPositions
<1>6. \A n \in 0 .. Len(log) : n \in V
  <2>1. 0 \in V
    BY <1>1
  <2>2. ASSUME NEW n \in 1 .. Len(log), n - 1 \in V
        PROVE  n \in V
    <3>1. ASSUME NEW i \in 1 .. n - 1
          PROVE  log[i] \in drop \/ Holds(K[n - 1], log[i])
      BY <2>2
    <3>2. \A i \in 1 .. n : i \in 1 .. n - 1 \/ i = n
      OBVIOUS
    <3>3. CASE log[n] \in drop
      <4>1. K[n] = K[n - 1]
        BY <1>2, <3>3
      <4>2. QED
        BY <1>3, <3>1, <3>2, <3>3, <4>1
    <3>4. CASE log[n] \notin drop
      <4>1. K[n] = Append(K[n - 1], log[n])
        BY <1>2, <3>4
      <4>2. /\ \A c : Holds(K[n - 1], c) => Holds(Append(K[n - 1], log[n]), c)
            /\ Holds(Append(K[n - 1], log[n]), log[n])
        <5> DEFINE k == K[n - 1]
        <5>1. k \in Seq(Command) /\ log[n] \in Command
          BY <1>3
        <5> HIDE DEF k
        <5>2. /\ Len(Append(k, log[n])) = Len(k) + 1
              /\ Len(k) + 1 \in 1 .. Len(k) + 1
              /\ Append(k, log[n])[Len(k) + 1] = log[n]
              /\ \A j \in 1 .. Len(k) : /\ Append(k, log[n])[j] = k[j]
                                        /\ j \in 1 .. Len(k) + 1
          BY <5>1
        <5>3. QED
          BY <5>2 DEF k
      <4> HIDE DEF Holds
      <4>3. \A i \in 1 .. n : log[i] \in drop \/ Holds(K[n], log[i])
        BY <3>1, <3>2, <4>1, <4>2
      <4>4. QED
        BY <1>3, <4>3
    <3>5. QED
      BY <3>3, <3>4
  <2> HIDE DEF V
  <2>3. QED
    BY <1>1, <2>1, <2>2, AllPositions
<1>7. QED
  <2>1. Without(log, drop) = K[Len(log)] /\ Rebuild(log) = Replay(log)[Len(log)]
    BY DEF Without, K, Rebuild
  <2>2. Len(log) \in T /\ Len(log) \in V /\ \A exempt : InTurn(log, exempt) => Len(log) \in U(exempt)
    <3> HIDE DEF T, V, U
    <3>1. QED
      BY <1>1, <1>4, <1>5, <1>6
  <2>3. QED
    BY <2>1, <2>2 DEF drop

-----------------------------------------------------------------------------
(* What load, process and compact do to an engine.                         *)

LEMMA ProcessedEngine ==
    ASSUME NEW e \in Engine, NEW c \in Command
    PROVE  /\ Process(e, c) \in Engine
           /\ Process(e, c).log = Append(e.log, c)
           /\ Process(e, c).owner = Effect(e, c).owner
           /\ Process(e, c).dispatch = Effect(e, c).dispatch
           /\ Process(e, c).mail = Effect(e, c).mail
<1>1. Effect(e, c) \in Engine /\ Effect(e, c).log = e.log
  BY EffectTyped
<1>2. Append(e.log, c) \in Seq(Command)
  BY DEF Engine
<1> DEFINE g == Effect(e, c)
<1>3. Process(e, c) = [g EXCEPT !.log = Append(e.log, c)]
  BY <1>1 DEF Process
<1> HIDE DEF g
<1>4. g \in Engine
  BY <1>1 DEF g
<1>5. /\ [g EXCEPT !.log = Append(e.log, c)] \in Engine
      /\ [g EXCEPT !.log = Append(e.log, c)].log = Append(e.log, c)
      /\ [g EXCEPT !.log = Append(e.log, c)].owner = g.owner
      /\ [g EXCEPT !.log = Append(e.log, c)].dispatch = g.dispatch
      /\ [g EXCEPT !.log = Append(e.log, c)].mail = g.mail
  BY <1>2, <1>4 DEF Engine
<1>6. QED
  BY <1>3, <1>5 DEF g

FinishedIn(e) == {r \in Requests : Finished(e, r)}

LEMMA CompactedEngine ==
    ASSUME NEW e \in Engine
    PROVE  /\ Compact(e) \in Engine
           /\ Compact(e).log = Without(e.log, EventsOf(FinishedIn(e)))
           /\ Compact(e).owner = e.owner
           /\ Compact(e).dispatch = e.dispatch
           /\ Compact(e).mail = e.mail
<1> DEFINE log == Without(e.log, EventsOf(FinishedIn(e)))
<1>1. {c \in Command : c.kind \in DispatchKinds /\ Finished(e, c.id)} = EventsOf(FinishedIn(e))
  BY DEF EventsOf, FinishedIn, Command, DispatchKinds, MailKinds
<1>2. Compact(e) = [e EXCEPT !.log = log]
  BY <1>1 DEF Compact
<1>3. log \in Seq(Command)
  BY WithoutTyped DEF Engine
<1> HIDE DEF log
<1>4. QED
  BY <1>2, <1>3 DEF Engine, log

LEMMA LoadedEngine ==
    ASSUME NEW log \in Seq(Command), NEW m \in Mailbox \cup {None}
    PROVE  /\ Load(log, m) \in Engine
           /\ Load(log, m).log = log
           /\ Load(log, m).owner = Rebuild(log).owner
           /\ Load(log, m).dispatch = Rebuild(log).dispatch
           /\ Load(log, m).mail = IF m = None THEN Rebuild(log).mail ELSE m
<1> DEFINE e == Rebuild(log)
<1>1. e \in Engine
  BY RebuildTyped
<1>2. Load(log, m) = [e EXCEPT !.log = log, !.mail = IF m = None THEN @ ELSE m]
  BY DEF Load
<1> HIDE DEF e
<1>3. CASE m = None
  <2>1. Load(log, m) = [e EXCEPT !.log = log]
    BY <1>1, <1>2, <1>3 DEF Engine
  <2>2. QED
    BY <1>1, <1>3, <2>1 DEF Engine, e
<1>4. CASE m # None
  <2>1. Load(log, m) = [e EXCEPT !.log = log, !.mail = m] /\ m \in Mailbox
    BY <1>1, <1>2, <1>4 DEF Engine
  <2>2. QED
    BY <1>1, <1>4, <2>1 DEF Engine, e
<1>5. QED
  BY <1>3, <1>4

-----------------------------------------------------------------------------
(* Types.  An exec has a command until it ends.                            *)
StoreInv == TypeOK /\ \A p \in Procs : pc[p] # "idle" => command[p] # None

LEMMA StoreInit == Init => StoreInv
  BY NewEngineTyped, StoreAssumption DEF Init, StoreInv, TypeOK, Steps

LEMMA StoreNext == StoreInv /\ [Next]_vars => StoreInv'
<1> SUFFICES ASSUME StoreInv, [Next]_vars
             PROVE  StoreInv'
  OBVIOUS
<1> USE StoreAssumption
<1>1. ASSUME NEW p \in Procs, LockShared(p) \/ LockExclusive(p) \/ Unlock(p)
      PROVE  StoreInv'
  BY <1>1 DEF LockShared, LockExclusive, Unlock, Files, Ghosts, Goto, StoreInv, TypeOK, Steps
<1>2. ASSUME NEW p \in Procs, ReadEvents(p)
      PROVE  StoreInv'
  <2>1. ASSUME NEW log \in Seq(Command)
        PROVE  [NewEngine EXCEPT !.log = log] \in Engine
    <3> DEFINE e == NewEngine
    <3>1. e \in Engine
      BY NewEngineTyped
    <3> HIDE DEF e
    <3>2. [e EXCEPT !.log = log] \in Engine
      BY <3>1 DEF Engine
    <3>3. QED
      BY <3>2 DEF e
  <2>2. engine' \in [Procs -> Engine]
    BY <1>2, <2>1, NewEngineTyped DEF ReadEvents, StoreInv, TypeOK
  <2>3. QED
    BY <1>2, <2>2 DEF ReadEvents, Files, Ghosts, Goto, StoreInv, TypeOK, Steps
<1>3. ASSUME NEW p \in Procs, ReadMailbox(p)
      PROVE  StoreInv'
  <2>1. engine[p].log \in Seq(Command)
    BY DEF StoreInv, TypeOK, Engine
  <2>2. Load(engine[p].log, mailbox) \in Engine
    BY <2>1, LoadedEngine DEF StoreInv, TypeOK
  <2>3. QED
    BY <1>3, <2>2 DEF ReadMailbox, Files, Ghosts, Goto, StoreInv, TypeOK, Steps
<1>4. ASSUME NEW p \in Procs, ProcessCommand(p)
      PROVE  StoreInv'
  <2>1. engine[p] \in Engine /\ command[p] \in Command
    BY <1>4 DEF ProcessCommand, StoreInv, TypeOK
  <2>2. /\ Process(engine[p], command[p]) \in Engine
        /\ Compact(Process(engine[p], command[p])) \in Engine
    BY <2>1, ProcessedEngine, CompactedEngine
  <2>3. QED
    BY <1>4, <2>2, NewEngineTyped
       DEF ProcessCommand, Files, Locks, Ghosts, Goto, StoreInv, TypeOK, Steps
<1>5. ASSUME NEW p \in Procs, OpenEvents(p) \/ WriteEvents(p)
      PROVE  StoreInv'
  <2>1. engine[p].log \in Seq(Command)
    BY DEF StoreInv, TypeOK, Engine
  <2>2. QED
    BY <1>5, <2>1 DEF OpenEvents, WriteEvents, Locks, Ghosts, Goto, StoreInv, TypeOK, Steps
<1>6. ASSUME NEW p \in Procs, OpenMailbox(p) \/ WriteMailbox(p)
      PROVE  StoreInv'
  <2>1. engine[p].mail \in Mailbox
    BY DEF StoreInv, TypeOK, Engine
  <2>2. QED
    BY <1>6, <2>1 DEF OpenMailbox, WriteMailbox, Locks, Ghosts, Goto, StoreInv, TypeOK, Steps
<1>7. ASSUME NEW p \in Procs, ViewDispatch(p)
      PROVE  StoreInv'
  <2>1. engine[p].dispatch \in [Requests -> DispatchStatus]
    BY DEF StoreInv, TypeOK, Engine
  <2>2. QED
    BY <1>7, <2>1 DEF ViewDispatch, Locks, Ghosts, Goto, StoreInv, TypeOK, Steps
<1>8. ASSUME NEW p \in Procs, Answer(p) \/ Killed(p)
      PROVE  StoreInv'
  BY <1>8, NewEngineTyped
     DEF Answer, Killed, Files, Locks, Goto, StoreInv, TypeOK, Steps
<1>9. ASSUME NEW p \in Procs, NEW c \in Command, Exec(p, c)
      PROVE  StoreInv'
  <2>1. c.kind \in {"QueueDispatch", "CreateMailboxMessage"} => c.id \in Requests \cup Messages
    BY DEF Command, DispatchKinds, MailKinds
  <2>2. QED
    BY <1>9, <2>1 DEF Exec, Files, Locks, Goto, StoreInv, TypeOK, Steps
<1>10. CASE UNCHANGED vars
  BY <1>10 DEF vars, StoreInv, TypeOK
<1>11. QED
  BY <1>1, <1>2, <1>3, <1>4, <1>5, <1>6, <1>7, <1>8, <1>9, <1>10 DEF Next, Step

(* Types hold of every reachable state: engines rebuilt from any log are   *)
(* engines, and files hold logs, mailboxes and views or nothing.           *)
THEOREM StoreTypes == Spec => []TypeOK
<1>1. StoreInv => TypeOK
  BY DEF StoreInv
<1>2. QED
  BY StoreInit, StoreNext, <1>1, PTL DEF Spec

-----------------------------------------------------------------------------
(* The logs that engines and the file hold are in turn but for mailbox     *)
(* events, whose file is loaded beside the log, and the engine a command   *)
(* meets is the one its log rebuilds.                                      *)
LogInv ==
    /\ events # None => InTurn(events, MailKinds)
    /\ \A p \in Procs :
          /\ InTurn(engine[p].log, MailKinds)
          /\ pc[p] = "process" => /\ engine[p].owner = Rebuild(engine[p].log).owner
                                  /\ engine[p].dispatch = Rebuild(engine[p].log).dispatch

(* Leases and requests decide whether an event of another kind is in turn. *)
LEMMA AcceptsAsRebuilt ==
    ASSUME NEW e \in Engine, NEW f \in Engine, NEW c \in Command,
           e.owner = f.owner, e.dispatch = f.dispatch, Accepts(e, c)
    PROVE  c.kind \in MailKinds \/ Accepts(f, c)
  BY DEF Accepts, MailKinds

(* A command that its engine accepts is in turn at the end of the log, and *)
(* compaction takes nothing out of turn.                                   *)
LEMMA ProcessInTurn ==
    ASSUME NEW e \in Engine, NEW c \in Command, Accepts(e, c), InTurn(e.log, MailKinds),
           e.owner = Rebuild(e.log).owner, e.dispatch = Rebuild(e.log).dispatch
    PROVE  /\ InTurn(Process(e, c).log, MailKinds)
           /\ InTurn(Compact(Process(e, c)).log, MailKinds)
<1>1. e.log \in Seq(Command)
  BY DEF Engine
<1>2. c.kind \in MailKinds \/ Accepts(Rebuild(e.log), c)
  BY <1>1, AcceptsAsRebuilt, RebuildTyped
<1>3. InTurn(Append(e.log, c), MailKinds)
  BY <1>1, <1>2, InTurnAppend
<1>4. Process(e, c) \in Engine /\ Process(e, c).log = Append(e.log, c)
  BY ProcessedEngine
<1>5. Process(e, c).log \in Seq(Command) /\ FinishedIn(Process(e, c)) \in SUBSET Requests
  BY <1>1, <1>4 DEF FinishedIn
<1>6. QED
  BY <1>3, <1>4, <1>5, CompactedEngine, WithoutAlike

LEMMA LogInit == Init => LogInv
  BY InTurnEmpty DEF Init, LogInv, NewEngine

LEMMA LogNext == StoreInv /\ LogInv /\ [Next]_vars => LogInv'
<1> SUFFICES ASSUME StoreInv, LogInv, [Next]_vars
             PROVE  LogInv'
  OBVIOUS
<1> USE DEF Goto
<1>1. /\ engine \in [Procs -> Engine]
      /\ pc \in [Procs -> Steps]
      /\ NewEngine.log = <<>>
      /\ InTurn(<<>>, MailKinds)
  BY InTurnEmpty DEF StoreInv, TypeOK, NewEngine
<1>2. ASSUME NEW p \in Procs, ReadEvents(p)
      PROVE  LogInv'
  <2>1. CASE events = None
    <3>1. NewEngine.owner = Rebuild(<<>>).owner /\ NewEngine.dispatch = Rebuild(<<>>).dispatch
      BY RebuildEmpty
    <3>2. QED
      BY <1>1, <1>2, <2>1, <3>1 DEF ReadEvents, Files, LogInv
  <2>2. CASE events # None
    <3>1. [NewEngine EXCEPT !.log = events].log = events
      BY DEF NewEngine
    <3>2. QED
      BY <1>1, <1>2, <2>2, <3>1 DEF ReadEvents, Files, LogInv
  <2>3. QED
    BY <2>1, <2>2
<1>3. ASSUME NEW p \in Procs, ReadMailbox(p)
      PROVE  LogInv'
  <2>1. engine[p].log \in Seq(Command)
    BY <1>1 DEF Engine
  <2>2. /\ Load(engine[p].log, mailbox).log = engine[p].log
        /\ Load(engine[p].log, mailbox).owner = Rebuild(engine[p].log).owner
        /\ Load(engine[p].log, mailbox).dispatch = Rebuild(engine[p].log).dispatch
    BY <2>1, LoadedEngine DEF StoreInv, TypeOK
  <2>3. QED
    BY <1>1, <1>3, <2>2 DEF ReadMailbox, Files, LogInv
<1>4. ASSUME NEW p \in Procs, ProcessCommand(p)
      PROVE  LogInv'
  <2>1. engine[p] \in Engine /\ command[p] \in Command
    BY <1>4 DEF ProcessCommand, StoreInv, TypeOK
  <2> DEFINE done == Process(engine[p], command[p])
  <2>2. CASE Accepts(engine[p], command[p])
    <3>1. InTurn(done.log, MailKinds) /\ InTurn(Compact(done).log, MailKinds)
      BY <1>4, <2>1, <2>2, ProcessInTurn DEF ProcessCommand, LogInv
    <3> HIDE DEF done
    <3>2. PICK compact \in Compacting :
             engine' = [engine EXCEPT ![p] = IF compact THEN Compact(done) ELSE done]
      BY <1>4, <2>2 DEF ProcessCommand, done
    <3>3. InTurn(engine'[p].log, MailKinds)
      BY <1>1, <3>1, <3>2
    <3>4. \A q \in Procs : q # p => engine'[q] = engine[q] /\ pc'[q] = pc[q]
      BY <1>1, <1>4, <3>2 DEF ProcessCommand
    <3>5. pc'[p] # "process" /\ events' = events
      BY <1>1, <1>4, <2>2 DEF ProcessCommand, Files
    <3>6. QED
      BY <3>3, <3>4, <3>5 DEF LogInv
  <2>3. CASE ~Accepts(engine[p], command[p])
    BY <1>1, <1>4, <2>3 DEF ProcessCommand, Files, LogInv
  <2>4. QED
    BY <2>2, <2>3
<1>5. ASSUME NEW p \in Procs, OpenEvents(p) \/ WriteEvents(p)
      PROVE  LogInv'
  BY <1>1, <1>5 DEF OpenEvents, WriteEvents, LogInv
<1>6. ASSUME NEW p \in Procs, LockShared(p) \/ LockExclusive(p) \/ Unlock(p) \/ ViewDispatch(p)
      PROVE  LogInv'
  BY <1>1, <1>6 DEF LockShared, LockExclusive, Unlock, ViewDispatch, Files, LogInv
<1>7. ASSUME NEW p \in Procs, OpenMailbox(p) \/ WriteMailbox(p)
      PROVE  LogInv'
  BY <1>1, <1>7 DEF OpenMailbox, WriteMailbox, LogInv
<1>8. ASSUME NEW p \in Procs, Answer(p) \/ Killed(p)
      PROVE  LogInv'
  BY <1>1, <1>8 DEF Answer, Killed, Files, LogInv
<1>9. ASSUME NEW p \in Procs, NEW c \in Command, Exec(p, c)
      PROVE  LogInv'
  BY <1>1, <1>9 DEF Exec, Files, LogInv
<1>10. CASE UNCHANGED vars
  BY <1>10 DEF vars, LogInv
<1>11. QED
  BY <1>2, <1>3, <1>4, <1>5, <1>6, <1>7, <1>8, <1>9, <1>10 DEF Next, Step

(* Whatever execs overlap, are killed or compact, no log ever holds a      *)
(* dispatch or authority event out of turn.                                *)
THEOREM LogsStayLegal == Spec => []DispatchLogIsLegal
<1>1. LogInv => DispatchLogIsLegal
  BY DEF LogInv, InTurn, DispatchLogIsLegal
<1>2. QED
  BY StoreInit, StoreNext, LogInit, LogNext, <1>1, PTL DEF Spec

-----------------------------------------------------------------------------
(* Until an exec is killed the log is missing only while a persist fills   *)
(* it, or before the first persist has.                                    *)
Written == {"openMailbox", "writeMailbox", "unlock", "viewDispatch", "openView", "writeView",
            "answer"}

WholeInv ==
    /\ \A p \in Procs : pc[p] \in {"readEvents", "readMailbox"} => p \in reading
    /\ crashes = 0 => \/ events # None
                      \/ \E p \in Procs : pc[p] = "writeEvents"
                      \/ answered = {} /\ \A p \in Procs : pc[p] \notin Written

LEMMA WholeInit == Init => WholeInv
  BY DEF Init, WholeInv, Written

LEMMA WholeNext == StoreInv /\ LockInv /\ WholeInv /\ [Next]_vars => WholeInv'
<1> SUFFICES ASSUME StoreInv, LockInv, WholeInv, [Next]_vars
             PROVE  WholeInv'
  OBVIOUS
<1> USE DEF Goto, Written
<1>1. pc \in [Procs -> Steps] /\ crashes \in Nat
  BY StoreAssumption DEF StoreInv, TypeOK
<1>2. ASSUME NEW p \in Procs, LockShared(p) \/ LockExclusive(p) \/ Unlock(p) \/ ViewDispatch(p)
      PROVE  WholeInv'
  BY <1>1, <1>2 DEF LockShared, LockExclusive, Unlock, ViewDispatch, Files, Ghosts, Locks, WholeInv
<1>3. ASSUME NEW p \in Procs, ReadEvents(p) \/ ReadMailbox(p) \/ ProcessCommand(p)
      PROVE  WholeInv'
  BY <1>1, <1>3 DEF ReadEvents, ReadMailbox, ProcessCommand, Files, Ghosts, Locks, WholeInv
<1>4. ASSUME NEW p \in Procs, OpenEvents(p)
      PROVE  WholeInv'
  BY <1>1, <1>4 DEF OpenEvents, Ghosts, Locks, WholeInv
<1>5. ASSUME NEW p \in Procs, WriteEvents(p)
      PROVE  WholeInv'
  <2>1. events' # None
    BY <1>5, StoreAssumption DEF WriteEvents, StoreInv, TypeOK, Engine
  <2>2. QED
    BY <1>1, <1>5, <2>1 DEF WriteEvents, Ghosts, Locks, WholeInv
<1>6. ASSUME NEW p \in Procs, OpenMailbox(p) \/ WriteMailbox(p)
      PROVE  WholeInv'
  BY <1>1, <1>6 DEF OpenMailbox, WriteMailbox, Ghosts, Locks, WholeInv
<1>7. ASSUME NEW p \in Procs, Answer(p)
      PROVE  WholeInv'
  BY <1>1, <1>7 DEF Answer, Files, Locks, WholeInv
<1>8. ASSUME NEW p \in Procs, Killed(p)
      PROVE  WholeInv'
  <2>1. crashes' # 0
    BY <1>1, <1>8 DEF Killed
  <2>2. QED
    BY <1>1, <1>8, <2>1 DEF Killed, Files, WholeInv
<1>9. ASSUME NEW p \in Procs, NEW c \in Command, Exec(p, c)
      PROVE  WholeInv'
  BY <1>1, <1>9 DEF Exec, Files, Locks, WholeInv
<1>10. CASE UNCHANGED vars
  BY <1>10 DEF vars, WholeInv
<1>11. QED
  BY <1>2, <1>3, <1>4, <1>5, <1>6, <1>7, <1>8, <1>9, <1>10 DEF Next, Step

(* Once an exec has answered, and while none is killed, no load meets a    *)
(* missing log and starts over with an empty engine.                       *)
THEOREM LoadsMeetALog == Spec => []LoadsSeeWholeLogs
<1>1. LockInv /\ WholeInv => LoadsSeeWholeLogs
  BY StoreAssumption DEF LockInv, LockTyped, Persisting, WholeInv, LoadsSeeWholeLogs
<1>2. QED
  BY StoreInit, StoreNext, LockInit, LockNext, WholeInit, WholeNext, <1>1, PTL DEF Spec

-----------------------------------------------------------------------------
(* What a log tells of a command: it holds it, or it knows nothing of its  *)
(* request any more.                                                       *)
Covers(log, c) == \/ \E i \in 1 .. Len(log) : log[i] = c
                  \/ c.kind \in DispatchKinds /\ Rebuild(log).dispatch[c.id] = "none"

(* A view of requests that tells of more than a log only where it says     *)
(* that a request is finished.                                             *)
ViewOf(log, view) == \A r \in Requests : \/ view[r] = Rebuild(log).dispatch[r]
                                         \/ /\ view[r] \in {"delivered", "failed"}
                                            /\ Rebuild(log).dispatch[r] = "none"

(* An engine that may be written: its log rebuilds it, but for requests    *)
(* that compaction dropped.                                                *)
Sound(e, commands) == /\ InTurn(e.log, {})
                      /\ e.mail = Rebuild(e.log).mail
                      /\ ViewOf(e.log, e.dispatch)
                      /\ \A c \in commands : Covers(e.log, c)

LEMMA DispatchKept ==
    ASSUME NEW e \in Engine, NEW c \in Command, NEW r \in Requests,
           c.kind \in DispatchKinds => c.id # r
    PROVE  Effect(e, c).dispatch[r] = e.dispatch[r]
<1>1. CASE c.kind = "AcquireAuthority"
  <2>1. Effect(e, c) = [e EXCEPT !.owner = c.id]
    BY <1>1 DEF Effect, DispatchKinds, MailKinds
  <2>2. QED
    BY <2>1 DEF Engine
<1>2. CASE c.kind \in DispatchKinds
  <2>1. Effect(e, c) = [e EXCEPT !.dispatch[c.id] = NewDispatchStatus[c.kind]]
    BY <1>2 DEF Effect, DispatchKinds, MailKinds
  <2>2. QED
    BY <1>2, <2>1 DEF Engine
<1>3. CASE c.kind \in MailKinds
  <2>1. Effect(e, c) = [e EXCEPT !.mail[c.id] = NewMailStatus[c.kind]]
    BY <1>3 DEF Effect, DispatchKinds, MailKinds
  <2>2. QED
    BY <2>1 DEF Engine
<1>4. CASE c.kind \in {"RenewAuthority", "CaptureSnapshot"}
  BY <1>4 DEF Effect, DispatchKinds, MailKinds
<1>5. CASE c.kind = "RequestReplay"
  <2>1. Effect(e, c) = [e EXCEPT !.cursor = c.id]
    BY <1>5 DEF Effect, DispatchKinds, MailKinds
  <2>2. QED
    BY <2>1 DEF Engine
<1>6. QED
  BY <1>1, <1>2, <1>3, <1>4, <1>5 DEF Command, DispatchKinds, MailKinds

LEMMA ProcessSound ==
    ASSUME NEW e \in Engine, NEW c \in Command, Accepts(e, c), InTurn(e.log, {}),
           AlikeBut({}, e, Rebuild(e.log)),
           NEW commands \in SUBSET Command, \A a \in commands : Covers(e.log, a),
           \A a \in commands : a.kind \in DispatchKinds /\ c.kind = "QueueDispatch" => a.id # c.id
    PROVE  /\ Sound(Process(e, c), commands \cup {c})
           /\ Rebuild(Process(e, c).log).dispatch = Process(e, c).dispatch
<1> DEFINE log == Append(e.log, c)
           done == Process(e, c)
<1>1. e.log \in Seq(Command) /\ Rebuild(e.log) \in Engine
  BY RebuildTyped DEF Engine
<1>2. {} \in SUBSET Requests /\ c \notin EventsOf({})
  BY DEF EventsOf
<1>3. Accepts(Rebuild(e.log), c) /\ AlikeBut({}, Effect(e, c), Effect(Rebuild(e.log), c))
  BY <1>1, <1>2, AcceptsAlike, EffectAlike
<1>4. Rebuild(log) = Effect(Rebuild(e.log), c) /\ log \in Seq(Command)
  BY <1>1, <1>3, ReplayAppend DEF ReplayEvent
<1>5. InTurn(log, {})
  BY <1>1, <1>3, InTurnAppend
<1>6. /\ done \in Engine
      /\ done.log = log
      /\ done.mail = Effect(e, c).mail
      /\ done.dispatch = Effect(e, c).dispatch
  BY ProcessedEngine
<1>7. Effect(e, c) \in Engine /\ Effect(Rebuild(e.log), c) \in Engine
  BY <1>1, EffectTyped
<1> HIDE DEF done, log
<1>8. done.mail = Rebuild(log).mail /\ \A r \in Requests : done.dispatch[r] = Rebuild(log).dispatch[r]
  BY <1>3, <1>4, <1>6 DEF AlikeBut
<1>9. ASSUME NEW a \in commands \cup {c}
      PROVE  Covers(log, a)
  <2>1. /\ Len(log) = Len(e.log) + 1
        /\ Len(log) \in 1 .. Len(log)
        /\ log[Len(log)] = c
        /\ \A i \in 1 .. Len(e.log) : i \in 1 .. Len(log) /\ log[i] = e.log[i]
    BY <1>1 DEF log
  <2>2. CASE a = c
    BY <2>1, <2>2 DEF Covers
  <2>3. CASE a # c /\ \E i \in 1 .. Len(e.log) : e.log[i] = a
    BY <2>1, <2>3 DEF Covers
  <2>4. CASE a # c /\ a.kind \in DispatchKinds /\ Rebuild(e.log).dispatch[a.id] = "none"
    <3>1. a.id \in Requests
      BY <2>4 DEF Command, DispatchKinds, MailKinds
    <3>2. c.kind \in DispatchKinds => c.id # a.id
      BY <1>3, <2>4 DEF Accepts, DispatchKinds
    <3>3. Rebuild(log).dispatch[a.id] = "none"
      BY <1>1, <1>4, <2>4, <3>1, <3>2, DispatchKept
    <3>4. QED
      BY <2>4, <3>3 DEF Covers
  <2>5. QED
    BY <2>2, <2>3, <2>4 DEF Covers
<1>10. Rebuild(log).dispatch = done.dispatch
  <2>1. Rebuild(log).dispatch \in [Requests -> DispatchStatus] /\ done.dispatch \in [Requests -> DispatchStatus]
    BY <1>4, <1>6, <1>7 DEF Engine
  <2>2. QED
    BY <1>8, <2>1
<1>11. QED
  BY <1>5, <1>6, <1>8, <1>9, <1>10 DEF Sound, ViewOf, done

LEMMA CompactSound ==
    ASSUME NEW e \in Engine, NEW commands \in SUBSET Command, Sound(e, commands),
           Rebuild(e.log).dispatch = e.dispatch
    PROVE  Sound(Compact(e), commands)
<1> DEFINE gone == FinishedIn(e)
           log == Without(e.log, EventsOf(gone))
<1>1. e.log \in Seq(Command) /\ gone \in SUBSET Requests
  BY DEF Engine, FinishedIn
<1>2. /\ Compact(e).log = log
      /\ Compact(e).dispatch = e.dispatch
      /\ Compact(e).mail = e.mail
  BY CompactedEngine
<1>3. /\ AlikeBut(gone, Rebuild(log), Rebuild(e.log))
      /\ InTurn(e.log, {}) => InTurn(log, {})
      /\ \A i \in 1 .. Len(e.log) : \/ e.log[i] \in EventsOf(gone)
                                    \/ \E j \in 1 .. Len(log) : log[j] = e.log[i]
  <2> HIDE DEF gone
  <2>1. QED
    BY <1>1, WithoutAlike
<1> HIDE DEF log
<1>4. ViewOf(log, e.dispatch)
  BY <1>3 DEF AlikeBut, ViewOf, FinishedIn, Finished
<1>5. ASSUME NEW a \in commands
      PROVE  Covers(log, a)
  <2>1. CASE \E i \in 1 .. Len(e.log) : e.log[i] = a
    <3>1. CASE a \in EventsOf(gone)
      BY <1>3, <3>1 DEF AlikeBut, EventsOf, Covers, FinishedIn
    <3>2. CASE a \notin EventsOf(gone)
      BY <1>3, <2>1, <3>2 DEF Covers
    <3>3. QED
      BY <3>1, <3>2
  <2>2. CASE a.kind \in DispatchKinds /\ Rebuild(e.log).dispatch[a.id] = "none"
    <3>1. a.id \in Requests
      BY <2>2 DEF Command, DispatchKinds, MailKinds
    <3>2. QED
      BY <1>3, <2>2, <3>1 DEF AlikeBut, Covers
  <2>3. QED
    BY <2>1, <2>2 DEF Sound, Covers
<1>6. QED
  BY <1>2, <1>3, <1>4, <1>5 DEF Sound, AlikeBut

-----------------------------------------------------------------------------
(* Requests that a log knows, and those that commands have got past the    *)
(* engine for, have their ids from callers.                                *)
Processed == {"persist", "openEvents", "writeEvents"} \cup Written

KnownDrawn(log) == \A r \in Requests : Rebuild(log).dispatch[r] # "none" => r \in drawn

DrawnInv ==
    /\ events # None => KnownDrawn(events)
    /\ \A c \in answered : c.kind \in DispatchKinds => c.id \in drawn
    /\ \A p \in Procs :
          /\ KnownDrawn(engine[p].log)
          /\ pc[p] # "idle" /\ command[p].kind = "QueueDispatch" => command[p].id \in drawn
          /\ pc[p] \in Processed /\ command[p].kind \in DispatchKinds => command[p].id \in drawn

LEMMA DrawnInit == Init => DrawnInv
<1>1. KnownDrawn(<<>>)
  BY RebuildEmpty DEF KnownDrawn, NewEngine
<1>2. QED
  BY <1>1 DEF Init, DrawnInv, NewEngine, Processed, Written

(* A request is known when the engine accepts a command for it, unless the *)
(* command queues it.                                                      *)
LEMMA ProcessDrawn ==
    ASSUME NEW e \in Engine, NEW c \in Command, Accepts(e, c), KnownDrawn(e.log),
           e.owner = Rebuild(e.log).owner, e.dispatch = Rebuild(e.log).dispatch,
           c.kind = "QueueDispatch" => c.id \in drawn
    PROVE  /\ c.kind \in DispatchKinds => c.id \in drawn
           /\ KnownDrawn(Process(e, c).log)
           /\ KnownDrawn(Compact(Process(e, c)).log)
<1> DEFINE log == Append(e.log, c)
           gone == FinishedIn(Process(e, c))
<1>1. e.log \in Seq(Command) /\ Rebuild(e.log) \in Engine
  BY RebuildTyped DEF Engine
<1>2. ASSUME c.kind \in DispatchKinds
      PROVE  c.id \in Requests /\ c.id \in drawn
  <2>1. c.id \in Requests
    BY <1>2 DEF Command, DispatchKinds, MailKinds
  <2>2. CASE c.kind = "QueueDispatch"
    BY <2>1, <2>2
  <2>3. CASE c.kind # "QueueDispatch"
    <3>1. Rebuild(e.log).dispatch[c.id] # "none"
      BY <1>2, <2>3 DEF Accepts, DispatchKinds
    <3>2. QED
      BY <2>1, <3>1 DEF KnownDrawn
  <2>4. QED
    BY <2>2, <2>3
<1>3. log \in Seq(Command) /\ Rebuild(log) = ReplayEvent(Rebuild(e.log), c)
  BY <1>1, ReplayAppend
<1>4. KnownDrawn(log)
  <2> SUFFICES ASSUME NEW r \in Requests, Rebuild(log).dispatch[r] # "none"
               PROVE  r \in drawn
    BY DEF KnownDrawn
  <2>1. CASE c.kind \in DispatchKinds /\ c.id = r
    BY <1>2, <2>1
  <2>2. CASE c.kind \in DispatchKinds => c.id # r
    <3>1. Rebuild(log).dispatch[r] = Rebuild(e.log).dispatch[r]
      BY <1>1, <1>3, <2>2, DispatchKept DEF ReplayEvent
    <3>2. QED
      BY <3>1 DEF KnownDrawn
  <2>3. QED
    BY <2>1, <2>2
<1>5. Process(e, c) \in Engine /\ Process(e, c).log = log
  BY ProcessedEngine
<1>6. AlikeBut(gone, Rebuild(Without(log, EventsOf(gone))), Rebuild(log))
  <2>1. gone \in SUBSET Requests
    BY DEF FinishedIn
  <2> HIDE DEF gone, log
  <2>2. QED
    BY <1>3, <2>1, WithoutAlike
<1> HIDE DEF gone, log
<1>7. KnownDrawn(Without(log, EventsOf(gone)))
  BY <1>4, <1>6 DEF KnownDrawn, AlikeBut
<1>8. Compact(Process(e, c)).log = Without(log, EventsOf(gone))
  BY <1>5, CompactedEngine DEF gone
<1>9. QED
  BY <1>2, <1>4, <1>5, <1>7, <1>8

LEMMA DrawnNext == StoreInv /\ LogInv /\ DrawnInv /\ [Next]_vars => DrawnInv'
<1> SUFFICES ASSUME StoreInv, LogInv, DrawnInv, [Next]_vars
             PROVE  DrawnInv'
  OBVIOUS
<1> USE DEF Goto, Processed, Written
<1>1. /\ engine \in [Procs -> Engine]
      /\ pc \in [Procs -> Steps]
      /\ command \in [Procs -> Command \cup {None}]
      /\ NewEngine.log = <<>>
  BY DEF StoreInv, TypeOK, NewEngine
<1>2. KnownDrawn(<<>>)
  BY RebuildEmpty DEF KnownDrawn, NewEngine
<1>3. ASSUME NEW p \in Procs, ReadEvents(p)
      PROVE  DrawnInv'
  <2>1. [NewEngine EXCEPT !.log = events].log = events
    BY DEF NewEngine
  <2>2. KnownDrawn(engine'[p].log)
    BY <1>1, <1>2, <1>3, <2>1 DEF ReadEvents, DrawnInv
  <2>3. /\ drawn' = drawn /\ events' = events /\ answered' = answered /\ command' = command
        /\ \A q \in Procs : q # p => engine'[q] = engine[q] /\ pc'[q] = pc[q]
        /\ pc'[p] \notin Processed /\ pc[p] # "idle"
    BY <1>1, <1>3 DEF ReadEvents, Files, Ghosts
  <2>4. QED
    BY <2>2, <2>3 DEF DrawnInv, KnownDrawn
<1>4. ASSUME NEW p \in Procs, ReadMailbox(p)
      PROVE  DrawnInv'
  <2>1. engine[p].log \in Seq(Command)
    BY <1>1 DEF Engine
  <2>2. Load(engine[p].log, mailbox).log = engine[p].log
    BY <2>1, LoadedEngine DEF StoreInv, TypeOK
  <2>3. engine'[p].log = engine[p].log
    BY <1>1, <1>4, <2>2 DEF ReadMailbox
  <2>4. /\ drawn' = drawn /\ events' = events /\ answered' = answered /\ command' = command
        /\ \A q \in Procs : q # p => engine'[q] = engine[q] /\ pc'[q] = pc[q]
        /\ pc'[p] \notin Processed /\ pc[p] # "idle"
    BY <1>1, <1>4 DEF ReadMailbox, Files, Ghosts
  <2>5. QED
    BY <2>3, <2>4 DEF DrawnInv, KnownDrawn
<1>5. ASSUME NEW p \in Procs, ProcessCommand(p)
      PROVE  DrawnInv'
  <2>1. engine[p] \in Engine /\ command[p] \in Command
    BY <1>5 DEF ProcessCommand, StoreInv, TypeOK
  <2> DEFINE done == Process(engine[p], command[p])
  <2>2. /\ drawn' = drawn /\ events' = events /\ answered' = answered
        /\ \A q \in Procs : q # p => /\ engine'[q] = engine[q] /\ pc'[q] = pc[q]
                                     /\ command'[q] = command[q]
    BY <1>1, <1>5 DEF ProcessCommand, Files, Ghosts
  <2>3. CASE Accepts(engine[p], command[p])
    <3>1. /\ command[p].kind \in DispatchKinds => command[p].id \in drawn
          /\ KnownDrawn(done.log)
          /\ KnownDrawn(Compact(done).log)
      BY <1>5, <2>1, <2>3, ProcessDrawn DEF ProcessCommand, LogInv, DrawnInv
    <3> HIDE DEF done
    <3>2. PICK compact \in Compacting :
             engine' = [engine EXCEPT ![p] = IF compact THEN Compact(done) ELSE done]
      BY <1>5, <2>3 DEF ProcessCommand, done
    <3>3. KnownDrawn(engine'[p].log)
      BY <1>1, <3>1, <3>2
    <3>4. command' = command /\ pc[p] # "idle"
      BY <1>5, <2>3 DEF ProcessCommand
    <3>5. QED
      BY <2>2, <3>1, <3>3, <3>4 DEF DrawnInv, KnownDrawn
  <2>4. CASE ~Accepts(engine[p], command[p])
    <3>1. engine'[p].log = <<>> /\ pc'[p] = "idle"
      BY <1>1, <1>5, <2>4 DEF ProcessCommand
    <3>2. QED
      BY <1>2, <2>2, <3>1 DEF DrawnInv, KnownDrawn
  <2>5. QED
    BY <2>3, <2>4
<1>6. ASSUME NEW p \in Procs, OpenEvents(p) \/ WriteEvents(p)
      PROVE  DrawnInv'
  BY <1>1, <1>6 DEF OpenEvents, WriteEvents, Ghosts, DrawnInv, KnownDrawn
<1>7. ASSUME NEW p \in Procs, LockShared(p) \/ LockExclusive(p) \/ Unlock(p) \/ ViewDispatch(p)
      PROVE  DrawnInv'
  BY <1>1, <1>7 DEF LockShared, LockExclusive, Unlock, ViewDispatch, Files, Ghosts, DrawnInv,
                    KnownDrawn
<1>8. ASSUME NEW p \in Procs, OpenMailbox(p) \/ WriteMailbox(p)
      PROVE  DrawnInv'
  BY <1>1, <1>8 DEF OpenMailbox, WriteMailbox, Ghosts, DrawnInv, KnownDrawn
<1>9. ASSUME NEW p \in Procs, Answer(p) \/ Killed(p)
      PROVE  DrawnInv'
  <2>1. /\ drawn' = drawn /\ events' = events
        /\ \A q \in Procs : q # p => /\ engine'[q] = engine[q] /\ pc'[q] = pc[q]
                                     /\ command'[q] = command[q]
        /\ engine'[p].log = <<>> /\ pc'[p] = "idle"
    BY <1>1, <1>9 DEF Answer, Killed, Files
  <2>2. \A c \in answered' : c.kind \in DispatchKinds => c.id \in drawn
    BY <1>9 DEF Answer, Killed, DrawnInv
  <2>3. QED
    BY <1>2, <2>1, <2>2 DEF DrawnInv, KnownDrawn
<1>10. ASSUME NEW p \in Procs, NEW c \in Command, Exec(p, c)
      PROVE  DrawnInv'
  <2>1. /\ drawn \subseteq drawn' /\ events' = events /\ answered' = answered
        /\ engine' = engine
        /\ \A q \in Procs : q # p => pc'[q] = pc[q] /\ command'[q] = command[q]
        /\ pc'[p] = "load" /\ command'[p] = c
        /\ c.kind = "QueueDispatch" => c.id \in drawn'
    BY <1>1, <1>10 DEF Exec, Files
  <2>2. QED
    BY <2>1 DEF DrawnInv, KnownDrawn
<1>11. CASE UNCHANGED vars
  BY <1>11 DEF vars, DrawnInv, KnownDrawn
<1>12. QED
  BY <1>3, <1>4, <1>5, <1>6, <1>7, <1>8, <1>9, <1>10, <1>11 DEF Next, Step

-----------------------------------------------------------------------------
(* Execs that do not overlap: one process, which nobody kills.             *)
OnlyExec == (\A p, q \in Procs : p = q) /\ MaxCrashes = 0

(* The files before a persist touches them.                                *)
FilesSound ==
    IF events = None THEN answered = {}
    ELSE /\ InTurn(events, {})
         /\ mailbox = Rebuild(events).mail
         /\ ViewOf(events, dispatchView)
         /\ \A c \in answered : Covers(events, c)

(* Files, engine and command, from step to step of the only exec.          *)
AloneInv ==
    /\ crashes = 0
    /\ (\A p \in Procs : pc[p] \notin {"openEvents", "writeEvents"} \cup Written) => FilesSound
    /\ \A p \in Procs :
          /\ /\ pc[p] \in {"load", "readEvents", "readMailbox", "process"}
             /\ command[p].kind = "QueueDispatch"
             => \A a \in answered : a.kind \in DispatchKinds => a.id # command[p].id
          /\ pc[p] = "readMailbox" => events # None /\ engine[p].log = events
          /\ pc[p] = "process" => /\ InTurn(engine[p].log, {})
                                  /\ AlikeBut({}, engine[p], Rebuild(engine[p].log))
                                  /\ \A c \in answered : Covers(engine[p].log, c)
          /\ pc[p] \in Processed => Sound(engine[p], answered \cup {command[p]})
          /\ pc[p] \in Written => events = engine[p].log
          /\ pc[p] \in {"openView", "writeView", "answer"} => dispatchView = engine[p].dispatch
          /\ pc[p] = "answer" => mailbox = engine[p].mail

LEMMA AloneInit == Init => AloneInv
  BY DEF Init, AloneInv, FilesSound, Processed, Written

LEMMA AloneNext == /\ OnlyExec
                   /\ StoreInv /\ LogInv /\ DrawnInv /\ AloneInv
                   /\ [Next]_vars
                   => AloneInv'
<1> SUFFICES ASSUME OnlyExec, StoreInv, LogInv, DrawnInv, AloneInv, [Next]_vars
             PROVE  AloneInv'
  OBVIOUS
<1> USE DEF Goto, Processed, Written
<1>1. /\ engine \in [Procs -> Engine]
      /\ pc \in [Procs -> Steps]
      /\ command \in [Procs -> Command \cup {None}]
      /\ \A p, q \in Procs : p = q
  BY DEF StoreInv, TypeOK, OnlyExec
<1>2. ASSUME NEW p \in Procs, ReadEvents(p)
      PROVE  AloneInv'
  <2>1. /\ crashes' = crashes /\ command' = command /\ answered' = answered
        /\ events' = events /\ mailbox' = mailbox /\ dispatchView' = dispatchView
        /\ pc[p] = "readEvents"
    BY <1>2 DEF ReadEvents, Files, Ghosts
  <2>2. FilesSound /\ FilesSound'
    BY <1>1, <2>1 DEF AloneInv, FilesSound, ViewOf
  <2>3. CASE events = None
    <3>1. pc'[p] = "process" /\ engine'[p] = NewEngine
      BY <1>1, <1>2, <2>3 DEF ReadEvents
    <3>2. NewEngine.log = <<>> /\ InTurn(<<>>, {}) /\ AlikeBut({}, NewEngine, Rebuild(<<>>))
      BY InTurnEmpty, RebuildEmpty DEF NewEngine, AlikeBut
    <3>3. answered = {}
      BY <2>2, <2>3 DEF FilesSound
    <3>4. QED
      BY <1>1, <2>1, <2>2, <3>1, <3>2, <3>3 DEF AloneInv
  <2>4. CASE events # None
    <3>1. [NewEngine EXCEPT !.log = events].log = events
      BY DEF NewEngine
    <3>2. pc'[p] = "readMailbox" /\ engine'[p].log = events
      BY <1>1, <1>2, <2>4, <3>1 DEF ReadEvents
    <3>3. QED
      BY <1>1, <2>1, <2>2, <2>4, <3>2 DEF AloneInv
  <2>5. QED
    BY <2>3, <2>4
<1>3. ASSUME NEW p \in Procs, ReadMailbox(p)
      PROVE  AloneInv'
  <2>1. /\ crashes' = crashes /\ command' = command /\ answered' = answered
        /\ events' = events /\ mailbox' = mailbox /\ dispatchView' = dispatchView
        /\ pc[p] = "readMailbox" /\ pc'[p] = "process"
    BY <1>1, <1>3 DEF ReadMailbox, Files, Ghosts
  <2>2. FilesSound /\ FilesSound'
    BY <1>1, <2>1 DEF AloneInv, FilesSound, ViewOf
  <2>3. events # None /\ engine[p].log = events /\ events \in Seq(Command)
    BY <2>1 DEF AloneInv, StoreInv, TypeOK
  <2>4. /\ Load(events, mailbox).log = events
        /\ AlikeBut({}, Load(events, mailbox), Rebuild(events))
    <3>1. mailbox = Rebuild(events).mail
      BY <2>2, <2>3 DEF FilesSound
    <3>2. QED
      BY <2>3, <3>1, LoadedEngine DEF AlikeBut, StoreInv, TypeOK
  <2>5. engine'[p] = Load(events, mailbox)
    BY <1>1, <1>3, <2>3 DEF ReadMailbox
  <2>6. InTurn(events, {}) /\ \A c \in answered : Covers(events, c)
    BY <2>2, <2>3 DEF FilesSound
  <2>7. QED
    BY <1>1, <2>1, <2>2, <2>4, <2>5, <2>6 DEF AloneInv
<1>4. ASSUME NEW p \in Procs, ProcessCommand(p)
      PROVE  AloneInv'
  <2>1. /\ crashes' = crashes /\ answered' = answered
        /\ events' = events /\ mailbox' = mailbox /\ dispatchView' = dispatchView
        /\ pc[p] = "process"
    BY <1>1, <1>4 DEF ProcessCommand, Files, Ghosts
  <2>2. FilesSound /\ FilesSound'
    BY <1>1, <2>1 DEF AloneInv, FilesSound, ViewOf
  <2>3. /\ engine[p] \in Engine
        /\ command[p] \in Command
        /\ answered \in SUBSET Command
    BY <2>1 DEF StoreInv, TypeOK
  <2> DEFINE done == Process(engine[p], command[p])
  <2>4. CASE Accepts(engine[p], command[p])
    <3>1. Sound(done, answered \cup {command[p]}) /\ Rebuild(done.log).dispatch = done.dispatch
      BY <2>1, <2>3, <2>4, ProcessSound DEF AloneInv
    <3>2. done \in Engine /\ answered \cup {command[p]} \in SUBSET Command
      BY <2>3, ProcessedEngine
    <3> HIDE DEF done
    <3>3. Sound(Compact(done), answered \cup {command[p]})
      BY <3>1, <3>2, CompactSound
    <3>4. PICK compact \in Compacting :
             engine' = [engine EXCEPT ![p] = IF compact THEN Compact(done) ELSE done]
      BY <1>4, <2>4 DEF ProcessCommand, done
    <3>5. Sound(engine'[p], answered \cup {command[p]})
      BY <1>1, <3>1, <3>3, <3>4
    <3>6. command' = command /\ pc'[p] = "persist"
      BY <1>1, <1>4, <2>4 DEF ProcessCommand
    <3>7. QED
      BY <1>1, <2>1, <2>2, <3>5, <3>6 DEF AloneInv
  <2>5. CASE ~Accepts(engine[p], command[p])
    <3>1. pc'[p] = "idle"
      BY <1>1, <1>4, <2>5 DEF ProcessCommand
    <3>2. QED
      BY <1>1, <2>1, <2>2, <3>1 DEF AloneInv
  <2>6. QED
    BY <2>4, <2>5
<1>5. ASSUME NEW p \in Procs, LockShared(p)
      PROVE  AloneInv'
  BY <1>1, <1>5 DEF LockShared, Files, Ghosts, AloneInv, FilesSound, ViewOf
<1>6. ASSUME NEW p \in Procs, LockExclusive(p)
      PROVE  AloneInv'
  BY <1>1, <1>6 DEF LockExclusive, Files, Ghosts, AloneInv, FilesSound, ViewOf
<1>7. ASSUME NEW p \in Procs, OpenEvents(p) \/ WriteEvents(p)
      PROVE  AloneInv'
  BY <1>1, <1>7 DEF OpenEvents, WriteEvents, Ghosts, AloneInv
<1>8. ASSUME NEW p \in Procs, OpenMailbox(p) \/ WriteMailbox(p)
      PROVE  AloneInv'
  BY <1>1, <1>8 DEF OpenMailbox, WriteMailbox, Ghosts, AloneInv
<1>9. ASSUME NEW p \in Procs, Unlock(p) \/ ViewDispatch(p)
      PROVE  AloneInv'
  BY <1>1, <1>9 DEF Unlock, ViewDispatch, Files, Ghosts, AloneInv
<1>10. ASSUME NEW p \in Procs, Answer(p)
       PROVE  AloneInv'
  <2>1. /\ pc[p] = "answer" /\ pc'[p] = "idle" /\ crashes' = crashes
        /\ events' = events /\ mailbox' = mailbox /\ dispatchView' = dispatchView
        /\ answered' = answered \cup {command[p]}
    BY <1>1, <1>10 DEF Answer, Files
  <2>2. /\ events = engine[p].log
        /\ mailbox = engine[p].mail
        /\ dispatchView = engine[p].dispatch
        /\ Sound(engine[p], answered \cup {command[p]})
    BY <2>1 DEF AloneInv
  <2>3. events # None
    BY <1>1, <2>2, StoreAssumption DEF Engine
  <2>4. FilesSound'
    BY <2>1, <2>2, <2>3 DEF FilesSound, Sound, ViewOf
  <2>5. QED
    BY <1>1, <2>1, <2>4 DEF AloneInv
<1>11. ASSUME NEW p \in Procs, Killed(p)
       PROVE  FALSE
  BY <1>11 DEF Killed, OnlyExec, AloneInv
<1>12. ASSUME NEW p \in Procs, NEW c \in Command, Exec(p, c)
       PROVE  AloneInv'
  <2>1. /\ pc[p] = "idle" /\ pc'[p] = "load" /\ crashes' = crashes /\ answered' = answered
        /\ events' = events /\ mailbox' = mailbox /\ dispatchView' = dispatchView
        /\ command'[p] = c
        /\ c.kind = "QueueDispatch" => c.id \notin drawn
    BY <1>1, <1>12 DEF Exec, Files
  <2>2. FilesSound'
    BY <1>1, <2>1 DEF AloneInv, FilesSound, ViewOf
  <2>3. QED
    BY <1>1, <2>1, <2>2 DEF AloneInv, DrawnInv
<1>13. CASE UNCHANGED vars
  BY <1>13 DEF vars, AloneInv, FilesSound, ViewOf
<1>14. QED
  BY <1>2, <1>3, <1>4, <1>5, <1>6, <1>7, <1>8, <1>9, <1>10, <1>11, <1>12, <1>13 DEF Next, Step

(* Execs that do not overlap lose nothing: between two of them the files   *)
(* agree, whatever commands came and whichever of them compacted the log.  *)
THEOREM FilesStayInStep == OnlyExec /\ Spec => []FilesAgree
<1> SUFFICES ASSUME OnlyExec
             PROVE  Spec => []FilesAgree
  OBVIOUS
<1>1. AloneInv => FilesAgree
  <2> SUFFICES ASSUME AloneInv
               PROVE  FilesAgree
    OBVIOUS
  <2> SUFFICES ASSUME Idle, events # None
               PROVE  /\ Legal(events)
                      /\ mailbox = Rebuild(events).mail
                      /\ ViewOf(events, dispatchView)
                      /\ \A c \in answered : Covers(events, c)
    BY DEF FilesAgree, ViewOf, Covers
  <2>1. FilesSound
    BY DEF AloneInv, Idle, Written
  <2>2. QED
    BY <2>1 DEF FilesSound, InTurn, Legal
<1>2. StoreInv /\ LogInv /\ DrawnInv /\ AloneInv /\ [Next]_vars => AloneInv'
  BY AloneNext
<1>3. QED
  BY StoreInit, StoreNext, LogInit, LogNext, DrawnInit, DrawnNext, AloneInit, <1>1, <1>2, PTL
     DEF Spec
=============================================================================
