-------------------------- MODULE WorkflowModesProofs --------------------------
(***************************************************************************)
(* For any processes, sessions, modes, calls and deaths of processes:      *)
(* - no scope has excluding modes active (ActiveModesAreCompatible). What  *)
(*   has to be carried from a call's check to its write: the modes active  *)
(*   in every scope it has reconciled with still fit, although other       *)
(*   sessions complete modes in the root meanwhile (FitsInv);              *)
(* - the lists follow the files (ListsFollowFiles), where only sessions    *)
(*   or only the root are used. In the first case every session adds its   *)
(*   own entries to the root's list and finds them there whatever the      *)
(*   others write (SessionInv); in the second a call of the root           *)
(*   completes sources on behalf of the sessions that its list names,      *)
(*   until it reconciles with the root itself (RootInv: Early, then        *)
(*   Late). What a list names is Shown: the active modes and those ended   *)
(*   without telling it. As a session does not see the latter in the root, *)
(*   it has to be known that the root's list has no modes that exclude     *)
(*   each other (TidyInv).                                                 *)
(***************************************************************************)
EXTENDS WorkflowModes, TLAPS

Stages == {"idle", "reconcile", "complete", "put", "sync", "root", "own", "each"}

Beginning(p, m, x) ==
    \/ BeginStart(p, m, x) \/ BeginWrite(p, m, x) \/ BeginUpdate(p, m, x)
    \/ BeginClear(p, m, x) \/ BeginShutdown(p, m, x) \/ BeginTurn(p, m, x)

(* The part of the types that the stage of a call and the call make up.    *)
CallTypes ==
    /\ pc \in [Procs -> Stages]
    /\ call \in [Procs -> Call \cup {NoCall}]
    /\ \A p \in Procs : IF pc[p] = "idle" THEN call[p] = NoCall ELSE call[p] \in Call

-----------------------------------------------------------------------------
(* Types *)

LEMMA NoEntriesType == NoEntries \in List
  BY DEF NoEntries, List

LEMMA EntriesType ==
    ASSUME TypeOK, NEW x \in Scopes PROVE Entries(x) \in List
  BY NoEntriesType DEF TypeOK, Entries

LEMMA ForType ==
    ASSUME NEW x \in Scopes, NEW l \in List PROVE For(x, l) \in List
  BY DEF For, List

LEMMA OwnOnlyType ==
    ASSUME NEW x \in Scopes, NEW l \in List, NEW r \in List PROVE OwnOnly(x, l, r) \in List
  BY DEF OwnOnly, List

LEMMA OverType ==
    ASSUME NEW l \in List, NEW r \in List PROVE Over(l, r) \in List
  BY DEF Over, List

LEMMA SetType ==
    ASSUME NEW l \in List, NEW m \in Modes, NEW x \in Scopes, NEW on \in BOOLEAN
    PROVE  Without(l, m) \in List /\ Set(l, m, x, on) \in List
  BY DEF Without, Set, List

Rest(entries, m, x) == [a \in Modes |-> IF a = m /\ entries[a] = x THEN None ELSE entries[a]]

LEMMA RootListType ==
    ASSUME NEW c, NEW m \in Modes, NEW x \in Scopes, NEW on \in BOOLEAN,
           NEW l \in List, NEW own \in List
    PROVE  Rest(l, m, x) \in List /\ RootList(c, m, x, on, l, own) \in List
<1>1. Rest(l, m, x) \in List
  BY DEF Rest, List
<1> QED BY <1>1, NoEntriesType DEF RootList, Rest

LEMMA GoTypes ==
    ASSUME CallTypes, NEW p \in Procs, NEW at \in Stages \ {"idle"}, NEW c \in Call, Go(p, at, c)
    PROVE  CallTypes'
  BY DEF CallTypes, Go, Stages

LEMMA EndTypes ==
    ASSUME CallTypes, NEW p \in Procs, End(p)
    PROVE  CallTypes'
  BY DEF CallTypes, End, Stages

LEMMA SyncedTypes ==
    ASSUME CallTypes, NEW p \in Procs, NEW c \in Call, Synced(p, c)
    PROVE  CallTypes'
<1>1. [c EXCEPT !.source = None] \in Call
  BY DEF Call
<1> QED BY <1>1, GoTypes, EndTypes DEF Synced, Stages

LEMMA BeginTypes ==
    ASSUME TypeOK, NEW p \in Procs, NEW m \in Modes, NEW x \in Scopes,
           NEW op \in {"start", "write", "update", "clear", "clear_all", "plain"},
           NEW status \in Status, NEW todo \in SUBSET Scopes, NEW at \in Stages \ {"idle"},
           Begin(p, op, m, x, status, todo, at)
    PROVE  CallTypes' /\ used' \subseteq Scopes /\ clashed' \subseteq Scopes /\ calls' \in 0 .. MaxCalls
<1> DEFINE c == [op |-> op, mode |-> m, scope |-> x, status |-> status, todo |-> todo, at |-> x,
                 sources |-> {}, source |-> None, old |-> NoEntries, root |-> NoEntries,
                 own |-> NoEntries, left |-> {}]
<1>1. c \in Call
  BY NoEntriesType DEF Call, Status
<1>2. CallTypes'
  <2>1. CallTypes
    BY DEF TypeOK, CallTypes, Stages
  <2>2. Go(p, at, c)
    BY DEF Begin, Go
  <2> QED BY <1>1, <2>1, <2>2, GoTypes
<1>3. used' \subseteq Scopes /\ clashed' \subseteq Scopes
  BY DEF TypeOK, Begin, Note
<1>4. calls' \in 0 .. MaxCalls
  BY ModesAssumption DEF TypeOK, Begin
<1> QED BY <1>2, <1>3, <1>4

LEMMA TypeInit == Init => TypeOK
<1> SUFFICES ASSUME Init PROVE TypeOK
  OBVIOUS
<1>1. calls \in 0 .. MaxCalls /\ crashes \in 0 .. MaxCrashes
  BY ModesAssumption DEF Init
<1>2. files \in [Scopes -> [Modes -> Status]] /\ lists \in [Scopes -> List \cup {None}]
  BY DEF Init, Status
<1>3. CallTypes
  BY DEF Init, CallTypes, Stages
<1>4. /\ used \subseteq Scopes /\ clashed \subseteq Scopes /\ torn \subseteq Scopes
      /\ blind \in BOOLEAN /\ stale \in [Scopes -> SUBSET Modes]
  BY DEF Init
<1> QED BY <1>1, <1>2, <1>3, <1>4 DEF TypeOK, CallTypes, Stages

LEMMA TypeBegin ==
    ASSUME TypeOK, NEW p \in Procs, NEW m \in Modes, NEW x \in Scopes,
           Beginning(p, m, x)
    PROVE  TypeOK'
<1>1. \E op \in {"start", "write", "update", "clear", "clear_all", "plain"}, status \in Status,
         todo \in SUBSET Scopes, at \in Stages \ {"idle"} : Begin(p, op, m, x, status, todo, at)
  <2>1. CASE BeginStart(p, m, x)
    BY <2>1 DEF BeginStart, Status, Stages
  <2>2. CASE BeginWrite(p, m, x)
    <3>1. WriteScopes(x) \in SUBSET Scopes /\ {} \in SUBSET Scopes
      BY DEF WriteScopes
    <3>2. "active" \in Status /\ "ended" \in Status /\ {"reconcile", "put"} \subseteq Stages \ {"idle"}
      BY DEF Status, Stages
    <3> QED BY <2>2, <3>1, <3>2 DEF BeginWrite
  <2>3. CASE BeginUpdate(p, m, x)
    <3> DEFINE found == IF files[x][m] # "none" THEN files[x][m] ELSE files[Root][m]
    <3>1. found \in Status /\ "ended" \in Status /\ "put" \in Stages \ {"idle"} /\ {} \in SUBSET Scopes
      BY DEF TypeOK, Status, Stages, Scopes
    <3>2. \E status \in {found, "ended"} : Begin(p, "update", m, x, status, {}, "put")
      BY <2>3 DEF BeginUpdate
    <3> QED BY <3>1, <3>2
  <2>4. CASE BeginClear(p, m, x)
    BY <2>4 DEF BeginClear, Status, Stages
  <2>5. CASE BeginShutdown(p, m, x)
    BY <2>5 DEF BeginShutdown, Status, Stages
  <2>6. CASE BeginTurn(p, m, x)
    BY <2>6 DEF BeginTurn, Status, Stages
  <2> QED BY <2>1, <2>2, <2>3, <2>4, <2>5, <2>6 DEF Beginning
<1>2. CallTypes' /\ used' \subseteq Scopes /\ clashed' \subseteq Scopes /\ calls' \in 0 .. MaxCalls
  BY <1>1, BeginTypes
<1>3. UNCHANGED <<files, lists, torn, stale, crashes>> /\ blind' \in BOOLEAN
  BY DEF TypeOK, Beginning, BeginStart, BeginWrite, BeginUpdate, BeginClear, BeginShutdown, BeginTurn
<1> QED BY <1>2, <1>3 DEF TypeOK, CallTypes, Stages

(* What a sync writes is a list.                                           *)
LEMMA SyncTypes ==
    ASSUME TypeOK, NEW p \in Procs, SyncRead(p)
    PROVE  CallTypes'
<1> DEFINE c == call[p]
           m == SyncMode(c)
           x == SyncScope(c)
           on == SyncOn(c)
           rootEntries == For(x, Entries(Root))
           own == IF x = Root THEN NoEntries ELSE OwnOnly(x, Entries(x), rootEntries)
           nextOwn == Set(Without(own, m), m, x, on)
           root == IF x = Root THEN Set(Without(rootEntries, m), m, Root, on)
                   ELSE RootList(c, m, x, on, rootEntries, nextOwn)
           left == IF x = Root THEN Sessions ELSE {}
<1>1. CallTypes /\ c \in Call
  BY DEF TypeOK, CallTypes, Stages, SyncRead
<1>2. m \in Modes /\ x \in Scopes /\ on \in BOOLEAN /\ Root \in Scopes
  BY <1>1, ModesAssumption DEF Call, SyncMode, SyncScope, SyncOn, Scopes
<1>3. rootEntries \in List
  BY <1>2, EntriesType, ForType
<1>4. own \in List
  BY <1>2, <1>3, EntriesType, OwnOnlyType, NoEntriesType
<1>5. Without(own, m) \in List /\ nextOwn \in List
  <2> HIDE DEF own, m, x, on
  <2>1. Without(own, m) \in List
    BY <1>2, <1>4 DEF Without, List
  <2>2. Set(Without(own, m), m, x, on) \in List
    BY <1>2, <2>1 DEF Set, List
  <2> QED BY <2>1, <2>2
<1>6. root \in List
  <2> HIDE DEF rootEntries, nextOwn, m, x, on, c
  <2>1. CASE x = Root
    <3>1. Without(rootEntries, m) \in List
      BY <1>2, <1>3 DEF Without, List
    <3> QED BY <1>2, <2>1, <3>1 DEF Set, List
  <2>2. CASE x # Root
    BY <1>2, <1>3, <1>5, <2>2, RootListType
  <2> QED BY <2>1, <2>2
<1>7. Over(Rest(rootEntries, m, x), nextOwn) \in List
  <2> HIDE DEF rootEntries, nextOwn, m, x, on, c
  <2> QED BY <1>2, <1>3, <1>5, OverType, RootListType, NoEntriesType
<1>8. left \in SUBSET Sessions
  OBVIOUS
<1> DEFINE d == [c EXCEPT !.old = rootEntries, !.root = root, !.own = Over(Rest(rootEntries, m, x), nextOwn),
                          !.left = left]
<1>9. d \in Call
  <2> HIDE DEF rootEntries, root, nextOwn, m, x, on, left, c
  <2> QED BY <1>1, <1>3, <1>6, <1>7, <1>8 DEF Call
<1>10. Synced(p, c) \/ End(p) \/ Go(p, "root", d)
  BY DEF SyncRead, Rest
<1> HIDE DEF c, d
<1> QED BY <1>1, <1>9, <1>10, SyncedTypes, EndTypes, GoTypes DEF Stages

LEMMA WrittenTyped ==
    ASSUME TypeOK, NEW c \in Call
    PROVE  Written(c) \in [Scopes -> [Modes -> Status]]
<1>1. c.mode \in Modes /\ c.status \in Status
  BY DEF Call, Status
<1> QED BY <1>1 DEF TypeOK, Written

LEMMA TypeStep ==
    ASSUME TypeOK, NEW p \in Procs,
           \/ Reconcile(p) \/ Complete(p) \/ Put(p) \/ PutPlain(p)
           \/ SyncRead(p) \/ WriteRoot(p) \/ WriteOwn(p) \/ PassOn(p) \/ Crash(p)
    PROVE  TypeOK'
<1> DEFINE c == call[p]
<1>1. CallTypes /\ c \in Call /\ Root \in Scopes
  BY DEF TypeOK, CallTypes, Stages, Scopes, Reconcile, Complete, Put, PutPlain, SyncRead, WriteRoot, WriteOwn,
         PassOn, Crash
<1> USE DEF TypeOK, CallTypes, Stages
<1>2. CASE Reconcile(p)
  <2> USE <1>2 DEF Reconcile
  <2>1. PICK x \in Scopes :
           \/ End(p) /\ UNCHANGED blind
           \/ /\ Go(p, "complete", [c EXCEPT !.todo = @ \ {x}, !.at = x, !.sources = Sources(Visible(x), c.mode)])
              /\ blind' = (blind \/ Hearsay(x, c.mode))
    OBVIOUS
  <2>2. Sources(Visible(x), c.mode) \in SUBSET Modes
    BY DEF Sources, Visible, Listed, ActiveIn
  <2>3. [c EXCEPT !.todo = @ \ {x}, !.at = x, !.sources = Sources(Visible(x), c.mode)] \in Call
    BY <1>1, <2>2 DEF Call
  <2>4. CallTypes'
    <3> HIDE DEF CallTypes, c
    <3> QED BY <1>1, <2>1, <2>3, GoTypes, EndTypes
  <2>5. blind' \in BOOLEAN
    BY <2>1 DEF Hearsay
  <2> QED BY <2>4, <2>5
<1>3. CASE Complete(p)
  <2> USE <1>3 DEF Complete, History
  <2>1. CASE \E m \in c.sources :
                /\ files' = Completed(c.at, m)
                /\ stale' = Tell(m, {c.at, Root})
                /\ Go(p, "sync", [c EXCEPT !.sources = @ \ {m}, !.source = m])
    <3>1. PICK m \in c.sources :
                /\ files' = Completed(c.at, m)
                /\ stale' = Tell(m, {c.at, Root})
                /\ Go(p, "sync", [c EXCEPT !.sources = @ \ {m}, !.source = m])
      BY <2>1
    <3>2. m \in Modes
      BY <1>1 DEF Call
    <3>3. [c EXCEPT !.sources = @ \ {m}, !.source = m] \in Call
      BY <1>1, <3>2 DEF Call
    <3>4. CallTypes'
      <4> HIDE DEF CallTypes, c
      <4> QED BY <1>1, <3>1, <3>3, GoTypes
    <3>5. files' \in [Scopes -> [Modes -> Status]]
      BY <3>1, <3>2 DEF Completed, Status
    <3>6. stale' \in [Scopes -> SUBSET Modes]
      BY <3>1 DEF Tell
    <3> QED BY <3>4, <3>5, <3>6
  <2>2. CASE Go(p, IF c.todo # {} THEN "reconcile" ELSE "put", c) /\ UNCHANGED <<files, stale>>
    <3>1. CallTypes'
      <4> HIDE DEF CallTypes, c
      <4>1. Go(p, "reconcile", c) \/ Go(p, "put", c)
        BY <2>2
      <4> QED BY <1>1, <4>1, GoTypes
    <3> QED BY <2>2, <3>1
  <2> QED BY <2>1, <2>2
<1>4. CASE Put(p)
  <2> USE <1>4 DEF Put, History
  <2>1. files' \in [Scopes -> [Modes -> Status]]
    BY <1>1, WrittenTyped
  <2>2. CallTypes'
    <3> HIDE DEF CallTypes
    <3> QED BY <1>1, GoTypes
  <2>3. stale' \in [Scopes -> SUBSET Modes]
    BY DEF Tell
  <2> QED BY <2>1, <2>2, <2>3
<1>10. CASE PutPlain(p)
  <2> USE <1>10 DEF PutPlain, History
  <2>1. files' \in [Scopes -> [Modes -> Status]]
    BY <1>1, WrittenTyped
  <2>2. CallTypes'
    <3> HIDE DEF CallTypes
    <3> QED BY <1>1, EndTypes
  <2>3. stale' \in [Scopes -> SUBSET Modes]
    BY <1>1 DEF Call
  <2> QED BY <2>1, <2>2, <2>3
<1>5. CASE SyncRead(p)
  BY <1>5, SyncTypes DEF SyncRead, History
<1>6. CASE WriteRoot(p)
  <2> USE <1>6 DEF WriteRoot, History
  <2>1. lists' \in [Scopes -> List \cup {None}]
    BY <1>1 DEF Call
  <2>2. CallTypes'
    <3> HIDE DEF CallTypes
    <3>1. Go(p, "each", c) \/ Go(p, "own", c)
      OBVIOUS
    <3> QED BY <1>1, <3>1, GoTypes
  <2> QED BY <2>1, <2>2
<1>7. CASE WriteOwn(p)
  <2> USE <1>7 DEF WriteOwn, History
  <2>1. lists' \in [Scopes -> List \cup {None}]
    BY <1>1 DEF Call
  <2>2. CallTypes'
    <3> HIDE DEF CallTypes
    <3> QED BY <1>1, SyncedTypes
  <2> QED BY <2>1, <2>2
<1>8. CASE PassOn(p)
  <2> USE <1>8 DEF PassOn, History
  <2>1. CASE c.left = {} /\ Synced(p, c) /\ UNCHANGED lists
    <3>1. CallTypes'
      <4> HIDE DEF CallTypes
      <4> QED BY <1>1, <2>1, SyncedTypes
    <3> QED BY <2>1, <3>1
  <2>2. ASSUME NEW s \in c.left,
               LET next == Over(For(s, c.root), OwnOnly(s, Entries(s), For(s, c.old))) IN
               /\ lists' = IF lists[s] = None THEN lists
                           ELSE IF Listed(next) = {} THEN [lists EXCEPT ![s] = None]
                           ELSE [lists EXCEPT ![s] = next, ![Root] = c.root]
               /\ Go(p, "each", [c EXCEPT !.left = @ \ {s}])
        PROVE  TypeOK'
    <3>1. s \in Scopes /\ c.root \in List /\ c.old \in List
      BY <1>1 DEF Call, Scopes
    <3> DEFINE next == Over(For(s, c.root), OwnOnly(s, Entries(s), For(s, c.old)))
    <3>2. next \in List
      <4> HIDE DEF c
      <4>1. For(s, c.root) \in List /\ For(s, c.old) \in List /\ Entries(s) \in List
        BY <3>1, ForType, EntriesType
      <4> QED BY <3>1, <4>1, OwnOnlyType, OverType
    <3>3. lists' \in [Scopes -> List \cup {None}]
      <4>1. \/ lists' = lists \/ lists' = [lists EXCEPT ![s] = None]
            \/ lists' = [lists EXCEPT ![s] = next, ![Root] = c.root]
        BY <2>2
      <4> HIDE DEF next, c
      <4> QED BY <3>1, <3>2, <4>1
    <3>4. [c EXCEPT !.left = @ \ {s}] \in Call
      BY <1>1 DEF Call
    <3>5. CallTypes'
      <4> HIDE DEF CallTypes, c
      <4> QED BY <1>1, <2>2, <3>4, GoTypes
    <3> QED BY <3>3, <3>5
  <2> QED BY <2>1, <2>2
<1>9. CASE Crash(p)
  <2> USE <1>9 DEF Crash
  <2>1. torn' \subseteq Scopes
    BY <1>1 DEF Call
  <2>2. crashes' \in 0 .. MaxCrashes
    BY ModesAssumption
  <2>3. CallTypes'
    <3> HIDE DEF CallTypes
    <3> QED BY <1>1, EndTypes
  <2> QED BY <2>1, <2>2, <2>3
<1> QED BY <1>2, <1>3, <1>4, <1>5, <1>6, <1>7, <1>8, <1>9, <1>10

LEMMA TypeNext == TypeOK /\ [Next]_vars => TypeOK'
<1> SUFFICES ASSUME TypeOK, [Next]_vars PROVE TypeOK'
  OBVIOUS
<1>1. CASE UNCHANGED vars
  BY <1>1 DEF TypeOK, vars
<1>2. CASE Next
  BY <1>2, TypeBegin, TypeStep DEF Next, Beginning
<1> QED BY <1>1, <1>2

(* The files hold one of four states for every mode, a list is a map of    *)
(* modes to the sessions they carry, and a call has only such things.      *)
THEOREM ModeTypes == Spec => []TypeOK
  BY TypeInit, TypeNext, PTL DEF Spec

-----------------------------------------------------------------------------
(* Compatible modes *)

Affected(x) == IF x = Root THEN Scopes ELSE {x}

ActiveAt(y) == ActiveIn(y) \cup ActiveIn(Root)

Told(y) == {y, Root} \cap clashed = {} /\ ~blind

Calling(p) == pc[p] # "idle"

(* Two calls that share files are both known to have clashed.              *)
ClashInv ==
    \A p, q \in Procs :
        /\ p # q /\ Calling(p) /\ Calling(q)
        /\ call[p].scope = call[q].scope \/ Root \in {call[p].scope, call[q].scope}
        => {call[p].scope, call[q].scope} \subseteq clashed

(* A call writes, and turns to the next scope, with no source left; what   *)
(* clears all activates nothing.                                           *)
Staged(p) ==
    Calling(p) =>
        /\ pc[p] \in {"reconcile", "put"} => call[p].sources = {}
        /\ pc[p] = "put" => call[p].todo = {}
        /\ call[p].op = "clear_all" => call[p].status = "none"

StageInv == \A p \in Procs : Staged(p)

FitsIn(c, y) ==
    \A a \in ActiveAt(y) : a = c.mode \/ Overlap(a, c.mode) \/ (y = c.at /\ a \in c.sources)

(* In the scopes an activation has reconciled with, the active modes go    *)
(* with it, but for the sources it is about to complete.                   *)
Fits(p) ==
    Calling(p) /\ call[p].status = "active" =>
        \A y \in Affected(call[p].scope) \ call[p].todo : Told(y) => FitsIn(call[p], y)

FitsInv == \A p \in Procs : Fits(p)

CInv == TypeOK /\ ClashInv /\ StageInv /\ FitsInv /\ ActiveModesAreCompatible

(* What a call is to do stays as it began.                                 *)
SameAim(c, d) == d.op = c.op /\ d.mode = c.mode /\ d.scope = c.scope /\ d.status = c.status

Fewer == \A y \in Scopes : ActiveAt(y)' \subseteq ActiveAt(y)

LEMMA ActiveType == \A y \in Scopes : ActiveIn(y) \subseteq Modes
  BY DEF ActiveIn

LEMMA OverlapIsMutual == \A a, b : Overlap(a, b) <=> Overlap(b, a)
  BY DEF Overlap

(* Modes only end, and one process goes on with what it began or is done:  *)
(* what fits and what is compatible stays so.                              *)
LEMMA Steady ==
    ASSUME CInv, NEW p \in Procs, clashed' = clashed, blind => blind', Fewer,
           \A q \in Procs \ {p} : pc'[q] = pc[q] /\ call'[q] = call[q],
           \/ pc'[p] = "idle"
           \/ Calling(p) /\ SameAim(call[p], call'[p]) /\ Staged(p)' /\ Fits(p)'
    PROVE  ClashInv' /\ StageInv' /\ FitsInv' /\ ActiveModesAreCompatible'
<1>1. ClashInv'
  BY DEF CInv, ClashInv, Calling, SameAim
<1>2. StageInv'
  <2> SUFFICES ASSUME NEW q \in Procs PROVE Staged(q)'
    BY DEF StageInv
  <2>1. CASE q = p
    BY <2>1 DEF Staged, Calling
  <2>2. CASE q # p
    BY <2>2 DEF CInv, StageInv, Staged, Calling
  <2> QED BY <2>1, <2>2
<1>3. \A y : Told(y)' => Told(y)
  BY DEF Told
<1>4. FitsInv'
  <2> SUFFICES ASSUME NEW q \in Procs PROVE Fits(q)'
    BY DEF FitsInv
  <2>1. CASE q = p
    BY <2>1 DEF Fits, Calling
  <2>2. CASE q # p
    <3> SUFFICES ASSUME Calling(q)', call'[q].status = "active",
                        NEW y \in Affected(call'[q].scope) \ call'[q].todo, Told(y)'
                 PROVE  FitsIn(call[q], y)'
      BY <2>2 DEF Fits
    <3>1. Calling(q) /\ call'[q] = call[q]
      BY <2>2 DEF Calling
    <3>2. FitsIn(call[q], y)
      BY <3>1, <1>3 DEF CInv, FitsInv, Fits, Affected
    <3>3. y \in Scopes
      BY <3>1 DEF CInv, TypeOK, Calling, Affected, Call
    <3> QED BY <3>1, <3>2, <3>3 DEF FitsIn, Fewer
  <2> QED BY <2>1, <2>2
<1>5. ActiveModesAreCompatible'
  <2> SUFFICES ASSUME NEW x \in Scopes, Told(x)'
               PROVE  Compatible(ActiveAt(x))'
    BY DEF ActiveModesAreCompatible, Told, ActiveAt
  <2>1. Compatible(ActiveAt(x))
    BY <1>3 DEF CInv, ActiveModesAreCompatible, Told, ActiveAt
  <2> QED BY <2>1 DEF Compatible, Fewer
<1> QED BY <1>1, <1>2, <1>4, <1>5

(* A step of the synchronisation, or the end of the call.                  *)
LEMMA Onward ==
    ASSUME CInv, NEW p \in Procs, Calling(p), UNCHANGED <<files, clashed, blind>>,
           \/ End(p)
           \/ \E at \in {"complete", "sync", "root", "own", "each"}, c \in Call :
                /\ Go(p, at, c) /\ SameAim(call[p], c)
                /\ c.todo = call[p].todo /\ c.at = call[p].at /\ c.sources = call[p].sources
    PROVE  ClashInv' /\ StageInv' /\ FitsInv' /\ ActiveModesAreCompatible'
<1>1. Fewer
  BY DEF Fewer, ActiveAt, ActiveIn
<1>2. \A q \in Procs \ {p} : pc'[q] = pc[q] /\ call'[q] = call[q]
  BY DEF CInv, TypeOK, End, Go
<1>3. CASE End(p)
  <2>1. pc'[p] = "idle"
    BY <1>3 DEF CInv, TypeOK, End
  <2> QED BY <1>1, <1>2, <2>1, Steady
<1>4. ASSUME NEW at \in {"complete", "sync", "root", "own", "each"}, NEW c \in Call,
             Go(p, at, c), SameAim(call[p], c),
             c.todo = call[p].todo, c.at = call[p].at, c.sources = call[p].sources
      PROVE  Calling(p) /\ SameAim(call[p], call'[p]) /\ Staged(p)' /\ Fits(p)'
  <2>1. pc'[p] = at /\ call'[p] = c
    BY <1>4 DEF CInv, TypeOK, Go
  <2>2. Staged(p)'
    BY <1>4, <2>1 DEF CInv, StageInv, Staged, Calling, SameAim
  <2>3. Fits(p)'
    <3> SUFFICES ASSUME c.status = "active", NEW y \in Affected(c.scope) \ c.todo, Told(y)'
                 PROVE  FitsIn(c, y)'
      BY <2>1 DEF Fits
    <3>1. FitsIn(call[p], y)
      BY <1>4 DEF CInv, FitsInv, Fits, SameAim, Affected, Told
    <3>2. y \in Scopes
      BY <1>4 DEF Affected, Call
    <3> QED BY <1>1, <1>4, <3>1, <3>2 DEF FitsIn, Fewer, SameAim
  <2> QED BY <1>4, <2>1, <2>2, <2>3
<1> QED BY <1>1, <1>2, <1>3, <1>4, Steady

LEMMA CallIsCall ==
    ASSUME TypeOK, NEW p \in Procs, Calling(p)
    PROVE  call[p] \in Call
  BY DEF TypeOK, Calling

LEMMA SyncedOnward ==
    ASSUME CInv, NEW p \in Procs, Calling(p), UNCHANGED <<files, clashed, blind>>, Synced(p, call[p])
    PROVE  ClashInv' /\ StageInv' /\ FitsInv' /\ ActiveModesAreCompatible'
<1> DEFINE d == [call[p] EXCEPT !.source = None]
<1>1. call[p] \in Call
  BY CallIsCall DEF CInv
<1>2. d \in Call /\ SameAim(call[p], d) /\ d.todo = call[p].todo /\ d.at = call[p].at
      /\ d.sources = call[p].sources
  BY <1>1 DEF Call, SameAim
<1>3. End(p) \/ Go(p, "complete", d)
  BY DEF Synced
<1> HIDE DEF d
<1> QED BY <1>2, <1>3, Onward

LEMMA CompatibleSync ==
    ASSUME CInv, NEW p \in Procs,
           SyncRead(p) \/ WriteRoot(p) \/ WriteOwn(p) \/ PassOn(p) \/ Crash(p)
    PROVE  ClashInv' /\ StageInv' /\ FitsInv' /\ ActiveModesAreCompatible'
<1> DEFINE c == call[p]
<1>1. Calling(p) /\ UNCHANGED <<files, clashed, blind>>
  BY DEF Calling, SyncRead, WriteRoot, WriteOwn, PassOn, Crash, History
<1>2. c \in Call
  BY <1>1, CallIsCall DEF CInv
<1>3. CASE SyncRead(p)
  <2>1. TypeOK'
    BY <1>3, TypeStep DEF CInv
  <2>2. \/ Synced(p, c) \/ End(p)
        \/ \E o, r, w, l : Go(p, "root", [c EXCEPT !.old = o, !.root = r, !.own = w, !.left = l])
    BY <1>3 DEF SyncRead
  <2>3. CASE Synced(p, c)
    BY <1>1, <2>3, SyncedOnward
  <2>4. CASE End(p)
    BY <1>1, <2>4, Onward
  <2>5. ASSUME NEW o, NEW r, NEW w, NEW l, Go(p, "root", [c EXCEPT !.old = o, !.root = r, !.own = w, !.left = l])
        PROVE  ClashInv' /\ StageInv' /\ FitsInv' /\ ActiveModesAreCompatible'
    <3> DEFINE d == [c EXCEPT !.old = o, !.root = r, !.own = w, !.left = l]
    <3>1. pc'[p] = "root" /\ call'[p] = d
      BY <2>5 DEF CInv, TypeOK, Go
    <3>2. d \in Call
      BY <2>1, <3>1 DEF TypeOK
    <3>3. SameAim(c, d) /\ d.todo = c.todo /\ d.at = c.at /\ d.sources = c.sources
      BY <1>2 DEF SameAim, Call
    <3> HIDE DEF d
    <3> QED BY <1>1, <2>5, <3>2, <3>3, Onward DEF d
  <2> QED BY <2>2, <2>3, <2>4, <2>5
<1>4. CASE WriteRoot(p)
  <2>1. Go(p, "each", c) \/ Go(p, "own", c)
    BY <1>4 DEF WriteRoot
  <2> QED BY <1>1, <1>2, <2>1, Onward DEF SameAim
<1>5. CASE WriteOwn(p)
  BY <1>1, <1>5, SyncedOnward DEF WriteOwn
<1>6. CASE PassOn(p)
  <2>1. Synced(p, c) \/ \E s \in c.left : Go(p, "each", [c EXCEPT !.left = @ \ {s}])
    BY <1>6 DEF PassOn
  <2>2. \A s \in c.left : [c EXCEPT !.left = @ \ {s}] \in Call
    BY <1>2 DEF Call
  <2>3. \A s \in c.left : LET d == [c EXCEPT !.left = @ \ {s}] IN
           SameAim(c, d) /\ d.todo = c.todo /\ d.at = c.at /\ d.sources = c.sources
    BY <1>2 DEF SameAim, Call
  <2> QED BY <1>1, <2>1, <2>2, <2>3, Onward, SyncedOnward
<1>7. CASE Crash(p)
  BY <1>1, <1>7, Onward DEF Crash
<1> QED BY <1>3, <1>4, <1>5, <1>6, <1>7

(* What the policy allows goes with the modes a scope sees, or is itself   *)
(* one of them, which then go with each other.                             *)
LEMMA CompatibleReconcile ==
    ASSUME CInv, NEW p \in Procs, Reconcile(p)
    PROVE  ClashInv' /\ StageInv' /\ FitsInv' /\ ActiveModesAreCompatible'
<1>0. PICK c \in Call : c = call[p]
  BY CallIsCall DEF Calling, Reconcile, CInv
<1>1. Calling(p) /\ UNCHANGED <<files, clashed>> /\ c \in Call /\ c.sources = {}
  BY <1>0 DEF Calling, Reconcile, CInv, StageInv, Staged
<1>2. Fewer
  BY <1>1 DEF Fewer, ActiveAt, ActiveIn
<1>3. \A q \in Procs \ {p} : pc'[q] = pc[q] /\ call'[q] = call[q]
  BY DEF CInv, TypeOK, Reconcile, End, Go
<1>4. PICK x \in Scopes :
         /\ NextScope(c, x)
         /\ \/ ~Allowed(Visible(x), c.mode) /\ End(p)
               /\ UNCHANGED blind
            \/ /\ Allowed(Visible(x), c.mode)
               /\ Go(p, "complete", [c EXCEPT !.todo = @ \ {x}, !.at = x,
                                              !.sources = Sources(Visible(x), c.mode)])
               /\ blind' = (blind \/ Hearsay(x, c.mode))
  BY <1>0 DEF Reconcile
<1>5. blind => blind'
  BY <1>4
<1>6. CASE ~Allowed(Visible(x), c.mode) /\ End(p) /\ UNCHANGED blind
  <2>1. pc'[p] = "idle"
    BY <1>6 DEF CInv, TypeOK, End
  <2> QED BY <1>1, <1>2, <1>3, <1>5, <2>1, Steady
<1> DEFINE D == [c EXCEPT !.todo = @ \ {x}, !.at = x, !.sources = Sources(Visible(x), c.mode)]
<1>7. CASE Allowed(Visible(x), c.mode) /\ Go(p, "complete", D) /\ blind' = (blind \/ Hearsay(x, c.mode))
  <2>0. PICK d : d = D
    OBVIOUS
  <2>1. pc'[p] = "complete" /\ call'[p] = d
    BY <1>7, <2>0 DEF CInv, TypeOK, Go
  <2>2. /\ SameAim(c, d) /\ d.todo = c.todo \ {x} /\ d.at = x
        /\ d.sources = Sources(Visible(x), c.mode) /\ d.mode = c.mode
    BY <1>1, <2>0 DEF SameAim, Call
  <2>3. Staged(p)'
    BY <1>0, <1>1, <2>1, <2>2 DEF CInv, StageInv, Staged, Calling, SameAim
  <2>4. \A y \in Scopes : ActiveAt(y)' = ActiveAt(y)
    BY <1>1 DEF ActiveAt, ActiveIn
  <2>5. ASSUME NEW y \in Affected(c.scope) \ (c.todo \ {x}), Told(y)', d.status = "active"
        PROVE  FitsIn(d, y)'
    <3> USE <2>5
    <3>1. y \in Scopes /\ Told(y)
      BY <1>1, <1>5 DEF Affected, Call, Told
    <3>2. CASE y = x
      <4>1. \A a \in ActiveAt(x) : a = c.mode \/ Overlap(a, c.mode) \/ a \in Sources(Visible(x), c.mode)
        <5>1. CASE c.mode \in ActiveAt(x)
          <6>1. Compatible(ActiveAt(x))
            BY <3>1, <3>2 DEF CInv, ActiveModesAreCompatible, Told, ActiveAt
          <6> QED BY <5>1, <6>1 DEF Compatible
        <5>2. CASE c.mode \notin ActiveAt(x)
          <6>1. c.mode \notin Visible(x)
            BY <1>7, <5>2 DEF Hearsay, ActiveAt, Told
          <6>2. ActiveAt(x) \subseteq Visible(x)
            BY DEF ActiveAt, Visible
          <6> QED BY <1>7, <6>1, <6>2 DEF Allowed
        <5> QED BY <5>1, <5>2
      <4> QED BY <2>2, <2>4, <3>1, <3>2, <4>1 DEF FitsIn
    <3>3. CASE y # x
      <4>1. FitsIn(c, y)
        BY <1>0, <1>1, <2>2, <3>1, <3>3 DEF CInv, FitsInv, Fits, SameAim
      <4> QED BY <1>1, <2>2, <2>4, <3>1, <4>1 DEF FitsIn
    <3> QED BY <3>2, <3>3
  <2>6. Fits(p)'
    <3>1. d.scope = c.scope
      BY <2>2 DEF SameAim
    <3> QED BY <2>1, <2>2, <2>5, <3>1 DEF Fits
  <2> QED BY <1>0, <1>1, <1>2, <1>3, <1>5, <2>1, <2>2, <2>3, <2>6, Steady
<1> QED BY <1>4, <1>6, <1>7

(* A source that is completed in its scope and in the root no longer has   *)
(* to fit.                                                                 *)
LEMMA CompatibleComplete ==
    ASSUME CInv, NEW p \in Procs, Complete(p)
    PROVE  ClashInv' /\ StageInv' /\ FitsInv' /\ ActiveModesAreCompatible'
<1>0. PICK c \in Call : c = call[p]
  BY CallIsCall DEF Calling, Complete, CInv
<1>1. Calling(p) /\ UNCHANGED <<clashed, blind>> /\ c \in Call
  BY <1>0, CallIsCall DEF Calling, Complete, CInv, History
<1>2. \A q \in Procs \ {p} : pc'[q] = pc[q] /\ call'[q] = call[q]
  BY DEF CInv, TypeOK, Complete, Go
<1>3. CASE c.sources = {} /\ Go(p, IF c.todo # {} THEN "reconcile" ELSE "put", c) /\ UNCHANGED files
  <2>1. pc'[p] = (IF c.todo # {} THEN "reconcile" ELSE "put") /\ call'[p] = c
    BY <1>3 DEF CInv, TypeOK, Go
  <2>2. Fewer
    BY <1>3 DEF Fewer, ActiveAt, ActiveIn
  <2>3. Staged(p)'
    BY <1>0, <1>1, <1>3, <2>1 DEF CInv, StageInv, Staged, Calling
  <2>4. Fits(p)'
    BY <1>0, <1>1, <1>3, <2>1 DEF CInv, FitsInv, Fits, Calling, Affected, Told, FitsIn, ActiveAt, ActiveIn
  <2> QED BY <1>0, <1>1, <1>2, <2>1, <2>2, <2>3, <2>4, Steady DEF SameAim
<1>4. ASSUME NEW m \in c.sources, files' = Completed(c.at, m),
             Go(p, "sync", [c EXCEPT !.sources = @ \ {m}, !.source = m])
      PROVE  ClashInv' /\ StageInv' /\ FitsInv' /\ ActiveModesAreCompatible'
  <2> DEFINE d == [c EXCEPT !.sources = @ \ {m}, !.source = m]
  <2>1. pc'[p] = "sync" /\ call'[p] = d
    BY <1>4 DEF CInv, TypeOK, Go
  <2>2. SameAim(c, d) /\ d.todo = c.todo /\ d.at = c.at /\ d.sources = c.sources \ {m}
    BY <1>1 DEF SameAim, Call
  <2>3. /\ c.at \in Scopes /\ m \in Modes /\ Root \in Scopes
    BY <1>1 DEF Call, Scopes
  <2>4. \A y \in Scopes : ActiveIn(y)' \subseteq ActiveIn(y) /\ (y \in {c.at, Root} => m \notin ActiveIn(y)')
    <3> SUFFICES ASSUME NEW y \in Scopes, NEW a \in Modes
                 PROVE  /\ files'[y][a] = "active" => files[y][a] = "active"
                        /\ y \in {c.at, Root} => files'[y][m] # "active"
      BY DEF ActiveIn
    <3>1. files'[y] = IF y \in {c.at, Root} /\ files[y][m] = "active"
                      THEN [files[y] EXCEPT ![m] = "completed"] ELSE files[y]
      BY <1>4 DEF Completed
    <3>2. files[y] \in [Modes -> Status]
      BY DEF CInv, TypeOK
    <3> QED BY <2>3, <3>1, <3>2
  <2>5. Fewer /\ m \notin ActiveAt(c.at)'
    BY <2>3, <2>4 DEF Fewer, ActiveAt
  <2>6. Staged(p)'
    BY <1>0, <1>1, <2>1, <2>2 DEF CInv, StageInv, Staged, Calling, SameAim
  <2>7. Fits(p)'
    <3> SUFFICES ASSUME d.status = "active", NEW y \in Affected(c.scope) \ c.todo, Told(y)'
                 PROVE  FitsIn(d, y)'
      BY <2>1, <2>2 DEF Fits, SameAim
    <3>1. FitsIn(c, y)
      BY <1>0, <1>1, <2>2 DEF CInv, FitsInv, Fits, SameAim, Told
    <3>2. y \in Scopes
      BY <1>1 DEF Affected, Call
    <3> QED BY <2>2, <2>5, <3>1, <3>2 DEF FitsIn, Fewer, SameAim
  <2> HIDE DEF d
  <2> QED BY <1>0, <1>1, <1>2, <2>1, <2>2, <2>5, <2>6, <2>7, Steady
<1> QED BY <1>0, <1>3, <1>4 DEF Complete

(* A mode becomes active in one scope.  Every scope that sees it had been  *)
(* reconciled with, and nobody else is at work in one of them.             *)
LEMMA CompatiblePut ==
    ASSUME CInv, NEW p \in Procs, Put(p) \/ PutPlain(p)
    PROVE  ClashInv' /\ StageInv' /\ FitsInv' /\ ActiveModesAreCompatible'
<1>0. PICK c \in Call : c = call[p]
  BY CallIsCall DEF Calling, Put, PutPlain, CInv
<1>1. /\ Calling(p) /\ UNCHANGED <<clashed, blind>> /\ pc[p] = "put" /\ Root \in Scopes
      /\ c.scope \in Scopes /\ c.mode \in Modes /\ c.sources = {} /\ c.todo = {}
      /\ c.op = "clear_all" => c.status = "none"
  BY <1>0 DEF Calling, Put, PutPlain, CInv, History, StageInv, Staged, Call, Scopes
<1>2. \A q \in Procs \ {p} : pc'[q] = pc[q] /\ call'[q] = call[q]
  BY DEF CInv, TypeOK, Put, PutPlain, Go, End
<1>3. (pc'[p] = "sync" /\ call'[p] = c) \/ pc'[p] = "idle"
  BY <1>0 DEF CInv, TypeOK, Put, PutPlain, Go, End
<1>4. Staged(p)'
  BY <1>0, <1>1, <1>3 DEF CInv, StageInv, Staged, Calling
<1>5. \A y \in Scopes, a \in Modes :
         files'[y][a] = IF a = c.mode /\ (y = c.scope \/ c.op = "clear_all") THEN c.status ELSE files[y][a]
  <2> SUFFICES ASSUME NEW y \in Scopes, NEW a \in Modes
               PROVE  files'[y][a] = IF a = c.mode /\ (y = c.scope \/ c.op = "clear_all")
                                     THEN c.status ELSE files[y][a]
    OBVIOUS
  <2>1. files'[y] = IF y = c.scope \/ c.op = "clear_all" THEN [files[y] EXCEPT ![c.mode] = c.status] ELSE files[y]
    BY <1>0 DEF Put, PutPlain, Written, Target
  <2>2. files[y] \in [Modes -> Status]
    BY DEF CInv, TypeOK
  <2> QED BY <1>1, <2>1, <2>2
<1>6. CASE c.status # "active"
  <2>1. Fewer
    BY <1>1, <1>5, <1>6 DEF Fewer, ActiveAt, ActiveIn
  <2>2. Fits(p)'
    BY <1>3, <1>6 DEF Fits, Calling
  <2> QED BY <1>0, <1>1, <1>2, <1>3, <1>4, <2>1, <2>2, Steady DEF SameAim
<1>7. CASE c.status = "active"
  <2>1. \A y \in Scopes : ActiveAt(y)' \subseteq ActiveAt(y) \cup (IF y \in Affected(c.scope) THEN {c.mode} ELSE {})
    BY <1>1, <1>5, <1>7 DEF ActiveAt, ActiveIn, Affected
  <2>2. \A y : Told(y)' <=> Told(y)
    BY <1>1 DEF Told
  <2>3. \A y \in Affected(c.scope) : Told(y) => \A a \in ActiveAt(y) : a = c.mode \/ Overlap(a, c.mode)
    BY <1>0, <1>1, <1>7 DEF CInv, FitsInv, Fits, FitsIn
  <2>4. ClashInv'
    BY <1>0, <1>1, <1>2, <1>3 DEF CInv, ClashInv, Calling
  <2>5. StageInv'
    <3> SUFFICES ASSUME NEW q \in Procs \ {p} PROVE Staged(q)'
      BY <1>4 DEF StageInv
    <3> QED BY <1>2 DEF CInv, StageInv, Staged, Calling
  <2>6. FitsInv'
    <3> SUFFICES ASSUME NEW q \in Procs, Calling(q)', call'[q].status = "active",
                        NEW y \in Affected(call'[q].scope) \ call'[q].todo, Told(y)'
                 PROVE  FitsIn(call[q], y)'
      BY DEF FitsInv, Fits
    <3>1. call'[q] = call[q] /\ Calling(q) /\ call[q] \in Call
      BY <1>0, <1>1, <1>2, <1>3, CallIsCall DEF Calling, CInv
    <3>2. FitsIn(call[q], y) /\ y \in Scopes
      BY <2>2, <3>1 DEF CInv, FitsInv, Fits, Affected, Call
    <3>3. CASE q = p
      BY <1>0, <2>1, <3>1, <3>2, <3>3 DEF FitsIn, Affected
    <3>4. CASE q # p
      <4>1. y \notin Affected(c.scope)
        BY <1>0, <1>1, <2>2, <3>1, <3>4 DEF CInv, ClashInv, Affected, Told
      <4> QED BY <2>1, <3>1, <3>2, <4>1 DEF FitsIn
    <3> QED BY <3>3, <3>4
  <2>7. ActiveModesAreCompatible'
    <3> SUFFICES ASSUME NEW y \in Scopes, Told(y)' PROVE Compatible(ActiveAt(y))'
      BY DEF ActiveModesAreCompatible, Told, ActiveAt
    <3>1. Compatible(ActiveAt(y))
      BY <2>2 DEF CInv, ActiveModesAreCompatible, Told, ActiveAt
    <3>2. CASE y \in Affected(c.scope)
      BY <2>1, <2>2, <2>3, <3>1, <3>2, OverlapIsMutual DEF Compatible
    <3>3. CASE y \notin Affected(c.scope)
      BY <2>1, <3>1, <3>3 DEF Compatible
    <3> QED BY <3>2, <3>3
  <2> QED BY <2>4, <2>5, <2>6, <2>7
<1> QED BY <1>6, <1>7

(* What is known of a call that has just begun.                            *)
Begins(p, m, x) ==
    LET d == call'[p] IN
    /\ pc[p] = "idle" /\ pc'[p] \in {"reconcile", "put"}
    /\ d.mode = m /\ d.scope = x /\ d.at = x /\ d.sources = {} /\ d.source = None
    /\ d.root = NoEntries /\ d.own = NoEntries
    /\ pc'[p] = "put" => d.todo = {}
    /\ pc'[p] = "reconcile" => d.todo = {x} \/ d.todo = Affected(x)
    /\ d.op = "clear_all" => d.status = "none" /\ x = Root
    /\ d.status = "active" => \/ d.todo = Affected(x)
                              \/ d.todo = {Root} /\ x = Root /\ blind'
                              \/ d.todo = {} /\ m \in ActiveAt(x) /\ (x = Root => m \in ActiveIn(Root))
    /\ Note(x)
    /\ \A q \in Procs \ {p} : pc'[q] = pc[q] /\ call'[q] = call[q]
    /\ d.op = "plain" => /\ pc'[p] = "put" /\ d.status \in {"active", "ended"}
                         /\ d.status = "active" => m \in ActiveIn(x)
    /\ UNCHANGED <<files, lists, torn, stale>> /\ (blind => blind')

LEMMA BeginShape ==
    ASSUME TypeOK, NEW p \in Procs, NEW m \in Modes, NEW x \in Scopes,
           Beginning(p, m, x)
    PROVE  Begins(p, m, x)
<1>1. UNCHANGED <<files, lists, torn, stale>>
  BY DEF Beginning, BeginStart, BeginWrite, BeginUpdate, BeginClear, BeginShutdown, BeginTurn
<1>2. blind => blind'
  <2>1. BeginStart(p, m, x) \/ UNCHANGED blind
    BY DEF Beginning, BeginWrite, BeginUpdate, BeginClear, BeginShutdown, BeginTurn
  <2>2. BeginStart(p, m, x) => (blind => blind')
    BY DEF BeginStart
  <2> QED BY <2>1, <2>2
<1> DEFINE Begun(op, status, todo, at) ==
             LET d == call'[p] IN
             /\ pc[p] = "idle" /\ pc'[p] = at
             /\ d.op = op /\ d.mode = m /\ d.scope = x /\ d.at = x /\ d.sources = {} /\ d.source = None
             /\ d.root = NoEntries /\ d.own = NoEntries /\ d.status = status /\ d.todo = todo
             /\ Note(x)
             /\ \A q \in Procs \ {p} : pc'[q] = pc[q] /\ call'[q] = call[q]
<1>3. \A op, status, todo, at : Begin(p, op, m, x, status, todo, at) => Begun(op, status, todo, at)
  BY DEF TypeOK, Begin
<1> HIDE DEF Begun
<1>4. CASE BeginStart(p, m, x)
  <2>1. Begin(p, "start", m, x, "active", {x}, "reconcile") /\ (x = Root => blind')
    BY <1>4 DEF BeginStart
  <2>2. Begun("start", "active", {x}, "reconcile")
    BY <1>3, <2>1
  <2>3. {x} = Affected(x) \/ (x = Root /\ blind')
    BY <2>1 DEF Affected
  <2> QED BY <1>1, <1>2, <2>2, <2>3 DEF Begins, Begun
<1>5. CASE BeginWrite(p, m, x)
  <2>1. Begun("write", "active", Affected(x), "reconcile") \/ Begun("write", "ended", {}, "put")
    BY <1>3, <1>5 DEF BeginWrite, WriteScopes, Affected
  <2>2. CASE Begun("write", "active", Affected(x), "reconcile")
    BY <1>1, <1>2, <2>2 DEF Begins, Begun
  <2>3. CASE Begun("write", "ended", {}, "put")
    BY <1>1, <1>2, <2>3 DEF Begins, Begun
  <2> QED BY <2>1, <2>2, <2>3
<1>6. CASE BeginUpdate(p, m, x)
  <2> DEFINE found == IF files[x][m] # "none" THEN files[x][m] ELSE files[Root][m]
  <2>1. found = "active" => m \in ActiveAt(x) /\ (x = Root => m \in ActiveIn(Root))
    BY DEF ActiveAt, ActiveIn
  <2>2. Begun("update", found, {}, "put") \/ Begun("update", "ended", {}, "put")
    <3>1. Begin(p, "update", m, x, found, {}, "put") \/ Begin(p, "update", m, x, "ended", {}, "put")
      BY <1>6 DEF BeginUpdate
    <3> HIDE DEF found
    <3> QED BY <1>3, <3>1
  <2> HIDE DEF found
  <2>3. CASE Begun("update", found, {}, "put")
    BY <1>1, <1>2, <2>1, <2>3 DEF Begins, Begun
  <2>4. CASE Begun("update", "ended", {}, "put")
    BY <1>1, <1>2, <2>4 DEF Begins, Begun
  <2> QED BY <2>2, <2>3, <2>4
<1>7. CASE BeginClear(p, m, x)
  <2>1. Begun("clear", "none", {}, "put") \/ (x = Root /\ Begun("clear_all", "none", {}, "put"))
    BY <1>3, <1>7 DEF BeginClear
  <2> QED BY <1>1, <1>2, <2>1 DEF Begins, Begun
<1>8. CASE BeginShutdown(p, m, x)
  <2>1. Begun("plain", "ended", {}, "put")
    BY <1>3, <1>8 DEF BeginShutdown
  <2> QED BY <1>1, <1>2, <2>1 DEF Begins, Begun
<1>9. CASE BeginTurn(p, m, x)
  <2>1. Begun("plain", "active", {}, "put") \/ Begun("plain", "ended", {}, "put")
    BY <1>3, <1>9 DEF BeginTurn
  <2>2. m \in ActiveIn(x) /\ m \in ActiveAt(x)
    BY <1>9 DEF BeginTurn, ActiveIn, ActiveAt
  <2>3. CASE Begun("plain", "active", {}, "put")
    BY <1>1, <1>2, <2>2, <2>3 DEF Begins, Begun
  <2>4. CASE Begun("plain", "ended", {}, "put")
    BY <1>1, <1>2, <2>4 DEF Begins, Begun
  <2> QED BY <2>1, <2>3, <2>4
<1> QED BY <1>4, <1>5, <1>6, <1>7, <1>8, <1>9 DEF Beginning

(* A call begins with every scope still to reconcile with, or, when it     *)
(* writes a mode as it finds it, with one that is active there already.    *)
LEMMA CompatibleBegin ==
    ASSUME CInv, NEW p \in Procs, NEW m \in Modes, NEW x \in Scopes,
           Beginning(p, m, x)
    PROVE  ClashInv' /\ StageInv' /\ FitsInv' /\ ActiveModesAreCompatible'
<1>3. Begins(p, m, x)
  BY BeginShape DEF CInv
<1>4. \A q \in Procs \ {p} : pc'[q] = pc[q] /\ call'[q] = call[q]
  BY <1>3 DEF Begins
<1>5. /\ UNCHANGED files /\ clashed \subseteq clashed' /\ (blind => blind')
      /\ pc[p] = "idle" /\ call'[p].scope = x
  BY <1>3 DEF Begins, Note
<1>6. \A y \in Scopes : ActiveAt(y)' = ActiveAt(y)
  BY <1>5 DEF ActiveAt, ActiveIn
<1>7. \A y : Told(y)' => Told(y)
  BY <1>5 DEF Told
<1>8. ClashInv'
  <2>1. ASSUME NEW q \in Procs \ {p}, Calling(q), call[q].scope = x \/ Root \in {call[q].scope, x}
        PROVE  {call[q].scope, x} \subseteq clashed'
    <3>1. call[q].scope \in Scopes
      BY <2>1, CallIsCall DEF CInv, Call
    <3>2. Busy(call[q].scope) # {}
      BY <2>1 DEF Busy, Calling
    <3> QED BY <1>3, <2>1, <3>1, <3>2 DEF Begins, Note
  <2> SUFFICES ASSUME NEW q \in Procs, NEW r \in Procs, q # r, Calling(q)', Calling(r)',
                      call'[q].scope = call'[r].scope \/ Root \in {call'[q].scope, call'[r].scope}
               PROVE  {call'[q].scope, call'[r].scope} \subseteq clashed'
    BY DEF ClashInv
  <2>2. CASE q = p
    BY <1>4, <1>5, <2>1, <2>2 DEF Calling
  <2>3. CASE r = p
    BY <1>4, <1>5, <2>1, <2>3 DEF Calling
  <2>4. CASE q # p /\ r # p
    BY <1>4, <1>5, <2>4 DEF CInv, ClashInv, Calling
  <2> QED BY <2>2, <2>3, <2>4
<1>9. StageInv'
  <2> SUFFICES ASSUME NEW q \in Procs PROVE Staged(q)'
    BY DEF StageInv
  <2>1. CASE q = p
    BY <1>3, <2>1 DEF Begins, Staged
  <2>2. CASE q # p
    BY <1>4, <2>2 DEF CInv, StageInv, Staged, Calling
  <2> QED BY <2>1, <2>2
<1>10. \A y \in Scopes : Told(y) => Compatible(ActiveAt(y))
  BY DEF CInv, ActiveModesAreCompatible, Told, ActiveAt
<1>11. FitsInv'
  <2> SUFFICES ASSUME NEW q \in Procs, Calling(q)', call'[q].status = "active",
                      NEW y \in Affected(call'[q].scope) \ call'[q].todo, Told(y)'
               PROVE  FitsIn(call[q], y)'
    BY DEF FitsInv, Fits
  <2>1. CASE q = p
    <3>1. call'[p].mode = m /\ call'[p].scope = x
      BY <1>3 DEF Begins
    <3>2. m \in ActiveAt(x) /\ (x = Root => m \in ActiveIn(Root))
      BY <1>3, <2>1, <3>1 DEF Begins, Told
    <3>3. y \in Scopes /\ m \in ActiveAt(y)
      BY <2>1, <3>1, <3>2 DEF Affected, ActiveAt
    <3>4. Compatible(ActiveAt(y))
      BY <1>7, <1>10, <3>3
    <3> QED BY <1>6, <2>1, <3>1, <3>3, <3>4 DEF FitsIn, Compatible
  <2>2. CASE q # p
    <3>1. call'[q] = call[q] /\ Calling(q)
      BY <1>4, <2>2 DEF Calling
    <3>2. FitsIn(call[q], y) /\ y \in Scopes
      BY <1>7, <3>1, CallIsCall DEF CInv, FitsInv, Fits, Affected, Call
    <3> QED BY <1>6, <3>1, <3>2 DEF FitsIn
  <2> QED BY <2>1, <2>2
<1>12. ActiveModesAreCompatible'
  <2> SUFFICES ASSUME NEW y \in Scopes, Told(y)' PROVE Compatible(ActiveAt(y))'
    BY DEF ActiveModesAreCompatible, Told, ActiveAt
  <2> QED BY <1>6, <1>7, <1>10 DEF Compatible
<1> QED BY <1>8, <1>9, <1>11, <1>12

LEMMA CompatibleInit == Init => CInv
<1> SUFFICES ASSUME Init PROVE CInv
  OBVIOUS
<1>1. TypeOK
  BY TypeInit
<1>2. ClashInv /\ StageInv /\ FitsInv
  BY DEF Init, ClashInv, StageInv, Staged, FitsInv, Fits, Calling
<1>3. \A x \in Scopes : ActiveIn(x) = {}
  BY DEF Init, ActiveIn
<1>4. ActiveModesAreCompatible
  BY <1>3 DEF ActiveModesAreCompatible, Compatible, Scopes
<1> QED BY <1>1, <1>2, <1>4 DEF CInv

LEMMA CompatibleNext == CInv /\ [Next]_vars => CInv'
<1> SUFFICES ASSUME CInv, [Next]_vars PROVE CInv'
  OBVIOUS
<1>1. TypeOK'
  BY TypeNext DEF CInv
<1>2. CASE UNCHANGED vars
  BY <1>1, <1>2 DEF vars, CInv, ClashInv, StageInv, Staged, FitsInv, Fits, FitsIn, Told, Calling, ActiveAt,
                    ActiveIn, ActiveModesAreCompatible
<1>3. CASE Next
  BY <1>1, <1>3, CompatibleBegin, CompatibleReconcile, CompatibleComplete, CompatiblePut,
     CompatibleSync DEF Next, Beginning, CInv
<1> QED BY <1>2, <1>3

(* No scope sees active modes that exclude each other, whoever dies half   *)
(* way and whatever other sessions complete in the root meanwhile, but for *)
(* overlapping calls on shared files, a start in the root, and a list that *)
(* names a mode whose files are not active.                                *)
THEOREM ModesGoTogether == Spec => []ActiveModesAreCompatible
<1>1. CInv => ActiveModesAreCompatible
  BY DEF CInv
<1> QED BY <1>1, CompatibleInit, CompatibleNext, PTL DEF Spec

-----------------------------------------------------------------------------
(* Lists and files *)

Takes(m) == {a \in Modes : <<a, m>> \in AutoComplete}

L(x) == Listed(Entries(x))

(* What a list is to name: the active modes, and those it has not been     *)
(* told the end of.                                                        *)
Shown(x) == ActiveIn(x) \cup stale[x]

R(x) == {a \in Modes : Entries(Root)[a] = x}

(* What a call holds, whatever other calls do.                             *)
Held(p) ==
    LET c == call[p] IN
    Calling(p) =>
        /\ c.scope \in used
        /\ c.sources \subseteq Takes(c.mode)
        /\ pc[p] \in {"reconcile", "complete", "put"} => c.source = None
        /\ pc[p] \notin {"reconcile", "complete", "put"} /\ c.source = None => c.todo = {} /\ c.sources = {}
        /\ pc[p] = "own" => SyncScope(c) # Root
        /\ pc[p] = "each" => SyncScope(c) = Root
        /\ pc[p] = "root" /\ SyncScope(c) = Root => c.left = Sessions
        /\ c.scope # Root => c.at = c.scope /\ c.todo \subseteq {c.scope} /\ c.op # "clear_all"
        /\ c.scope = Root => /\ c.todo # {} => Root \in c.todo
                             /\ pc[p] # "reconcile" => (c.at = Root <=> c.todo = {})

HeldInv == \A p \in Procs : Held(p)

(* A call that tells no list ends a mode, or leaves an active one active.  *)
Plain(p) ==
    LET c == call[p] IN
    Calling(p) /\ c.op = "plain" =>
        /\ pc[p] = "put" /\ c.status \in {"active", "ended"}
        /\ c.status = "active" /\ c.scope \notin clashed => c.mode \in ActiveIn(c.scope)

PlainInv == \A p \in Procs : Plain(p)

(* The mode of an activation goes with the modes active in x, its sources  *)
(* apart.                                                                  *)
Goes(c, x) ==
    c.status = "active" /\ x \notin c.todo =>
        c.mode \in Shown(x) \/ \A a \in Shown(x) : Overlap(a, c.mode) \/ a \in c.sources

(* The entries a call is to write are those of x.                          *)
Writes(p, x) == Calling(p) => \A a \in Modes : {call[p].root[a], call[p].own[a]} \subseteq {None, x}

(* Only sessions: whose the entries are.                                   *)
SessionEntries ==
    Root \notin used =>
        /\ Shown(Root) = {}
        /\ \A a \in Modes : Entries(Root)[a] # Root
        /\ \A x \in Sessions, a \in Modes : Entries(x)[a] \in {None, x}
        /\ \A p \in Procs : Writes(p, call[p].scope)

SessionAt(p, x) ==
    LET c == call[p]  m == SyncMode(c) IN
    /\ pc[p] \in {"reconcile", "complete", "put"} => L(x) = Shown(x) /\ R(x) \subseteq L(x)
    /\ pc[p] = "sync" =>
         /\ R(x) \subseteq L(x)
         /\ L(x) \ {m} = Shown(x) \ {m}
         /\ m \in Shown(x) <=> SyncOn(c)
         /\ SyncOn(c) => Allowed(L(x), m)
    /\ pc[p] = "root" => Listed(c.own) = Shown(x) /\ Listed(c.root) \subseteq Shown(x)
    /\ pc[p] = "own" => Listed(c.own) = Shown(x) /\ R(x) \subseteq Shown(x)
    /\ Goes(c, x)

SessionInv ==
    Root \notin used => \A x \in Sessions \ (clashed \cup torn) :
        /\ Busy(x) = {} => L(x) = Shown(x) /\ R(x) \subseteq L(x)
        /\ \A p \in Busy(x) : SessionAt(p, x)

(* Only the root.                                                          *)
RootEntries ==
    used \subseteq {Root} =>
        /\ \A s \in Sessions : Shown(s) = {}
        /\ \A x \in Scopes, a \in Modes : Entries(x)[a] \in {None, Root}
        /\ \A p \in Procs : Writes(p, Root)

Below(S) == \A s \in S : L(s) \subseteq L(Root)

(* A reconciliation with the sessions completes sources in the root, and   *)
(* leaves them in its list.                                                *)
Early(m, sources) ==
    /\ Shown(Root) \subseteq L(Root) /\ L(Root) \ Shown(Root) \subseteq Takes(m)
    /\ L(Root) # Shown(Root) \/ sources # {} => m \notin L(Root) /\ Allowed(L(Root), m)
    /\ Below(Sessions)

(* The one with the root itself takes them out.                            *)
Late(list, sources) == Shown(Root) \subseteq list /\ list \ Shown(Root) \subseteq sources

LateSync(c, m) ==
    /\ Late(L(Root) \cup {m}, c.sources \cup {m})
    /\ m \in Shown(Root) <=> SyncOn(c)
    /\ SyncOn(c) => Allowed(L(Root), m)
    /\ Below(Sessions)

RootAt(p) ==
    LET c == call[p] IN
    /\ Root \in c.todo =>
         /\ Early(c.mode, c.sources)
         /\ pc[p] = "root" => Listed(c.root) = L(Root)
         /\ pc[p] \in {"root", "own"} => Listed(c.own) = L(Root)
    /\ c.todo = {} =>
         /\ pc[p] \in {"complete", "put"} => Late(L(Root), c.sources) /\ Below(Sessions)
         /\ pc[p] = "sync" => LateSync(c, SyncMode(c))
         /\ pc[p] = "root" => Late(Listed(c.root), c.sources)
         /\ pc[p] = "each" => Late(L(Root), c.sources) /\ L(Root) = Listed(c.root) /\ Below(Sessions \ c.left)
    /\ Goes(c, Root)

RootAgrees == L(Root) = Shown(Root) /\ Below(Sessions)

RootInv ==
    used \subseteq {Root} /\ Root \notin clashed \cup torn =>
        /\ Busy(Root) = {} => RootAgrees
        /\ \A p \in Busy(Root) : RootAt(p)

(* The root's list names no modes that exclude each other.                 *)
TidyAt(p) ==
    /\ pc[p] = "sync" /\ SyncOn(call[p]) => Compatible(L(Root) \cup {call[p].mode})
    /\ pc[p] = "root" => Compatible(Listed(call[p].root))

TidyInv ==
    used \subseteq {Root} /\ Root \notin clashed \cup torn =>
        /\ Compatible(L(Root))
        /\ \A p \in Busy(Root) : TidyAt(p)

FInv == CInv /\ HeldInv /\ PlainInv /\ SessionEntries /\ SessionInv /\ RootEntries /\ RootInv /\ TidyInv

-----------------------------------------------------------------------------
(* What a call holds *)

(* One call goes on, or is over.                                           *)
LEMMA HeldFrame ==
    ASSUME HeldInv, NEW p \in Procs, used \subseteq used',
           \A q \in Procs \ {p} : pc'[q] = pc[q] /\ call'[q] = call[q],
           Held(p)'
    PROVE  HeldInv'
<1> SUFFICES ASSUME NEW q \in Procs PROVE Held(q)'
  BY DEF HeldInv
<1>1. CASE q = p
  BY <1>1
<1>2. CASE q # p
  <2>1. pc'[q] = pc[q] /\ call'[q] = call[q] /\ Held(q)
    BY <1>2 DEF HeldInv
  <2> QED BY <2>1 DEF Held, Calling, SyncScope
<1> QED BY <1>1, <1>2

LEMMA HeldBegin ==
    ASSUME TypeOK, HeldInv, NEW p \in Procs, NEW m \in Modes, NEW x \in Scopes, Begins(p, m, x)
    PROVE  HeldInv'
<1>1. used \subseteq used' /\ x \in used'
  BY DEF Begins, Note
<1>2. \A q \in Procs \ {p} : pc'[q] = pc[q] /\ call'[q] = call[q]
  BY DEF Begins
<1>3. Held(p)'
  BY <1>1 DEF Begins, Held, SyncScope, Affected, Scopes
<1> QED BY <1>1, <1>2, <1>3, HeldFrame

LEMMA HeldStep ==
    ASSUME CInv, HeldInv, NEW p \in Procs,
           \/ Reconcile(p) \/ Complete(p) \/ Put(p) \/ PutPlain(p)
           \/ SyncRead(p) \/ WriteRoot(p) \/ WriteOwn(p) \/ PassOn(p) \/ Crash(p)
    PROVE  HeldInv'
<1>0. TypeOK /\ Staged(p)
  BY DEF CInv, StageInv
<1>1. Calling(p) /\ used' = used
  BY DEF Calling, Reconcile, Complete, Put, PutPlain, SyncRead, WriteRoot, WriteOwn, PassOn, Crash, History
<1>2. PICK c \in Call : c = call[p]
  BY <1>0, <1>1, CallIsCall
<1>3. \A q \in Procs \ {p} : pc'[q] = pc[q] /\ call'[q] = call[q]
  BY <1>0 DEF TypeOK, End, Go, Synced, Reconcile, Complete, Put, PutPlain, SyncRead, WriteRoot, WriteOwn, PassOn, Crash
<1>4. Held(p)
  BY DEF HeldInv
<1>5. End(p) => Held(p)'
  BY <1>0 DEF TypeOK, End, Held, Calling
<1>6. \A at, d : Go(p, at, d) => pc'[p] = at /\ call'[p] = d
  BY <1>0 DEF TypeOK, Go
<1>7. Root \notin Sessions /\ None \notin Modes /\ Scopes = Sessions \cup {Root}
  BY ModesAssumption DEF Scopes
<1>8. Synced(p, c) /\ pc[p] \in {"sync", "own", "each"} => Held(p)'
  <2> SUFFICES ASSUME Go(p, "complete", [c EXCEPT !.source = None]), pc[p] \in {"sync", "own", "each"}
               PROVE  Held(p)'
    BY <1>5 DEF Synced
  <2>1. pc'[p] = "complete" /\ call'[p] = [c EXCEPT !.source = None]
    BY <1>6
  <2>2. /\ call'[p].scope = c.scope /\ call'[p].todo = c.todo /\ call'[p].sources = c.sources /\ call'[p].at = c.at
        /\ call'[p].op = c.op /\ call'[p].mode = c.mode /\ call'[p].source = None
    BY <2>1 DEF Call
  <2> QED BY <1>1, <1>2, <1>4, <2>1, <2>2 DEF Held, Calling
<1>9. CASE Reconcile(p)
  <2> SUFFICES ASSUME NEW x \in Scopes, NextScope(c, x),
                      Go(p, "complete", [c EXCEPT !.todo = @ \ {x}, !.at = x, !.sources = Sources(Visible(x), c.mode)])
               PROVE  Held(p)'
    BY <1>1, <1>2, <1>3, <1>5, <1>9, HeldFrame DEF Reconcile
  <2>1. pc'[p] = "complete" /\ call'[p] = [c EXCEPT !.todo = @ \ {x}, !.at = x, !.sources = Sources(Visible(x), c.mode)]
    BY <1>6
  <2>2. /\ call'[p].scope = c.scope /\ call'[p].todo = c.todo \ {x} /\ call'[p].at = x
        /\ call'[p].sources = Sources(Visible(x), c.mode)
        /\ call'[p].op = c.op /\ call'[p].mode = c.mode /\ call'[p].source = c.source
    BY <2>1 DEF Call
  <2>3. Sources(Visible(x), c.mode) \subseteq Takes(c.mode)
    BY DEF Sources, Takes, Visible, Listed, ActiveIn
  <2>4. pc[p] = "reconcile"
    BY <1>9 DEF Reconcile
  <2>5. c.scope = Root => (c.todo \ {x} # {} => Root \in c.todo \ {x}) /\ (x = Root <=> c.todo \ {x} = {})
    BY <1>1, <1>2, <1>4 DEF Held, NextScope
  <2> QED BY <1>1, <1>2, <1>4, <2>1, <2>2, <2>3, <2>4, <2>5 DEF Held, Calling, NextScope
<1>10. CASE Complete(p)
  <2>1. CASE c.sources = {} /\ Go(p, IF c.todo # {} THEN "reconcile" ELSE "put", c)
    <3>1. pc'[p] = (IF c.todo # {} THEN "reconcile" ELSE "put") /\ call'[p] = c /\ pc[p] = "complete"
      BY <1>6, <1>10, <2>1 DEF Complete
    <3>2. Held(p)'
      BY <1>1, <1>2, <1>4, <3>1 DEF Held, Calling, SyncScope
    <3> QED BY <1>1, <1>3, <3>2, HeldFrame
  <2>2. ASSUME NEW m \in c.sources, Go(p, "sync", [c EXCEPT !.sources = @ \ {m}, !.source = m])
        PROVE  HeldInv'
    <3>1. pc'[p] = "sync" /\ call'[p] = [c EXCEPT !.sources = @ \ {m}, !.source = m] /\ pc[p] = "complete"
      BY <1>6, <1>10, <2>2 DEF Complete
    <3>2. /\ call'[p].scope = c.scope /\ call'[p].todo = c.todo /\ call'[p].sources = c.sources \ {m}
          /\ call'[p].at = c.at /\ call'[p].op = c.op /\ call'[p].mode = c.mode /\ call'[p].source = m
      BY <3>1 DEF Call
    <3>3. m # None
      BY <1>7 DEF Call
    <3>4. Held(p)'
      BY <1>1, <1>2, <1>4, <3>1, <3>2, <3>3 DEF Held, Calling, SyncScope
    <3> QED BY <1>1, <1>3, <3>4, HeldFrame
  <2> QED BY <1>2, <1>10, <2>1, <2>2 DEF Complete
<1>11. CASE Put(p)
  <2>1. pc'[p] = "sync" /\ call'[p] = c /\ pc[p] = "put"
    BY <1>2, <1>6, <1>11 DEF Put
  <2>2. Held(p)'
    BY <1>0, <1>1, <1>2, <1>4, <2>1 DEF Held, Calling, SyncScope, Staged
  <2> QED BY <1>1, <1>3, <2>2, HeldFrame
<1>17. CASE PutPlain(p)
  BY <1>1, <1>3, <1>5, <1>17, HeldFrame DEF PutPlain
<1>12. CASE SyncRead(p)
  <2>1. \/ Synced(p, c) \/ End(p)
        \/ \E o, r, w : Go(p, "root", [c EXCEPT !.old = o, !.root = r, !.own = w,
                                                !.left = IF SyncScope(c) = Root THEN Sessions ELSE {}])
    BY <1>2, <1>12 DEF SyncRead
  <2>2. pc[p] = "sync"
    BY <1>12 DEF SyncRead
  <2>3. ASSUME NEW o, NEW r, NEW w,
               Go(p, "root", [c EXCEPT !.old = o, !.root = r, !.own = w,
                                       !.left = IF SyncScope(c) = Root THEN Sessions ELSE {}])
        PROVE  Held(p)'
    <3>1. pc'[p] = "root" /\ call'[p] = [c EXCEPT !.old = o, !.root = r, !.own = w,
                                                  !.left = IF SyncScope(c) = Root THEN Sessions ELSE {}]
      BY <1>6, <2>3
    <3>2. /\ call'[p].scope = c.scope /\ call'[p].todo = c.todo /\ call'[p].sources = c.sources
          /\ call'[p].at = c.at /\ call'[p].op = c.op /\ call'[p].mode = c.mode /\ call'[p].source = c.source
          /\ call'[p].left = IF SyncScope(c) = Root THEN Sessions ELSE {}
      BY <3>1 DEF Call
    <3> QED BY <1>1, <1>2, <1>4, <2>2, <3>1, <3>2 DEF Held, Calling, SyncScope
  <2> QED BY <1>1, <1>3, <1>5, <1>8, <2>1, <2>2, <2>3, HeldFrame
<1>13. CASE WriteRoot(p)
  <2>1. pc'[p] = (IF SyncScope(c) = Root THEN "each" ELSE "own") /\ call'[p] = c /\ pc[p] = "root"
    BY <1>2, <1>6, <1>13 DEF WriteRoot
  <2>2. Held(p)'
    BY <1>1, <1>2, <1>4, <2>1 DEF Held, Calling, SyncScope
  <2> QED BY <1>1, <1>3, <2>2, HeldFrame
<1>14. CASE WriteOwn(p)
  BY <1>1, <1>2, <1>3, <1>8, <1>14, HeldFrame DEF WriteOwn
<1>15. CASE PassOn(p)
  <2>1. pc[p] = "each" /\ (Synced(p, c) \/ \E s \in c.left : Go(p, "each", [c EXCEPT !.left = @ \ {s}]))
    BY <1>2, <1>15 DEF PassOn
  <2>2. ASSUME NEW s \in c.left, Go(p, "each", [c EXCEPT !.left = @ \ {s}])
        PROVE  Held(p)'
    <3>1. pc'[p] = "each" /\ call'[p] = [c EXCEPT !.left = @ \ {s}]
      BY <1>6, <2>2
    <3>2. /\ call'[p].scope = c.scope /\ call'[p].todo = c.todo /\ call'[p].sources = c.sources
          /\ call'[p].at = c.at /\ call'[p].op = c.op /\ call'[p].mode = c.mode /\ call'[p].source = c.source
      BY <3>1 DEF Call
    <3> QED BY <1>1, <1>2, <1>4, <2>1, <3>1, <3>2 DEF Held, Calling, SyncScope
  <2> QED BY <1>1, <1>3, <1>8, <2>1, <2>2, HeldFrame
<1>16. CASE Crash(p)
  BY <1>1, <1>3, <1>5, <1>16, HeldFrame DEF Crash
<1> QED BY <1>9, <1>10, <1>11, <1>12, <1>13, <1>14, <1>15, <1>16, <1>17

-----------------------------------------------------------------------------
(* What a synchronisation writes *)

RootOf(x) == For(x, Entries(Root))

OwnOf(x) == IF x = Root THEN NoEntries ELSE OwnOnly(x, Entries(x), RootOf(x))

NextOwn(x, m, on) == Set(Without(OwnOf(x), m), m, x, on)

SyncRoot(c, x, m, on) ==
    IF x = Root THEN Set(Without(RootOf(x), m), m, Root, on)
    ELSE RootList(c, m, x, on, RootOf(x), NextOwn(x, m, on))

SyncOwn(x, m, on) == Over(Rest(RootOf(x), m, x), NextOwn(x, m, on))

On(m, on) == IF on THEN {m} ELSE {}

SyncGo(p, c, x, m, on) ==
    Go(p, "root", [c EXCEPT !.old = RootOf(x), !.root = SyncRoot(c, x, m, on), !.own = SyncOwn(x, m, on),
                            !.left = IF x = Root THEN Sessions ELSE {}])

LEMMA SyncShape ==
    ASSUME NEW p, SyncRead(p)
    PROVE  LET c == call[p]  m == SyncMode(c)  x == SyncScope(c)  on == SyncOn(c) IN
           /\ pc[p] = "sync" /\ UNCHANGED <<files, lists, stale, History>>
           /\ \/ lists[Root] = None /\ lists[x] = None /\ ~on /\ Synced(p, c)
              \/ on /\ ~Allowed(Listed(Over(RootOf(x), OwnOf(x))), m) /\ End(p)
              \/ SyncGo(p, c, x, m, on)
  BY DEF SyncRead, RootOf, OwnOf, NextOwn, SyncRoot, SyncOwn, Rest, SyncGo

(* The lists, mode by mode.                                                *)
LEMMA SyncPoints ==
    ASSUME TypeOK, NEW x \in Scopes, NEW m \in Modes, NEW on \in BOOLEAN, NEW a \in Modes
    PROVE  /\ RootOf(x)[a] = IF x = Root \/ Entries(Root)[a] \in {Root, x} THEN Entries(Root)[a] ELSE None
           /\ OwnOf(x)[a] = IF x # Root /\ Entries(x)[a] = x /\ RootOf(x)[a] # x THEN x ELSE None
           /\ NextOwn(x, m, on)[a] = IF a = m THEN IF on THEN x ELSE None ELSE OwnOf(x)[a]
           /\ Rest(RootOf(x), m, x)[a] = IF a = m /\ RootOf(x)[a] = x THEN None ELSE RootOf(x)[a]
           /\ SyncOwn(x, m, on)[a] = IF NextOwn(x, m, on)[a] # None THEN NextOwn(x, m, on)[a]
                                     ELSE Rest(RootOf(x), m, x)[a]
           /\ NoEntries[a] = None
           /\ Over(RootOf(x), OwnOf(x))[a] = IF OwnOf(x)[a] # None THEN OwnOf(x)[a] ELSE RootOf(x)[a]
<1>1. Root \in Scopes /\ Entries(Root) \in List /\ Entries(x) \in List
  BY EntriesType DEF Scopes
<1>2. RootOf(x) \in List
  BY <1>1, ForType DEF RootOf
<1>3. OwnOf(x) \in List
  BY <1>1, <1>2, OwnOnlyType, NoEntriesType DEF OwnOf
<1>4. NextOwn(x, m, on)[a] = IF a = m THEN IF on THEN x ELSE None ELSE OwnOf(x)[a]
  BY <1>3 DEF NextOwn, Set, Without, List
<1>5. RootOf(x)[a] = IF x = Root \/ Entries(Root)[a] \in {Root, x} THEN Entries(Root)[a] ELSE None
  BY DEF RootOf, For
<1>6. OwnOf(x)[a] = IF x # Root /\ Entries(x)[a] = x /\ RootOf(x)[a] # x THEN x ELSE None
  BY DEF OwnOf, OwnOnly, NoEntries
<1>7. Rest(RootOf(x), m, x)[a] = IF a = m /\ RootOf(x)[a] = x THEN None ELSE RootOf(x)[a]
  BY DEF Rest
<1>8. SyncOwn(x, m, on)[a] = IF NextOwn(x, m, on)[a] # None THEN NextOwn(x, m, on)[a]
                             ELSE Rest(RootOf(x), m, x)[a]
  BY DEF SyncOwn, Over
<1>9. Over(RootOf(x), OwnOf(x))[a] = IF OwnOf(x)[a] # None THEN OwnOf(x)[a] ELSE RootOf(x)[a]
  BY DEF Over
<1>10. NoEntries[a] = None
  BY DEF NoEntries
<1> QED BY <1>4, <1>5, <1>6, <1>7, <1>8, <1>9, <1>10

LEMMA RootPoints ==
    ASSUME TypeOK, NEW x \in Scopes, NEW m \in Modes, NEW on \in BOOLEAN, NEW c
    PROVE  /\ x = Root => \A a \in Modes : SyncRoot(c, x, m, on)[a] = IF a = m THEN IF on THEN x ELSE None
                                                                      ELSE RootOf(x)[a]
           /\ x # Root => \/ SyncRoot(c, x, m, on) = NextOwn(x, m, on)
                          \/ /\ SyncRoot(c, x, m, on) = NoEntries
                             /\ ~on /\ Listed(Rest(RootOf(x), m, x)) = {}
                          \/ SyncRoot(c, x, m, on) = Rest(RootOf(x), m, x)
<1>1. Root \in Scopes /\ RootOf(x) \in List
  BY EntriesType, ForType DEF Scopes, RootOf
<1>2. CASE x = Root
  BY <1>1, <1>2 DEF SyncRoot, Set, Without, List
<1>3. CASE x # Root
  BY <1>3 DEF SyncRoot, RootList, Rest
<1> QED BY <1>2, <1>3

(* A session whose entries in the root's list are its own: its new list is *)
(* the old one without the mode, or with it.                               *)
LEMMA SessionSync ==
    ASSUME TypeOK, NEW x \in Sessions, NEW m \in Modes, NEW on \in BOOLEAN, NEW c,
           \A a \in Modes : Entries(Root)[a] # Root,
           \A a \in Modes : Entries(x)[a] \in {None, x}
    PROVE  /\ \A a \in Modes : {SyncRoot(c, x, m, on)[a], SyncOwn(x, m, on)[a]} \subseteq {None, x}
           /\ Listed(SyncRoot(c, x, m, on)) \subseteq Listed(SyncOwn(x, m, on))
           /\ R(x) \subseteq L(x) => /\ Listed(SyncOwn(x, m, on)) = (L(x) \ {m}) \cup On(m, on)
                                     /\ Listed(Over(RootOf(x), OwnOf(x))) = L(x)
<1>1. x # Root /\ x # None /\ x \in Scopes
  BY ModesAssumption DEF Scopes
<1>2. \A a \in Modes : RootOf(x)[a] = IF Entries(Root)[a] = x THEN x ELSE None
  BY <1>1, SyncPoints
<1>3. \A a \in Modes : OwnOf(x)[a] = IF Entries(x)[a] = x /\ Entries(Root)[a] # x THEN x ELSE None
  BY <1>1, <1>2, SyncPoints
<1>4. \A a \in Modes : SyncOwn(x, m, on)[a] =
         IF a = m THEN IF on THEN x ELSE None
         ELSE IF Entries(x)[a] = x \/ Entries(Root)[a] = x THEN x ELSE None
  BY <1>1, <1>2, <1>3, SyncPoints
<1>5. \A a \in Modes : NextOwn(x, m, on)[a] = IF a = m THEN IF on THEN x ELSE None ELSE OwnOf(x)[a]
  BY <1>1, SyncPoints
<1>6. \A a \in Modes : Rest(RootOf(x), m, x)[a] = IF a # m /\ Entries(Root)[a] = x THEN x ELSE None
  BY <1>1, <1>2, SyncPoints
<1>7. \A a \in Modes : SyncRoot(c, x, m, on)[a] \in {None, x} /\ (SyncRoot(c, x, m, on)[a] # None => SyncOwn(x, m, on)[a] # None)
  <2>1. CASE SyncRoot(c, x, m, on) = NextOwn(x, m, on)
    BY <1>1, <1>3, <1>4, <1>5, <2>1
  <2>2. CASE SyncRoot(c, x, m, on) = NoEntries
    BY <2>2 DEF NoEntries
  <2>3. CASE SyncRoot(c, x, m, on) = Rest(RootOf(x), m, x)
    BY <1>1, <1>4, <1>6, <2>3
  <2> QED BY <1>1, <2>1, <2>2, <2>3, RootPoints
<1>8. Listed(SyncRoot(c, x, m, on)) \subseteq Listed(SyncOwn(x, m, on))
  BY <1>7 DEF Listed
<1>9. ASSUME R(x) \subseteq L(x)
      PROVE  /\ Listed(SyncOwn(x, m, on)) = (L(x) \ {m}) \cup On(m, on)
             /\ Listed(Over(RootOf(x), OwnOf(x))) = L(x)
  <2>1. \A a \in Modes : Entries(Root)[a] = x => Entries(x)[a] = x
    BY <1>9 DEF R, L, Listed
  <2>2. Listed(SyncOwn(x, m, on)) = (L(x) \ {m}) \cup On(m, on)
    BY <1>1, <1>4, <2>1 DEF L, Listed, On
  <2>3. \A a \in Modes : Over(RootOf(x), OwnOf(x))[a] = IF OwnOf(x)[a] # None THEN OwnOf(x)[a] ELSE RootOf(x)[a]
    BY <1>1, SyncPoints
  <2>4. Listed(Over(RootOf(x), OwnOf(x))) = L(x)
    BY <1>1, <1>2, <1>3, <2>1, <2>3 DEF L, Listed
  <2> QED BY <2>2, <2>4
<1> QED BY <1>1, <1>4, <1>7, <1>8, <1>9

(* The root alone: a synchronisation of the root takes the mode out or     *)
(* puts it in; one of a session copies the root's list.                    *)
LEMMA RootSync ==
    ASSUME TypeOK, NEW x \in Scopes, NEW m \in Modes, NEW on \in BOOLEAN, NEW c,
           x # Root => ~on,
           \A y \in Scopes, a \in Modes : Entries(y)[a] \in {None, Root}
    PROVE  /\ \A a \in Modes : {SyncRoot(c, x, m, on)[a], SyncOwn(x, m, on)[a]} \subseteq {None, Root}
           /\ x = Root => /\ Listed(SyncRoot(c, x, m, on)) = (L(Root) \ {m}) \cup On(m, on)
                          /\ Listed(Over(RootOf(x), OwnOf(x))) = L(Root)
           /\ x # Root => /\ Listed(SyncRoot(c, x, m, on)) = L(Root)
                          /\ Listed(SyncOwn(x, m, on)) = L(Root)
<1>1. Root # None /\ x # None /\ Root \in Scopes
  BY ModesAssumption DEF Scopes
<1>2. \A a \in Modes : RootOf(x)[a] = Entries(Root)[a]
  BY <1>1, SyncPoints
<1>3. \A a \in Modes : OwnOf(x)[a] = None
  BY <1>1, <1>2, SyncPoints
<1>4. \A a \in Modes : NextOwn(x, m, on)[a] = IF a = m /\ on THEN x ELSE None
  BY <1>1, <1>3, SyncPoints
<1>5. \A a \in Modes : Rest(RootOf(x), m, x)[a] = IF a = m /\ x = Root THEN None ELSE Entries(Root)[a]
  BY <1>1, <1>2, SyncPoints
<1>6. \A a \in Modes : SyncOwn(x, m, on)[a] = IF NextOwn(x, m, on)[a] # None THEN NextOwn(x, m, on)[a]
                                              ELSE Rest(RootOf(x), m, x)[a]
  BY SyncPoints
<1>7. \A a \in Modes : SyncOwn(x, m, on)[a] \in {None, Root}
  BY <1>1, <1>4, <1>5, <1>6
<1>8. CASE x = Root
  <2>1. \A a \in Modes : SyncRoot(c, x, m, on)[a] = IF a = m THEN IF on THEN x ELSE None ELSE Entries(Root)[a]
    BY <1>2, <1>8, RootPoints
  <2>2. Listed(SyncRoot(c, x, m, on)) = (L(Root) \ {m}) \cup On(m, on)
    BY <1>1, <1>8, <2>1 DEF L, Listed, On
  <2>3. \A a \in Modes : Over(RootOf(x), OwnOf(x))[a] = IF OwnOf(x)[a] # None THEN OwnOf(x)[a] ELSE RootOf(x)[a]
    BY SyncPoints
  <2>4. Listed(Over(RootOf(x), OwnOf(x))) = L(Root)
    BY <1>2, <1>3, <2>3 DEF L, Listed
  <2> QED BY <1>1, <1>7, <1>8, <2>1, <2>2, <2>4
<1>9. CASE x # Root
  <2>1. \A a \in Modes : SyncOwn(x, m, on)[a] = Entries(Root)[a]
    BY <1>4, <1>5, <1>6, <1>9
  <2>2. Listed(SyncOwn(x, m, on)) = L(Root)
    BY <2>1 DEF L, Listed
  <2>3. Listed(Rest(RootOf(x), m, x)) = L(Root)
    BY <1>5, <1>9 DEF L, Listed
  <2>4. SyncRoot(c, x, m, on) = Rest(RootOf(x), m, x) \/ (SyncRoot(c, x, m, on) = NoEntries /\ L(Root) = {})
    BY <1>9, <2>3 DEF SyncRoot, RootList, Rest
  <2>5. Listed(NoEntries) = {} /\ \A a \in Modes : NoEntries[a] = None
    BY DEF Listed, NoEntries
  <2>6. \A a \in Modes : SyncRoot(c, x, m, on)[a] \in {None, Root}
    BY <1>1, <1>5, <1>9, <2>4, <2>5
  <2>7. Listed(SyncRoot(c, x, m, on)) = L(Root)
    BY <2>3, <2>4, <2>5
  <2> QED BY <1>7, <1>9, <2>2, <2>6, <2>7
<1> QED BY <1>8, <1>9

-----------------------------------------------------------------------------
(* Whose the entries are *)

Step(p) ==
    \/ Reconcile(p) \/ Complete(p) \/ Put(p) \/ PutPlain(p)
    \/ SyncRead(p) \/ WriteRoot(p) \/ WriteOwn(p) \/ PassOn(p) \/ Crash(p)

(* A step is of one call, which stays what it is.                          *)
LEMMA StepFrame ==
    ASSUME CInv, NEW p \in Procs, Step(p)
    PROVE  /\ Calling(p) /\ call[p] \in Call /\ used' = used /\ clashed' = clashed /\ torn \subseteq torn'
           /\ \A q \in Procs \ {p} : pc'[q] = pc[q] /\ call'[q] = call[q]
           /\ pc'[p] = "idle" \/ (Calling(p)' /\ SameAim(call[p], call'[p]))
           /\ SyncRead(p) \/ pc'[p] = "idle" \/ (call'[p].root = call[p].root /\ call'[p].own = call[p].own)
<1>0. TypeOK
  BY DEF CInv
<1>1. Calling(p) /\ used' = used /\ clashed' = clashed /\ torn \subseteq torn'
  BY DEF Step, Calling, Reconcile, Complete, Put, PutPlain, SyncRead, WriteRoot, WriteOwn, PassOn, Crash, History
<1>2. call[p] \in Call
  BY <1>0, <1>1, CallIsCall
<1>3. \A q \in Procs \ {p} : pc'[q] = pc[q] /\ call'[q] = call[q]
  BY <1>0 DEF TypeOK, End, Go, Synced, Step, Reconcile, Complete, Put, PutPlain, SyncRead, WriteRoot, WriteOwn, PassOn, Crash
<1>4. End(p) => pc'[p] = "idle"
  BY <1>0 DEF TypeOK, End
<1>5. \A at, d : Go(p, at, d) => pc'[p] = at /\ call'[p] = d
  BY <1>0 DEF TypeOK, Go
<1> DEFINE Goal == pc'[p] = "idle" \/ (Calling(p)' /\ SameAim(call[p], call'[p]))
           Lists == pc'[p] = "idle" \/ (call'[p].root = call[p].root /\ call'[p].own = call[p].own)
<1>6. Synced(p, call[p]) => Goal /\ Lists
  <2> DEFINE d == [call[p] EXCEPT !.source = None]
  <2>1. SameAim(call[p], d) /\ d.root = call[p].root /\ d.own = call[p].own
    BY <1>2 DEF Call, SameAim
  <2>2. Synced(p, call[p]) => End(p) \/ Go(p, "complete", d)
    BY DEF Synced
  <2> HIDE DEF d
  <2> QED BY <1>4, <1>5, <2>1, <2>2 DEF Calling
<1>7. CASE Reconcile(p)
  <2>1. End(p) \/ \E x, o : Go(p, "complete", [call[p] EXCEPT !.todo = @ \ {x}, !.at = x, !.sources = o])
    BY <1>7 DEF Reconcile
  <2>2. ASSUME NEW x, NEW o, Go(p, "complete", [call[p] EXCEPT !.todo = @ \ {x}, !.at = x, !.sources = o])
        PROVE  Goal /\ Lists
    <3> DEFINE d == [call[p] EXCEPT !.todo = @ \ {x}, !.at = x, !.sources = o]
    <3>1. SameAim(call[p], d) /\ d.root = call[p].root /\ d.own = call[p].own
      BY <1>2 DEF Call, SameAim
    <3> HIDE DEF d
    <3> QED BY <1>5, <2>2, <3>1 DEF Calling, d
  <2> QED BY <1>1, <1>2, <1>3, <1>4, <2>1, <2>2
<1>8. CASE Complete(p)
  <2>1. \/ Go(p, "reconcile", call[p]) \/ Go(p, "put", call[p])
        \/ \E m : Go(p, "sync", [call[p] EXCEPT !.sources = @ \ {m}, !.source = m])
    BY <1>8 DEF Complete
  <2>2. ASSUME NEW m, Go(p, "sync", [call[p] EXCEPT !.sources = @ \ {m}, !.source = m])
        PROVE  Goal /\ Lists
    <3> DEFINE d == [call[p] EXCEPT !.sources = @ \ {m}, !.source = m]
    <3>1. SameAim(call[p], d) /\ d.root = call[p].root /\ d.own = call[p].own
      BY <1>2 DEF Call, SameAim
    <3> HIDE DEF d
    <3> QED BY <1>5, <2>2, <3>1 DEF Calling, d
  <2>3. Go(p, "reconcile", call[p]) \/ Go(p, "put", call[p]) => Goal /\ Lists
    BY <1>5 DEF Calling, SameAim
  <2> QED BY <1>1, <1>2, <1>3, <2>1, <2>2, <2>3
<1>9. CASE Put(p)
  BY <1>1, <1>2, <1>3, <1>5, <1>9 DEF Put, Calling, SameAim
<1>15. CASE PutPlain(p)
  BY <1>1, <1>2, <1>3, <1>4, <1>15 DEF PutPlain
<1>10. CASE SyncRead(p)
  <2>1. \/ Synced(p, call[p]) \/ End(p)
        \/ \E o, r, w, l : Go(p, "root", [call[p] EXCEPT !.old = o, !.root = r, !.own = w, !.left = l])
    BY <1>10 DEF SyncRead
  <2>2. ASSUME NEW o, NEW r, NEW w, NEW l,
               Go(p, "root", [call[p] EXCEPT !.old = o, !.root = r, !.own = w, !.left = l])
        PROVE  Goal
    <3> DEFINE d == [call[p] EXCEPT !.old = o, !.root = r, !.own = w, !.left = l]
    <3>1. SameAim(call[p], d)
      BY <1>2 DEF Call, SameAim
    <3> HIDE DEF d
    <3> QED BY <1>5, <2>2, <3>1 DEF Calling, d
  <2> QED BY <1>1, <1>2, <1>3, <1>4, <1>6, <1>10, <2>1, <2>2
<1>11. CASE WriteRoot(p)
  <2>1. Go(p, "each", call[p]) \/ Go(p, "own", call[p])
    BY <1>11 DEF WriteRoot
  <2> QED BY <1>1, <1>2, <1>3, <1>5, <2>1 DEF Calling, SameAim
<1>12. CASE WriteOwn(p)
  BY <1>1, <1>2, <1>3, <1>6, <1>12 DEF WriteOwn
<1>13. CASE PassOn(p)
  <2>1. Synced(p, call[p]) \/ \E s : Go(p, "each", [call[p] EXCEPT !.left = @ \ {s}])
    BY <1>13 DEF PassOn
  <2>2. ASSUME NEW s, Go(p, "each", [call[p] EXCEPT !.left = @ \ {s}])
        PROVE  Goal /\ Lists
    <3> DEFINE d == [call[p] EXCEPT !.left = @ \ {s}]
    <3>1. SameAim(call[p], d) /\ d.root = call[p].root /\ d.own = call[p].own
      BY <1>2 DEF Call, SameAim
    <3> HIDE DEF d
    <3> QED BY <1>5, <2>2, <3>1 DEF Calling, d
  <2> QED BY <1>1, <1>2, <1>3, <1>6, <2>1, <2>2
<1>14. CASE Crash(p)
  BY <1>1, <1>2, <1>3, <1>4, <1>14 DEF Crash
<1> QED BY <1>7, <1>8, <1>9, <1>10, <1>11, <1>12, <1>13, <1>14, <1>15 DEF Step

LEMMA KeptEntries ==
    ASSUME UNCHANGED lists
    PROVE  /\ \A x \in Scopes : Entries(x)' = Entries(x) /\ L(x)' = L(x) /\ R(x)' = R(x)
  BY DEF Entries, L, R, Listed

LEMMA WrittenEntries ==
    ASSUME TypeOK, NEW x \in Scopes, NEW l \in List, lists' = [lists EXCEPT ![x] = l]
    PROVE  Entries(x)' = l /\ \A y \in Scopes \ {x} : Entries(y)' = Entries(y)
<1>1. l # None
  BY ModesAssumption DEF List
<1> QED BY <1>1 DEF TypeOK, Entries

LEMMA KeptFiles ==
    ASSUME UNCHANGED <<files, stale>>
    PROVE  \A x \in Scopes : Shown(x)' = Shown(x)
  BY DEF Shown, ActiveIn

(* The written mode is active, or not; the rest stays.                     *)
LEMMA WrittenActive ==
    ASSUME TypeOK, NEW c \in Call, files' = Written(c), NEW y \in Scopes
    PROVE  ActiveIn(y)' = IF y \in Target(c) THEN (ActiveIn(y) \ {c.mode}) \cup On(c.mode, c.status = "active")
                          ELSE ActiveIn(y)
<1>1. c.mode \in Modes /\ files[y] \in [Modes -> Status]
  BY DEF TypeOK, Call
<1>2. files'[y] = IF y \in Target(c) THEN [files[y] EXCEPT ![c.mode] = c.status] ELSE files[y]
  BY DEF Written
<1> HIDE DEF Target
<1>3. \A a \in Modes : files'[y][a] = IF y \in Target(c) /\ a = c.mode THEN c.status ELSE files[y][a]
  BY <1>1, <1>2
<1> QED BY <1>1, <1>3 DEF ActiveIn, On

(* The modes to be listed change with the completion of a source and with  *)
(* Put alone: what a plain call ends stays to be listed.                   *)
LEMMA WrittenFiles ==
    ASSUME CInv, NEW p \in Procs, Step(p)
    PROVE  \/ /\ UNCHANGED <<files, stale>> /\ ~Put(p) /\ ~PutPlain(p)
              /\ Complete(p) => /\ call[p].sources = {}
                                /\ Go(p, IF call[p].todo # {} THEN "reconcile" ELSE "put", call[p])
           \/ /\ Put(p)
              /\ \A y \in Scopes : Shown(y)' =
                   IF y = call[p].scope \/ call[p].op = "clear_all"
                   THEN (Shown(y) \ {call[p].mode}) \cup On(call[p].mode, call[p].status = "active")
                   ELSE Shown(y)
           \/ /\ PutPlain(p)
              /\ \A y \in Scopes \ {call[p].scope} : Shown(y)' = Shown(y)
              /\ Plain(p) /\ call[p].scope \notin clashed => \A y \in Scopes : Shown(y)' = Shown(y)
           \/ /\ Complete(p)
              /\ \E m \in call[p].sources :
                   /\ Go(p, "sync", [call[p] EXCEPT !.sources = @ \ {m}, !.source = m])
                   /\ \A y \in Scopes : Shown(y)' =
                        IF y \in {call[p].at, Root} THEN Shown(y) \ {m} ELSE Shown(y)
<1>0. TypeOK /\ Calling(p)
  BY StepFrame DEF CInv
<1>1. PICK c \in Call : c = call[p]
  BY StepFrame
<1>2. c.scope \in Scopes /\ c.mode \in Modes
  BY <1>1 DEF Call
<1>3. CASE Put(p)
  <2>1. files' = Written(c) /\ stale' = Tell(c.mode, Target(c))
    BY <1>1, <1>3 DEF Put
  <2>2. ASSUME NEW y \in Scopes
        PROVE  Shown(y)' = IF y \in Target(c)
                           THEN (Shown(y) \ {c.mode}) \cup On(c.mode, c.status = "active") ELSE Shown(y)
    <3>1. ActiveIn(y)' = IF y \in Target(c) THEN (ActiveIn(y) \ {c.mode}) \cup On(c.mode, c.status = "active")
                         ELSE ActiveIn(y)
      BY <1>0, <2>1, WrittenActive
    <3>2. stale'[y] = IF y \in Target(c) THEN stale[y] \ {c.mode} ELSE stale[y]
      BY <2>1 DEF Tell
    <3> QED BY <3>1, <3>2 DEF Shown
  <2>3. \A y \in Scopes : y \in Target(c) <=> y = c.scope \/ c.op = "clear_all"
    BY <1>2 DEF Target
  <2> QED BY <1>1, <1>3, <2>2, <2>3
<1>4. CASE PutPlain(p)
  <2>1. /\ files' = Written(c) /\ Target(c) = {c.scope}
        /\ stale' = [stale EXCEPT ![c.scope] = @ \cup IF c.status = "ended" /\ c.mode \in ActiveIn(c.scope)
                                                     THEN {c.mode} ELSE {}]
    BY <1>1, <1>4 DEF PutPlain, Target
  <2>2. \A y \in Scopes : ActiveIn(y)' = IF y = c.scope THEN (ActiveIn(y) \ {c.mode}) \cup On(c.mode, c.status = "active")
                                         ELSE ActiveIn(y)
    BY <1>0, <2>1, WrittenActive
  <2>3. \A y \in Scopes \ {c.scope} : Shown(y)' = Shown(y)
    BY <1>0, <2>1, <2>2 DEF Shown, TypeOK
  <2>4. ASSUME Plain(p), c.scope \notin clashed PROVE Shown(c.scope)' = Shown(c.scope)
    <3>1. c.status \in {"active", "ended"} /\ (c.status = "active" => c.mode \in ActiveIn(c.scope))
      BY <1>0, <1>1, <1>4, <2>4 DEF Plain, PutPlain
    <3>2. stale'[c.scope] = stale[c.scope] \cup IF c.status = "ended" /\ c.mode \in ActiveIn(c.scope)
                                               THEN {c.mode} ELSE {}
      BY <1>0, <1>2, <2>1 DEF TypeOK
    <3>3. ActiveIn(c.scope)' = (ActiveIn(c.scope) \ {c.mode}) \cup On(c.mode, c.status = "active")
      BY <1>2, <2>2
    <3> QED BY <3>1, <3>2, <3>3 DEF Shown, On
  <2>5. ~Put(p) /\ ~Complete(p)
    BY <1>4 DEF Put, PutPlain, Complete
  <2> QED BY <1>1, <1>4, <2>3, <2>4
<1>5. CASE Complete(p)
  <2>1. ~Put(p) /\ ~PutPlain(p)
    BY <1>5 DEF Put, PutPlain, Complete
  <2>2. CASE c.sources = {} /\ Go(p, IF c.todo # {} THEN "reconcile" ELSE "put", c) /\ UNCHANGED <<files, stale>>
    BY <1>1, <2>1, <2>2
  <2>3. ASSUME NEW m \in c.sources, files' = Completed(c.at, m), stale' = Tell(m, {c.at, Root}),
               NEW y \in Scopes
        PROVE  Shown(y)' = IF y \in {c.at, Root} THEN Shown(y) \ {m} ELSE Shown(y)
    <3>1. m \in Modes /\ files[y] \in [Modes -> Status]
      BY <1>0, <2>3 DEF Call, TypeOK
    <3>2. files'[y] = IF y \in {c.at, Root} /\ files[y][m] = "active"
                      THEN [files[y] EXCEPT ![m] = "completed"] ELSE files[y]
      BY <2>3 DEF Completed
    <3>3. \A a \in Modes : files'[y][a] = IF a = m /\ y \in {c.at, Root} /\ files[y][a] = "active"
                                         THEN "completed" ELSE files[y][a]
      BY <3>1, <3>2
    <3>4. ActiveIn(y)' = IF y \in {c.at, Root} THEN ActiveIn(y) \ {m} ELSE ActiveIn(y)
      BY <3>3 DEF ActiveIn
    <3>5. stale'[y] = IF y \in {c.at, Root} THEN stale[y] \ {m} ELSE stale[y]
      BY <2>3 DEF Tell
    <3> QED BY <3>4, <3>5 DEF Shown
  <2> QED BY <1>1, <1>5, <2>2, <2>3 DEF Complete
<1>6. CASE ~Put(p) /\ ~PutPlain(p) /\ ~Complete(p)
  <2>1. UNCHANGED <<files, stale>>
    BY <1>6 DEF Step, Reconcile, SyncRead, WriteRoot, WriteOwn, PassOn, Crash
  <2> QED BY <1>6, <2>1
<1> QED BY <1>3, <1>4, <1>5, <1>6

(* A call of a session writes no files but of its scope and the root.      *)
LEMMA OtherFiles ==
    ASSUME CInv, HeldInv, NEW p \in Procs, Step(p), NEW y \in Scopes,
           call[p].scope # Root, y \notin {Root, call[p].scope}
    PROVE  ActiveIn(y)' = ActiveIn(y)
<1>0. TypeOK /\ Calling(p) /\ Held(p)
  BY StepFrame DEF CInv, HeldInv
<1>1. PICK c \in Call : c = call[p]
  BY StepFrame
<1>2. c.at = c.scope /\ Target(c) = {c.scope}
  BY <1>0, <1>1 DEF Held, Target
<1>3. UNCHANGED files \/ files' = Written(c) \/ \E m \in c.sources : files' = Completed(c.at, m)
  BY <1>1 DEF Step, Reconcile, Complete, Put, PutPlain, SyncRead, WriteRoot, WriteOwn, PassOn, Crash
<1>4. files' = Written(c) => ActiveIn(y)' = ActiveIn(y)
  BY <1>0, <1>1, <1>2, WrittenActive
<1>5. \A m : files' = Completed(c.at, m) => ActiveIn(y)' = ActiveIn(y)
  BY <1>1, <1>2 DEF Completed, ActiveIn
<1> QED BY <1>3, <1>4, <1>5 DEF ActiveIn

LEMMA PlainBegin ==
    ASSUME TypeOK, PlainInv, NEW p \in Procs, NEW m \in Modes, NEW x \in Scopes, Begins(p, m, x)
    PROVE  PlainInv'
<1> SUFFICES ASSUME NEW q \in Procs PROVE Plain(q)'
  BY DEF PlainInv
<1>1. UNCHANGED files /\ clashed \subseteq clashed'
  BY DEF Begins, Note
<1>2. CASE q = p
  BY <1>1, <1>2 DEF Begins, Plain, ActiveIn
<1>3. CASE q # p
  <2>1. pc'[q] = pc[q] /\ call'[q] = call[q] /\ Plain(q)
    BY <1>3 DEF Begins, PlainInv
  <2> QED BY <1>1, <2>1 DEF Plain, Calling, ActiveIn
<1> QED BY <1>2, <1>3

(* A plain call has one step, and nobody else writes the files of its      *)
(* scope meanwhile, unless both are known to have clashed.                 *)
LEMMA PlainStep ==
    ASSUME CInv, HeldInv, PlainInv, NEW p \in Procs, Step(p)
    PROVE  PlainInv'
<1>0. TypeOK /\ ClashInv /\ Plain(p)
  BY DEF CInv, PlainInv
<1>1. /\ Calling(p) /\ call[p] \in Call /\ clashed' = clashed
      /\ \A q \in Procs \ {p} : pc'[q] = pc[q] /\ call'[q] = call[q]
      /\ pc'[p] = "idle" \/ (Calling(p)' /\ SameAim(call[p], call'[p]))
  BY StepFrame
<1> SUFFICES ASSUME NEW q \in Procs, Calling(q)', call'[q].op = "plain" PROVE Plain(q)'
  BY DEF PlainInv, Plain
<1>2. CASE q = p
  <2>1. call[p].op = "plain" /\ pc'[p] # "idle"
    BY <1>1, <1>2 DEF SameAim, Calling
  <2>2. pc[p] = "put" /\ ~Put(p)
    BY <1>0, <1>1, <2>1 DEF Plain, Put
  <2>3. PutPlain(p) \/ Crash(p)
    BY <2>2 DEF Step, Reconcile, Complete, SyncRead, WriteRoot, WriteOwn, PassOn
  <2>4. End(p)
    BY <2>3 DEF PutPlain, Crash
  <2> QED BY <1>0, <2>1, <2>4 DEF End, TypeOK
<1>3. CASE q # p
  <2>1. pc'[q] = pc[q] /\ call'[q] = call[q] /\ Calling(q) /\ Plain(q)
    BY <1>1, <1>3 DEF PlainInv, Calling
  <2>2. call[q] \in Call /\ call[q].scope \in Scopes
    BY <1>0, <2>1, CallIsCall DEF Call
  <2>3. PICK y \in Scopes : y = call[q].scope
    BY <2>2
  <2>4. y \notin clashed => ActiveIn(y)' = ActiveIn(y)
    <3> SUFFICES ASSUME y \notin clashed PROVE ActiveIn(y)' = ActiveIn(y)
      OBVIOUS
    <3>1. call[p].scope # Root /\ y \notin {Root, call[p].scope}
      BY <1>0, <1>1, <1>3, <2>1, <2>3 DEF ClashInv
    <3> QED BY <3>1, OtherFiles
  <2> QED BY <1>1, <2>1, <2>3, <2>4 DEF Plain
<1> QED BY <1>2, <1>3

(* The root's list is passed on to a session as it is, as the session has  *)
(* no entries of its own; an empty one is removed.                         *)
LEMMA PassedEntries ==
    ASSUME TypeOK, NEW p \in Procs, PassOn(p), call[p] \in Call,
           \A y \in Scopes, a \in Modes : Entries(y)[a] \in {None, Root},
           \A a \in Modes : {call[p].root[a], call[p].own[a]} \subseteq {None, Root}
    PROVE  /\ \A y \in Scopes, a \in Modes : Entries(y)'[a] \in {None, Root}
           /\ \/ UNCHANGED lists /\ call[p].left = {} /\ Synced(p, call[p])
              \/ \E s \in call[p].left :
                   /\ Go(p, "each", [call[p] EXCEPT !.left = @ \ {s}])
                   /\ L(s)' \subseteq Listed(call[p].root)
                   /\ \A y \in Sessions \ {s} : L(y)' = L(y)
                   /\ L(Root)' \in {L(Root), Listed(call[p].root)}
<1>0. PICK c \in Call : c = call[p]
  OBVIOUS
<1>1. Root \notin Sessions /\ None # Root /\ Scopes = Sessions \cup {Root}
  BY ModesAssumption DEF Scopes
<1>2. CASE UNCHANGED lists /\ c.left = {} /\ Synced(p, c)
  BY <1>0, <1>2, KeptEntries
<1>3. ASSUME NEW s \in c.left,
             LET next == Over(For(s, c.root), OwnOnly(s, Entries(s), For(s, c.old))) IN
             /\ lists' = IF lists[s] = None THEN lists
                         ELSE IF Listed(next) = {} THEN [lists EXCEPT ![s] = None]
                         ELSE [lists EXCEPT ![s] = next, ![Root] = c.root],
             Go(p, "each", [c EXCEPT !.left = @ \ {s}])
      PROVE  /\ \A y \in Scopes, a \in Modes : Entries(y)'[a] \in {None, Root}
             /\ L(s)' \subseteq Listed(c.root)
             /\ \A y \in Sessions \ {s} : L(y)' = L(y)
             /\ L(Root)' \in {L(Root), Listed(c.root)}
  <2> DEFINE next == Over(For(s, c.root), OwnOnly(s, Entries(s), For(s, c.old)))
  <2>1. s \in Sessions /\ s # Root /\ s # None /\ s \in Scopes /\ c.root \in List
    BY <1>1, ModesAssumption DEF Call
  <2>2. \A a \in Modes : OwnOnly(s, Entries(s), For(s, c.old))[a] = None
    BY <2>1 DEF OwnOnly
  <2>3. \A a \in Modes : For(s, c.root)[a] = c.root[a]
    BY <1>0, <1>1, <2>1 DEF For
  <2>4. \A a \in Modes : next[a] = c.root[a]
    BY <2>2, <2>3 DEF Over
  <2>5. next \in [Modes -> Scopes \cup {None}]
    <3>1. next = [a \in Modes |-> IF OwnOnly(s, Entries(s), For(s, c.old))[a] # None
                                  THEN OwnOnly(s, Entries(s), For(s, c.old))[a] ELSE For(s, c.root)[a]]
      BY DEF Over
    <3> HIDE DEF next
    <3> QED BY <2>1, <2>2, <2>3, <3>1 DEF List
  <2>6. next \in List /\ next # None /\ c.root # None /\ Listed(next) = Listed(c.root)
    <3> HIDE DEF next
    <3> QED BY <2>1, <2>4, <2>5, ModesAssumption DEF List, Listed
  <2>7. lists \in [Scopes -> List \cup {None}]
    BY DEF TypeOK
  <2>8. \/ lists' = lists /\ lists[s] = None
        \/ lists' = [lists EXCEPT ![s] = None]
        \/ lists' = [lists EXCEPT ![s] = next, ![Root] = c.root]
    BY <1>3
  <2> HIDE DEF next
  <2>9. Listed(NoEntries) = {} /\ \A a \in Modes : NoEntries[a] = None
    BY DEF NoEntries, Listed
  <2>10. CASE lists' = lists /\ lists[s] = None
    <3>1. Entries(s)' = NoEntries /\ \A y \in Scopes : Entries(y)' = Entries(y)
      BY <2>10 DEF Entries
    <3> QED BY <1>1, <2>9, <3>1 DEF L, Listed
  <2>11. CASE lists' = [lists EXCEPT ![s] = None]
    <3>1. Entries(s)' = NoEntries /\ \A y \in Scopes \ {s} : Entries(y)' = Entries(y)
      BY <2>1, <2>7, <2>11 DEF Entries
    <3> QED BY <1>1, <2>1, <2>9, <3>1 DEF L, Listed
  <2>12. CASE lists' = [lists EXCEPT ![s] = next, ![Root] = c.root]
    <3>1. /\ Entries(s)' = next /\ Entries(Root)' = c.root
          /\ \A y \in Scopes \ {s, Root} : Entries(y)' = Entries(y)
      BY <1>1, <2>1, <2>6, <2>7, <2>12 DEF Entries
    <3>2. \A y \in Scopes, a \in Modes : Entries(y)'[a] \in {None, Root}
      BY <1>0, <2>4, <3>1
    <3> QED BY <1>1, <2>1, <2>6, <3>1, <3>2 DEF L
  <2> QED BY <2>8, <2>10, <2>11, <2>12
<1>4. \/ UNCHANGED lists /\ c.left = {} /\ Synced(p, c)
      \/ \E s \in c.left :
            LET next == Over(For(s, c.root), OwnOnly(s, Entries(s), For(s, c.old))) IN
            /\ lists' = IF lists[s] = None THEN lists
                        ELSE IF Listed(next) = {} THEN [lists EXCEPT ![s] = None]
                        ELSE [lists EXCEPT ![s] = next, ![Root] = c.root]
            /\ Go(p, "each", [c EXCEPT !.left = @ \ {s}])
  BY <1>0 DEF PassOn
<1> QED BY <1>0, <1>2, <1>3, <1>4

(* A call of a session is of that session throughout.                      *)
LEMMA SessionCall ==
    ASSUME FInv, NEW p \in Procs, Step(p), Root \notin used
    PROVE  /\ call[p].scope \in Sessions /\ call[p].scope # Root /\ call[p].at = call[p].scope
           /\ SyncScope(call[p]) = call[p].scope /\ call[p].op # "clear_all" /\ ~PassOn(p)
           /\ call[p].todo \subseteq {call[p].scope}
<1>1. Calling(p) /\ call[p] \in Call /\ Held(p)
  BY StepFrame DEF FInv, HeldInv
<1>2. call[p].scope \in Sessions /\ call[p].scope # Root
  BY <1>1, ModesAssumption DEF Held, Call, Scopes
<1>3. call[p].at = call[p].scope /\ call[p].op # "clear_all" /\ SyncScope(call[p]) = call[p].scope
      /\ call[p].todo \subseteq {call[p].scope}
  BY <1>1, <1>2 DEF Held, SyncScope
<1>4. ~PassOn(p)
  BY <1>1, <1>2, <1>3 DEF Held, PassOn
<1> QED BY <1>2, <1>3, <1>4

LEMMA SyncTyped ==
    ASSUME TypeOK, NEW p \in Procs, Calling(p)
    PROVE  SyncMode(call[p]) \in Modes /\ SyncScope(call[p]) \in Scopes /\ SyncOn(call[p]) \in BOOLEAN
<1>1. call[p] \in Call
  BY CallIsCall
<1> QED BY <1>1 DEF Call, SyncMode, SyncScope, SyncOn

LEMMA SessionEntriesStep ==
    ASSUME FInv, NEW p \in Procs, Step(p)
    PROVE  SessionEntries'
<1>0. CInv /\ TypeOK
  BY DEF FInv, CInv
<1>1. used' = used /\ Calling(p) /\ call[p] \in Call
  BY <1>0, StepFrame
<1> SUFFICES ASSUME Root \notin used
             PROVE  /\ Shown(Root)' = {}
                    /\ \A a \in Modes : Entries(Root)'[a] # Root
                    /\ \A x \in Sessions, a \in Modes : Entries(x)'[a] \in {None, x}
                    /\ \A q \in Procs : Writes(q, call[q].scope)'
  BY <1>1 DEF SessionEntries
<1>2. PICK x \in Sessions : x = call[p].scope
  BY SessionCall
<1>3. /\ x # Root /\ call[p].at = x /\ SyncScope(call[p]) = x /\ call[p].op # "clear_all" /\ ~PassOn(p)
      /\ x \in Scopes /\ Root \in Scopes /\ None # Root
  BY <1>2, SessionCall, ModesAssumption DEF Scopes
<1>4. /\ Shown(Root) = {}
      /\ \A a \in Modes : Entries(Root)[a] # Root
      /\ \A y \in Sessions, a \in Modes : Entries(y)[a] \in {None, y}
      /\ \A q \in Procs : Writes(q, call[q].scope)
  BY DEF FInv, SessionEntries
<1>5. Shown(Root)' = {}
  <2>1. Shown(Root)' \subseteq Shown(Root)
    BY <1>0, <1>2, <1>3, WrittenFiles, KeptFiles
  <2> QED BY <1>4, <2>1
<1>6. /\ \A a \in Modes : Entries(Root)'[a] # Root
      /\ \A y \in Sessions, a \in Modes : Entries(y)'[a] \in {None, y}
  <2>1. CASE UNCHANGED lists
    BY <1>3, <1>4, <2>1, KeptEntries DEF Scopes
  <2>2. CASE WriteRoot(p)
    <3>1. lists' = [lists EXCEPT ![Root] = call[p].root] /\ call[p].root \in List
      BY <1>1, <2>2 DEF WriteRoot, Call
    <3>2. Entries(Root)' = call[p].root /\ \A y \in Scopes \ {Root} : Entries(y)' = Entries(y)
      BY <1>0, <1>3, <3>1, WrittenEntries
    <3>3. \A a \in Modes : call[p].root[a] \in {None, x}
      BY <1>1, <1>2, <1>4 DEF Writes
    <3> QED BY <1>3, <1>4, <3>2, <3>3, ModesAssumption DEF Scopes
  <2>3. CASE WriteOwn(p)
    <3>1. lists' = [lists EXCEPT ![x] = call[p].own] /\ call[p].own \in List
      BY <1>1, <1>3, <2>3 DEF WriteOwn, Call
    <3>2. Entries(x)' = call[p].own /\ \A y \in Scopes \ {x} : Entries(y)' = Entries(y)
      BY <1>0, <1>3, <3>1, WrittenEntries
    <3>3. \A a \in Modes : call[p].own[a] \in {None, x}
      BY <1>1, <1>2, <1>4 DEF Writes
    <3> QED BY <1>3, <1>4, <3>2, <3>3 DEF Scopes
  <2>4. UNCHANGED lists \/ WriteRoot(p) \/ WriteOwn(p)
    BY <1>3 DEF Step, Reconcile, Complete, Put, PutPlain, SyncRead, Crash
  <2> QED BY <2>1, <2>2, <2>3, <2>4
<1>7. Writes(p, call[p].scope)'
  <2>1. CASE SyncRead(p)
    <3> DEFINE c == call[p]
               m == SyncMode(c)
               on == SyncOn(c)
    <3>1. Synced(p, c) \/ End(p) \/ SyncGo(p, c, x, m, on)
      BY <1>3, <2>1, SyncShape
    <3>2. CASE Synced(p, c) \/ End(p)
      <4>1. pc'[p] = "idle" \/ (call'[p].scope = c.scope /\ call'[p].root = c.root /\ call'[p].own = c.own)
        BY <1>0, <1>1, <3>2 DEF TypeOK, Synced, End, Go, Call
      <4> QED BY <1>1, <1>4, <4>1 DEF Writes, Calling
    <3>3. CASE SyncGo(p, c, x, m, on)
      <4>1. call'[p].scope = x /\ call'[p].root = SyncRoot(c, x, m, on) /\ call'[p].own = SyncOwn(x, m, on)
        BY <1>0, <1>1, <1>2, <3>3 DEF TypeOK, SyncGo, Go, Call
      <4>2. m \in Modes /\ on \in BOOLEAN
        BY <1>0, <1>1, SyncTyped
      <4>3. \A a \in Modes : {SyncRoot(c, x, m, on)[a], SyncOwn(x, m, on)[a]} \subseteq {None, x}
        <5> HIDE DEF c, m, on
        <5> QED BY <1>0, <1>4, <4>2, SessionSync
      <4> HIDE DEF c, m, on
      <4> QED BY <4>1, <4>3 DEF Writes
    <3> QED BY <3>1, <3>2, <3>3
  <2>2. CASE ~SyncRead(p)
    <3>1. pc'[p] = "idle" \/ (call'[p].scope = call[p].scope /\ call'[p].root = call[p].root /\ call'[p].own = call[p].own)
      BY <1>0, <2>2, StepFrame DEF SameAim
    <3> QED BY <1>1, <1>4, <3>1 DEF Writes, Calling
  <2> QED BY <2>1, <2>2
<1>8. \A q \in Procs : Writes(q, call[q].scope)'
  <2> SUFFICES ASSUME NEW q \in Procs \ {p} PROVE Writes(q, call[q].scope)'
    BY <1>7
  <2>1. pc'[q] = pc[q] /\ call'[q] = call[q]
    BY <1>0, StepFrame
  <2> QED BY <1>4, <2>1 DEF Writes, Calling
<1> QED BY <1>5, <1>6, <1>8

(* The root alone: its calls.                                              *)
LEMMA RootCall ==
    ASSUME FInv, NEW p \in Procs, Step(p), used \subseteq {Root}
    PROVE  /\ call[p].scope = Root
           /\ SyncScope(call[p]) # Root => ~SyncOn(call[p])
<1>1. Calling(p) /\ call[p] \in Call /\ Held(p)
  BY StepFrame DEF FInv, HeldInv
<1>2. call[p].scope = Root
  BY <1>1 DEF Held
<1> QED BY <1>2 DEF SyncScope, SyncOn

LEMMA RootEntriesStep ==
    ASSUME FInv, NEW p \in Procs, Step(p)
    PROVE  RootEntries'
<1>0. CInv /\ TypeOK
  BY DEF FInv, CInv
<1>1. used' = used /\ Calling(p) /\ call[p] \in Call
  BY <1>0, StepFrame
<1> SUFFICES ASSUME used \subseteq {Root}
             PROVE  /\ \A s \in Sessions : Shown(s)' = {}
                    /\ \A x \in Scopes, a \in Modes : Entries(x)'[a] \in {None, Root}
                    /\ \A q \in Procs : Writes(q, Root)'
  BY <1>1 DEF RootEntries
<1>2. PICK x \in Scopes : x = SyncScope(call[p])
  BY <1>0, <1>1, SyncTyped
<1>3. /\ call[p].scope = Root /\ Root \in Scopes /\ None # Root /\ Root \notin Sessions /\ Sessions \subseteq Scopes
  BY RootCall, ModesAssumption DEF Scopes
<1>4. /\ \A s \in Sessions : Shown(s) = {}
      /\ \A y \in Scopes, a \in Modes : Entries(y)[a] \in {None, Root}
      /\ \A q \in Procs : Writes(q, Root)
  BY DEF FInv, RootEntries
<1>5. \A s \in Sessions : Shown(s)' = {}
  <2>1. call[p].op = "clear_all" => call[p].status = "none"
    BY <1>1 DEF FInv, CInv, StageInv, Staged
  <2>2. \A s \in Sessions : Shown(s)' \subseteq Shown(s)
    BY <1>0, <1>3, <2>1, WrittenFiles, KeptFiles DEF On
  <2> QED BY <1>4, <2>2
<1>6. \A a \in Modes : {call[p].root[a], call[p].own[a]} \subseteq {None, Root}
  BY <1>1, <1>4 DEF Writes
<1>7. \A y \in Scopes, a \in Modes : Entries(y)'[a] \in {None, Root}
  <2>1. CASE UNCHANGED lists
    BY <1>4, <2>1, KeptEntries
  <2>2. CASE WriteRoot(p)
    <3>1. lists' = [lists EXCEPT ![Root] = call[p].root] /\ call[p].root \in List
      BY <1>1, <2>2 DEF WriteRoot, Call
    <3>2. Entries(Root)' = call[p].root /\ \A y \in Scopes \ {Root} : Entries(y)' = Entries(y)
      BY <1>0, <1>3, <3>1, WrittenEntries
    <3> QED BY <1>4, <1>6, <3>2
  <2>3. CASE WriteOwn(p)
    <3>1. lists' = [lists EXCEPT ![x] = call[p].own] /\ call[p].own \in List
      BY <1>1, <1>2, <2>3 DEF WriteOwn, Call
    <3>2. Entries(x)' = call[p].own /\ \A y \in Scopes \ {x} : Entries(y)' = Entries(y)
      BY <1>0, <3>1, WrittenEntries
    <3> QED BY <1>4, <1>6, <3>2
  <2>4. CASE PassOn(p)
    BY <1>0, <1>1, <1>4, <1>6, <2>4, PassedEntries
  <2>5. UNCHANGED lists \/ WriteRoot(p) \/ WriteOwn(p) \/ PassOn(p)
    BY DEF Step, Reconcile, Complete, Put, PutPlain, SyncRead, Crash
  <2> QED BY <2>1, <2>2, <2>3, <2>4, <2>5
<1>8. Writes(p, Root)'
  <2>1. CASE SyncRead(p)
    <3> DEFINE c == call[p]
               m == SyncMode(c)
               on == SyncOn(c)
    <3>1. Synced(p, c) \/ End(p) \/ SyncGo(p, c, x, m, on)
      BY <1>2, <2>1, SyncShape
    <3>2. CASE Synced(p, c) \/ End(p)
      <4>1. pc'[p] = "idle" \/ (call'[p].root = c.root /\ call'[p].own = c.own)
        BY <1>0, <1>1, <3>2 DEF TypeOK, Synced, End, Go, Call
      <4> QED BY <1>1, <1>4, <4>1 DEF Writes, Calling
    <3>3. CASE SyncGo(p, c, x, m, on)
      <4>1. call'[p].root = SyncRoot(c, x, m, on) /\ call'[p].own = SyncOwn(x, m, on)
        BY <1>0, <1>1, <3>3 DEF TypeOK, SyncGo, Go, Call
      <4>2. m \in Modes /\ on \in BOOLEAN /\ (x # Root => ~on)
        BY <1>0, <1>1, <1>2, SyncTyped, RootCall
      <4>3. \A a \in Modes : {SyncRoot(c, x, m, on)[a], SyncOwn(x, m, on)[a]} \subseteq {None, Root}
        <5> HIDE DEF c, m, on
        <5> QED BY <1>0, <1>4, <4>2, RootSync
      <4> HIDE DEF c, m, on
      <4> QED BY <4>1, <4>3 DEF Writes
    <3> QED BY <3>1, <3>2, <3>3
  <2>2. CASE ~SyncRead(p)
    <3>1. pc'[p] = "idle" \/ (call'[p].root = call[p].root /\ call'[p].own = call[p].own)
      BY <1>0, <2>2, StepFrame
    <3> QED BY <1>1, <1>4, <3>1 DEF Writes, Calling
  <2> QED BY <2>1, <2>2
<1>9. \A q \in Procs : Writes(q, Root)'
  <2> SUFFICES ASSUME NEW q \in Procs \ {p} PROVE Writes(q, Root)'
    BY <1>8
  <2>1. pc'[q] = pc[q] /\ call'[q] = call[q]
    BY <1>0, StepFrame
  <2> QED BY <1>4, <2>1 DEF Writes, Calling
<1> QED BY <1>5, <1>7, <1>9

-----------------------------------------------------------------------------
(* Sessions *)

Agrees(x) == L(x) = Shown(x) /\ R(x) \subseteq L(x)

(* A step of one session's call leaves the files and the list of another   *)
(* alone; the root's list may lose entries of it.                          *)
LEMMA OtherSession ==
    ASSUME FInv, NEW p \in Procs, Step(p), Root \notin used, NEW y \in Sessions, y # call[p].scope
    PROVE  Shown(y)' = Shown(y) /\ L(y)' = L(y) /\ R(y)' \subseteq R(y)
<1>0. CInv /\ TypeOK
  BY DEF FInv, CInv
<1>1. used' = used /\ Calling(p) /\ call[p] \in Call
  BY <1>0, StepFrame
<1>2. PICK x \in Sessions : x = call[p].scope
  BY SessionCall
<1>3. /\ x # Root /\ y # Root /\ call[p].at = x /\ SyncScope(call[p]) = x /\ call[p].op # "clear_all" /\ ~PassOn(p)
      /\ x \in Scopes /\ y \in Scopes /\ Root \in Scopes /\ y # None /\ x # y
  BY <1>2, SessionCall, ModesAssumption DEF Scopes
<1>4. Shown(y)' = Shown(y)
  BY <1>0, <1>2, <1>3, WrittenFiles, KeptFiles
<1>5. L(y)' = L(y) /\ R(y)' \subseteq R(y)
  <2>1. CASE UNCHANGED lists
    BY <1>3, <2>1, KeptEntries
  <2>2. CASE WriteRoot(p)
    <3>1. lists' = [lists EXCEPT ![Root] = call[p].root] /\ call[p].root \in List
      BY <1>1, <2>2 DEF WriteRoot, Call
    <3>2. Entries(Root)' = call[p].root /\ \A z \in Scopes \ {Root} : Entries(z)' = Entries(z)
      BY <1>0, <1>3, <3>1, WrittenEntries
    <3>3. \A a \in Modes : call[p].root[a] \in {None, x}
      BY <1>1, <1>2 DEF FInv, SessionEntries, Writes
    <3> QED BY <1>3, <3>2, <3>3 DEF L, R
  <2>3. CASE WriteOwn(p)
    <3>1. lists' = [lists EXCEPT ![x] = call[p].own] /\ call[p].own \in List
      BY <1>1, <1>3, <2>3 DEF WriteOwn, Call
    <3>2. \A z \in Scopes \ {x} : Entries(z)' = Entries(z)
      BY <1>0, <1>3, <3>1, WrittenEntries
    <3> QED BY <1>3, <3>2 DEF L, R
  <2>4. UNCHANGED lists \/ WriteRoot(p) \/ WriteOwn(p)
    BY <1>3 DEF Step, Reconcile, Complete, Put, PutPlain, SyncRead, Crash
  <2> QED BY <2>1, <2>2, <2>3, <2>4
<1> QED BY <1>4, <1>5

(* It is enough to look at the session the step is of.                     *)
LEMMA SessionStep ==
    ASSUME FInv, NEW p \in Procs, Step(p),
           \A x \in Sessions : Root \notin used /\ x = call[p].scope /\ x \notin clashed \cup torn' =>
             IF pc'[p] = "idle" THEN Agrees(x)' ELSE SessionAt(p, x)'
    PROVE  SessionInv'
<1>0. CInv /\ ClashInv
  BY DEF FInv, CInv
<1>1. /\ Calling(p) /\ used' = used /\ clashed' = clashed /\ torn \subseteq torn'
      /\ \A q \in Procs \ {p} : pc'[q] = pc[q] /\ call'[q] = call[q]
      /\ pc'[p] = "idle" \/ (Calling(p)' /\ call'[p].scope = call[p].scope)
  BY <1>0, StepFrame DEF SameAim
<1> SUFFICES ASSUME Root \notin used, NEW y \in Sessions, y \notin clashed, y \notin torn'
             PROVE  /\ Busy(y)' = {} => Agrees(y)'
                    /\ \A q \in Procs : q \in Busy(y)' => SessionAt(q, y)'
  BY <1>1 DEF SessionInv, Agrees, Busy
<1>2. PICK x \in Sessions : x = call[p].scope
  BY SessionCall
<1>3. /\ Busy(y) = {} => Agrees(y)
      /\ \A q \in Busy(y) : SessionAt(q, y)
  BY <1>1 DEF FInv, SessionInv, Agrees
<1>4. CASE y = x
  <2>1. \A q \in Procs \ {p} : q \notin Busy(y)
    BY <1>0, <1>1, <1>2, <1>4 DEF ClashInv, Busy, Calling
  <2>2. \A q \in Procs \ {p} : q \notin Busy(y)'
    BY <1>1, <2>1 DEF Busy
  <2>3. IF pc'[p] = "idle" THEN Agrees(x)' ELSE SessionAt(p, x)'
    BY <1>2, <1>4
  <2>4. pc'[p] # "idle" => p \in Busy(y)'
    BY <1>1, <1>2, <1>4 DEF Busy
  <2>5. pc'[p] = "idle" => p \notin Busy(y)'
    BY DEF Busy
  <2> QED BY <1>4, <2>2, <2>3, <2>4, <2>5
<1>5. CASE y # x
  <2>1. Shown(y)' = Shown(y) /\ L(y)' = L(y) /\ R(y)' \subseteq R(y)
    BY <1>2, <1>5, OtherSession
  <2>2. \A q \in Procs : q \in Busy(y)' <=> q \in Busy(y)
    BY <1>1, <1>2, <1>5 DEF Busy, Calling
  <2>3. Busy(y)' = {} => Agrees(y)'
    <3>1. Busy(y)' = {} => Busy(y) = {}
      BY <2>2 DEF Busy
    <3> QED BY <1>3, <2>1, <3>1 DEF Agrees
  <2>4. ASSUME NEW q \in Procs, q \in Busy(y)' PROVE SessionAt(q, y)'
    <3>1. q \in Busy(y) /\ SessionAt(q, y) /\ q # p
      BY <1>2, <1>3, <1>5, <2>2, <2>4 DEF Busy
    <3>2. pc'[q] = pc[q] /\ call'[q] = call[q]
      BY <1>1, <3>1
    <3> QED BY <2>1, <3>1, <3>2 DEF SessionAt, SyncMode, SyncOn, Goes
  <2> QED BY <2>3, <2>4
<1> QED BY <1>4, <1>5

LEMMA TakesOthers == \A m : m \notin Takes(m)
  BY DEF Takes, AutoComplete

(* What a source's scope has left to do is what the call had.              *)
LEMMA SyncedShape ==
    ASSUME TypeOK, NEW p \in Procs, NEW c \in Call, Synced(p, c)
    PROVE  IF c.source = None THEN pc'[p] = "idle"
           ELSE /\ pc'[p] = "complete"
                /\ call'[p].scope = c.scope /\ call'[p].mode = c.mode /\ call'[p].status = c.status
                /\ call'[p].todo = c.todo /\ call'[p].sources = c.sources /\ call'[p].at = c.at
                /\ call'[p].source = None
<1>1. CASE c.source = None
  BY <1>1 DEF Synced, End, TypeOK
<1>2. CASE c.source # None
  BY <1>2 DEF Synced, Go, TypeOK, Call
<1> QED BY <1>1, <1>2

LEMMA SessionOwnStep ==
    ASSUME FInv, NEW p \in Procs, Step(p), NEW x \in Sessions, Root \notin used,
           x = call[p].scope, x \notin clashed \cup torn'
    PROVE  IF pc'[p] = "idle" THEN Agrees(x)' ELSE SessionAt(p, x)'
<1>0. CInv /\ TypeOK /\ Held(p) /\ Staged(p)
  BY DEF FInv, CInv, HeldInv, StageInv
<1>1. Calling(p) /\ torn \subseteq torn'
  BY <1>0, StepFrame
<1>2. PICK c \in Call : c = call[p]
  BY <1>0, <1>1, CallIsCall
<1>3. /\ x # Root /\ c.at = x /\ SyncScope(c) = x /\ c.op # "clear_all" /\ ~PassOn(p)
      /\ x \in Scopes /\ Root \in Scopes /\ None # Root /\ None # x /\ None \notin Modes
      /\ c.scope = x /\ c.todo \subseteq {x}
  BY <1>2, SessionCall, ModesAssumption DEF Scopes
<1>4. SessionAt(p, x) /\ Shown(Root) = {}
  BY <1>1 DEF FInv, SessionInv, SessionEntries, Busy, Calling
<1>5. Goes(c, x) /\ Shown(x) \subseteq Modes /\ L(x) \subseteq Modes
  BY <1>0, <1>2, <1>3, <1>4 DEF SessionAt, Shown, ActiveIn, L, Listed, TypeOK
<1>6. End(p) => pc'[p] = "idle"
  BY <1>0 DEF TypeOK, End
<1>7. \A at, d : Go(p, at, d) => pc'[p] = at /\ call'[p] = d
  BY <1>0 DEF TypeOK, Go
<1>8. UNCHANGED lists => L(x)' = L(x) /\ R(x)' = R(x)
  BY <1>3, KeptEntries
<1>9. UNCHANGED <<files, stale>> => Shown(x)' = Shown(x)
  BY <1>3, KeptFiles
<1>10. CASE Reconcile(p)
  <2>1. UNCHANGED <<files, lists, stale>> /\ Agrees(x)
    BY <1>4, <1>10 DEF Reconcile, SessionAt, Agrees
  <2>2. Agrees(x)'
    BY <1>8, <1>9, <2>1 DEF Agrees
  <2>3. PICK y \in Scopes :
          /\ NextScope(c, y)
          /\ \/ End(p)
             \/ /\ Allowed(Visible(y), c.mode)
                /\ Go(p, "complete", [c EXCEPT !.todo = @ \ {y}, !.at = y, !.sources = Sources(Visible(y), c.mode)])
    BY <1>2, <1>10 DEF Reconcile
  <2>4. CASE End(p)
    BY <1>6, <2>2, <2>4
  <2>5. CASE /\ Allowed(Visible(y), c.mode)
             /\ Go(p, "complete", [c EXCEPT !.todo = @ \ {y}, !.at = y, !.sources = Sources(Visible(y), c.mode)])
    <3>1. y = x
      BY <1>3, <2>3 DEF NextScope
    <3>2. Visible(x) = Shown(x)
      BY <1>4, <2>1 DEF Visible, Shown, Agrees, L
    <3>3. pc'[p] = "complete" /\ call'[p] = [c EXCEPT !.todo = @ \ {y}, !.at = y, !.sources = Sources(Visible(y), c.mode)]
      BY <1>7, <2>5
    <3>4. call'[p].mode = c.mode /\ call'[p].sources = Sources(Shown(x), c.mode)
      BY <3>1, <3>2, <3>3 DEF Call
    <3>5. c.mode \in Shown(x) \/ \A a \in Shown(x) : Overlap(a, c.mode) \/ a \in Sources(Shown(x), c.mode)
      BY <2>5, <3>1, <3>2 DEF Allowed
    <3>6. Goes(call[p], x)'
      BY <1>9, <2>1, <3>4, <3>5 DEF Goes
    <3> QED BY <2>2, <3>3, <3>6 DEF SessionAt, Agrees
  <2> QED BY <2>3, <2>4, <2>5
<1>11. CASE Complete(p)
  <2>1. UNCHANGED lists /\ Agrees(x) /\ pc[p] = "complete"
    BY <1>4, <1>11 DEF Complete, SessionAt, Agrees
  <2>2. CASE c.sources = {} /\ Go(p, IF c.todo # {} THEN "reconcile" ELSE "put", c) /\ UNCHANGED <<files, stale>>
    <3>1. pc'[p] = (IF c.todo # {} THEN "reconcile" ELSE "put") /\ call'[p] = c
      BY <1>7, <2>2
    <3>2. Goes(call[p], x)'
      BY <1>5, <1>9, <2>2, <3>1 DEF Goes
    <3> QED BY <1>8, <1>9, <2>1, <2>2, <3>1, <3>2 DEF SessionAt, Agrees
  <2>3. ASSUME NEW m \in c.sources,
               Go(p, "sync", [c EXCEPT !.sources = @ \ {m}, !.source = m]),
               \A y \in Scopes : Shown(y)' = IF y \in {c.at, Root} THEN Shown(y) \ {m} ELSE Shown(y)
        PROVE  SessionAt(p, x)' /\ pc'[p] # "idle"
    <3>1. pc'[p] = "sync" /\ call'[p] = [c EXCEPT !.sources = @ \ {m}, !.source = m]
      BY <1>7, <2>3
    <3>2. /\ call'[p].sources = c.sources \ {m} /\ call'[p].source = m /\ call'[p].mode = c.mode
          /\ call'[p].todo = c.todo /\ call'[p].status = c.status
      BY <3>1 DEF Call
    <3>3. m \in Modes /\ m # None /\ m # c.mode
      BY <1>0, <1>1, <1>2, <1>3, TakesOthers DEF Call, Held
    <3>4. Shown(x)' = Shown(x) \ {m}
      BY <1>3, <2>3
    <3>5. SyncMode(call[p])' = m /\ ~SyncOn(call[p])'
      BY <3>2, <3>3 DEF SyncMode, SyncOn
    <3>6. Goes(call[p], x)'
      BY <1>5, <3>2, <3>3, <3>4 DEF Goes
    <3> QED BY <1>8, <2>1, <3>1, <3>3, <3>4, <3>5, <3>6 DEF SessionAt, Agrees
  <2>4. \/ c.sources = {} /\ Go(p, IF c.todo # {} THEN "reconcile" ELSE "put", c) /\ UNCHANGED <<files, stale>>
        \/ \E m \in c.sources :
             /\ Go(p, "sync", [c EXCEPT !.sources = @ \ {m}, !.source = m])
             /\ \A y \in Scopes : Shown(y)' = IF y \in {c.at, Root} THEN Shown(y) \ {m} ELSE Shown(y)
    BY <1>0, <1>2, <1>11, <2>1, WrittenFiles DEF Put, PutPlain
  <2> QED BY <1>7, <2>2, <2>3, <2>4
<1>12. CASE Put(p)
  <2>1. /\ UNCHANGED lists /\ Agrees(x) /\ pc[p] = "put" /\ pc'[p] = "sync" /\ call'[p] = c
        /\ c.source = None /\ c.sources = {} /\ c.todo = {}
    BY <1>0, <1>1, <1>2, <1>4, <1>7, <1>12 DEF Put, SessionAt, Agrees, Held, Staged
  <2>2. c.mode \in Modes /\ SyncMode(c) = c.mode /\ (SyncOn(c) <=> c.status = "active")
    BY <2>1 DEF Call, SyncMode, SyncOn
  <2>3. Shown(x)' = (Shown(x) \ {c.mode}) \cup On(c.mode, c.status = "active")
    <3>1. ~Complete(p) /\ ~PutPlain(p)
      BY <1>12, <2>1 DEF Complete, Put, PutPlain
    <3> QED BY <1>0, <1>2, <1>3, <1>12, <3>1, WrittenFiles
  <2>4. /\ Shown(x)' \ {c.mode} = Shown(x) \ {c.mode}
        /\ c.mode \in Shown(x)' <=> c.status = "active"
    BY <2>3 DEF On
  <2>5. SyncOn(c) => Allowed(L(x), c.mode)
    BY <1>5, <2>1, <2>2 DEF Goes, Agrees, Allowed
  <2>6. Goes(call[p], x)'
    BY <2>1, <2>4 DEF Goes
  <2>7. SyncMode(call[p])' = c.mode /\ (SyncOn(call[p])' <=> SyncOn(c))
    BY <2>1, <2>2 DEF SyncMode, SyncOn
  <2>8. Allowed(L(x), c.mode)' <=> Allowed(L(x), c.mode)
    BY <1>8, <2>1 DEF Allowed
  <2> QED BY <1>8, <2>1, <2>2, <2>4, <2>5, <2>6, <2>7, <2>8 DEF SessionAt, Agrees
<1>13. CASE SyncRead(p)
  <2> DEFINE m == SyncMode(c)
             on == SyncOn(c)
  <2>1. /\ UNCHANGED <<files, lists, stale>> /\ pc[p] = "sync"
        /\ \/ lists[Root] = None /\ lists[x] = None /\ ~on /\ Synced(p, c)
           \/ on /\ ~Allowed(Listed(Over(RootOf(x), OwnOf(x))), m) /\ End(p)
           \/ SyncGo(p, c, x, m, on)
    BY <1>2, <1>3, <1>13, SyncShape
  <2>2. m \in Modes /\ on \in BOOLEAN
    BY <1>0, <1>1, <1>2, SyncTyped
  <2>3. /\ R(x) \subseteq L(x) /\ L(x) \ {m} = Shown(x) \ {m}
        /\ m \in Shown(x) <=> on
        /\ on => Allowed(L(x), m)
    BY <1>2, <1>4, <2>1 DEF SessionAt
  <2>4. /\ \A a \in Modes : {SyncRoot(c, x, m, on)[a], SyncOwn(x, m, on)[a]} \subseteq {None, x}
        /\ Listed(SyncRoot(c, x, m, on)) \subseteq Listed(SyncOwn(x, m, on))
        /\ Listed(SyncOwn(x, m, on)) = (L(x) \ {m}) \cup On(m, on)
        /\ Listed(Over(RootOf(x), OwnOf(x))) = L(x)
    <3>1. /\ \A a \in Modes : Entries(Root)[a] # Root
          /\ \A a \in Modes : Entries(x)[a] \in {None, x}
      BY DEF FInv, SessionEntries
    <3> HIDE DEF m, on
    <3> QED BY <1>0, <2>2, <2>3, <3>1, SessionSync
  <2>5. UNCHANGED <<Shown(x), L(x), R(x)>>
    BY <1>8, <1>9, <2>1
  <2>6. CASE lists[Root] = None /\ lists[x] = None /\ ~on /\ Synced(p, c)
    <3>1. L(x) = {}
      BY <2>6 DEF L, Listed, Entries, NoEntries
    <3>2. Agrees(x)
      BY <2>3, <2>6, <3>1 DEF Agrees
    <3>3. Agrees(x)'
      BY <2>5, <3>2 DEF Agrees
    <3>4. IF c.source = None THEN pc'[p] = "idle"
          ELSE /\ pc'[p] = "complete"
               /\ call'[p].mode = c.mode /\ call'[p].status = c.status
               /\ call'[p].todo = c.todo /\ call'[p].sources = c.sources
      BY <1>0, <2>6, SyncedShape
    <3>5. c.source # None => Goes(call[p], x)'
      BY <1>5, <2>5, <3>4 DEF Goes
    <3> QED BY <3>3, <3>4, <3>5 DEF SessionAt, Agrees
  <2>7. CASE on /\ ~Allowed(Listed(Over(RootOf(x), OwnOf(x))), m) /\ End(p)
    BY <2>3, <2>4, <2>7
  <2>8. CASE SyncGo(p, c, x, m, on)
    <3>1. /\ pc'[p] = "root" /\ call'[p].root = SyncRoot(c, x, m, on) /\ call'[p].own = SyncOwn(x, m, on)
          /\ call'[p].mode = c.mode /\ call'[p].status = c.status /\ call'[p].todo = c.todo
          /\ call'[p].sources = c.sources
      BY <1>0, <2>8 DEF TypeOK, SyncGo, Go, Call
    <3>2. Shown(x) = (L(x) \ {m}) \cup On(m, on)
      <4> HIDE DEF m, on
      <4> QED BY <2>2, <2>3 DEF On
    <3>3. Listed(call[p].own)' = Shown(x) /\ Listed(call[p].root)' \subseteq Shown(x)
      <4> HIDE DEF m, on
      <4> QED BY <2>4, <3>1, <3>2 DEF Listed
    <3>4. Goes(call[p], x)'
      BY <1>5, <2>5, <3>1 DEF Goes
    <3> QED BY <2>5, <3>1, <3>3, <3>4 DEF SessionAt
  <2> QED BY <2>1, <2>6, <2>7, <2>8
<1>14. CASE WriteRoot(p)
  <2>1. /\ lists' = [lists EXCEPT ![Root] = c.root] /\ c.root \in List /\ UNCHANGED <<files, stale>>
        /\ pc[p] = "root" /\ pc'[p] = "own" /\ call'[p] = c
    BY <1>2, <1>3, <1>7, <1>14 DEF WriteRoot, Call
  <2>2. Listed(c.own) = Shown(x) /\ Listed(c.root) \subseteq Shown(x)
    BY <1>2, <1>4, <2>1 DEF SessionAt
  <2>3. Entries(Root)' = c.root
    BY <1>0, <1>3, <2>1, WrittenEntries
  <2>4. R(x)' \subseteq Listed(c.root)
    BY <1>3, <2>3 DEF R, Listed
  <2>5. Goes(call[p], x)'
    BY <1>5, <1>9, <2>1 DEF Goes
  <2> QED BY <1>9, <2>1, <2>2, <2>4, <2>5 DEF SessionAt
<1>15. CASE WriteOwn(p)
  <2>1. /\ lists' = [lists EXCEPT ![x] = c.own] /\ c.own \in List /\ UNCHANGED <<files, stale>>
        /\ pc[p] = "own" /\ Synced(p, c)
    BY <1>2, <1>3, <1>15 DEF WriteOwn, Call
  <2>2. Listed(c.own) = Shown(x) /\ R(x) \subseteq Shown(x)
    BY <1>2, <1>4, <2>1 DEF SessionAt
  <2>3. Entries(x)' = c.own /\ Entries(Root)' = Entries(Root)
    BY <1>0, <1>3, <2>1, WrittenEntries
  <2>4. L(x)' = Listed(c.own) /\ R(x)' = R(x)
    BY <2>3 DEF L, R
  <2>5. Agrees(x)' /\ Shown(x)' = Shown(x)
    BY <1>9, <2>1, <2>2, <2>4 DEF Agrees
  <2> QED BY <1>0, <1>5, <2>1, <2>5, SyncedShape DEF SessionAt, Agrees, Goes
<1>16. CASE Crash(p)
  BY <1>16 DEF Crash
<1>17. CASE PutPlain(p)
  <2>1. UNCHANGED lists /\ End(p) /\ Agrees(x)
    BY <1>4, <1>17 DEF PutPlain, SessionAt, Agrees
  <2>2. Plain(p) /\ ~Put(p) /\ ~Complete(p)
    BY <1>17 DEF FInv, PlainInv, Put, PutPlain, Complete
  <2>3. Shown(x)' = Shown(x)
    BY <1>0, <1>3, <1>17, <2>2, WrittenFiles
  <2> QED BY <1>6, <1>8, <2>1, <2>3 DEF Agrees
<1> QED BY <1>2, <1>3, <1>10, <1>11, <1>12, <1>13, <1>14, <1>15, <1>16, <1>17 DEF Step

-----------------------------------------------------------------------------
(* The root *)

LEMMA RootStep ==
    ASSUME FInv, NEW p \in Procs, Step(p),
           used \subseteq {Root} /\ Root \notin clashed \cup torn' =>
             IF pc'[p] = "idle" THEN RootAgrees' ELSE RootAt(p)'
    PROVE  RootInv'
<1>0. CInv /\ ClashInv
  BY DEF FInv, CInv
<1>1. /\ Calling(p) /\ used' = used /\ clashed' = clashed /\ torn \subseteq torn'
      /\ \A q \in Procs \ {p} : pc'[q] = pc[q] /\ call'[q] = call[q]
      /\ pc'[p] = "idle" \/ (Calling(p)' /\ call'[p].scope = call[p].scope)
  BY <1>0, StepFrame DEF SameAim
<1> SUFFICES ASSUME used \subseteq {Root}, Root \notin clashed, Root \notin torn'
             PROVE  /\ Busy(Root)' = {} => RootAgrees'
                    /\ \A q \in Procs : q \in Busy(Root)' => RootAt(q)'
  BY <1>1 DEF RootInv, Busy
<1>2. call[p].scope = Root
  BY RootCall
<1>3. \A q \in Procs \ {p} : q \notin Busy(Root)'
  BY <1>0, <1>1, <1>2 DEF ClashInv, Busy, Calling
<1>4. pc'[p] # "idle" => p \in Busy(Root)'
  BY <1>1, <1>2 DEF Busy
<1>5. pc'[p] = "idle" => p \notin Busy(Root)'
  BY DEF Busy
<1> QED BY <1>3, <1>4, <1>5

(* What goes with the modes listed goes with fewer.                        *)
LEMMA AllowedFewer ==
    ASSUME NEW U, NEW V, V \subseteq U, NEW m, m \notin U, Allowed(U, m)
    PROVE  Allowed(V, m)
  BY DEF Allowed, Sources

(* A mode that overlaps with all of a compatible set may join it.          *)
LEMMA Joins ==
    ASSUME NEW U, Compatible(U), NEW m, m \in U \/ \A a \in U : Overlap(a, m)
    PROVE  Compatible(U \cup {m})
  BY OverlapIsMutual DEF Compatible

(* A source is compatible with ultrawork only, which goes with any mode.   *)
LEMMA SourceStands ==
    ASSUME NEW U, Compatible(U), NEW m, NEW a \in U, <<a, m>> \in AutoComplete
    PROVE  m \notin U /\ Allowed(U, m)
<1>1. a \in {"deep-interview", "ralplan"} /\ m \in {"ralplan", "autoresearch", "team", "ralph", "autopilot"} /\ a # m
  BY DEF AutoComplete
<1>2. \A b \in U : b = a \/ b = "ultrawork"
  BY <1>1 DEF Compatible, Overlap
<1>3. m \notin U
  BY <1>1, <1>2
<1> QED BY <1>2, <1>3 DEF Allowed, Sources, Overlap

LEMMA TidyOwnStep ==
    ASSUME FInv, NEW p \in Procs, Step(p), used \subseteq {Root}, Root \notin clashed \cup torn'
    PROVE  Compatible(L(Root))' /\ TidyAt(p)'
<1>0. CInv /\ TypeOK /\ Held(p) /\ Staged(p)
  BY DEF FInv, CInv, HeldInv, StageInv
<1>1. Calling(p) /\ torn \subseteq torn'
  BY <1>0, StepFrame
<1>2. PICK c \in Call : c = call[p]
  BY <1>0, <1>1, CallIsCall
<1>3. /\ c.scope = Root /\ Root \in Scopes /\ Root \notin Sessions /\ Scopes = Sessions \cup {Root}
      /\ None # Root /\ None \notin Modes
  BY <1>2, RootCall, ModesAssumption DEF Scopes
<1>4. RootAt(p) /\ Compatible(L(Root)) /\ TidyAt(p)
  BY <1>1, <1>2, <1>3 DEF FInv, RootInv, TidyInv, Busy, Calling
<1>5. End(p) => pc'[p] = "idle"
  BY <1>0 DEF TypeOK, End
<1>6. \A at, d : Go(p, at, d) => pc'[p] = at /\ call'[p] = d
  BY <1>0 DEF TypeOK, Go
<1>7. Synced(p, c) => pc'[p] \in {"idle", "complete"}
  BY <1>5, <1>6 DEF Synced
<1>8. UNCHANGED lists => L(Root)' = L(Root)
  BY <1>3, KeptEntries
<1>9. ASSUME L(Root)' = L(Root) \/ Compatible(L(Root)'), pc'[p] \notin {"sync", "root"}
      PROVE  Compatible(L(Root))' /\ TidyAt(p)'
  BY <1>4, <1>9 DEF TidyAt, Compatible
<1>10. CASE Reconcile(p) \/ PutPlain(p) \/ Crash(p)
  <2>1. UNCHANGED lists
    BY <1>10 DEF Reconcile, PutPlain, Crash, History
  <2>2. pc'[p] \in {"idle", "complete"}
    BY <1>5, <1>6, <1>10 DEF Reconcile, PutPlain, Crash
  <2> QED BY <1>8, <1>9, <2>1, <2>2
<1>11. CASE Complete(p)
  <2>1. UNCHANGED lists
    BY <1>11 DEF Complete
  <2>2. \/ pc'[p] \in {"reconcile", "put"}
        \/ \E m \in c.sources : pc'[p] = "sync" /\ call'[p] = [c EXCEPT !.sources = @ \ {m}, !.source = m]
    BY <1>2, <1>6, <1>11 DEF Complete
  <2>3. ASSUME NEW m \in c.sources, pc'[p] = "sync", call'[p] = [c EXCEPT !.sources = @ \ {m}, !.source = m]
        PROVE  Compatible(L(Root))' /\ TidyAt(p)'
    <3>1. call'[p].source = m /\ m # None
      BY <1>3, <2>3 DEF Call
    <3>2. ~SyncOn(call[p])'
      BY <3>1 DEF SyncOn
    <3> QED BY <1>4, <1>8, <2>1, <2>3, <3>2 DEF TidyAt, Compatible
  <2> QED BY <1>8, <1>9, <2>1, <2>2, <2>3
<1>12. CASE Put(p)
  <2>1. /\ UNCHANGED lists /\ pc[p] = "put" /\ pc'[p] = "sync" /\ call'[p] = c
        /\ c.source = None /\ c.sources = {} /\ c.todo = {}
    BY <1>0, <1>1, <1>2, <1>6, <1>12 DEF Put, Held, Staged
  <2>2. L(Root) = Shown(Root) /\ Goes(c, Root)
    BY <1>2, <1>4, <2>1 DEF RootAt, Late
  <2>3. c.status = "active" => Compatible(L(Root) \cup {c.mode})
    BY <1>4, <2>1, <2>2, Joins DEF Goes
  <2>4. SyncOn(call[p])' => c.status = "active"
    BY <2>1 DEF SyncOn
  <2>5. L(Root)' = L(Root)
    BY <1>8, <2>1
  <2>6. Compatible(L(Root) \cup {c.mode}) => Compatible(L(Root) \cup {call[p].mode})'
    BY <2>1, <2>5 DEF Compatible
  <2>7. Compatible(L(Root))'
    BY <1>4, <2>5 DEF Compatible
  <2> QED BY <2>1, <2>3, <2>4, <2>6, <2>7 DEF TidyAt
<1>13. CASE SyncRead(p)
  <2>0. PICK x \in Scopes : x = SyncScope(c)
    BY <1>0, <1>1, <1>2, SyncTyped
  <2>1. PICK m \in Modes, on \in BOOLEAN : m = SyncMode(c) /\ on = SyncOn(c)
    BY <1>0, <1>1, <1>2, SyncTyped
  <2>2. /\ UNCHANGED lists /\ pc[p] = "sync"
        /\ Synced(p, c) \/ End(p) \/ SyncGo(p, c, x, m, on)
    BY <1>2, <1>13, <2>0, <2>1, SyncShape
  <2>3. CASE Synced(p, c) \/ End(p)
    BY <1>5, <1>7, <1>8, <1>9, <2>2, <2>3
  <2>4. CASE SyncGo(p, c, x, m, on)
    <3>1. pc'[p] = "root" /\ call'[p].root = SyncRoot(c, x, m, on)
      BY <1>0, <2>4 DEF TypeOK, SyncGo, Go, Call
    <3>2. (x # Root => ~on) /\ (on => m = c.mode)
      BY <1>2, <2>0, <2>1, RootCall DEF SyncOn, SyncMode
    <3>3. \A y \in Scopes, a \in Modes : Entries(y)[a] \in {None, Root}
      BY DEF FInv, RootEntries
    <3>4. Listed(SyncRoot(c, x, m, on)) \subseteq L(Root) \cup On(m, on)
      BY <1>0, <3>2, <3>3, RootSync
    <3>5. Compatible(L(Root) \cup On(m, on))
      BY <1>2, <1>4, <2>1, <2>2, <3>2 DEF TidyAt, On
    <3>6. Compatible(Listed(SyncRoot(c, x, m, on)))
      BY <3>4, <3>5 DEF Compatible
    <3>7. Listed(call[p].root)' = Listed(SyncRoot(c, x, m, on))
      BY <3>1 DEF Listed
    <3>8. L(Root)' = L(Root)
      BY <1>8, <2>2
    <3> QED BY <1>4, <3>1, <3>6, <3>7, <3>8 DEF TidyAt, Compatible
  <2> QED BY <2>2, <2>3, <2>4
<1>14. CASE WriteRoot(p)
  <2>1. /\ lists' = [lists EXCEPT ![Root] = c.root] /\ c.root \in List /\ pc[p] = "root"
        /\ pc'[p] \in {"each", "own"}
    BY <1>2, <1>6, <1>14 DEF WriteRoot, Call
  <2>2. L(Root)' = Listed(c.root)
    <3>1. Entries(Root)' = c.root
      BY <1>0, <1>3, <2>1, WrittenEntries
    <3> QED BY <3>1 DEF L
  <2>3. Compatible(Listed(c.root))
    BY <1>2, <1>4, <2>1 DEF TidyAt
  <2> QED BY <1>9, <2>1, <2>2, <2>3
<1>15. CASE WriteOwn(p)
  <2>0. PICK x \in Scopes : x = SyncScope(c)
    BY <1>0, <1>1, <1>2, SyncTyped
  <2>1. lists' = [lists EXCEPT ![x] = c.own] /\ c.own \in List /\ pc[p] = "own" /\ Synced(p, c)
    BY <1>2, <1>15, <2>0 DEF WriteOwn, Call
  <2>2. x # Root
    BY <1>0, <1>1, <1>2, <2>0, <2>1 DEF Held
  <2>3. L(Root)' = L(Root)
    <3>1. Entries(Root)' = Entries(Root)
      BY <1>0, <1>3, <2>1, <2>2, WrittenEntries
    <3> QED BY <3>1 DEF L
  <2> QED BY <1>7, <1>9, <2>1, <2>3
<1>16. CASE PassOn(p)
  <2>1. pc[p] = "each"
    BY <1>16 DEF PassOn
  <2>2. c.todo = {}
    BY <1>0, <1>1, <1>2, <1>3, <2>1 DEF Held, SyncScope
  <2>3. L(Root) = Listed(c.root)
    BY <1>2, <1>4, <2>1, <2>2 DEF RootAt
  <2>4. /\ \A y \in Scopes, a \in Modes : Entries(y)[a] \in {None, Root}
        /\ \A a \in Modes : {call[p].root[a], call[p].own[a]} \subseteq {None, Root}
    BY <1>1 DEF FInv, RootEntries, Writes
  <2>5. \/ UNCHANGED lists /\ Synced(p, c)
        \/ /\ \E s \in c.left : Go(p, "each", [c EXCEPT !.left = @ \ {s}])
           /\ L(Root)' \in {L(Root), Listed(c.root)}
    BY <1>0, <1>2, <1>16, <2>4, PassedEntries
  <2>6. L(Root)' = L(Root)
    BY <1>8, <2>3, <2>5
  <2>7. pc'[p] \in {"idle", "complete", "each"}
    BY <1>6, <1>7, <2>5
  <2> QED BY <1>9, <2>6, <2>7
<1> QED BY <1>10, <1>11, <1>12, <1>13, <1>14, <1>15, <1>16 DEF Step

LEMMA TidyStep ==
    ASSUME FInv, NEW p \in Procs, Step(p)
    PROVE  TidyInv'
<1>0. CInv /\ ClashInv
  BY DEF FInv, CInv
<1>1. /\ Calling(p) /\ used' = used /\ clashed' = clashed /\ torn \subseteq torn'
      /\ \A q \in Procs \ {p} : pc'[q] = pc[q] /\ call'[q] = call[q]
  BY <1>0, StepFrame
<1> SUFFICES ASSUME used \subseteq {Root}, Root \notin clashed, Root \notin torn'
             PROVE  /\ Compatible(L(Root))'
                    /\ \A q \in Procs : q \in Busy(Root)' => TidyAt(q)'
  BY <1>1 DEF TidyInv, Busy
<1>2. call[p].scope = Root
  BY RootCall
<1>3. \A q \in Procs \ {p} : q \notin Busy(Root)'
  BY <1>0, <1>1, <1>2 DEF ClashInv, Busy, Calling
<1> QED BY <1>3, TidyOwnStep

LEMMA RootOwnStep ==
    ASSUME FInv, NEW p \in Procs, Step(p), used \subseteq {Root}, Root \notin clashed \cup torn'
    PROVE  IF pc'[p] = "idle" THEN RootAgrees' ELSE RootAt(p)'
<1>0. CInv /\ TypeOK /\ Held(p) /\ Staged(p)
  BY DEF FInv, CInv, HeldInv, StageInv
<1>1. Calling(p) /\ torn \subseteq torn'
  BY <1>0, StepFrame
<1>2. PICK c \in Call : c = call[p]
  BY <1>0, <1>1, CallIsCall
<1>3. /\ c.scope = Root /\ Root \in Scopes /\ Root \notin Sessions /\ Scopes = Sessions \cup {Root}
      /\ None # Root /\ None \notin Modes
  BY <1>2, RootCall, ModesAssumption DEF Scopes
<1>4. RootAt(p) /\ \A s \in Sessions : Shown(s) = {}
  BY <1>1, <1>2, <1>3 DEF FInv, RootInv, RootEntries, Busy, Calling
<1>5. Goes(c, Root) /\ Shown(Root) \subseteq Modes /\ L(Root) \subseteq Modes
  BY <1>0, <1>2, <1>3, <1>4 DEF RootAt, Shown, ActiveIn, L, Listed, TypeOK
<1>6. End(p) => pc'[p] = "idle"
  BY <1>0 DEF TypeOK, End
<1>7. \A at, d : Go(p, at, d) => pc'[p] = at /\ call'[p] = d
  BY <1>0 DEF TypeOK, Go
<1>8. UNCHANGED lists => \A y \in Scopes : L(y)' = L(y)
  BY KeptEntries
<1>9. UNCHANGED <<files, stale>> => Shown(Root)' = Shown(Root)
  BY <1>3, KeptFiles
<1>10. Root \in c.todo \/ c.todo = {}
  BY <1>0, <1>1, <1>2, <1>3 DEF Held
<1>11. UNCHANGED lists => \A S \in SUBSET Sessions : Below(S) => Below(S)'
  BY <1>3, <1>8 DEF Below
<1>12. CASE Reconcile(p)
  <2>1. PICK x \in Scopes :
          /\ NextScope(c, x)
          /\ \/ ~Allowed(Visible(x), c.mode) /\ End(p)
             \/ /\ Allowed(Visible(x), c.mode)
                /\ Go(p, "complete", [c EXCEPT !.todo = @ \ {x}, !.at = x, !.sources = Sources(Visible(x), c.mode)])
    BY <1>2, <1>12 DEF Reconcile
  <2>2. /\ UNCHANGED <<files, lists, stale>> /\ x \in c.todo /\ Root \in c.todo /\ (x = Root => c.todo = {Root})
    BY <1>10, <1>12, <2>1 DEF Reconcile, NextScope
  <2>3. Early(c.mode, {})
    BY <1>0, <1>1, <1>2, <1>4, <1>12, <2>2 DEF Reconcile, RootAt, Staged
  <2>4. Visible(x) \subseteq L(Root) /\ (x = Root => Visible(x) = L(Root))
    BY <1>3, <1>4, <2>3 DEF Visible, Shown, Early, Below, L
  <2>5. UNCHANGED <<Shown(Root), L(Root)>> /\ (Below(Sessions) => Below(Sessions)')
    BY <1>3, <1>8, <1>9, <1>11, <2>2
  <2>6. CASE ~Allowed(Visible(x), c.mode) /\ End(p)
    <3>1. L(Root) = Shown(Root)
      BY <2>3, <2>4, <2>6, AllowedFewer DEF Early
    <3> QED BY <1>6, <2>3, <2>5, <2>6, <3>1 DEF RootAgrees, Early
  <2>7. CASE /\ Allowed(Visible(x), c.mode)
             /\ Go(p, "complete", [c EXCEPT !.todo = @ \ {x}, !.at = x, !.sources = Sources(Visible(x), c.mode)])
    <3>1. pc'[p] = "complete" /\ call'[p] = [c EXCEPT !.todo = @ \ {x}, !.at = x, !.sources = Sources(Visible(x), c.mode)]
      BY <1>7, <2>7
    <3>2. /\ call'[p].mode = c.mode /\ call'[p].sources = Sources(Visible(x), c.mode)
          /\ call'[p].todo = c.todo \ {x}
      BY <3>1 DEF Call
    <3>3. CASE x = Root
      <4>1. call'[p].todo = {} /\ call'[p].sources = Sources(L(Root), c.mode)
        BY <2>2, <2>4, <3>2, <3>3
      <4>2. L(Root) \ Shown(Root) \subseteq Sources(L(Root), c.mode)
        BY <2>3 DEF Early, Sources, Takes
      <4>3. c.mode \in Shown(Root) \/ \A a \in Shown(Root) : Overlap(a, c.mode) \/ a \in Sources(L(Root), c.mode)
        BY <2>3, <2>4, <2>7, <3>3 DEF Early, Allowed
      <4>4. Late(L(Root), call[p].sources)' /\ Below(Sessions)'
        BY <2>3, <2>5, <4>1, <4>2 DEF Late, Early
      <4>5. Goes(call[p], Root)'
        BY <2>5, <3>2, <4>1, <4>3 DEF Goes
      <4> QED BY <3>1, <4>1, <4>4, <4>5 DEF RootAt
    <3>4. CASE x # Root
      <4>1. Root \in call'[p].todo
        BY <2>2, <3>2, <3>4
      <4>2. Sources(Visible(x), c.mode) # {} => c.mode \notin L(Root) /\ Allowed(L(Root), c.mode)
        <5> SUFFICES ASSUME NEW a \in Sources(Visible(x), c.mode)
                     PROVE  c.mode \notin L(Root) /\ Allowed(L(Root), c.mode)
          OBVIOUS
        <5>1. a \in L(Root) /\ <<a, c.mode>> \in AutoComplete
          BY <2>4 DEF Sources
        <5>2. Compatible(L(Root))
          BY <1>1 DEF FInv, TidyInv
        <5> QED BY <5>1, <5>2, SourceStands
      <4>3. Early(call[p].mode, call[p].sources)'
        BY <2>3, <2>5, <3>2, <4>2 DEF Early, Allowed
      <4>4. Goes(call[p], Root)'
        BY <4>1 DEF Goes
      <4> QED BY <3>1, <4>1, <4>3, <4>4 DEF RootAt
    <3> QED BY <3>3, <3>4
  <2> QED BY <2>1, <2>6, <2>7
<1>13. CASE Complete(p)
  <2>1. UNCHANGED lists /\ pc[p] = "complete" /\ L(Root)' = L(Root) /\ (Below(Sessions) => Below(Sessions)')
    BY <1>3, <1>8, <1>11, <1>13 DEF Complete, History
  <2>2. /\ Root \in c.todo => Early(c.mode, c.sources)
        /\ c.todo = {} => Late(L(Root), c.sources) /\ Below(Sessions)
    BY <1>2, <1>4, <2>1 DEF RootAt
  <2>3. CASE c.sources = {} /\ Go(p, IF c.todo # {} THEN "reconcile" ELSE "put", c) /\ UNCHANGED <<files, stale>>
    <3>1. pc'[p] = (IF c.todo # {} THEN "reconcile" ELSE "put") /\ call'[p] = c
      BY <1>7, <2>3
    <3>2. Goes(call[p], Root)'
      BY <1>5, <1>9, <2>3, <3>1 DEF Goes
    <3>3. Root \in c.todo => Early(call[p].mode, call[p].sources)'
      BY <1>9, <2>1, <2>2, <2>3, <3>1 DEF Early, Allowed
    <3>4. c.todo = {} => Late(L(Root), call[p].sources)' /\ Below(Sessions)'
      BY <1>9, <2>1, <2>2, <2>3, <3>1 DEF Late
    <3> QED BY <1>10, <3>1, <3>2, <3>3, <3>4 DEF RootAt
  <2>4. ASSUME NEW m \in c.sources,
               Go(p, "sync", [c EXCEPT !.sources = @ \ {m}, !.source = m]),
               \A y \in Scopes : Shown(y)' = IF y \in {c.at, Root} THEN Shown(y) \ {m} ELSE Shown(y)
        PROVE  RootAt(p)' /\ pc'[p] # "idle"
    <3>1. pc'[p] = "sync" /\ call'[p] = [c EXCEPT !.sources = @ \ {m}, !.source = m]
      BY <1>7, <2>4
    <3>2. /\ call'[p].sources = c.sources \ {m} /\ call'[p].source = m /\ call'[p].mode = c.mode
          /\ call'[p].todo = c.todo /\ call'[p].status = c.status
      BY <3>1 DEF Call
    <3>3. m \in Modes /\ m # None /\ m # c.mode /\ m \in Takes(c.mode)
      BY <1>0, <1>1, <1>2, <1>3, TakesOthers DEF Call, Held
    <3>4. Shown(Root)' = Shown(Root) \ {m}
      BY <1>3, <2>4
    <3>5. SyncMode(call[p])' = m /\ ~SyncOn(call[p])'
      BY <3>2, <3>3 DEF SyncMode, SyncOn
    <3>6. Goes(call[p], Root)'
      BY <1>5, <3>2, <3>3, <3>4 DEF Goes
    <3>7. Root \in c.todo => Early(call[p].mode, call[p].sources)'
      BY <2>1, <2>2, <3>2, <3>3, <3>4 DEF Early, Allowed
    <3>8. c.todo = {} => LateSync(call[p], SyncMode(call[p]))'
      BY <2>1, <2>2, <3>2, <3>4, <3>5 DEF Late, LateSync
    <3> QED BY <1>10, <3>1, <3>2, <3>6, <3>7, <3>8 DEF RootAt
  <2>5. \/ c.sources = {} /\ Go(p, IF c.todo # {} THEN "reconcile" ELSE "put", c) /\ UNCHANGED <<files, stale>>
        \/ \E m \in c.sources :
             /\ Go(p, "sync", [c EXCEPT !.sources = @ \ {m}, !.source = m])
             /\ \A y \in Scopes : Shown(y)' = IF y \in {c.at, Root} THEN Shown(y) \ {m} ELSE Shown(y)
    BY <1>0, <1>2, <1>13, <2>1, WrittenFiles DEF Put, PutPlain
  <2> QED BY <1>7, <2>3, <2>4, <2>5
<1>14. CASE Put(p)
  <2>1. /\ UNCHANGED lists /\ pc[p] = "put" /\ pc'[p] = "sync" /\ call'[p] = c
        /\ c.source = None /\ c.sources = {} /\ c.todo = {}
    BY <1>0, <1>1, <1>2, <1>7, <1>14 DEF Put, Held, Staged
  <2>2. L(Root) = Shown(Root) /\ Below(Sessions)
    BY <1>2, <1>4, <2>1 DEF RootAt, Late
  <2>3. c.mode \in Modes /\ SyncMode(c) = c.mode /\ (SyncOn(c) <=> c.status = "active")
    BY <2>1 DEF Call, SyncMode, SyncOn
  <2>4. Shown(Root)' = (Shown(Root) \ {c.mode}) \cup On(c.mode, c.status = "active")
    <3>1. ~Complete(p) /\ ~PutPlain(p)
      BY <1>14, <2>1 DEF Complete, Put, PutPlain
    <3> QED BY <1>0, <1>2, <1>3, <1>14, <3>1, WrittenFiles
  <2>5. /\ Shown(Root)' \ {c.mode} = Shown(Root) \ {c.mode}
        /\ c.mode \in Shown(Root)' <=> c.status = "active"
    BY <2>4 DEF On
  <2>6. SyncOn(c) => Allowed(L(Root), c.mode)
    BY <1>5, <2>1, <2>2, <2>3 DEF Goes, Allowed
  <2>7. Goes(call[p], Root)'
    BY <2>1, <2>5 DEF Goes
  <2>8. SyncMode(call[p])' = c.mode /\ (SyncOn(call[p])' <=> SyncOn(c))
    BY <2>1, <2>3 DEF SyncMode, SyncOn
  <2>9. L(Root)' = L(Root) /\ Below(Sessions)'
    BY <1>3, <1>8, <1>11, <2>1, <2>2
  <2>10. Allowed(L(Root), c.mode)' <=> Allowed(L(Root), c.mode)
    BY <2>9 DEF Allowed
  <2>11. LateSync(call[p], SyncMode(call[p]))'
    BY <2>1, <2>2, <2>3, <2>5, <2>6, <2>8, <2>9, <2>10 DEF LateSync, Late
  <2> QED BY <2>1, <2>7, <2>11 DEF RootAt
<1>15. CASE SyncRead(p)
  <2> DEFINE m == SyncMode(c)
             on == SyncOn(c)
  <2>0. PICK x \in Scopes : x = SyncScope(c)
    BY <1>0, <1>1, <1>2, SyncTyped
  <2>1. /\ UNCHANGED <<files, lists, stale>> /\ pc[p] = "sync"
        /\ \/ lists[Root] = None /\ lists[x] = None /\ ~on /\ Synced(p, c)
           \/ on /\ ~Allowed(Listed(Over(RootOf(x), OwnOf(x))), m) /\ End(p)
           \/ SyncGo(p, c, x, m, on)
    BY <1>2, <1>15, <2>0, SyncShape
  <2>2. m \in Modes /\ on \in BOOLEAN /\ (x # Root => ~on)
    BY <1>0, <1>1, <1>2, <2>0, SyncTyped, RootCall
  <2>3. /\ x = Root <=> c.todo = {}
        /\ c.source = None => c.todo = {} /\ c.sources = {}
        /\ on => c.source = None
    BY <1>0, <1>1, <1>2, <1>3, <2>0, <2>1 DEF Held, SyncScope, SyncOn
  <2>4. /\ Root \in c.todo => Early(c.mode, c.sources)
        /\ c.todo = {} => LateSync(c, m)
    BY <1>2, <1>4, <2>1 DEF RootAt
  <2>5. /\ x = Root => /\ Listed(SyncRoot(c, x, m, on)) = (L(Root) \ {m}) \cup On(m, on)
                       /\ Listed(Over(RootOf(x), OwnOf(x))) = L(Root)
        /\ x # Root => /\ Listed(SyncRoot(c, x, m, on)) = L(Root)
                       /\ Listed(SyncOwn(x, m, on)) = L(Root)
    <3>1. \A y \in Scopes, a \in Modes : Entries(y)[a] \in {None, Root}
      BY DEF FInv, RootEntries
    <3> HIDE DEF m, on
    <3> QED BY <1>0, <2>2, <3>1, RootSync
  <2>6. UNCHANGED <<Shown(Root), L(Root)>> /\ (Below(Sessions) => Below(Sessions)')
    BY <1>3, <1>8, <1>9, <1>11, <2>1
  <2>7. CASE lists[Root] = None /\ lists[x] = None /\ ~on /\ Synced(p, c)
    <3>1. L(Root) = {}
      BY <2>7 DEF L, Listed, Entries, NoEntries
    <3>2. c.todo = {} => Late(L(Root), c.sources) /\ Below(Sessions)
      <4> HIDE DEF m, on
      <4> SUFFICES ASSUME c.todo = {} PROVE Late(L(Root), c.sources) /\ Below(Sessions)
        OBVIOUS
      <4>1. ~on <=> ~SyncOn(c)
        BY DEF on
      <4> QED BY <2>4, <2>7, <3>1, <4>1 DEF LateSync, Late
    <3>3. IF c.source = None THEN pc'[p] = "idle"
          ELSE /\ pc'[p] = "complete"
               /\ call'[p].mode = c.mode /\ call'[p].status = c.status
               /\ call'[p].todo = c.todo /\ call'[p].sources = c.sources
      BY <1>0, <2>7, SyncedShape
    <3>4. CASE c.source = None
      BY <2>3, <2>6, <3>1, <3>2, <3>3, <3>4 DEF RootAgrees, Late
    <3>5. CASE c.source # None
      BY <1>5, <1>10, <2>4, <2>6, <3>2, <3>3, <3>5 DEF RootAt, Early, Late, Goes, Allowed
    <3> QED BY <3>4, <3>5
  <2>8. CASE on /\ ~Allowed(Listed(Over(RootOf(x), OwnOf(x))), m) /\ End(p)
    BY <2>3, <2>4, <2>5, <2>8 DEF LateSync
  <2>9. CASE SyncGo(p, c, x, m, on)
    <3>1. /\ pc'[p] = "root" /\ call'[p].root = SyncRoot(c, x, m, on) /\ call'[p].own = SyncOwn(x, m, on)
          /\ call'[p].mode = c.mode /\ call'[p].status = c.status /\ call'[p].todo = c.todo
          /\ call'[p].sources = c.sources
      BY <1>0, <2>9 DEF TypeOK, SyncGo, Go, Call
    <3>2. Goes(call[p], Root)'
      BY <1>5, <2>6, <3>1 DEF Goes
    <3>3. Root \in c.todo => /\ Early(call[p].mode, call[p].sources)'
                             /\ Listed(call[p].root)' = L(Root) /\ Listed(call[p].own)' = L(Root)
      <4>1. Root \in c.todo => x # Root
        BY <2>3
      <4>2. Root \in c.todo => Early(call[p].mode, call[p].sources)'
        BY <2>4, <2>6, <3>1 DEF Early, Allowed
      <4> HIDE DEF m, on
      <4> QED BY <2>5, <3>1, <4>1, <4>2 DEF Listed
    <3>4. c.todo = {} => Late(Listed(call[p].root), call[p].sources)'
      <4> SUFFICES ASSUME c.todo = {} PROVE Late(Listed(call[p].root), call[p].sources)'
        OBVIOUS
      <4>1. LateSync(c, m) /\ Listed(call[p].root)' = (L(Root) \ {m}) \cup On(m, on)
        <5> HIDE DEF m, on
        <5> QED BY <2>3, <2>4, <2>5, <3>1 DEF Listed
      <4>2. /\ Shown(Root) \subseteq L(Root) \cup {m} /\ (m \in Shown(Root) <=> on)
            /\ L(Root) \ Shown(Root) \subseteq c.sources \cup {m}
        BY <4>1 DEF LateSync, Late
      <4> HIDE DEF m, on
      <4> QED BY <2>2, <2>6, <3>1, <4>1, <4>2 DEF Late, On
    <3> QED BY <1>10, <2>6, <3>1, <3>2, <3>3, <3>4 DEF RootAt
  <2> QED BY <2>1, <2>7, <2>8, <2>9
<1>16. CASE WriteRoot(p)
  <2>0. PICK x \in Scopes : x = SyncScope(c)
    BY <1>0, <1>1, <1>2, SyncTyped
  <2>1. /\ lists' = [lists EXCEPT ![Root] = c.root] /\ c.root \in List /\ UNCHANGED <<files, stale>>
        /\ pc[p] = "root" /\ pc'[p] = (IF x = Root THEN "each" ELSE "own") /\ call'[p] = c
    BY <1>2, <1>7, <1>16, <2>0 DEF WriteRoot, Call
  <2>2. /\ x = Root <=> c.todo = {}
        /\ x = Root => c.left = Sessions
    BY <1>0, <1>1, <1>2, <1>3, <2>0, <2>1 DEF Held, SyncScope
  <2>3. Entries(Root)' = c.root /\ \A y \in Scopes \ {Root} : Entries(y)' = Entries(y)
    BY <1>0, <1>3, <2>1, WrittenEntries
  <2>4. L(Root)' = Listed(c.root) /\ \A y \in Sessions : L(y)' = L(y)
    BY <1>3, <2>3 DEF L
  <2>5. Goes(call[p], Root)'
    BY <1>5, <1>9, <2>1 DEF Goes
  <2>6. CASE x = Root
    <3>1. Late(Listed(c.root), c.sources)
      BY <1>2, <1>4, <2>1, <2>2, <2>6 DEF RootAt
    <3>2. Late(L(Root), call[p].sources)' /\ Below(Sessions \ call[p].left)'
      BY <1>9, <2>1, <2>2, <2>4, <2>6, <3>1 DEF Late, Below
    <3> QED BY <2>1, <2>2, <2>4, <2>5, <2>6, <3>2 DEF RootAt
  <2>7. CASE x # Root
    <3>1. Early(c.mode, c.sources) /\ Listed(c.root) = L(Root) /\ Listed(c.own) = L(Root)
      BY <1>2, <1>4, <1>10, <2>1, <2>2, <2>7 DEF RootAt
    <3>2. Early(call[p].mode, call[p].sources)' /\ Listed(call[p].own)' = L(Root)'
      BY <1>9, <2>1, <2>4, <3>1 DEF Early, Below, Allowed
    <3> QED BY <1>10, <2>1, <2>2, <2>5, <2>7, <3>2 DEF RootAt
  <2> QED BY <2>6, <2>7
<1>17. CASE WriteOwn(p)
  <2>0. PICK x \in Scopes : x = SyncScope(c)
    BY <1>0, <1>1, <1>2, SyncTyped
  <2>1. /\ lists' = [lists EXCEPT ![x] = c.own] /\ c.own \in List /\ UNCHANGED <<files, stale>>
        /\ pc[p] = "own" /\ Synced(p, c)
    BY <1>2, <1>17, <2>0 DEF WriteOwn, Call
  <2>2. x # Root /\ c.source # None /\ Root \in c.todo
    BY <1>0, <1>1, <1>2, <1>3, <1>10, <2>0, <2>1 DEF Held, SyncScope
  <2>3. Early(c.mode, c.sources) /\ Listed(c.own) = L(Root)
    BY <1>2, <1>4, <2>1, <2>2 DEF RootAt
  <2>4. Entries(x)' = c.own /\ \A y \in Scopes \ {x} : Entries(y)' = Entries(y)
    BY <1>0, <2>1, WrittenEntries
  <2>5. L(x)' = L(Root) /\ L(Root)' = L(Root) /\ \A y \in Sessions \ {x} : L(y)' = L(y)
    BY <1>3, <2>2, <2>3, <2>4 DEF L
  <2>6. Below(Sessions)'
    BY <2>3, <2>5 DEF Early, Below
  <2>7. /\ pc'[p] = "complete"
        /\ call'[p].mode = c.mode /\ call'[p].status = c.status
        /\ call'[p].todo = c.todo /\ call'[p].sources = c.sources
    BY <1>0, <2>1, <2>2, SyncedShape
  <2>8. Early(call[p].mode, call[p].sources)'
    BY <1>9, <2>1, <2>3, <2>5, <2>6, <2>7 DEF Early, Allowed
  <2>9. Goes(call[p], Root)'
    BY <2>2, <2>7 DEF Goes
  <2> QED BY <2>2, <2>7, <2>8, <2>9 DEF RootAt
<1>18. CASE PassOn(p)
  <2>1. pc[p] = "each" /\ UNCHANGED <<files, stale>>
    BY <1>18 DEF PassOn
  <2>2. c.todo = {} /\ (c.source = None => c.sources = {})
    BY <1>0, <1>1, <1>2, <1>3, <2>1 DEF Held, SyncScope
  <2>3. Late(L(Root), c.sources) /\ L(Root) = Listed(c.root) /\ Below(Sessions \ c.left)
    BY <1>2, <1>4, <2>1, <2>2 DEF RootAt
  <2>4. \/ UNCHANGED lists /\ c.left = {} /\ Synced(p, c)
        \/ \E s \in c.left :
             /\ Go(p, "each", [c EXCEPT !.left = @ \ {s}])
             /\ L(s)' \subseteq Listed(c.root)
             /\ \A y \in Sessions \ {s} : L(y)' = L(y)
             /\ L(Root)' \in {L(Root), Listed(c.root)}
    <3>1. /\ \A y \in Scopes, a \in Modes : Entries(y)[a] \in {None, Root}
          /\ \A a \in Modes : {call[p].root[a], call[p].own[a]} \subseteq {None, Root}
      BY <1>1 DEF FInv, RootEntries, Writes
    <3> QED BY <1>0, <1>2, <1>18, <3>1, PassedEntries
  <2>5. CASE UNCHANGED lists /\ c.left = {} /\ Synced(p, c)
    <3>1. IF c.source = None THEN pc'[p] = "idle"
          ELSE /\ pc'[p] = "complete"
               /\ call'[p].mode = c.mode /\ call'[p].status = c.status
               /\ call'[p].todo = c.todo /\ call'[p].sources = c.sources
      BY <1>0, <2>5, SyncedShape
    <3>2. Below(Sessions) /\ Below(Sessions)' /\ L(Root)' = L(Root) /\ Shown(Root)' = Shown(Root)
      BY <1>3, <1>8, <1>9, <1>11, <2>1, <2>3, <2>5 DEF Below
    <3>3. CASE c.source = None
      BY <2>2, <2>3, <3>1, <3>2, <3>3 DEF RootAgrees, Late
    <3>4. CASE c.source # None
      <4>1. Goes(call[p], Root)'
        BY <1>5, <3>1, <3>2, <3>4 DEF Goes
      <4>2. Late(L(Root), call[p].sources)'
        BY <2>3, <3>1, <3>2, <3>4 DEF Late
      <4> QED BY <2>2, <3>1, <3>2, <3>4, <4>1, <4>2 DEF RootAt
    <3> QED BY <3>3, <3>4
  <2>6. ASSUME NEW s \in c.left,
               Go(p, "each", [c EXCEPT !.left = @ \ {s}]),
               L(s)' \subseteq Listed(c.root),
               \A y \in Sessions \ {s} : L(y)' = L(y),
               L(Root)' \in {L(Root), Listed(c.root)}
        PROVE  RootAt(p)' /\ pc'[p] # "idle"
    <3>1. pc'[p] = "each" /\ call'[p] = [c EXCEPT !.left = @ \ {s}]
      BY <1>7, <2>6
    <3>2. /\ call'[p].sources = c.sources /\ call'[p].mode = c.mode /\ call'[p].root = c.root
          /\ call'[p].todo = c.todo /\ call'[p].status = c.status /\ call'[p].left = c.left \ {s}
      BY <3>1 DEF Call
    <3>3. L(Root)' = L(Root) /\ Shown(Root)' = Shown(Root)
      BY <1>9, <2>1, <2>3, <2>6
    <3>4. Below(Sessions \ call[p].left)'
      BY <2>3, <2>6, <3>2, <3>3 DEF Below
    <3>5. Goes(call[p], Root)'
      BY <1>5, <3>2, <3>3 DEF Goes
    <3>6. Late(L(Root), call[p].sources)'
      BY <2>3, <3>2, <3>3 DEF Late
    <3>7. L(Root)' = Listed(call[p].root)'
      BY <2>3, <3>2, <3>3 DEF Listed
    <3> QED BY <2>2, <3>1, <3>2, <3>4, <3>5, <3>6, <3>7 DEF RootAt
  <2> QED BY <2>4, <2>5, <2>6
<1>19. CASE Crash(p)
  BY <1>2, <1>3, <1>19 DEF Crash
<1>20. CASE PutPlain(p)
  <2>1. UNCHANGED lists /\ End(p) /\ c.todo = {} /\ c.sources = {} /\ pc[p] = "put"
    BY <1>0, <1>1, <1>2, <1>20 DEF PutPlain, Staged
  <2>2. L(Root) = Shown(Root) /\ Below(Sessions)
    BY <1>2, <1>4, <2>1 DEF RootAt, Late
  <2>3. Plain(p) /\ ~Put(p) /\ ~Complete(p)
    BY <1>20 DEF FInv, PlainInv, Put, PutPlain, Complete
  <2>4. Shown(Root)' = Shown(Root)
    BY <1>0, <1>2, <1>3, <1>20, <2>3, WrittenFiles
  <2> QED BY <1>3, <1>6, <1>8, <1>11, <2>1, <2>2, <2>4 DEF RootAgrees
<1> QED BY <1>20, <1>12, <1>13, <1>14, <1>15, <1>16, <1>17, <1>18, <1>19 DEF Step

-----------------------------------------------------------------------------
(* All of it *)

(* A call begins in a scope where none is under way, or both are known to  *)
(* have clashed.                                                           *)
LEMMA FilesBegin ==
    ASSUME FInv, NEW p \in Procs, NEW m \in Modes, NEW x \in Scopes, Begins(p, m, x)
    PROVE  SessionEntries' /\ SessionInv' /\ RootEntries' /\ RootInv' /\ TidyInv'
<1>0. TypeOK
  BY DEF FInv, CInv
<1>1. /\ UNCHANGED <<files, lists, torn, stale>> /\ pc[p] = "idle" /\ pc'[p] \in {"reconcile", "put"}
      /\ used' = used \cup {x} /\ clashed \subseteq clashed'
      /\ \A q \in Procs \ {p} : pc'[q] = pc[q] /\ call'[q] = call[q]
      /\ call'[p].mode = m /\ call'[p].scope = x /\ call'[p].sources = {}
      /\ call'[p].root = NoEntries /\ call'[p].own = NoEntries
  BY DEF Begins, Note
<1>2. Root \in Scopes /\ Root \notin Sessions /\ Scopes = Sessions \cup {Root}
  BY ModesAssumption DEF Scopes
<1>3. \A y \in Scopes : Shown(y)' = Shown(y) /\ L(y)' = L(y) /\ R(y)' = R(y) /\ Entries(y)' = Entries(y)
  BY <1>1, KeptFiles, KeptEntries
<1>4. \A y : Writes(p, y)'
  BY <1>1 DEF Writes, NoEntries
<1>5. \A y : \A q \in Procs \ {p} : Writes(q, y) => Writes(q, y)'
  BY <1>1 DEF Writes, Calling
<1>6. SessionEntries'
  <2> SUFFICES ASSUME Root \notin used'
               PROVE  /\ Shown(Root)' = {}
                      /\ \A a \in Modes : Entries(Root)'[a] # Root
                      /\ \A y \in Sessions, a \in Modes : Entries(y)'[a] \in {None, y}
                      /\ \A q \in Procs : Writes(q, call[q].scope)'
    BY DEF SessionEntries
  <2>1. /\ Shown(Root) = {}
        /\ \A a \in Modes : Entries(Root)[a] # Root
        /\ \A y \in Sessions, a \in Modes : Entries(y)[a] \in {None, y}
        /\ \A q \in Procs : Writes(q, call[q].scope)
    BY <1>1 DEF FInv, SessionEntries
  <2>2. \A q \in Procs : Writes(q, call[q].scope)'
    <3>1. Writes(p, call[p].scope)'
      BY <1>1 DEF Writes, NoEntries
    <3>2. ASSUME NEW q \in Procs \ {p} PROVE Writes(q, call[q].scope)'
      BY <1>1, <2>1 DEF Writes, Calling
    <3> QED BY <3>1, <3>2
  <2> QED BY <1>2, <1>3, <2>1, <2>2
<1>7. RootEntries'
  <2> SUFFICES ASSUME used' \subseteq {Root}
               PROVE  /\ \A s \in Sessions : Shown(s)' = {}
                      /\ \A y \in Scopes, a \in Modes : Entries(y)'[a] \in {None, Root}
                      /\ \A q \in Procs : Writes(q, Root)'
    BY DEF RootEntries
  <2>1. /\ \A s \in Sessions : Shown(s) = {}
        /\ \A y \in Scopes, a \in Modes : Entries(y)[a] \in {None, Root}
        /\ \A q \in Procs : Writes(q, Root)
    BY <1>1 DEF FInv, RootEntries
  <2> QED BY <1>2, <1>3, <1>4, <1>5, <2>1
<1>8. Busy(x) # {} => x \in clashed'
  BY DEF Begins, Note
<1>9. SessionInv'
  <2> SUFFICES ASSUME Root \notin used', NEW y \in Sessions, y \notin clashed', y \notin torn
               PROVE  /\ Busy(y)' = {} => Agrees(y)'
                      /\ \A q \in Procs : q \in Busy(y)' => SessionAt(q, y)'
    BY <1>1 DEF SessionInv, Agrees, Busy
  <2>1. /\ Busy(y) = {} => Agrees(y)
        /\ \A q \in Busy(y) : SessionAt(q, y)
        /\ Shown(Root) = {}
    BY <1>1 DEF FInv, SessionInv, SessionEntries, Agrees
  <2>2. ASSUME NEW q \in Procs, q \in Busy(y)', q # p PROVE SessionAt(q, y)'
    <3>1. pc'[q] = pc[q] /\ call'[q] = call[q] /\ q \in Busy(y)
      BY <1>1, <2>2 DEF Busy
    <3> QED BY <1>2, <1>3, <2>1, <3>1 DEF SessionAt, SyncMode, SyncOn, Goes, Allowed
  <2>3. ASSUME p \in Busy(y)' PROVE SessionAt(p, y)'
    <3>1. y = x
      BY <1>1, <2>3 DEF Busy
    <3>2. Agrees(x)
      BY <1>8, <2>1, <3>1
    <3>3. call'[p].status = "active" => x \in call'[p].todo \/ m \in Shown(x)
      BY <1>2, <2>1, <3>1 DEF Begins, ActiveAt, Affected, Shown
    <3>4. Goes(call[p], y)'
      BY <1>1, <1>2, <1>3, <3>1, <3>3 DEF Goes
    <3> QED BY <1>1, <1>2, <1>3, <3>1, <3>2, <3>4 DEF SessionAt, Agrees
  <2>4. Busy(y)' = {} => Agrees(y)'
    <3>1. Busy(y)' = {} => Busy(y) = {}
      BY <1>1 DEF Busy
    <3> QED BY <1>2, <1>3, <2>1, <3>1 DEF Agrees
  <2> QED BY <2>2, <2>3, <2>4
<1>10. RootInv'
  <2> SUFFICES ASSUME used' \subseteq {Root}, Root \notin clashed', Root \notin torn
               PROVE  /\ Busy(Root)' = {} => RootAgrees'
                      /\ \A q \in Procs : q \in Busy(Root)' => RootAt(q)'
    BY <1>1 DEF RootInv, Busy
  <2>1. x = Root /\ Busy(Root) = {}
    BY <1>1, <1>8
  <2>2. RootAgrees
    BY <1>1, <2>1 DEF FInv, RootInv
  <2>3. RootAgrees'
    BY <1>2, <1>3, <2>2 DEF RootAgrees, Below
  <2>4. \A q \in Procs \ {p} : q \notin Busy(Root)'
    BY <1>1, <2>1 DEF Busy
  <2>5. RootAt(p)'
    <3>1. call'[p].todo = {} \/ (Root \in call'[p].todo /\ pc'[p] = "reconcile")
      BY <1>2, <2>1 DEF Begins, Affected, Shown
    <3>2. call'[p].status = "active" => Root \in call'[p].todo \/ m \in Shown(Root)
      BY <1>2, <2>1 DEF Begins, Affected, Shown
    <3>3. Goes(call[p], Root)'
      BY <1>1, <1>2, <1>3, <3>2 DEF Goes
    <3>4. Early(call[p].mode, call[p].sources)'
      BY <1>1, <2>3 DEF Early, RootAgrees
    <3>5. Late(L(Root), call[p].sources)' /\ Below(Sessions)'
      BY <1>1, <2>3 DEF Late, RootAgrees
    <3> QED BY <1>1, <3>1, <3>3, <3>4, <3>5 DEF RootAt
  <2> QED BY <2>3, <2>4, <2>5
<1>11. TidyInv'
  <2> SUFFICES ASSUME used' \subseteq {Root}, Root \notin clashed', Root \notin torn
               PROVE  /\ Compatible(L(Root))'
                      /\ \A q \in Procs : q \in Busy(Root)' => TidyAt(q)'
    BY <1>1 DEF TidyInv, Busy
  <2>1. x = Root /\ Busy(Root) = {}
    BY <1>1, <1>8
  <2>2. Compatible(L(Root))'
    BY <1>1, <1>2, <1>3, <2>1 DEF FInv, TidyInv, Compatible
  <2>3. \A q \in Procs \ {p} : q \notin Busy(Root)'
    BY <1>1, <2>1 DEF Busy
  <2> QED BY <1>1, <2>2, <2>3 DEF TidyAt
<1> QED BY <1>6, <1>7, <1>9, <1>10, <1>11

LEMMA FilesInit == Init => FInv
<1> SUFFICES ASSUME Init PROVE FInv
  OBVIOUS
<1>1. CInv
  BY CompatibleInit
<1>2. \A p \in Procs : ~Calling(p)
  BY DEF Init, Calling
<1>3. \A x \in Scopes : Shown(x) = {} /\ L(x) = {} /\ Entries(x) = NoEntries
  BY DEF Init, Shown, ActiveIn, L, Listed, Entries, NoEntries
<1>4. Root \in Scopes /\ Sessions \subseteq Scopes /\ None # Root /\ None \notin Sessions
  BY ModesAssumption DEF Scopes
<1>5. \A a \in Modes : NoEntries[a] = None
  BY DEF NoEntries
<1>6. HeldInv /\ PlainInv
  BY <1>2 DEF HeldInv, Held, PlainInv, Plain
<1>7. SessionEntries /\ RootEntries
  BY <1>2, <1>3, <1>4, <1>5 DEF SessionEntries, RootEntries, Writes
<1>8. \A x : Busy(x) = {}
  BY <1>2 DEF Busy, Calling
<1>9. SessionInv /\ RootInv /\ TidyInv
  BY <1>3, <1>4, <1>5, <1>8 DEF SessionInv, RootInv, RootAgrees, Below, R, TidyInv, Compatible
<1> QED BY <1>1, <1>6, <1>7, <1>9 DEF FInv

LEMMA FilesNext == FInv /\ [Next]_vars => FInv'
<1> SUFFICES ASSUME FInv, [Next]_vars PROVE FInv'
  OBVIOUS
<1>1. CInv'
  BY CompatibleNext DEF FInv
<1>2. CASE UNCHANGED vars
  <2> USE <1>2 DEF vars
  <2>1. HeldInv' /\ PlainInv'
    BY DEF FInv, HeldInv, Held, PlainInv, Plain, ActiveIn, Calling, SyncScope
  <2>2. SessionEntries' /\ RootEntries'
    BY DEF FInv, SessionEntries, RootEntries, Writes, Calling, Shown, ActiveIn, Entries
  <2>3. SessionInv'
    <3>1. \A x \in Sessions : UNCHANGED <<L(x), R(x), Shown(x), Busy(x)>>
      BY DEF L, R, Listed, Entries, Shown, ActiveIn, Busy
    <3>2. \A p \in Procs, x \in Sessions : SessionAt(p, x) => SessionAt(p, x)'
      BY <3>1 DEF SessionAt, SyncMode, SyncOn, Goes, Allowed
    <3>3. \A x \in Sessions : Busy(x) \subseteq Procs
      BY DEF Busy
    <3> QED BY <3>1, <3>2, <3>3 DEF FInv, SessionInv
  <2>4. RootInv'
    <3>1. /\ \A x : Busy(x)' = Busy(x)
          /\ \A x : L(x)' = L(x) /\ Shown(x)' = Shown(x)
      BY DEF L, Listed, Entries, Shown, ActiveIn, Busy
    <3>2. \A p \in Procs : RootAt(p) => RootAt(p)'
      BY <3>1 DEF RootAt, Early, Late, LateSync, Below, SyncMode, SyncOn, Goes, Allowed
    <3>3. RootAgrees => RootAgrees'
      BY <3>1 DEF RootAgrees, Below
    <3>4. Busy(Root) \subseteq Procs
      BY DEF Busy
    <3> QED BY <3>1, <3>2, <3>3, <3>4 DEF FInv, RootInv
  <2>5. TidyInv'
    <3>1. Busy(Root)' = Busy(Root) /\ L(Root)' = L(Root) /\ Busy(Root) \subseteq Procs
      BY DEF L, Listed, Entries, Busy
    <3>2. \A p \in Procs : TidyAt(p) => TidyAt(p)'
      BY <3>1 DEF TidyAt, SyncOn, Compatible, Listed
    <3> QED BY <3>1, <3>2 DEF FInv, TidyInv, Compatible
  <2> QED BY <1>1, <2>1, <2>2, <2>3, <2>4, <2>5 DEF FInv
<1>3. ASSUME NEW p \in Procs, NEW m \in Modes, NEW x \in Scopes,
             Beginning(p, m, x)
      PROVE  FInv'
  <2>1. Begins(p, m, x)
    BY <1>3, BeginShape DEF FInv, CInv
  <2> QED BY <1>1, <2>1, HeldBegin, PlainBegin, FilesBegin DEF FInv, CInv
<1>4. ASSUME NEW p \in Procs, Step(p) PROVE FInv'
  <2>1. HeldInv' /\ PlainInv'
    BY <1>4, HeldStep, PlainStep DEF Step, FInv
  <2>2. SessionInv'
    BY <1>4, SessionStep, SessionOwnStep
  <2>3. RootInv'
    BY <1>4, RootStep, RootOwnStep
  <2> QED BY <1>1, <1>4, <2>1, <2>2, <2>3, SessionEntriesStep, RootEntriesStep, TidyStep DEF FInv
<1> QED BY <1>2, <1>3, <1>4 DEF Next, Step, Beginning

(* As long as only sessions, or only the root, are used, a scope at rest   *)
(* lists the modes whose files are active and those ended without telling  *)
(* the list, whatever the sessions write to the one list of the root at    *)
(* the same time.                                                          *)
THEOREM ListsStayTrue == Spec => []ListsFollowFiles
<1>1. FInv => ListsFollowFiles
  <2> SUFFICES ASSUME FInv, NEW x \in used, ~Mixed, Quiet(x)
               PROVE  L(x) = Shown(x)
    BY DEF ListsFollowFiles, L, Shown
  <2>1. Busy(x) = {} /\ x \notin clashed \cup torn
    BY DEF Quiet
  <2>2. used \subseteq Sessions \cup {Root}
    BY DEF FInv, CInv, TypeOK, Scopes
  <2>3. CASE Root \notin used
    BY <2>1, <2>2, <2>3 DEF FInv, SessionInv
  <2>4. CASE used = {Root}
    BY <2>1, <2>4 DEF FInv, RootInv, RootAgrees
  <2> QED BY <2>3, <2>4 DEF Mixed
<1> QED BY <1>1, FilesInit, FilesNext, PTL DEF Spec
=============================================================================
