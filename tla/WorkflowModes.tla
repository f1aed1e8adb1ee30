----------------------------- MODULE WorkflowModes -----------------------------
(***************************************************************************)
(* Workflow modes: one file per mode and scope (the root, and a directory  *)
(* per session) that says whether the mode is active, and one              *)
(* skill-active file per scope that lists the active ones.  A mode is      *)
(* started by reading what is visible, completing the modes it takes over  *)
(* from, writing its own file and synchronising the lists, one file after  *)
(* the other and without a lock between processes.                         *)
(*                                                                         *)
(* Phases, messages, run states and the contents of a mode file are left   *)
(* out.  An entry of a list is a mode with the session it carries (Root    *)
(* for an entry without one); a list names a mode once (listActiveSkills). *)
(***************************************************************************)
EXTENDS Naturals, FiniteSets

CONSTANTS Procs, Sessions, Root, None,
          Modes,        \* a part of TRACKED_WORKFLOW_MODES
          MaxCalls,     \* bound: calls begun
          MaxCrashes    \* bound: processes that die during a call

Scopes == Sessions \cup {Root}

Tracked == {"autopilot", "autoresearch", "team", "ralph",
            "ultrawork", "ultraqa", "ralplan", "deep-interview"}

ASSUME ModesAssumption ==
    /\ Root \notin Sessions
    /\ None \notin Scopes \cup Modes \cup [Modes -> Scopes \cup {None}]
    /\ Modes \subseteq Tracked
    /\ MaxCalls \in Nat /\ MaxCrashes \in Nat

VARIABLES files,    \* files[x][m]: the mode file of m in scope x
          lists,    \* lists[x]: the skill-active file of scope x, or None
          pc, call, \* where each process stands, and what it holds
          used, blind, clashed, torn,   \* history, see below
          stale,    \* history: modes ended in a scope behind its list's back
          calls, crashes

vars == <<files, lists, pc, call, used, blind, clashed, torn, stale, calls, crashes>>

-----------------------------------------------------------------------------
(* The policy *)

AutoComplete == {<<"deep-interview", "ralplan">>, <<"deep-interview", "autoresearch">>,
                 <<"ralplan", "team">>, <<"ralplan", "ralph">>,
                 <<"ralplan", "autopilot">>, <<"ralplan", "autoresearch">>}

Overlap(a, b) == "ultrawork" \in {a, b} \/ {a, b} = {"ralph", "team"}

Sources(current, m) ==
    IF m \in current THEN {} ELSE {a \in current : <<a, m>> \in AutoComplete}

Allowed(current, m) ==
    m \in current \/ \A a \in current \ Sources(current, m) : Overlap(a, m)

Compatible(modes) == \A a, b \in modes : a = b \/ Overlap(a, b)

-----------------------------------------------------------------------------
(* Files and lists *)

List == [Modes -> Scopes \cup {None}]

NoEntries == [m \in Modes |-> None]

Entries(x) == IF lists[x] = None THEN NoEntries ELSE lists[x]

Listed(list) == {m \in Modes : list[m] # None}

ActiveIn(x) == {m \in Modes : files[x][m] = "active"}

(* A session that has no list yet does not fall back on that of the root.  *)
Visible(x) == Listed(Entries(x)) \cup ActiveIn(x) \cup ActiveIn(Root)

For_All(x, list) == list

(* The root's entries that are a session's own or nobody's; for the root,  *)
(* all of them.                                                            *)
For(x, list) == [m \in Modes |-> IF x = Root \/ list[m] \in {Root, x} THEN list[m] ELSE None]

(* The entries of a session's list that it does not have from the root.    *)
OwnOnly(x, list, root) ==
    [m \in Modes |-> IF list[m] = x /\ root[m] # x THEN x ELSE None]

Over(under, above) == [m \in Modes |-> IF above[m] # None THEN above[m] ELSE under[m]]

Without(list, m) == [list EXCEPT ![m] = None]

Set(list, m, x, on) == IF on THEN [list EXCEPT ![m] = x] ELSE list

-----------------------------------------------------------------------------
Call == [op     : {"start", "write", "update", "clear", "clear_all", "plain"},
         mode   : Modes,
         scope  : Scopes,
         status : {"active", "ended", "completed", "none"}, \* to be written
         todo   : SUBSET Scopes,   \* scopes still to reconcile with
         at     : Scopes,          \* the one being reconciled with
         sources : SUBSET Modes,   \* modes still to complete there
         source : Modes \cup {None}, \* the one being completed
         old    : List,            \* the root's list, as read
         root   : List,            \* the lists to be written
         own    : List,
         left   : SUBSET Sessions] \* sessions' lists still to write

NoCall == [op |-> None]

Status == {"none", "active", "ended", "completed"}

TypeOK ==
    /\ files \in [Scopes -> [Modes -> Status]]
    /\ lists \in [Scopes -> List \cup {None}]
    /\ pc \in [Procs -> {"idle", "reconcile", "complete", "put", "sync", "root", "own", "each"}]
    /\ call \in [Procs -> Call \cup {NoCall}]
    /\ \A p \in Procs : IF pc[p] = "idle" THEN call[p] = NoCall ELSE call[p] \in Call
    /\ used \subseteq Scopes /\ clashed \subseteq Scopes /\ torn \subseteq Scopes
    /\ blind \in BOOLEAN /\ stale \in [Scopes -> SUBSET Modes]
    /\ calls \in 0 .. MaxCalls /\ crashes \in 0 .. MaxCrashes

Init ==
    /\ files = [x \in Scopes |-> [m \in Modes |-> "none"]]
    /\ lists = [x \in Scopes |-> None]
    /\ pc = [p \in Procs |-> "idle"]
    /\ call = [p \in Procs |-> NoCall]
    /\ used = {} /\ blind = FALSE /\ clashed = {} /\ torn = {}
    /\ stale = [x \in Scopes |-> {}]
    /\ calls = 0 /\ crashes = 0

-----------------------------------------------------------------------------
(* Calls begin *)

Busy(x) == {p \in Procs : pc[p] # "idle" /\ call[p].scope = x}

(* History: the scopes calls were made in, and those in which one began    *)
(* before another that touches the same files had ended.                   *)
Note(x) ==
    /\ used' = used \cup {x}
    /\ clashed' = clashed \cup
         {y \in Scopes : \E z \in Scopes :
              Busy(z) # {} /\ (z = x \/ Root \in {x, z}) /\ y \in {x, z}}

Begin(p, op, m, x, status, todo, at) ==
    /\ pc[p] = "idle"
    /\ calls < MaxCalls /\ calls' = calls + 1
    /\ pc' = [pc EXCEPT ![p] = at]
    /\ call' = [call EXCEPT ![p] =
         [op |-> op, mode |-> m, scope |-> x, status |-> status, todo |-> todo, at |-> x,
          sources |-> {}, source |-> None, old |-> NoEntries, root |-> NoEntries,
          own |-> NoEntries, left |-> {}]]
    /\ Note(x)

(* startMode reconciles with its own scope only.                           *)
BeginStart(p, m, x) ==
    /\ Begin(p, "start", m, x, "active", {x}, "reconcile")
    /\ blind' = (blind \/ x = Root)
    /\ UNCHANGED <<files, lists, torn, stale, crashes>>

(* state_write: in the root, an activation reconciles with every session.  *)
WriteScopes_Own(x) == {x}

WriteScopes(x) == IF x = Root THEN Scopes ELSE {x}

BeginWrite(p, m, x) ==
    /\ \/ Begin(p, "write", m, x, "active", WriteScopes(x), "reconcile")
       \/ Begin(p, "write", m, x, "ended", {}, "put")
    /\ UNCHANGED <<files, lists, blind, torn, stale, crashes>>

(* updateModeState finds the mode in the session, or else in the root, and *)
(* writes it to the session, as it is or ended (cancelMode).               *)
BeginUpdate(p, m, x) ==
    LET found == IF files[x][m] # "none" THEN files[x][m] ELSE files[Root][m] IN
    /\ found # "none"
    /\ \E status \in {found, "ended"} : Begin(p, "update", m, x, status, {}, "put")
    /\ UNCHANGED <<files, lists, blind, torn, stale, crashes>>

BeginClear(p, m, x) ==
    /\ \/ Begin(p, "clear", m, x, "none", {}, "put")
       \/ x = Root /\ Begin(p, "clear_all", m, x, "none", {}, "put")
    /\ UNCHANGED <<files, lists, blind, torn, stale, crashes>>

(* Calls that read a mode file and write it back without telling the       *)
(* lists: the end of a team, whose file is ended in the root and in the    *)
(* leader's session, one call each; and the turn of an active mode, which  *)
(* is counted, and ended when there were enough.  (omcp cancel ends active *)
(* modes in the same way, one call for each of them.)                      *)
BeginShutdown(p, m, x) ==
    /\ m = "team" /\ files[x][m] # "none"
    /\ Begin(p, "plain", m, x, "ended", {}, "put")
    /\ UNCHANGED <<files, lists, blind, torn, stale, crashes>>

BeginTurn(p, m, x) ==
    /\ files[x][m] = "active"
    /\ \E status \in {"active", "ended"} : Begin(p, "plain", m, x, status, {}, "put")
    /\ UNCHANGED <<files, lists, blind, torn, stale, crashes>>

-----------------------------------------------------------------------------
(* Steps of a call *)

History == <<used, blind, clashed, torn, calls, crashes>>

End(p) ==
    /\ pc' = [pc EXCEPT ![p] = "idle"]
    /\ call' = [call EXCEPT ![p] = NoCall]

Go(p, at, c) ==
    /\ pc' = [pc EXCEPT ![p] = at]
    /\ call' = [call EXCEPT ![p] = c]

(* The sessions come first, the root last.                                 *)
NextScope(c, x) == x \in c.todo /\ (x = Root => c.todo = {Root})

(* History: a mode is taken for active on the word of a list alone.        *)
Hearsay(x, m) == m \in Visible(x) /\ m \notin ActiveIn(x) \cup ActiveIn(Root)

(* A denied transition throws: the call is over.                           *)
Reconcile(p) ==
    LET c == call[p] IN
    /\ pc[p] = "reconcile"
    /\ \E x \in Scopes :
         /\ NextScope(c, x)
         /\ \/ ~Allowed(Visible(x), c.mode) /\ End(p)
               /\ UNCHANGED blind
            \/ /\ Allowed(Visible(x), c.mode)
               /\ Go(p, "complete", [c EXCEPT !.todo = @ \ {x}, !.at = x,
                                              !.sources = Sources(Visible(x), c.mode)])
               /\ blind' = (blind \/ Hearsay(x, c.mode))
    /\ UNCHANGED <<files, lists, used, clashed, torn, stale, calls, crashes>>

Completed_Phase(x, m) ==
    [y \in Scopes |-> IF y \in {x, Root} /\ files[y][m] = "active"
                      THEN [files[y] EXCEPT ![m] = "complete"] ELSE files[y]]

Completed(x, m) ==
    [y \in Scopes |-> IF y \in {x, Root} /\ files[y][m] = "active"
                      THEN [files[y] EXCEPT ![m] = "completed"] ELSE files[y]]

(* The lists of these scopes are going to be told of the mode.             *)
Tell(m, scopes) == [y \in Scopes |-> IF y \in scopes THEN stale[y] \ {m} ELSE stale[y]]

(* A source is completed in its session and in the root, then synchronised *)
(* out of the lists; without a source left the next scope, or the write.   *)
Complete(p) ==
    LET c == call[p] IN
    /\ pc[p] = "complete"
    /\ \/ \E m \in c.sources :
            /\ files' = Completed(c.at, m)
            /\ stale' = Tell(m, {c.at, Root})
            /\ Go(p, "sync", [c EXCEPT !.sources = @ \ {m}, !.source = m])
       \/ /\ c.sources = {}
          /\ Go(p, IF c.todo # {} THEN "reconcile" ELSE "put", c)
          /\ UNCHANGED <<files, stale>>
    /\ UNCHANGED <<lists, History>>

Target(c) == IF c.op = "clear_all" THEN Scopes ELSE {c.scope}

Written(c) == [y \in Scopes |-> IF y \in Target(c)
                                THEN [files[y] EXCEPT ![c.mode] = c.status] ELSE files[y]]

Put(p) ==
    LET c == call[p] IN
    /\ pc[p] = "put" /\ c.op # "plain"
    /\ files' = Written(c)
    /\ stale' = Tell(c.mode, Target(c))
    /\ Go(p, "sync", c)
    /\ UNCHANGED <<lists, History>>

PutPlain(p) ==
    LET c == call[p]
        ends == c.status = "ended" /\ c.mode \in ActiveIn(c.scope)
    IN
    /\ pc[p] = "put" /\ c.op = "plain"
    /\ files' = Written(c)
    /\ stale' = [stale EXCEPT ![c.scope] = @ \cup IF ends THEN {c.mode} ELSE {}]
    /\ End(p)
    /\ UNCHANGED <<lists, History>>

-----------------------------------------------------------------------------
(* syncCanonicalSkillStateForMode *)

SyncMode(c) == IF c.source = None THEN c.mode ELSE c.source

SyncScope(c) == IF c.source = None THEN c.scope ELSE c.at

SyncOn(c) == c.source = None /\ c.status = "active"

Synced(p, c) ==
    IF c.source = None THEN End(p) ELSE Go(p, "complete", [c EXCEPT !.source = None])

RootList(c, m, x, on, rootEntries, ownNext) ==
    LET rest == [a \in Modes |-> IF a = m /\ rootEntries[a] = x THEN None ELSE rootEntries[a]] IN
    IF Listed(rest) # {} THEN rest ELSE IF on THEN ownNext ELSE NoEntries

(* Both lists are read; the activation of a mode that is incompatible with *)
(* the listed ones throws, although its file has been written.             *)
SyncRead(p) ==
    LET c == call[p]  m == SyncMode(c)  x == SyncScope(c)  on == SyncOn(c)
        rootEntries == For(x, Entries(Root))
        own == IF x = Root THEN NoEntries ELSE OwnOnly(x, Entries(x), rootEntries)
        nextOwn == Set(Without(own, m), m, x, on)
        root == IF x = Root THEN Set(Without(rootEntries, m), m, Root, on)
                ELSE RootList(c, m, x, on, rootEntries, nextOwn)
        rest == [a \in Modes |-> IF a = m /\ rootEntries[a] = x THEN None ELSE rootEntries[a]]
    IN
    /\ pc[p] = "sync"
    /\ IF lists[Root] = None /\ lists[x] = None /\ ~on THEN Synced(p, c)
       ELSE IF on /\ ~Allowed(Listed(Over(rootEntries, own)), m) THEN End(p)
       ELSE Go(p, "root", [c EXCEPT !.old = rootEntries, !.root = root, !.own = Over(rest, nextOwn),
                                    !.left = IF x = Root THEN Sessions ELSE {}])
    /\ UNCHANGED <<files, lists, stale, History>>

WriteRoot(p) ==
    /\ pc[p] = "root"
    /\ lists' = [lists EXCEPT ![Root] = call[p].root]
    /\ Go(p, IF SyncScope(call[p]) = Root THEN "each" ELSE "own", call[p])
    /\ UNCHANGED <<files, stale, History>>

WriteOwn(p) ==
    /\ pc[p] = "own"
    /\ lists' = [lists EXCEPT ![SyncScope(call[p])] = call[p].own]
    /\ Synced(p, call[p])
    /\ UNCHANGED <<files, stale, History>>

(* A change of the root's list is passed on to the sessions that have one, *)
(* which keep their own entries; an empty list is removed.                 *)
PassOn(p) ==
    LET c == call[p] IN
    /\ pc[p] = "each"
    /\ \/ \E s \in c.left :
            LET next == Over(For(s, c.root), OwnOnly(s, Entries(s), For(s, c.old))) IN
            /\ lists' = IF lists[s] = None THEN lists
                        ELSE IF Listed(next) = {} THEN [lists EXCEPT ![s] = None]
                        ELSE [lists EXCEPT ![s] = next, ![Root] = c.root]
            /\ Go(p, "each", [c EXCEPT !.left = @ \ {s}])
       \/ c.left = {} /\ Synced(p, c) /\ UNCHANGED lists
    /\ UNCHANGED <<files, stale, History>>

(* History: a call that dies may leave its scope's lists and files apart.  *)
Crash(p) ==
    /\ pc[p] # "idle" /\ crashes < MaxCrashes
    /\ crashes' = crashes + 1
    /\ torn' = torn \cup {call[p].scope}
    /\ End(p)
    /\ UNCHANGED <<files, lists, used, blind, clashed, stale, calls>>

Next ==
    \E p \in Procs :
        \/ \E m \in Modes, x \in Scopes :
             \/ BeginStart(p, m, x) \/ BeginWrite(p, m, x) \/ BeginUpdate(p, m, x)
             \/ BeginClear(p, m, x) \/ BeginShutdown(p, m, x) \/ BeginTurn(p, m, x)
        \/ Reconcile(p) \/ Complete(p) \/ Put(p) \/ PutPlain(p)
        \/ SyncRead(p) \/ WriteRoot(p) \/ WriteOwn(p) \/ PassOn(p)
        \/ Crash(p)

Spec == Init /\ [][Next]_vars

-----------------------------------------------------------------------------
(* Properties *)

(* The modes a scope sees active never exclude each other, whatever dies   *)
(* half way and whatever other sessions do at the same time, unless two    *)
(* calls that share files overlapped (no lock spans the check and the      *)
(* write), startMode ran in the root, where it does not ask the sessions,  *)
(* or a list named a mode whose files are not active.                      *)
ActiveModesAreCompatible ==
    \A x \in Scopes : {x, Root} \cap clashed = {} /\ ~blind =>
        Compatible(ActiveIn(x) \cup ActiveIn(Root))

Mixed == Root \in used /\ used # {Root}

Quiet(x) == Busy(x) = {} /\ x \notin clashed \cup torn

(* As long as only sessions, or only the root, are used, a scope in which  *)
(* no call is under way lists exactly the modes whose files are active,    *)
(* and those that the end of a team, a turn or omcp cancel ended without   *)
(* telling the list, until a later call writes or completes them: what     *)
(* other sessions read from and write to the root's list meanwhile neither *)
(* loses an entry of this one nor brings back a completed one.             *)
ListsFollowFiles ==
    \A x \in used : ~Mixed /\ Quiet(x) => Listed(Entries(x)) = ActiveIn(x) \cup stale[x]

(* A mode whose files are completed is not listed as active.               *)
NoneResurrected ==
    \A x \in used, m \in Modes :
        /\ Quiet(x) /\ Quiet(Root)
        /\ "completed" \in {files[x][m], files[Root][m]}
        /\ "active" \notin {files[x][m], files[Root][m]}
        => m \notin Listed(Entries(x))
=============================================================================
