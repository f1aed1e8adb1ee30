----------------------------- MODULE RuntimeStore -----------------------------
(***************************************************************************)
(* `omcp-runtime exec` as processes run it on one state directory: load    *)
(* the files under a shared lock, process one command, write the files     *)
(* under an exclusive lock, then write the views for TypeScript readers,   *)
(* the mailbox file a second time among them, under no lock.  Nothing is   *)
(* held between load and persist.  The file lock is the kernel's: a dead   *)
(* process holds none.                                                     *)
(***************************************************************************)
EXTENDS RuntimeCommands, FiniteSets

CONSTANTS Procs,
          Compacting,   \* the values of the --compact flag callers use
          MaxCommands,  \* bound: how many execs are started
          MaxCrashes    \* bound: how many of them are killed

VARIABLES events,       \* events.json: the log, or None (absent or half written)
          mailbox,      \* mailbox.json: the mailbox, or None
          dispatchView, \* dispatch.json, which TypeScript reads
          reading,      \* the processes that hold the shared lock
          writing,      \* the process that holds the exclusive lock, or None
          pc,           \* per process: its next step
          command,      \* per process: the command it was started with, or None
          engine,       \* per process: its engine
          drawn,        \* ids of requests and messages drawn so far
          execs,        \* execs started so far
          answered,     \* commands whose exec printed its event and exited with 0
          crashes       \* processes killed so far

vars == <<events, mailbox, dispatchView, reading, writing, pc, command, engine,
          drawn, execs, answered, crashes>>

ASSUME StoreAssumption == /\ None \notin Procs \cup Command \cup Owners \cup Cursors
                          /\ None \notin Seq(Command) \cup Mailbox
                          /\ Compacting \subseteq BOOLEAN
                          /\ MaxCommands \in Nat
                          /\ MaxCrashes \in Nat

Steps == {"idle", "load", "readEvents", "readMailbox", "process", "persist",
          "openEvents", "writeEvents", "openMailbox", "writeMailbox", "unlock",
          "viewDispatch", "openView", "writeView", "answer"}

Init == /\ events = None
        /\ mailbox = None
        /\ dispatchView = None
        /\ reading = {}
        /\ writing = None
        /\ pc = [p \in Procs |-> "idle"]
        /\ command = [p \in Procs |-> None]
        /\ engine = [p \in Procs |-> NewEngine]
        /\ drawn = {}
        /\ execs = 0
        /\ answered = {}
        /\ crashes = 0

Files == <<events, mailbox, dispatchView>>
Locks == <<reading, writing>>
Ghosts == <<drawn, execs, answered, crashes>>

Goto(p, step) == pc' = [pc EXCEPT ![p] = step]

(* Callers queue a request and create a message under a fresh id.          *)
Exec(p, c) ==
    /\ pc[p] = "idle"
    /\ execs < MaxCommands
    /\ execs' = execs + 1
    /\ IF c.kind \in {"QueueDispatch", "CreateMailboxMessage"}
       THEN c.id \notin drawn /\ drawn' = drawn \cup {c.id}
       ELSE UNCHANGED drawn
    /\ command' = [command EXCEPT ![p] = c]
    /\ Goto(p, "load")
    /\ UNCHANGED <<Files, Locks, engine, answered, crashes>>

-----------------------------------------------------------------------------
(* RuntimeEngine::load.                                                    *)

LockShared_Unlocked(p) == /\ pc[p] = "load"
                          /\ reading' = reading \cup {p}
                          /\ Goto(p, "readEvents")
                          /\ UNCHANGED <<Files, writing, command, engine, Ghosts>>

LockShared(p) == /\ pc[p] = "load"
                 /\ writing = None
                 /\ reading' = reading \cup {p}
                 /\ Goto(p, "readEvents")
                 /\ UNCHANGED <<Files, writing, command, engine, Ghosts>>

(* A log that cannot be read makes the load fail, and main goes on with an *)
(* empty engine.                                                           *)
ReadEvents(p) ==
    /\ pc[p] = "readEvents"
    /\ IF events = None
       THEN /\ engine' = [engine EXCEPT ![p] = NewEngine]
            /\ reading' = reading \ {p}
            /\ Goto(p, "process")
       ELSE /\ engine' = [engine EXCEPT ![p] = [NewEngine EXCEPT !.log = events]]
            /\ Goto(p, "readMailbox")
            /\ UNCHANGED reading
    /\ UNCHANGED <<Files, writing, command, Ghosts>>

ReadMailbox(p) ==
    /\ pc[p] = "readMailbox"
    /\ engine' = [engine EXCEPT ![p] = Load(@.log, mailbox)]
    /\ reading' = reading \ {p}
    /\ Goto(p, "process")
    /\ UNCHANGED <<Files, writing, command, Ghosts>>

-----------------------------------------------------------------------------
(* A rejected command ends the process with nothing written.               *)
ProcessCommand(p) ==
    LET done == Process(engine[p], command[p])
    IN  /\ pc[p] = "process"
        /\ IF Accepts(engine[p], command[p])
           THEN /\ \E compact \in Compacting :
                      engine' = [engine EXCEPT ![p] = IF compact THEN Compact(done) ELSE done]
                /\ Goto(p, "persist")
                /\ UNCHANGED command
           ELSE /\ engine' = [engine EXCEPT ![p] = NewEngine]
                /\ command' = [command EXCEPT ![p] = None]
                /\ Goto(p, "idle")
        /\ UNCHANGED <<Files, Locks, Ghosts>>

-----------------------------------------------------------------------------
(* RuntimeEngine::persist.  fs::write empties the file before it fills it. *)

LockExclusive_IgnoreReaders(p) == /\ pc[p] = "persist"
                                  /\ writing = None
                                  /\ writing' = p
                                  /\ Goto(p, "openEvents")
                                  /\ UNCHANGED <<Files, reading, command, engine, Ghosts>>

LockExclusive(p) == /\ pc[p] = "persist"
                    /\ writing = None
                    /\ reading = {}
                    /\ writing' = p
                    /\ Goto(p, "openEvents")
                    /\ UNCHANGED <<Files, reading, command, engine, Ghosts>>

OpenEvents(p) == /\ pc[p] = "openEvents"
                 /\ events' = None
                 /\ Goto(p, "writeEvents")
                 /\ UNCHANGED <<mailbox, dispatchView, Locks, command, engine, Ghosts>>

WriteEvents(p) == /\ pc[p] = "writeEvents"
                  /\ events' = engine[p].log
                  /\ Goto(p, "openMailbox")
                  /\ UNCHANGED <<mailbox, dispatchView, Locks, command, engine, Ghosts>>

OpenMailbox(p) == /\ \/ pc[p] = "openMailbox" /\ Goto(p, "writeMailbox")
                     \/ pc[p] = "openView" /\ Goto(p, "writeView")
                  /\ mailbox' = None
                  /\ UNCHANGED <<events, dispatchView, Locks, command, engine, Ghosts>>

WriteMailbox(p) == /\ \/ pc[p] = "writeMailbox" /\ Goto(p, "unlock")
                      \/ pc[p] = "writeView" /\ Goto(p, "answer")
                   /\ mailbox' = engine[p].mail
                   /\ UNCHANGED <<events, dispatchView, Locks, command, engine, Ghosts>>

Unlock(p) == /\ pc[p] = "unlock"
             /\ writing' = None
             /\ Goto(p, "viewDispatch")
             /\ UNCHANGED <<Files, reading, command, engine, Ghosts>>

ViewDispatch_OpenOnly(p) ==
    /\ pc[p] = "viewDispatch"
    /\ dispatchView' = [r \in {q \in Requests : ~Finished(engine[p], q)} |->
                          engine[p].dispatch[r]]
    /\ Goto(p, "openView")
    /\ UNCHANGED <<events, mailbox, Locks, command, engine, Ghosts>>

(* write_compatibility_view: the dispatch records, then the mailbox again. *)
ViewDispatch(p) == /\ pc[p] = "viewDispatch"
                   /\ dispatchView' = engine[p].dispatch
                   /\ Goto(p, "openView")
                   /\ UNCHANGED <<events, mailbox, Locks, command, engine, Ghosts>>

Answer(p) == /\ pc[p] = "answer"
             /\ answered' = answered \cup {command[p]}
             /\ command' = [command EXCEPT ![p] = None]
             /\ engine' = [engine EXCEPT ![p] = NewEngine]
             /\ Goto(p, "idle")
             /\ UNCHANGED <<Files, Locks, drawn, execs, crashes>>

Killed_KeepsLock(p) == /\ pc[p] # "idle"
                       /\ crashes < MaxCrashes
                       /\ crashes' = crashes + 1
                       /\ command' = [command EXCEPT ![p] = None]
                       /\ engine' = [engine EXCEPT ![p] = NewEngine]
                       /\ Goto(p, "idle")
                       /\ UNCHANGED <<Files, Locks, drawn, execs, answered>>

(* The bridge kills an exec after ten seconds; so may anybody.             *)
Killed(p) == /\ pc[p] # "idle"
             /\ crashes < MaxCrashes
             /\ crashes' = crashes + 1
             /\ reading' = reading \ {p}
             /\ writing' = IF writing = p THEN None ELSE writing
             /\ command' = [command EXCEPT ![p] = None]
             /\ engine' = [engine EXCEPT ![p] = NewEngine]
             /\ Goto(p, "idle")
             /\ UNCHANGED <<Files, drawn, execs, answered>>

Step(p) == \/ LockShared(p) \/ ReadEvents(p) \/ ReadMailbox(p) \/ ProcessCommand(p)
           \/ LockExclusive(p) \/ OpenEvents(p) \/ WriteEvents(p) \/ OpenMailbox(p)
           \/ WriteMailbox(p) \/ Unlock(p) \/ ViewDispatch(p) \/ Answer(p)

Next == \E p \in Procs : \/ \E c \in Command : Exec(p, c)
                         \/ Step(p)
                         \/ Killed(p)

Spec == Init /\ [][Next]_vars

(* A process runs on, and the kernel grants a lock that comes free again   *)
(* and again.                                                              *)
FairSpec == /\ Spec
            /\ \A p \in Procs : /\ WF_vars(Step(p))
                                /\ SF_vars(LockShared(p))
                                /\ SF_vars(LockExclusive(p))

-----------------------------------------------------------------------------
(* Type invariant.                                                         *)
TypeOK == /\ events \in Seq(Command) \cup {None}
          /\ mailbox \in Mailbox \cup {None}
          /\ dispatchView \in [Requests -> DispatchStatus] \cup {None}
          /\ reading \in SUBSET Procs
          /\ writing \in Procs \cup {None}
          /\ pc \in [Procs -> Steps]
          /\ command \in [Procs -> Command \cup {None}]
          /\ engine \in [Procs -> Engine]
          /\ drawn \in SUBSET (Requests \cup Messages)
          /\ execs \in 0 .. MaxCommands
          /\ answered \in SUBSET Command
          /\ crashes \in 0 .. MaxCrashes

(* The lock keeps loads and persists apart: from the moment a load begins   *)
(* to read until it has read both files no persist writes (the views, which *)
(* write the mailbox file under no lock, do) ...                           *)
LogStaysWhileRead == [][reading # {} => events' = events]_vars

(* ... so that, once an exec has answered and if none is killed, no load   *)
(* fails and starts over with an empty engine.                             *)
LoadsSeeWholeLogs ==
    \A p \in Procs : pc[p] = "readEvents" /\ answered # {} /\ crashes = 0 => events # None

(* Lost updates, kills and compaction may lose commands, but no log ever   *)
(* holds a dispatch or authority event out of turn: what a load rebuilds   *)
(* is a state that some engine accepted.                                   *)
DispatchLogIsLegal ==
    events # None =>
       \A i \in 1 .. Len(events) :
          events[i].kind \in MailKinds \/ Accepts(Replay(events)[i - 1], events[i])

Idle == \A p \in Procs : pc[p] = "idle"

(* Execs that do not overlap lose nothing: when none runs, the log rebuilds *)
(* the mailbox on file and the requests in the view that are not finished, *)
(* and holds every answered command but those on requests it has dropped.  *)
FilesAgree ==
    Idle /\ events # None =>
       LET e == Rebuild(events)
       IN  /\ Legal(events)
           /\ mailbox = e.mail
           /\ \A r \in Requests : \/ dispatchView[r] = e.dispatch[r]
                                  \/ /\ dispatchView[r] \in {"delivered", "failed"}
                                     /\ e.dispatch[r] = "none"
           /\ \A c \in answered : \/ \E i \in 1 .. Len(events) : events[i] = c
                                  \/ c.kind \in DispatchKinds /\ e.dispatch[c.id] = "none"

(* Every exec ends, through all kills: the locks never block the team.     *)
ExecsEnd == \A p \in Procs : pc[p] # "idle" ~> pc[p] = "idle"

(* events.json is an "append-only event log": a command whose exec has     *)
(* answered stays in it.                                                   *)
AnsweredStaysLogged ==
    events # None => \A c \in answered : \E i \in 1 .. Len(events) : events[i] = c
=============================================================================
