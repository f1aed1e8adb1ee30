-------------------------------- MODULE Mailbox --------------------------------
(***************************************************************************)
(* The mailbox of one worker: team/state/mailbox.ts over the engine's      *)
(* mailbox.json (the view every reader prefers once it is there) and the   *)
(* worker's own mailbox/<worker>.json (the legacy file, which shadows it). *)
(* Sends and marks of several processes, engine commands that overlap and  *)
(* are killed, processes that die.                                         *)
(*                                                                         *)
(* A body is told from another by its key (sender and text).  A command is *)
(* cut where others can come in between: it loads events.json and          *)
(* mailbox.json under the shared lock, writes both under the exclusive one *)
(* and then mailbox.json again under none (RuntimeStore has every step of  *)
(* it).  The mailbox lock of a process that died is taken over (DirLock).  *)
(***************************************************************************)
EXTENDS Naturals

CONSTANTS Procs, Keys, Messages, None,
          MaxCalls,     \* bound: calls begun
          MaxFaults,    \* bound: commands that are killed or not found
          MaxCrashes    \* bound: processes that die during a call

R == INSTANCE RuntimeCommands WITH Owners <- {}, Requests <- {}, Cursors <- {}

ASSUME MailboxAssumption ==
    /\ None \notin Keys \cup Messages \cup R!Mailbox \cup R!MailKinds
    /\ {MaxCalls, MaxFaults, MaxCrashes} \subseteq Nat

VARIABLES view,     \* what mailbox.json held last as a whole, None before the first
          half,     \* mailbox.json is emptied, or else no JSON
          logged,   \* the mail events.json rebuilds to, None if it cannot be read
          legacy,   \* mailbox/<worker>.json
          keyOf,    \* sender and text of every id drawn
          events,   \* the delivery log
          pc, call, \* where each process stands, and what it holds
          exec,     \* the command it runs: its next step and its engine
          unheard,  \* history: ids marked delivered in the legacy file only
          behind,   \* history: commands that others have overtaken
          lost,     \* history: such a command has written its engine, or a
                    \* command was killed while it wrote events.json
          calls, faults, crashes

vars == <<view, half, logged, legacy, keyOf, events, pc, call, exec,
          unheard, behind, lost, calls, faults, crashes>>

Files == <<view, half, logged, legacy, keyOf, events>>
History == <<unheard, behind, lost>>
Bounds == <<calls, faults, crashes>>

Empty == [m \in Messages |-> "none"]

NoCall == [id |-> None, kind |-> None, copy |-> Empty, answered |-> FALSE]

Kinds == R!MailKinds \cup {"CaptureSnapshot"}

Call == [id : Messages \cup {None}, kind : Kinds, copy : R!Mailbox, answered : BOOLEAN]

NoExec == [step |-> "load", mail |-> Empty, log |-> Empty]

Exec == [step : {"load", "persist", "fill", "reopen", "refill"},
         mail : R!Mailbox, log : R!Mailbox]

Transport == {"bridge", "legacy-json"}

Entry == [event : {"mailbox_created", "delivered"}, id : Messages, transport : Transport]

(* A process runs a command, also when the one that started it is dead.    *)
Running == {"create", "exec", "other", "orphan"}

Steps == Running \cup {"idle", "shadow", "announce", "mark", "log"}

TypeOK ==
    /\ view \in R!Mailbox \cup {None} /\ half \in BOOLEAN
    /\ logged \in R!Mailbox \cup {None}
    /\ legacy \in R!Mailbox
    /\ keyOf \in [Messages -> Keys \cup {None}]
    /\ events \subseteq Entry
    /\ pc \in [Procs -> Steps]
    /\ call \in [Procs -> Call \cup {NoCall}]
    /\ exec \in [Procs -> Exec]
    /\ unheard \subseteq Messages /\ behind \subseteq Procs /\ lost \in BOOLEAN
    /\ calls \in 0 .. MaxCalls /\ faults \in 0 .. MaxFaults /\ crashes \in 0 .. MaxCrashes

Init ==
    /\ view = None /\ half = FALSE /\ logged = None /\ legacy = Empty
    /\ keyOf = [m \in Messages |-> None]
    /\ events = {}
    /\ pc = [p \in Procs |-> "idle"]
    /\ call = [p \in Procs |-> NoCall]
    /\ exec = [p \in Procs |-> NoExec]
    /\ unheard = {} /\ behind = {} /\ lost = FALSE
    /\ calls = 0 /\ faults = 0 /\ crashes = 0

-----------------------------------------------------------------------------
(* Reading *)

(* Where mailbox.json is missing or no JSON, readers take the legacy file. *)
ReadMailbox == IF view = None \/ half THEN legacy ELSE view

Undelivered(mail) == {m \in Messages : mail[m] \in {"created", "notified"}}

(* The legacy file counts for the ids the view does not hold.              *)
Candidates(seen) ==
    [m \in Messages |-> IF seen[m] = "none" THEN legacy[m] ELSE seen[m]]

Copies(mail, k) == {m \in Undelivered(mail) : keyOf[m] = k}

LockFree_Unlocked == TRUE

LockFree == \A p \in Procs : pc[p] \notin {"create", "shadow"}

-----------------------------------------------------------------------------
(* Commands *)

(* Without an event log the engine is a new one; without a readable        *)
(* mailbox.json its mail is that of the log.                               *)
Rebuilt == [R!NewEngine EXCEPT !.mail = IF logged = None THEN Empty ELSE logged]

Loaded == IF logged = None \/ view = None \/ half
          THEN Rebuilt
          ELSE [R!NewEngine EXCEPT !.mail = view]

Return(p) ==
    /\ pc' = [pc EXCEPT ![p] = "idle"]
    /\ call' = [call EXCEPT ![p] = NoCall]

(* A command is over, and its caller, if it lives, goes on.                *)
Over(p, answered) ==
    /\ exec' = [exec EXCEPT ![p] = NoExec]
    /\ CASE pc[p] = "create" -> /\ pc' = [pc EXCEPT ![p] = "shadow"]
                                /\ call' = [call EXCEPT ![p].answered = answered]
         [] pc[p] = "exec"   -> /\ pc' = [pc EXCEPT ![p] = "mark"]
                                /\ call' = [call EXCEPT ![p].answered = answered]
         [] OTHER            -> Return(p)

At(p, step) == pc[p] \in Running /\ exec[p].step = step

Unlocked == \A q \in Procs : exec[q].step # "fill"

(* A command that is refused writes nothing.                               *)
LoadEngine(p) ==
    LET c == [kind |-> call[p].kind, id |-> call[p].id]
    IN  /\ At(p, "load") /\ Unlocked
        /\ IF R!Accepts(Loaded, c)
           THEN /\ exec' = [exec EXCEPT ![p] =
                      [step |-> "persist", mail |-> R!Effect(Loaded, c).mail,
                       log |-> R!ReplayEvent(Rebuilt, c).mail]]
                /\ UNCHANGED <<pc, call>>
           ELSE Over(p, FALSE)
        /\ UNCHANGED <<Files, History, Bounds>>

(* Every engine that was loaded before is now behind.                      *)
SaveEvents(p) ==
    /\ logged' = exec[p].log
    /\ behind' = {q \in Procs \ {p} : exec[q].step # "load"}
    /\ lost' = (lost \/ p \in behind)

Persist(p) ==
    /\ At(p, "persist") /\ Unlocked
    /\ SaveEvents(p) /\ half' = TRUE
    /\ exec' = [exec EXCEPT ![p].step = "fill"]
    /\ UNCHANGED <<view, legacy, keyOf, events, pc, call, unheard, Bounds>>

(* When two commands empty the file before either fills it, the shorter    *)
(* text may be followed by the end of the longer one.                      *)
SaveView(p) == \/ view' = exec[p].mail /\ half' = FALSE
               \/ ~half /\ half' = TRUE /\ UNCHANGED view

Fill(p) ==
    /\ At(p, "fill")
    /\ SaveView(p)
    /\ exec' = [exec EXCEPT ![p].step = "reopen"]
    /\ UNCHANGED <<logged, legacy, keyOf, events, pc, call, History, Bounds>>

(* write_compatibility_view, with no lock.                                 *)
Reopen(p) ==
    /\ At(p, "reopen")
    /\ half' = TRUE
    /\ exec' = [exec EXCEPT ![p].step = "refill"]
    /\ UNCHANGED <<view, logged, legacy, keyOf, events, pc, call, History, Bounds>>

Refill(p) ==
    /\ At(p, "refill")
    /\ SaveView(p)
    /\ lost' = (lost \/ p \in behind) /\ behind' = behind \ {p}
    /\ Over(p, TRUE)
    /\ UNCHANGED <<logged, legacy, keyOf, events, unheard, Bounds>>

(* No binary, or an exec killed after ten seconds, wherever it stood: with *)
(* nothing written, with events.json written, or half written, and with    *)
(* mailbox.json emptied.                                                   *)
Failed(p) ==
    /\ pc[p] \in Running /\ faults < MaxFaults
    /\ faults' = faults + 1
    /\ \/ behind' = behind \ {p} /\ UNCHANGED <<logged, lost>>
       \/ At(p, "persist") /\ Unlocked /\ SaveEvents(p)
       \/ /\ At(p, "persist") /\ Unlocked
          /\ logged' = None /\ lost' = TRUE
          /\ behind' = {q \in Procs \ {p} : exec[q].step # "load"}
    /\ Over(p, FALSE)
    /\ UNCHANGED <<view, half, legacy, keyOf, events, unheard, calls, crashes>>

RunExec(p) == LoadEngine(p) \/ Persist(p) \/ Fill(p) \/ Reopen(p) \/ Refill(p) \/ Failed(p)

-----------------------------------------------------------------------------
(* sendDirectMessage *)

Begin(p, m, kind, at) ==
    /\ pc' = [pc EXCEPT ![p] = at]
    /\ call' = [call EXCEPT ![p] = [id |-> m, kind |-> kind, copy |-> legacy, answered |-> FALSE]]

CountCall == calls < MaxCalls /\ calls' = calls + 1

(* Under the lock: the undelivered copy there is, or a new id.             *)
Send(p, k) ==
    /\ pc[p] = "idle" /\ LockFree
    /\ CountCall
    /\ \/ /\ Copies(Candidates(ReadMailbox), k) # {}
          /\ UNCHANGED <<keyOf, pc, call>>
       \/ /\ Copies(Candidates(ReadMailbox), k) = {}
          /\ \E m \in Messages :
               /\ keyOf[m] = None
               /\ keyOf' = [keyOf EXCEPT ![m] = k]
               /\ Begin(p, m, "CreateMailboxMessage", "create")
    /\ UNCHANGED <<view, half, logged, legacy, events, exec, History, faults, crashes>>

(* The legacy file read when the lock was taken is written back with the   *)
(* message in it, and the lock is given up.                                *)
Shadow(p) ==
    /\ pc[p] = "shadow"
    /\ LET m     == call[p].id
           found == call[p].answered /\ ReadMailbox[m] # "none"
       IN  /\ legacy' = [call[p].copy EXCEPT ![m] = IF found THEN ReadMailbox[m] ELSE "created"]
           /\ call' = [call EXCEPT ![p].answered = found]
    /\ pc' = [pc EXCEPT ![p] = "announce"]
    /\ UNCHANGED <<view, half, logged, keyOf, events, exec, History, Bounds>>

TransportOf(p) == IF call[p].answered THEN "bridge" ELSE "legacy-json"

LogEntry(p, event) ==
    events' = events \cup {[event |-> event, id |-> call[p].id, transport |-> TransportOf(p)]}

(* The message_received event and the entry of the delivery log.           *)
Announce(p) ==
    /\ pc[p] = "announce"
    /\ LogEntry(p, "mailbox_created")
    /\ Return(p)
    /\ UNCHANGED <<view, half, logged, legacy, keyOf, exec, History, Bounds>>

-----------------------------------------------------------------------------
(* markMessageDelivered, markMessageNotified *)

(* The message is looked up outside the lock.                              *)
BeginDelivered(p, m) ==
    /\ pc[p] = "idle"
    /\ CountCall
    /\ IF m \in Undelivered(ReadMailbox)
       THEN Begin(p, m, "MarkMailboxDelivered", "exec")
       ELSE UNCHANGED <<pc, call>>
    /\ UNCHANGED <<Files, exec, History, faults, crashes>>

BeginNotified(p, m) ==
    /\ pc[p] = "idle"
    /\ CountCall
    /\ keyOf[m] # None
    /\ Begin(p, m, "MarkMailboxNotified", "exec")
    /\ UNCHANGED <<Files, exec, History, faults, crashes>>

(* The copy of the mailbox the lookup outside the lock has read is used.   *)
MarkDelivered_Stale(p) ==
    /\ pc[p] = "mark" /\ call[p].kind = "MarkMailboxDelivered" /\ LockFree
    /\ legacy' = [call[p].copy EXCEPT ![call[p].id] = "delivered"]
    /\ unheard' = IF call[p].answered THEN unheard ELSE unheard \cup {call[p].id}
    /\ pc' = [pc EXCEPT ![p] = "log"]
    /\ UNCHANGED <<view, half, logged, keyOf, events, call, exec, behind, lost, Bounds>>

(* Under the lock: all that was read is written to the legacy file with    *)
(* the mark in it, whether it came from there or from mailbox.json.        *)
MarkDelivered(p) ==
    /\ pc[p] = "mark" /\ call[p].kind = "MarkMailboxDelivered" /\ LockFree
    /\ LET m == call[p].id
       IN  \/ /\ ReadMailbox[m] = "none"
              /\ Return(p) /\ UNCHANGED <<legacy, unheard>>
           \/ /\ ReadMailbox[m] # "none"
              /\ legacy' = IF ReadMailbox[m] = "delivered" /\ ~call[p].answered
                           THEN legacy ELSE [ReadMailbox EXCEPT ![m] = "delivered"]
              /\ unheard' = IF call[p].answered THEN unheard ELSE unheard \cup {m}
              /\ pc' = [pc EXCEPT ![p] = "log"] /\ UNCHANGED call
    /\ UNCHANGED <<view, half, logged, keyOf, events, exec, behind, lost, Bounds>>

LogDelivered(p) ==
    /\ pc[p] = "log"
    /\ LogEntry(p, "delivered")
    /\ Return(p)
    /\ UNCHANGED <<view, half, logged, legacy, keyOf, exec, History, Bounds>>

(* The mark replaces the status, whatever it was.                          *)
MarkNotified_Resets(p) ==
    /\ pc[p] = "mark" /\ call[p].kind = "MarkMailboxNotified" /\ LockFree
    /\ legacy' = IF ReadMailbox[call[p].id] = "none" THEN legacy
                 ELSE [ReadMailbox EXCEPT ![call[p].id] = "notified"]
    /\ Return(p)
    /\ UNCHANGED <<view, half, logged, keyOf, events, exec, History, Bounds>>

MarkNotified(p) ==
    /\ pc[p] = "mark" /\ call[p].kind = "MarkMailboxNotified" /\ LockFree
    /\ legacy' = IF ReadMailbox[call[p].id] = "none" THEN legacy
                 ELSE [ReadMailbox EXCEPT ![call[p].id] =
                         IF @ = "delivered" THEN @ ELSE "notified"]
    /\ Return(p)
    /\ UNCHANGED <<view, half, logged, keyOf, events, exec, History, Bounds>>

-----------------------------------------------------------------------------
(* Any other command of the bridge writes mailbox.json as well.            *)
OtherCommand(p) ==
    /\ pc[p] = "idle"
    /\ CountCall
    /\ Begin(p, None, "CaptureSnapshot", "other")
    /\ UNCHANGED <<Files, exec, History, faults, crashes>>

(* The command a dead process has started goes on; its lock is taken over. *)
Crash(p) ==
    /\ pc[p] \notin {"idle", "orphan"} /\ crashes < MaxCrashes
    /\ crashes' = crashes + 1
    /\ \/ exec[p].step = "load" /\ Return(p)
       \/ /\ pc[p] \in Running
          /\ pc' = [pc EXCEPT ![p] = "orphan"] /\ UNCHANGED call
    /\ UNCHANGED <<Files, exec, History, calls, faults>>

Next ==
    \E p \in Procs :
      \/ \E k \in Keys : Send(p, k)
      \/ \E m \in Messages : BeginDelivered(p, m) \/ BeginNotified(p, m)
      \/ Shadow(p) \/ Announce(p)
      \/ MarkDelivered(p) \/ MarkNotified(p) \/ LogDelivered(p)
      \/ OtherCommand(p) \/ RunExec(p) \/ Crash(p)

Spec == Init /\ [][Next]_vars

-----------------------------------------------------------------------------
(* Properties *)

Shows(mail, e) ==
    IF e.event = "delivered" THEN mail[e.id] = "delivered" ELSE mail[e.id] # "none"

(* Done through the bridge, or in the legacy file while that is all.       *)
Counts(e) == e.transport = "bridge" \/ view = None

(* As long as no command that others have overtaken writes its engine, and *)
(* none is killed over events.json:                                        *)
(* what the delivery log says was created or delivered through the bridge, *)
(* readers find so from then on, also while mailbox.json is rewritten or   *)
(* after a kill has left it empty; what was done in the legacy file they   *)
(* find so as long as there was no mailbox.json.  No write-back of another *)
(* send or mark takes it away again.                                       *)
LogIsTrue == lost \/ \A e \in events : Counts(e) => Shows(ReadMailbox, e)

(* What is found when no command is writing mailbox.json.                  *)
Settled == IF view = None THEN legacy ELSE view

Announced == {e.id : e \in {x \in events : x.event = "mailbox_created" /\ Counts(x)}}

(* With the same exception: two messages with one sender and text that     *)
(* were announced as created through the bridge (or in the legacy file,    *)
(* while there is only that) are never undelivered at the same time: a     *)
(* repeated send finds the first one, whatever died or was killed in       *)
(* between, and even if it reads the legacy file while mailbox.json is     *)
(* being written.  A message whose delivery the engine did not hear of is  *)
(* not counted.                                                            *)
OneUndeliveredCopy ==
    lost \/ \A m, n \in (Announced \cap Undelivered(Settled)) \ unheard :
                keyOf[m] = keyOf[n] => m = n

(* With the same exception: a message that mailbox.json, or the legacy     *)
(* file before there is one, shows delivered is not shown otherwise by a   *)
(* later mailbox.json, or legacy file: only the arrival of mailbox.json    *)
(* may make it reappear or vanish.  (While mailbox.json is empty readers   *)
(* find the mark only after it has reached the legacy file.)               *)
DeliveredStaysDelivered ==
    [][lost' \/ ((view = None <=> view' = None) =>
         \A m \in Messages : Settled[m] = "delivered" => Settled'[m] = "delivered")]_vars

(* What the delivery log says was created or delivered is what readers     *)
(* find, whatever the transport.                                           *)
FallbackIsRead == lost \/ \A e \in events : Shows(ReadMailbox, e)

=============================================================================
