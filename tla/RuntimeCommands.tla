---------------------------- MODULE RuntimeCommands ----------------------------
(***************************************************************************)
(* The engine of crates/omcp-runtime-core as a value: what a command does  *)
(* to it, what it logs, what compaction drops from the log and what a load *)
(* makes of a log.  Lease ids, targets, bodies and timestamps are left     *)
(* out; ids are drawn fresh (randomUUID), so an id has one record.         *)
(***************************************************************************)
EXTENDS Naturals, Sequences

CONSTANTS Owners, Requests, Messages, Cursors, None

DispatchStatus == {"none", "pending", "notified", "delivered", "failed"}
MailStatus == {"none", "created", "notified", "delivered"}

DispatchKinds == {"QueueDispatch", "MarkNotified", "MarkDelivered", "MarkFailed"}
MailKinds == {"CreateMailboxMessage", "MarkMailboxNotified", "MarkMailboxDelivered"}

(* A command, and the event of the same name it logs when it is accepted.  *)
Command ==      [kind : {"AcquireAuthority", "RenewAuthority"}, id : Owners]
           \cup [kind : DispatchKinds, id : Requests]
           \cup [kind : MailKinds, id : Messages]
           \cup [kind : {"RequestReplay"}, id : Cursors]
           \cup [kind : {"CaptureSnapshot"}, id : {None}]

Mailbox == [Messages -> MailStatus]

Engine == [owner    : Owners \cup {None},
           cursor   : Cursors \cup {None},
           dispatch : [Requests -> DispatchStatus],
           mail     : Mailbox,
           log      : Seq(Command)]

NewEngine == [owner    |-> None,
              cursor   |-> None,
              dispatch |-> [r \in Requests |-> "none"],
              mail     |-> [m \in Messages |-> "none"],
              log      |-> <<>>]

(* A lease is granted to its owner again and again, and to nobody else as  *)
(* long as it has an owner: no command releases it.                        *)
Accepts(e, c) ==
    CASE c.kind = "AcquireAuthority"     -> e.owner \in {None, c.id}
      [] c.kind = "RenewAuthority"       -> e.owner = c.id
      [] c.kind = "MarkNotified"         -> e.dispatch[c.id] = "pending"
      [] c.kind = "MarkDelivered"        -> e.dispatch[c.id] = "notified"
      [] c.kind = "MarkFailed"           -> e.dispatch[c.id] \in {"pending", "notified"}
      [] c.kind \in {"MarkMailboxNotified", "MarkMailboxDelivered"} ->
             e.mail[c.id] \in {"created", "notified"}
      [] OTHER                           -> TRUE

NewDispatchStatus == [QueueDispatch |-> "pending",   MarkNotified |-> "notified",
                      MarkDelivered |-> "delivered", MarkFailed   |-> "failed"]

NewMailStatus == [CreateMailboxMessage |-> "created",
                  MarkMailboxNotified  |-> "notified",
                  MarkMailboxDelivered |-> "delivered"]

Effect(e, c) ==
    CASE c.kind = "AcquireAuthority" -> [e EXCEPT !.owner = c.id]
      [] c.kind \in DispatchKinds    -> [e EXCEPT !.dispatch[c.id] = NewDispatchStatus[c.kind]]
      [] c.kind \in MailKinds        -> [e EXCEPT !.mail[c.id] = NewMailStatus[c.kind]]
      [] c.kind = "RequestReplay"    -> [e EXCEPT !.cursor = c.id]
      [] OTHER                       -> e

Process(e, c) == [Effect(e, c) EXCEPT !.log = Append(@, c)]

(* An event the engine no longer accepts is passed over.                   *)
ReplayEvent(e, c) == IF Accepts(e, c) THEN Effect(e, c) ELSE e

(* The engine a log rebuilds, after each of its events.                    *)
Replay(events) ==
    LET e[n \in 0 .. Len(events)] == IF n = 0 THEN NewEngine ELSE ReplayEvent(e[n - 1], events[n])
    IN  e

Rebuild(events) == Replay(events)[Len(events)]

(* What is left of a log without some events, after each of its events.    *)
Kept(log, drop) ==
    LET kept[n \in 0 .. Len(log)] == IF n = 0 THEN <<>>
                                     ELSE IF log[n] \in drop THEN kept[n - 1]
                                     ELSE Append(kept[n - 1], log[n])
    IN  kept

Without(log, drop) == Kept(log, drop)[Len(log)]

Finished(e, r) == e.dispatch[r] \in {"delivered", "failed"}

Compact_LastEventOnly(e) ==
    [e EXCEPT !.log = Without(@, {c \in Command : c.kind \in {"MarkDelivered", "MarkFailed"}})]

Compact_QueueOnly(e) ==
    [e EXCEPT !.log = Without(@, {c \in Command : c.kind = "QueueDispatch" /\ Finished(e, c.id)})]

(* Compaction drops every event of a request that is delivered or failed.  *)
Compact(e) ==
    [e EXCEPT !.log = Without(@, {c \in Command : c.kind \in DispatchKinds /\ Finished(e, c.id)})]

(* The mailbox file, where there is a readable one, replaces the mailbox   *)
(* rebuilt from the events.                                                *)
Load(events, mailbox) ==
    [Rebuild(events) EXCEPT !.log = events,
                            !.mail = IF mailbox = None THEN @ ELSE mailbox]

(* Every event of the log was acceptable at its place.                     *)
Legal(events) ==
    \A i \in 1 .. Len(events) : Accepts(Replay(events)[i - 1], events[i])
=============================================================================
