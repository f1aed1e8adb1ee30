----------------------------- MODULE MailboxProofs -----------------------------
(***************************************************************************)
(* For any number of processes, messages, calls, killed commands and       *)
(* crashes, as long as no command writes an engine others have overtaken:  *)
(* what the delivery log says is what readers find (LogIsTrue), a repeated *)
(* send finds the undelivered copy (OneUndeliveredCopy), and a delivery is *)
(* not taken back (DeliveredStaysDelivered).                               *)
(*                                                                         *)
(* The invariant needs what overtaking means: the engine of a command that *)
(* is not behind holds all that mailbox.json shows, and all that the one   *)
(* command that may still write it shows (Engines); the lock (one process  *)
(* between reading the legacy file and writing it back, and the copy it    *)
(* holds is the file); ids that are drawn fresh, and what a call still has *)
(* to log.                                                                 *)
(***************************************************************************)
EXTENDS Mailbox, TLAPS

MarkKinds == {"MarkMailboxNotified", "MarkMailboxDelivered"}

CallKinds ==
    \A p \in Procs :
        /\ pc[p] # "idle" => call[p] \in Call
        /\ pc[p] \in {"create", "shadow", "announce"} => call[p].kind = "CreateMailboxMessage"
        /\ pc[p] \in {"exec", "mark"} => call[p].kind \in MarkKinds
        /\ pc[p] = "log" => call[p].kind = "MarkMailboxDelivered"
        /\ pc[p] = "other" => call[p].kind = "CaptureSnapshot"
        /\ call[p].kind = "CaptureSnapshot" => call[p].id = None
        /\ pc[p] # "idle" /\ call[p].kind # "CaptureSnapshot" => call[p].id \in Messages
        /\ pc[p] \in {"create", "exec"} => call[p].answered = FALSE
        /\ pc[p] \notin Running \/ exec[p].step = "load" => exec[p] = NoExec

(* What the one shows written or delivered the other does too.             *)
Within(x, y) ==
    \A m \in Messages : (x[m] # "none" => y[m] # "none") /\ (x[m] = "delivered" => y[m] = "delivered")

(* A command with an engine that nobody has overtaken.                     *)
Current(p) == p \notin behind /\ exec[p].step # "load"

Saved(p) == exec[p].step \in {"fill", "reopen", "refill"}

Engines ==
    /\ view # None => logged # None /\ Within(view, logged)
    /\ \A p \in behind : exec[p].step \notin {"load", "fill"}
    /\ \A p \in Procs : Current(p) =>
         /\ view # None => Within(view, exec[p].mail)
         /\ exec[p].step = "persist" =>
              Within(exec[p].mail, exec[p].log) /\ (logged # None => Within(logged, exec[p].log))
         /\ Saved(p) => logged # None /\ Within(exec[p].mail, logged)
         /\ exec[p].step \in {"reopen", "refill"} =>
              half \/ (view # None /\ Within(exec[p].mail, view))

(* The last one that saved its events is the only current one that did,    *)
(* and the others have loaded what it wrote.                               *)
Leader ==
    \A p, q \in Procs : p # q /\ Current(p) /\ Saved(p) /\ Current(q) =>
        /\ exec[p].step # "fill" /\ exec[q].step = "persist"
        /\ Within(exec[p].mail, exec[q].mail)

(* An engine in hand shows what its command is about.                      *)
Carried ==
    \A p \in Procs :
        /\ Saved(p) /\ view = None => half
        /\ exec[p].step # "load" /\ call[p].kind = "CreateMailboxMessage" =>
             exec[p].mail[call[p].id] # "none"
        /\ exec[p].step # "load" /\ call[p].kind = "MarkMailboxDelivered" =>
             exec[p].mail[call[p].id] = "delivered"

Holds(p) == pc[p] \in {"create", "shadow"}

(* One holder, which has read the legacy file as it is.                    *)
Locked ==
    /\ \A p, q \in Procs : Holds(p) /\ Holds(q) => p = q
    /\ \A p \in Procs : Holds(p) => call[p].copy = legacy

Nowhere(m) ==
    /\ legacy[m] = "none"
    /\ logged # None => logged[m] = "none"
    /\ view # None => view[m] = "none"
    /\ \A p \in Procs : exec[p].mail[m] = "none" /\ exec[p].log[m] = "none"

Sends(p) == call[p].kind = "CreateMailboxMessage"

Creating(p) == pc[p] \in Running /\ Sends(p)

(* An id not yet drawn, or drawn and not yet sent, is nowhere.             *)
Fresh ==
    /\ \A m \in Messages : keyOf[m] = None => Nowhere(m)
    /\ \A p \in Procs : call[p].id \in Messages => keyOf[call[p].id] # None
    /\ \A p \in Procs : Creating(p) /\ exec[p].step = "load" => Nowhere(call[p].id)
    /\ \A p, q \in Procs : Sends(p) /\ Sends(q) /\ call[p].id = call[q].id => p = q
    /\ \A p \in Procs : Holds(p) => legacy[call[p].id] = "none"

Created(m) == [event |-> "mailbox_created", id |-> m, transport |-> "bridge"]

Delivered(m) == [event |-> "delivered", id |-> m, transport |-> "bridge"]

(* The engine has it, whichever file it is loaded from, and so has every   *)
(* one in hand that may still be written.                                  *)
Told(e) ==
    /\ logged # None /\ Shows(logged, e)
    /\ view # None
    /\ half \/ Shows(view, e)
    /\ \A p \in Procs : Current(p) => Shows(exec[p].mail, e)

(* What a call that is still to write its log entry has seen done.         *)
Pending ==
    \A p \in Procs :
        LET m == call[p].id IN
        /\ pc[p] = "shadow" /\ call[p].answered => Told(Created(m))
        /\ pc[p] = "announce" /\ call[p].answered =>
             Told(Created(m)) /\ view[m] # "none" /\ legacy[m] # "none"
        /\ pc[p] = "announce" /\ ~call[p].answered /\ view = None => legacy[m] # "none"
        /\ pc[p] \in {"mark", "log"} /\ call[p].kind = "MarkMailboxDelivered" /\ call[p].answered =>
             Told(Delivered(m))
        /\ pc[p] = "log" /\ (call[p].answered \/ view = None) => legacy[m] = "delivered"

Logged ==
    \A e \in events :
        /\ e.transport = "bridge" => Told(e) /\ Shows(legacy, e)
        /\ e.transport = "bridge" /\ e.event = "mailbox_created" => Shows(view, e)
        /\ view = None => Shows(legacy, e)

Truth == Engines /\ Leader /\ Carried /\ Locked /\ Fresh /\ Pending /\ Logged

IInv == TypeOK /\ CallKinds /\ (lost \/ Truth)

-----------------------------------------------------------------------------
(* Commands on the mailbox *)

MailCommand == [kind : R!MailKinds, id : Messages] \cup [kind : {"CaptureSnapshot"}, id : {None}]

MailOf(c, mail) ==
    IF c.kind \in R!MailKinds THEN [mail EXCEPT ![c.id] = R!NewMailStatus[c.kind]] ELSE mail

Welcome(c, mail) ==
    c.kind \in {"CreateMailboxMessage", "CaptureSnapshot"} \/ mail[c.id] \in {"created", "notified"}

(* The engine accepts the creation of a message, and a mark of one that is *)
(* not delivered.                                                          *)
LEMMA Acceptance ==
    ASSUME NEW mail \in R!Mailbox, NEW c \in MailCommand
    PROVE  /\ R!Accepts([R!NewEngine EXCEPT !.mail = mail], c) <=> Welcome(c, mail)
           /\ R!Effect([R!NewEngine EXCEPT !.mail = mail], c).mail = MailOf(c, mail)
           /\ MailOf(c, mail) \in R!Mailbox
<1> DEFINE e == [R!NewEngine EXCEPT !.mail = mail]
<1>1. e.mail = mail
  BY DEF R!NewEngine
<1>2. \/ c.kind = "CaptureSnapshot"
      \/ c.kind \in {"CreateMailboxMessage", "MarkMailboxNotified", "MarkMailboxDelivered"}
         /\ c.id \in Messages
  BY DEF MailCommand, R!MailKinds
<1>3. R!Accepts(e, c) <=> Welcome(c, mail)
  <2> HIDE DEF e
  <2>1. CASE c.kind \in {"CreateMailboxMessage", "CaptureSnapshot"}
    BY <1>1, <2>1 DEF R!Accepts, Welcome
  <2>2. CASE c.kind \in {"MarkMailboxNotified", "MarkMailboxDelivered"}
    BY <1>1, <2>2 DEF R!Accepts, Welcome
  <2> QED BY <1>2, <2>1, <2>2
<1>4. R!Effect(e, c) =
        IF c.kind \in R!MailKinds THEN [e EXCEPT !.mail[c.id] = R!NewMailStatus[c.kind]] ELSE e
  <2> HIDE DEF e
  <2> QED BY <1>2 DEF R!Effect, R!DispatchKinds, R!MailKinds
<1>5. [e EXCEPT !.mail[c.id] = R!NewMailStatus[c.kind]].mail
        = [mail EXCEPT ![c.id] = R!NewMailStatus[c.kind]]
  BY DEF R!NewEngine
<1>6. R!Effect(e, c).mail = MailOf(c, mail)
  <2> HIDE DEF e
  <2> QED BY <1>1, <1>4, <1>5 DEF MailOf
<1>7. MailOf(c, mail) \in R!Mailbox
  BY <1>2 DEF MailOf, R!Mailbox, R!MailStatus, R!NewMailStatus, R!MailKinds
<1> QED BY <1>3, <1>6, <1>7

ReplayOf(c, mail) == IF Welcome(c, mail) THEN MailOf(c, mail) ELSE mail

(* So does the replay of an event, which passes over what is not accepted. *)
LEMMA Replay ==
    ASSUME NEW mail \in R!Mailbox, NEW c \in MailCommand
    PROVE  /\ R!ReplayEvent([R!NewEngine EXCEPT !.mail = mail], c).mail = ReplayOf(c, mail)
           /\ ReplayOf(c, mail) \in R!Mailbox
<1> DEFINE e == [R!NewEngine EXCEPT !.mail = mail]
<1>1. e.mail = mail
  BY DEF R!NewEngine
<1>2. /\ R!Accepts(e, c) <=> Welcome(c, mail)
      /\ R!Effect(e, c).mail = MailOf(c, mail)
      /\ MailOf(c, mail) \in R!Mailbox
  BY Acceptance
<1> HIDE DEF e
<1>3. R!ReplayEvent(e, c).mail = ReplayOf(c, mail)
  BY <1>1, <1>2 DEF R!ReplayEvent, ReplayOf
<1>4. ReplayOf(c, mail) \in R!Mailbox
  BY <1>2 DEF ReplayOf
<1> QED BY <1>3, <1>4 DEF e

(* A command adds to a mailbox it is welcome to, and no less to one that   *)
(* shows more, if what it creates is in neither.                           *)
LEMMA CommandAdds ==
    ASSUME NEW c \in MailCommand, NEW x \in R!Mailbox, NEW y \in R!Mailbox,
           c.kind = "CreateMailboxMessage" => x[c.id] = "none" /\ y[c.id] = "none"
    PROVE  /\ Welcome(c, x) => Within(x, MailOf(c, x))
           /\ Within(y, ReplayOf(c, y))
           /\ Welcome(c, x) /\ Within(x, y) => Within(MailOf(c, x), ReplayOf(c, y))
<1>1. CASE c.kind = "CaptureSnapshot"
  BY <1>1 DEF MailOf, ReplayOf, Within, R!MailKinds
<1>2. CASE c.kind = "CreateMailboxMessage" /\ c.id \in Messages
  BY <1>2 DEF MailOf, ReplayOf, Within, Welcome, R!MailKinds, R!Mailbox, R!NewMailStatus
<1>3. CASE c.kind \in {"MarkMailboxNotified", "MarkMailboxDelivered"} /\ c.id \in Messages
  <2>1. \A z \in R!Mailbox, m \in Messages :
          MailOf(c, z)[m] = IF m = c.id THEN R!NewMailStatus[c.kind] ELSE z[m]
    BY <1>3 DEF MailOf, R!MailKinds, R!Mailbox
  <2>2. R!NewMailStatus[c.kind] \in {"notified", "delivered"}
    BY <1>3 DEF R!NewMailStatus
  <2>3. \A z \in R!Mailbox : Welcome(c, z) <=> z[c.id] \in {"created", "notified"}
    BY <1>3 DEF Welcome
  <2>4. y[c.id] \in {"none", "created", "notified", "delivered"}
    BY <1>3 DEF R!Mailbox, R!MailStatus
  <2>5. \A m \in Messages :
          ReplayOf(c, y)[m] = IF m = c.id /\ y[m] \in {"created", "notified"}
                              THEN R!NewMailStatus[c.kind] ELSE y[m]
    BY <2>1, <2>3 DEF ReplayOf
  <2> QED BY <1>3, <2>1, <2>2, <2>3, <2>4, <2>5 DEF Within
<1> QED BY <1>1, <1>2, <1>3 DEF MailCommand, R!MailKinds

(* A message that is nowhere stays so, unless it is created.               *)
LEMMA CommandSpares ==
    ASSUME NEW c \in MailCommand, NEW x \in R!Mailbox, NEW m \in Messages, x[m] = "none",
           ~(c.kind = "CreateMailboxMessage" /\ c.id = m)
    PROVE  /\ Welcome(c, x) => MailOf(c, x)[m] = "none"
           /\ ReplayOf(c, x)[m] = "none"
<1>1. Welcome(c, x) => MailOf(c, x)[m] = "none"
  BY DEF MailCommand, MailOf, Welcome, R!Mailbox, R!MailKinds
<1> QED BY <1>1 DEF ReplayOf

RebuiltMail == IF logged = None THEN Empty ELSE logged

LoadedMail == IF logged = None \/ view = None \/ half THEN RebuiltMail ELSE view

CommandOf(p) == [kind |-> call[p].kind, id |-> call[p].id]

(* What a command is about when it has been loaded.                        *)
InHand(p) ==
    [step |-> "persist", mail |-> MailOf(CommandOf(p), LoadedMail),
     log |-> ReplayOf(CommandOf(p), RebuiltMail)]

LEMMA Commands ==
    ASSUME TypeOK, CallKinds, NEW p \in Procs, pc[p] \in Running
    PROVE  /\ call[p] \in Call /\ CommandOf(p) \in MailCommand
           /\ CommandOf(p).kind = "CreateMailboxMessage" <=> Creating(p)
           /\ CommandOf(p).id = call[p].id
<1>1. call[p] \in Call /\ pc[p] # "idle"
  BY DEF CallKinds, Running
<1>2. CASE call[p].kind = "CaptureSnapshot"
  <2>1. call[p].id = None
    BY <1>2 DEF CallKinds
  <2> QED BY <1>1, <1>2, <2>1 DEF CommandOf, MailCommand, Creating, Sends
<1>3. CASE call[p].kind # "CaptureSnapshot"
  <2>1. call[p].id \in Messages /\ call[p].kind \in R!MailKinds
    BY <1>1, <1>3 DEF CallKinds, Call, Kinds
  <2> QED BY <1>1, <2>1 DEF CommandOf, MailCommand, Creating, Sends
<1> QED BY <1>2, <1>3

LEMMA Loading ==
    ASSUME TypeOK, CallKinds, NEW p \in Procs, LoadEngine(p)
    PROVE  /\ LoadedMail \in R!Mailbox /\ RebuiltMail \in R!Mailbox
           /\ InHand(p) \in Exec
           /\ \/ /\ Welcome(CommandOf(p), LoadedMail)
                 /\ exec' = [exec EXCEPT ![p] = InHand(p)] /\ UNCHANGED <<pc, call>>
              \/ Over(p, FALSE)
<1> DEFINE c == CommandOf(p)
<1>1. c \in MailCommand
  BY Commands DEF LoadEngine, At
<1>2. LoadedMail \in R!Mailbox /\ RebuiltMail \in R!Mailbox
  BY DEF TypeOK, LoadedMail, RebuiltMail, Empty, R!Mailbox, R!MailStatus
<1>3. Loaded = [R!NewEngine EXCEPT !.mail = LoadedMail] /\ Rebuilt = [R!NewEngine EXCEPT !.mail = RebuiltMail]
  BY DEF Loaded, Rebuilt, LoadedMail, RebuiltMail
<1>4. /\ R!Accepts(Loaded, c) <=> Welcome(c, LoadedMail)
      /\ R!Effect(Loaded, c).mail = MailOf(c, LoadedMail)
      /\ MailOf(c, LoadedMail) \in R!Mailbox
      /\ R!ReplayEvent(Rebuilt, c).mail = ReplayOf(c, RebuiltMail)
      /\ ReplayOf(c, RebuiltMail) \in R!Mailbox
  BY <1>1, <1>2, <1>3, Acceptance, Replay
<1>5. InHand(p) \in Exec
  BY <1>4 DEF InHand, Exec
<1> QED BY <1>2, <1>4, <1>5 DEF LoadEngine, InHand, CommandOf

LEMMA CallsAreTyped ==
    ASSUME TypeOK, CallKinds, NEW p \in Procs
    PROVE  /\ pc[p] # "idle" => call[p] \in Call
           /\ pc[p] \in {"create", "exec", "shadow", "announce", "mark", "log"} => call[p].id \in Messages
           /\ call[p].copy \in R!Mailbox
  BY DEF CallKinds, Call, NoCall, TypeOK, Empty, R!Mailbox, R!MailStatus, MarkKinds

-----------------------------------------------------------------------------
(* What a step of a command leaves *)

(* The command is over, or has an engine in hand and goes on.              *)
Ends(p, answered) ==
    /\ exec'[p] = NoExec
    /\ \/ /\ \/ pc[p] = "create" /\ pc'[p] = "shadow"
             \/ pc[p] = "exec" /\ pc'[p] = "mark"
          /\ call'[p] = [call[p] EXCEPT !.answered = answered]
       \/ pc[p] \in {"other", "orphan"} /\ pc'[p] = "idle" /\ call'[p] = NoCall

GoesOn(p) ==
    /\ exec'[p] \in Exec /\ exec'[p].step # "load"
    /\ UNCHANGED <<pc, call>>

LEMMA OverEnds ==
    ASSUME TypeOK, CallKinds, NEW p \in Procs, pc[p] \in Running, NEW answered \in BOOLEAN,
           Over(p, answered)
    PROVE  /\ Ends(p, answered)
           /\ \A q \in Procs \ {p} : exec'[q] = exec[q] /\ pc'[q] = pc[q] /\ call'[q] = call[q]
           /\ exec' \in [Procs -> Exec] /\ pc' \in [Procs -> Steps]
           /\ call' \in [Procs -> Call \cup {NoCall}]
<1>1. exec' = [exec EXCEPT ![p] = NoExec] /\ NoExec \in Exec
  BY DEF Over, NoExec, Exec, Empty, R!Mailbox, R!MailStatus
<1>2. [call[p] EXCEPT !.answered = answered] \in Call
  BY Commands DEF Call
<1>3. CASE pc[p] \in {"create", "exec"}
  <2>1. /\ pc' = [pc EXCEPT ![p] = IF pc[p] = "create" THEN "shadow" ELSE "mark"]
        /\ call' = [call EXCEPT ![p] = [call[p] EXCEPT !.answered = answered]]
    BY <1>3 DEF Over
  <2> QED BY <1>1, <1>2, <1>3, <2>1 DEF TypeOK, Ends, Steps
<1>4. CASE pc[p] \in {"other", "orphan"}
  BY <1>1, <1>4 DEF TypeOK, Ends, Over, Return, Steps, Running
<1> QED BY <1>3, <1>4 DEF Running

LEMMA Mechanics ==
    ASSUME TypeOK, CallKinds, NEW p \in Procs, RunExec(p)
    PROVE  /\ pc[p] \in Running
           /\ UNCHANGED <<legacy, keyOf, events, unheard, calls, crashes>>
           /\ \A q \in Procs \ {p} : exec'[q] = exec[q] /\ pc'[q] = pc[q] /\ call'[q] = call[q]
           /\ \/ GoesOn(p)
              \/ Ends(p, FALSE)
              \/ Refill(p) /\ Ends(p, TRUE)
           /\ TypeOK'
<1> DEFINE Others == \A q \in Procs \ {p} : exec'[q] = exec[q] /\ pc'[q] = pc[q] /\ call'[q] = call[q]
<1> DEFINE Typed == /\ exec' \in [Procs -> Exec] /\ pc' \in [Procs -> Steps]
                    /\ call' \in [Procs -> Call \cup {NoCall}]
<1>1. pc[p] \in Running /\ UNCHANGED <<legacy, keyOf, events, unheard, calls, crashes>>
  BY DEF RunExec, LoadEngine, Persist, Fill, Reopen, Refill, Failed, At, Files, History, Bounds
<1>2. /\ view' \in R!Mailbox \cup {None} /\ half' \in BOOLEAN
      /\ logged' \in R!Mailbox \cup {None}
      /\ behind' \subseteq Procs /\ lost' \in BOOLEAN
      /\ faults' \in 0 .. MaxFaults
  <2>1. exec[p].mail \in R!Mailbox /\ exec[p].log \in R!Mailbox
    BY DEF TypeOK, Exec
  <2>2. (lost \/ p \in behind) \in BOOLEAN
    BY ZenonT(20)
  <2>3. CASE LoadEngine(p)
    BY <2>3 DEF LoadEngine, TypeOK, Files, History, Bounds
  <2>4. CASE Persist(p)
    BY <2>1, <2>2, <2>4 DEF Persist, SaveEvents, TypeOK, Bounds
  <2>5. CASE Fill(p)
    BY <2>1, <2>5 DEF Fill, SaveView, TypeOK, History, Bounds
  <2>6. CASE Reopen(p)
    BY <2>6 DEF Reopen, TypeOK, History, Bounds
  <2>7. CASE Refill(p)
    BY <2>1, <2>2, <2>7 DEF Refill, SaveView, TypeOK, Bounds
  <2>8. CASE Failed(p)
    <3>1. faults' \in 0 .. MaxFaults
      BY <2>8, MailboxAssumption DEF Failed, TypeOK
    <3> QED BY <2>1, <2>2, <2>8, <3>1 DEF Failed, SaveEvents, TypeOK
  <2> QED BY <2>3, <2>4, <2>5, <2>6, <2>7, <2>8 DEF RunExec
<1>3. CASE \E answered \in BOOLEAN : Over(p, answered) /\ (answered => Refill(p))
  <2>1. PICK answered \in BOOLEAN : Over(p, answered) /\ (answered => Refill(p))
    BY <1>3
  <2>2. Ends(p, answered) /\ Others /\ Typed
    BY <1>1, <2>1, OverEnds
  <2>3. Ends(p, FALSE) \/ (Refill(p) /\ Ends(p, TRUE))
    BY <2>1, <2>2
  <2> QED BY <1>1, <1>2, <2>2, <2>3 DEF TypeOK
<1>4. CASE LoadEngine(p) /\ exec' = [exec EXCEPT ![p] = InHand(p)] /\ UNCHANGED <<pc, call>>
  <2>1. InHand(p) \in Exec /\ InHand(p).step = "persist"
    BY <1>4, Loading DEF InHand
  <2>2. GoesOn(p) /\ Others /\ Typed
    BY <1>4, <2>1 DEF GoesOn, TypeOK
  <2> QED BY <1>1, <1>2, <2>2 DEF TypeOK
<1>5. ASSUME NEW step \in {"fill", "reopen", "refill"}, exec' = [exec EXCEPT ![p].step = step],
             UNCHANGED <<pc, call>>
      PROVE  GoesOn(p) /\ Others /\ Typed
  <2>1. exec' = [exec EXCEPT ![p] = [exec[p] EXCEPT !.step = step]]
    BY <1>5
  <2>2. [exec[p] EXCEPT !.step = step] \in Exec /\ [exec[p] EXCEPT !.step = step].step = step
    BY DEF TypeOK, Exec
  <2>3. exec' \in [Procs -> Exec] /\ exec'[p] = [exec[p] EXCEPT !.step = step] /\ Others
    BY <1>5, <2>1, <2>2 DEF TypeOK
  <2> QED BY <1>5, <2>2, <2>3 DEF GoesOn, TypeOK
<1>6. CASE Persist(p) \/ Fill(p) \/ Reopen(p)
  <2>1. GoesOn(p) /\ Others /\ Typed
    BY <1>5, <1>6 DEF Persist, Fill, Reopen
  <2> QED BY <1>1, <1>2, <2>1 DEF TypeOK
<1>7. LoadEngine(p) => \/ exec' = [exec EXCEPT ![p] = InHand(p)] /\ UNCHANGED <<pc, call>>
                       \/ Over(p, FALSE)
  BY Loading
<1> QED BY <1>3, <1>4, <1>6, <1>7 DEF RunExec, Refill, Failed

LEMMA ExecKinds ==
    ASSUME TypeOK, CallKinds, NEW p \in Procs, RunExec(p)
    PROVE  CallKinds'
<1>1. ASSUME NEW q \in Procs, q # p PROVE CallKinds!(q)'
  BY <1>1, Mechanics DEF CallKinds
<1>2. CallKinds!(p)'
  <2>1. CASE GoesOn(p)
    BY <2>1, Mechanics DEF GoesOn, CallKinds
  <2>2. ASSUME NEW answered \in BOOLEAN, Ends(p, answered) PROVE CallKinds!(p)'
    <3>1. call[p] \in Call
      BY Mechanics, Commands
    <3>2. CASE call'[p] = [call[p] EXCEPT !.answered = answered]
      BY <2>2, <3>1, <3>2 DEF Ends, CallKinds, Call, Running, NoCall, MarkKinds
    <3>3. CASE call'[p] = NoCall /\ pc'[p] = "idle"
      BY <2>2, <3>3 DEF Ends, CallKinds, NoCall
    <3> QED BY <2>2, <3>2, <3>3 DEF Ends
  <2> QED BY <2>1, <2>2, Mechanics
<1> QED BY <1>1, <1>2 DEF CallKinds

-----------------------------------------------------------------------------
(* Engines *)

LEMMA WithinOrder ==
    /\ \A x \in R!Mailbox : Within(x, x)
    /\ \A x, y, z \in R!Mailbox : Within(x, y) /\ Within(y, z) => Within(x, z)
  BY DEF Within

LEMMA EngineIsMail ==
    ASSUME TypeOK
    PROVE  /\ \A p \in Procs : exec[p].mail \in R!Mailbox /\ exec[p].log \in R!Mailbox
           /\ view # None => view \in R!Mailbox
           /\ logged # None => logged \in R!Mailbox
  BY DEF TypeOK, Exec

(* What a command loads and adds to.                                       *)
LEMMA LoadsWhatThereIs ==
    ASSUME TypeOK, CallKinds, Engines, Leader, Fresh, NEW p \in Procs, LoadEngine(p),
           exec' = [exec EXCEPT ![p] = InHand(p)], Welcome(CommandOf(p), LoadedMail)
    PROVE  /\ InHand(p).mail \in R!Mailbox /\ InHand(p).log \in R!Mailbox
           /\ Within(LoadedMail, InHand(p).mail)
           /\ Within(InHand(p).mail, InHand(p).log)
           /\ logged # None => Within(logged, InHand(p).log)
           /\ view # None => Within(view, InHand(p).mail)
           /\ \A q \in Procs : Current(q) /\ Saved(q) => Within(exec[q].mail, InHand(p).mail)
<1> DEFINE c == CommandOf(p)
<1>1. c \in MailCommand /\ (c.kind = "CreateMailboxMessage" <=> Creating(p)) /\ c.id = call[p].id
  BY Commands DEF LoadEngine, At
<1>2. LoadedMail \in R!Mailbox /\ RebuiltMail \in R!Mailbox /\ InHand(p) \in Exec
  BY Loading
<1>3. /\ InHand(p).mail = MailOf(c, LoadedMail) /\ InHand(p).log = ReplayOf(c, RebuiltMail)
      /\ InHand(p).mail \in R!Mailbox /\ InHand(p).log \in R!Mailbox
  BY <1>2 DEF InHand, Exec
<1>4. c.kind = "CreateMailboxMessage" => LoadedMail[c.id] = "none" /\ RebuiltMail[c.id] = "none"
  <2> SUFFICES ASSUME c.kind = "CreateMailboxMessage"
               PROVE  LoadedMail[c.id] = "none" /\ RebuiltMail[c.id] = "none"
    OBVIOUS
  <2>1. Nowhere(c.id) /\ c.id \in Messages
    BY <1>1 DEF Fresh, LoadEngine, At, MailCommand
  <2> QED BY <2>1 DEF Nowhere, LoadedMail, RebuiltMail, Empty
<1>5. Within(LoadedMail, RebuiltMail)
  BY <1>2, WithinOrder DEF LoadedMail, RebuiltMail, Engines
<1>6. /\ Within(LoadedMail, MailOf(c, LoadedMail))
      /\ Within(RebuiltMail, ReplayOf(c, RebuiltMail))
      /\ Within(MailOf(c, LoadedMail), ReplayOf(c, RebuiltMail))
  <2>1. Welcome(c, LoadedMail)
    OBVIOUS
  <2> HIDE DEF c
  <2> QED BY <1>1, <1>2, <1>4, <1>5, <2>1, CommandAdds
<1>7. view # None => view \in R!Mailbox /\ Within(view, LoadedMail)
  BY <1>2, WithinOrder, EngineIsMail DEF LoadedMail, RebuiltMail, Engines
<1>8. ASSUME NEW q \in Procs, Current(q), Saved(q) PROVE Within(exec[q].mail, LoadedMail)
  <2>1. logged # None /\ Within(exec[q].mail, logged)
    BY <1>8 DEF Engines
  <2>2. exec[q].step \in {"reopen", "refill"}
    BY <1>8 DEF LoadEngine, Unlocked, Saved
  <2>3. half \/ (view # None /\ Within(exec[q].mail, view))
    BY <1>8, <2>2 DEF Engines
  <2> QED BY <2>1, <2>3 DEF LoadedMail, RebuiltMail
<1>9. \A q \in Procs : Current(q) /\ Saved(q) => Within(exec[q].mail, MailOf(c, LoadedMail))
  BY <1>2, <1>3, <1>6, <1>8, WithinOrder, EngineIsMail
<1>10. view # None => Within(view, MailOf(c, LoadedMail))
  BY <1>2, <1>3, <1>6, <1>7, WithinOrder
<1>11. logged # None => Within(logged, ReplayOf(c, RebuiltMail))
  BY <1>6 DEF RebuiltMail
<1> QED BY <1>3, <1>6, <1>9, <1>10, <1>11

(* One engine is taken up, or given up.                                    *)
LEMMA LoadEngines ==
    ASSUME TypeOK, CallKinds, Engines, Leader, Fresh, NEW p \in Procs, LoadEngine(p)
    PROVE  Engines' /\ Leader'
<1>1. /\ exec[p].step = "load" /\ p \notin behind /\ ~Current(p)
      /\ UNCHANGED <<view, half, logged, behind>>
      /\ \A q \in Procs \ {p} : exec'[q] = exec[q]
  BY Mechanics DEF LoadEngine, At, Engines, Current, Files, History, RunExec
<1>2. \A q \in Procs \ {p} : (Current(q)' <=> Current(q)) /\ (Saved(q)' <=> Saved(q))
  BY <1>1 DEF Current, Saved
<1>3. CASE exec'[p] = NoExec
  <2>1. ~Current(p)'
    BY <1>3 DEF Current, NoExec
  <2> QED BY <1>1, <1>2, <2>1 DEF Engines, Leader, TypeOK
<1>4. CASE exec' = [exec EXCEPT ![p] = InHand(p)] /\ Welcome(CommandOf(p), LoadedMail)
  <2>1. /\ Within(InHand(p).mail, InHand(p).log)
        /\ logged # None => Within(logged, InHand(p).log)
        /\ view # None => Within(view, InHand(p).mail)
        /\ \A q \in Procs : Current(q) /\ Saved(q) => Within(exec[q].mail, InHand(p).mail)
    BY <1>4, LoadsWhatThereIs
  <2>2. exec'[p] = InHand(p) /\ InHand(p).step = "persist"
    BY <1>4 DEF TypeOK, InHand
  <2>3. ~Saved(p)'
    BY <2>2 DEF Saved
  <2>4. Engines'
    <3>1. ASSUME NEW q \in Procs, Current(q)', q # p PROVE Engines!3!(q)'
      BY <1>1, <1>2, <3>1 DEF Engines
    <3>2. Engines!3!(p)'
      <4>1. /\ exec'[p].step = "persist"
            /\ exec'[p].mail = InHand(p).mail /\ exec'[p].log = InHand(p).log
        BY <2>2
      <4> QED BY <1>1, <2>1, <2>3, <4>1
    <3>3. view' # None => logged' # None /\ Within(view', logged')
      BY <1>1 DEF Engines
    <3>4. \A q \in behind' : exec'[q].step \notin {"load", "fill"}
      BY <1>1 DEF Engines, TypeOK
    <3> QED BY <3>1, <3>2, <3>3, <3>4 DEF Engines
  <2>5. Leader'
    BY <1>1, <1>2, <2>1, <2>2, <2>3 DEF Leader, LoadEngine, Unlocked
  <2> QED BY <2>4, <2>5
<1> QED BY <1>3, <1>4, Loading DEF Over, TypeOK

(* The log is saved by a command that is not behind, and all others are.   *)
LEMMA SaveEngines ==
    ASSUME TypeOK, Engines, Leader, NEW p \in Procs, Persist(p) \/ (Failed(p) /\ SaveEvents(p)),
           At(p, "persist"), Unlocked, ~lost', NEW at \in {"load", "fill"},
           exec'[p].step = at, at = "fill" => exec'[p].mail = exec[p].mail,
           \A q \in Procs \ {p} : exec'[q] = exec[q]
    PROVE  Engines' /\ Leader'
<1>1. /\ logged' = exec[p].log /\ view' = view
      /\ behind' = {q \in Procs \ {p} : exec[q].step # "load"}
      /\ p \notin behind
  BY DEF Persist, Failed, SaveEvents
<1>2. /\ Current(p) /\ exec[p].step = "persist"
      /\ exec[p].mail \in R!Mailbox /\ exec[p].log \in R!Mailbox
      /\ view # None => view \in R!Mailbox
  BY <1>1, EngineIsMail DEF At, Current
<1>3. /\ Within(exec[p].mail, exec[p].log)
      /\ view # None => Within(view, exec[p].mail)
  BY <1>2 DEF Engines
<1>4. logged' # None /\ (view # None => Within(view, exec[p].log))
  BY <1>1, <1>2, <1>3, WithinOrder, MailboxAssumption
<1>5. \A q \in Procs : Current(q)' => q = p /\ at = "fill"
  BY <1>1 DEF Current
<1>6. \A q \in behind' : exec'[q].step \notin {"load", "fill"}
  BY <1>1 DEF Unlocked
<1>7. Engines'
  <2>1. ASSUME NEW q \in Procs, Current(q)' PROVE Engines!3!(q)'
    BY <1>1, <1>3, <1>4, <1>5, <2>1 DEF Saved
  <2> QED BY <1>1, <1>4, <1>6, <2>1 DEF Engines
<1>8. Leader'
  BY <1>5 DEF Leader
<1> QED BY <1>7, <1>8

(* The command that is not behind fills mailbox.json.                      *)
LEMMA FillEngines ==
    ASSUME TypeOK, Engines, Leader, NEW p \in Procs, Fill(p) \/ Refill(p), ~lost',
           NEW at \in {"load", "reopen"}, exec'[p].step = at,
           Fill(p) <=> at = "reopen",
           at = "reopen" => exec'[p].mail = exec[p].mail,
           \A q \in Procs \ {p} : exec'[q] = exec[q]
    PROVE  /\ Engines' /\ Leader'
           /\ SaveView(p) /\ Current(p) /\ behind' = behind
<1>1. /\ SaveView(p) /\ logged' = logged
      /\ exec[p].step = IF at = "reopen" THEN "fill" ELSE "refill"
  BY DEF Fill, Refill, At
<1>2. p \notin behind /\ behind' = behind
  BY <1>1 DEF Fill, Refill, Engines, History
<1>3. Current(p) /\ Saved(p)
  BY <1>1, <1>2 DEF Current, Saved
<1>4. /\ exec[p].mail \in R!Mailbox
      /\ logged # None /\ Within(exec[p].mail, logged)
      /\ view # None => Within(view, exec[p].mail)
  BY <1>3, EngineIsMail DEF Engines
<1>5. ASSUME NEW q \in Procs, Current(q)', q # p
      PROVE  /\ Current(q) /\ exec[q].step = "persist" /\ at = "load"
             /\ Within(exec[p].mail, exec[q].mail)
  <2>1. Current(q)
    BY <1>2, <1>5 DEF Current
  <2> QED BY <1>1, <1>3, <1>5, <2>1 DEF Leader
<1>6. \/ view' = exec[p].mail /\ half' = FALSE
      \/ half' = TRUE /\ view' = view
  BY <1>1 DEF SaveView
<1>7. view' # None => Within(view', logged)
  BY <1>4, <1>6 DEF Engines
<1>8. Engines'
  <2>1. ASSUME NEW q \in Procs, Current(q)', q # p PROVE Engines!3!(q)'
    <3>1. /\ exec'[q] = exec[q] /\ exec[q].step = "persist" /\ ~Saved(q)'
          /\ view' # None => Within(view', exec[q].mail)
      BY <1>5, <1>6, <2>1 DEF Engines, Saved
    <3> QED BY <1>1, <1>5, <2>1, <3>1 DEF Engines
  <2>2. ASSUME Current(p)' PROVE Engines!3!(p)'
    <3>1. exec'[p].step = "reopen" /\ exec'[p].mail = exec[p].mail
      BY <2>2 DEF Current
    <3>2. view' # None => Within(view', exec[p].mail)
      BY <1>4, <1>6, WithinOrder
    <3>3. half' \/ (view' # None /\ Within(exec[p].mail, view'))
      BY <1>4, <1>6, WithinOrder, MailboxAssumption
    <3> QED BY <1>1, <1>4, <3>1, <3>2, <3>3
  <2>3. \A q \in behind' : exec'[q].step \notin {"load", "fill"}
    BY <1>2 DEF Engines, TypeOK
  <2> QED BY <1>1, <1>4, <1>7, <2>1, <2>2, <2>3 DEF Engines
<1>9. Leader'
  <2>1. \A q \in Procs \ {p} : Current(q)' => ~Saved(q)' /\ ~Current(p)'
    BY <1>5 DEF Saved, Current
  <2> QED BY <2>1 DEF Leader
<1> QED BY <1>1, <1>2, <1>3, <1>8, <1>9

LEMMA EnginesHold ==
    ASSUME TypeOK, CallKinds, Engines, Leader, Fresh, NEW p \in Procs, RunExec(p), ~lost'
    PROVE  Engines' /\ Leader'
<1> DEFINE Others == \A q \in Procs \ {p} : exec'[q] = exec[q]
<1>1. Others
  BY Mechanics
<1>2. CASE Persist(p)
  <2>1. exec'[p].step = "fill" /\ exec'[p].mail = exec[p].mail
    BY <1>2 DEF Persist, TypeOK, Exec
  <2> QED BY <1>1, <1>2, <2>1, SaveEngines DEF Persist
<1>3. CASE Fill(p)
  <2>1. exec'[p].step = "reopen" /\ exec'[p].mail = exec[p].mail
    BY <1>3 DEF Fill, TypeOK, Exec
  <2> QED BY <1>1, <1>3, <2>1, FillEngines
<1>4. CASE Refill(p)
  <2>1. exec'[p].step = "load"
    BY <1>4 DEF Refill, Over, TypeOK, NoExec
  <2>2. ~Fill(p)
    BY <1>4 DEF Fill, Refill, At
  <2> QED BY <1>1, <1>4, <2>1, <2>2, FillEngines
<1>5. CASE Reopen(p)
  <2>1. /\ UNCHANGED <<view, logged, behind>> /\ half'
        /\ exec[p].step = "reopen"
        /\ exec'[p].step = "refill" /\ exec'[p].mail = exec[p].mail
    BY <1>5 DEF Reopen, TypeOK, Exec, At, History
  <2>2. \A q \in Procs : (Current(q)' <=> Current(q)) /\ (Saved(q)' <=> Saved(q))
    BY <1>1, <2>1 DEF Current, Saved
  <2>3. \A q \in Procs : exec'[q].mail = exec[q].mail
    BY <1>1, <2>1
  <2>4. \A q \in Procs : exec'[q].step \in {"load", "persist", "fill"} => exec'[q] = exec[q]
    BY <1>1, <2>1
  <2>5. Engines'
    <3>1. ASSUME NEW q \in Procs, Current(q)' PROVE Engines!3!(q)'
      BY <2>1, <2>2, <2>3, <2>4, <3>1 DEF Engines
    <3> QED BY <2>1, <2>4, <3>1 DEF Engines, TypeOK
  <2>6. Leader'
    <3>1. ASSUME NEW q \in Procs, NEW r \in Procs, q # r, Current(q), Saved(q), Current(r)
          PROVE  /\ exec[q].step # "fill" /\ exec[r].step = "persist" /\ r # p
                 /\ Within(exec[q].mail, exec[r].mail)
      BY <2>1, <3>1 DEF Leader
    <3> QED BY <1>1, <2>1, <2>2, <2>3, <3>1 DEF Leader
  <2> QED BY <2>5, <2>6
<1>6. CASE Failed(p)
  <2>1. exec'[p] = NoExec
    BY <1>6 DEF Failed, Over, TypeOK
  <2>2. \/ behind' = behind \ {p} /\ UNCHANGED <<view, half, logged>>
        \/ At(p, "persist") /\ Unlocked /\ SaveEvents(p)
    BY <1>6 DEF Failed
  <2>3. CASE behind' = behind \ {p} /\ UNCHANGED <<view, half, logged>>
    <3>1. \A q \in Procs \ {p} : (Current(q)' <=> Current(q)) /\ (Saved(q)' <=> Saved(q))
      BY <1>1, <2>3 DEF Current, Saved
    <3>2. ~Current(p)'
      BY <2>1 DEF Current, NoExec
    <3> QED BY <1>1, <2>3, <3>1, <3>2 DEF Engines, Leader, TypeOK
  <2>4. CASE At(p, "persist") /\ Unlocked /\ SaveEvents(p)
    BY <1>1, <1>6, <2>1, <2>4, SaveEngines DEF NoExec
  <2> QED BY <2>2, <2>3, <2>4
<1> QED BY <1>2, <1>3, <1>4, <1>5, <1>6, LoadEngines DEF RunExec

-----------------------------------------------------------------------------
(* What a command keeps *)

LEMMA ShowsGrow ==
    ASSUME NEW x \in R!Mailbox, NEW y \in R!Mailbox, NEW e, e.id \in Messages, Within(x, y), Shows(x, e)
    PROVE  Shows(y, e)
  BY DEF Shows, Within

(* The engines in hand keep what has been told, and the files do.          *)
LEMMA ToldStays ==
    ASSUME TypeOK, CallKinds, Engines, Leader, Fresh, NEW p \in Procs, RunExec(p), ~lost',
           NEW e, e.id \in Messages, Told(e)
    PROVE  Told(e)'
<1>1. \A q \in Procs \ {p} : exec'[q] = exec[q]
  BY Mechanics
<1>2. CASE LoadEngine(p)
  <2>1. UNCHANGED <<view, half, logged, behind>>
    BY <1>2 DEF LoadEngine, Files, History
  <2>2. \A q \in Procs \ {p} : Current(q)' <=> Current(q)
    BY <1>1, <2>1 DEF Current
  <2>3. CASE exec'[p] = NoExec
    BY <1>1, <2>1, <2>2, <2>3 DEF Told, Current, NoExec
  <2>4. CASE exec' = [exec EXCEPT ![p] = InHand(p)] /\ Welcome(CommandOf(p), LoadedMail)
    <3>1. Shows(LoadedMail, e)
      BY DEF Told, LoadedMail, RebuiltMail
    <3>2. /\ LoadedMail \in R!Mailbox /\ InHand(p).mail \in R!Mailbox
          /\ Within(LoadedMail, InHand(p).mail)
      BY <1>2, <2>4, Loading, LoadsWhatThereIs
    <3>3. Shows(InHand(p).mail, e)
      BY <3>1, <3>2, ShowsGrow
    <3>4. exec'[p].mail = InHand(p).mail
      BY <2>4 DEF TypeOK
    <3> QED BY <1>1, <2>1, <2>2, <3>3, <3>4 DEF Told
  <2> QED BY <1>2, <2>3, <2>4, Loading DEF Over, TypeOK
<1>3. ASSUME At(p, "persist"), SaveEvents(p), view' = view, half => half',
             exec'[p].step = "load" \/ exec'[p].mail = exec[p].mail
      PROVE  Told(e)'
  <2>1. p \notin behind /\ logged' = exec[p].log /\ behind' = {q \in Procs \ {p} : exec[q].step # "load"}
    BY <1>3 DEF SaveEvents
  <2>2. Current(p) /\ exec[p].step = "persist"
    BY <1>3, <2>1 DEF Current, At
  <2>3. exec[p].mail \in R!Mailbox /\ exec[p].log \in R!Mailbox /\ Within(exec[p].mail, exec[p].log)
    BY <2>2, EngineIsMail DEF Engines
  <2>4. Shows(exec[p].mail, e) /\ Shows(exec[p].log, e)
    BY <2>2, <2>3, ShowsGrow DEF Told
  <2>5. \A q \in Procs : Current(q)' => q = p /\ exec'[p].step # "load"
    BY <1>1, <2>1 DEF Current
  <2> QED BY <1>3, <2>1, <2>3, <2>4, <2>5, MailboxAssumption DEF Told
<1>4. CASE Persist(p)
  <2>1. exec'[p].mail = exec[p].mail
    BY <1>4 DEF Persist, TypeOK, Exec
  <2> QED BY <1>3, <1>4, <2>1 DEF Persist
<1>5. ASSUME SaveView(p), Current(p), UNCHANGED <<logged, behind>>,
             exec'[p].step = "load" \/ exec'[p].mail = exec[p].mail
      PROVE  Told(e)'
  <2>1. /\ exec[p].mail \in R!Mailbox /\ Shows(exec[p].mail, e)
        /\ \A q \in Procs : Current(q)' => Current(q) /\ exec'[q].mail = exec[q].mail
    BY <1>1, <1>5, EngineIsMail DEF Told, Current
  <2> QED BY <1>5, <2>1, MailboxAssumption DEF Told, SaveView
<1>6. CASE Fill(p)
  <2>1. exec'[p].step = "reopen" /\ exec'[p].mail = exec[p].mail
    BY <1>6 DEF Fill, TypeOK, Exec
  <2>2. SaveView(p) /\ Current(p) /\ behind' = behind
    BY <1>1, <1>6, <2>1, FillEngines
  <2> QED BY <1>5, <1>6, <2>1, <2>2 DEF Fill
<1>7. CASE Refill(p)
  <2>1. exec'[p].step = "load"
    BY <1>7 DEF Refill, Over, TypeOK, NoExec
  <2>2. ~Fill(p)
    BY <1>7 DEF Fill, Refill, At
  <2>3. SaveView(p) /\ Current(p) /\ behind' = behind
    BY <1>1, <1>7, <2>1, <2>2, FillEngines
  <2> QED BY <1>5, <1>7, <2>1, <2>3 DEF Refill
<1>8. CASE Reopen(p)
  <2>1. /\ UNCHANGED <<view, logged, behind>> /\ half'
        /\ exec'[p].mail = exec[p].mail /\ exec[p].step = "reopen"
    BY <1>8 DEF Reopen, TypeOK, Exec, At, History
  <2>2. \A q \in Procs : Current(q)' => Current(q) /\ exec'[q].mail = exec[q].mail
    BY <1>1, <2>1 DEF Current
  <2> QED BY <2>1, <2>2 DEF Told
<1>9. CASE Failed(p)
  <2>1. exec'[p].step = "load"
    BY <1>9 DEF Failed, Over, TypeOK, NoExec
  <2>2. CASE behind' = behind \ {p} /\ UNCHANGED logged
    <3>1. \A q \in Procs : Current(q)' => Current(q) /\ exec'[q].mail = exec[q].mail
      BY <1>1, <2>1, <2>2 DEF Current
    <3> QED BY <1>9, <2>2, <3>1 DEF Told, Failed
  <2>3. CASE At(p, "persist") /\ SaveEvents(p)
    BY <1>3, <1>9, <2>1, <2>3 DEF Failed
  <2> QED BY <1>9, <2>2, <2>3 DEF Failed
<1> QED BY <1>2, <1>4, <1>6, <1>7, <1>8, <1>9 DEF RunExec

LEMMA ViewGrows ==
    ASSUME TypeOK, CallKinds, Engines, Leader, NEW p \in Procs, RunExec(p), ~lost', view # None
    PROVE  view' \in R!Mailbox /\ view' # None /\ Within(view, view')
<1>1. view \in R!Mailbox /\ Within(view, view)
  BY WithinOrder, EngineIsMail
<1>2. CASE Fill(p) \/ Refill(p)
  <2>1. p \notin behind /\ exec[p].step \in {"fill", "refill"} /\ SaveView(p)
    BY <1>2 DEF Fill, Refill, At, Engines
  <2>2. Within(view, exec[p].mail) /\ exec[p].mail \in R!Mailbox
    BY <2>1, EngineIsMail DEF Engines, Current
  <2> QED BY <1>1, <2>1, <2>2, MailboxAssumption DEF SaveView
<1>3. CASE LoadEngine(p) \/ Persist(p) \/ Reopen(p) \/ Failed(p)
  BY <1>1, <1>3 DEF LoadEngine, Persist, Reopen, Failed, Files
<1> QED BY <1>2, <1>3 DEF RunExec

LEMMA NowhereStays ==
    ASSUME TypeOK, CallKinds, NEW p \in Procs, RunExec(p), NEW m \in Messages, Nowhere(m),
           ~(Creating(p) /\ exec[p].step = "load" /\ call[p].id = m)
    PROVE  Nowhere(m)'
<1>1. /\ \A q \in Procs \ {p} : exec'[q] = exec[q]
      /\ legacy' = legacy
  BY Mechanics
<1>2. exec[p].mail[m] = "none" /\ exec[p].log[m] = "none" /\ NoExec.mail[m] = "none" /\ NoExec.log[m] = "none"
  BY DEF Nowhere, NoExec, Empty
<1>3. CASE LoadEngine(p)
  <2>1. CASE exec' = [exec EXCEPT ![p] = InHand(p)] /\ Welcome(CommandOf(p), LoadedMail)
    <3> DEFINE c == CommandOf(p)
    <3>1. c \in MailCommand /\ ~(c.kind = "CreateMailboxMessage" /\ c.id = m) /\ Welcome(c, LoadedMail)
      BY <1>3, <2>1, Commands DEF LoadEngine, At
    <3>2. LoadedMail \in R!Mailbox /\ RebuiltMail \in R!Mailbox
      BY <1>3, Loading
    <3>3. LoadedMail[m] = "none" /\ RebuiltMail[m] = "none"
      BY DEF Nowhere, LoadedMail, RebuiltMail, Empty
    <3>4. MailOf(c, LoadedMail)[m] = "none" /\ ReplayOf(c, RebuiltMail)[m] = "none"
      <4> HIDE DEF c
      <4> QED BY <3>1, <3>2, <3>3, CommandSpares
    <3>5. exec'[p].mail[m] = "none" /\ exec'[p].log[m] = "none"
      BY <2>1, <3>4 DEF TypeOK, InHand
    <3> QED BY <1>1, <1>3, <3>5 DEF Nowhere, LoadEngine, Files
  <2>2. CASE exec'[p] = NoExec
    BY <1>1, <1>2, <1>3, <2>2 DEF Nowhere, LoadEngine, Files
  <2> QED BY <1>3, <2>1, <2>2, Loading DEF Over, TypeOK
<1>4. CASE ~LoadEngine(p)
  <2>1. exec'[p].mail[m] = "none" /\ exec'[p].log[m] = "none"
    <3>1. CASE Persist(p) \/ Fill(p) \/ Reopen(p)
      BY <1>2, <3>1 DEF Persist, Fill, Reopen, TypeOK, Exec
    <3>2. CASE Refill(p) \/ Failed(p)
      BY <1>2, <3>2 DEF Refill, Failed, Over, TypeOK
    <3> QED BY <1>4, <3>1, <3>2 DEF RunExec
  <2>2. logged' \in {logged, exec[p].log, None} /\ view' \in {view, exec[p].mail}
    BY <1>4 DEF RunExec, Persist, Fill, Reopen, Refill, Failed, SaveEvents, SaveView
  <2> QED BY <1>1, <1>2, <2>1, <2>2 DEF Nowhere
<1> QED BY <1>3, <1>4

LEMMA CarriedStays ==
    ASSUME TypeOK, CallKinds, Carried, Fresh, NEW p \in Procs, RunExec(p)
    PROVE  Carried'
<1>1. /\ \A q \in Procs \ {p} : exec'[q] = exec[q] /\ call'[q] = call[q]
      /\ pc[p] \in Running
  BY Mechanics
<1>2. \/ half' = TRUE
      \/ UNCHANGED <<view, half>>
      \/ view' = exec[p].mail
  BY DEF RunExec, LoadEngine, Persist, Fill, Reopen, Refill, Failed, SaveView, Files
<1>3. exec[p].mail # None
  BY MailboxAssumption DEF TypeOK, Exec
<1>4. ASSUME NEW q \in Procs, q # p PROVE Carried!(q)'
  BY <1>1, <1>2, <1>3, <1>4 DEF Carried, Saved
<1>5. CASE exec'[p] = NoExec
  BY <1>4, <1>5 DEF Carried, Saved, NoExec
<1>6. CASE Persist(p) \/ Fill(p) \/ Reopen(p)
  <2>1. call' = call /\ exec'[p].mail = exec[p].mail /\ exec[p].step # "load" /\ exec'[p].step # "load"
    BY <1>6 DEF Persist, Fill, Reopen, TypeOK, Exec, At
  <2>2. Saved(p)' /\ view' = None => half'
    BY <1>2, <1>3, <1>6 DEF Carried, Saved, Persist, Fill, Reopen, At
  <2> QED BY <1>4, <2>1, <2>2 DEF Carried
<1>7. CASE LoadEngine(p) /\ exec' = [exec EXCEPT ![p] = InHand(p)] /\ UNCHANGED <<pc, call>>
  <2> DEFINE c == CommandOf(p)
  <2>1. c \in MailCommand /\ c.kind = call[p].kind /\ c.id = call[p].id
    BY <1>1, Commands DEF CommandOf
  <2>2. LoadedMail \in R!Mailbox
    BY <1>7, Loading
  <2>3. exec'[p].mail = MailOf(c, LoadedMail) /\ exec'[p].step = "persist"
    BY <1>7 DEF TypeOK, InHand
  <2>4. /\ call[p].kind = "CreateMailboxMessage" => MailOf(c, LoadedMail)[c.id] = "created"
        /\ call[p].kind = "MarkMailboxDelivered" => MailOf(c, LoadedMail)[c.id] = "delivered"
    <3> HIDE DEF c
    <3> QED BY <2>1, <2>2 DEF MailOf, MailCommand, R!MailKinds, R!NewMailStatus, R!Mailbox
  <2> QED BY <1>4, <1>7, <2>1, <2>3, <2>4 DEF Carried, Saved
<1> QED BY <1>5, <1>6, <1>7, Loading DEF RunExec, Refill, Failed, Over, TypeOK

-----------------------------------------------------------------------------
(* Steps of commands *)

ExecOf(p) == RunExec(p) /\ ~lost' /\ TypeOK /\ CallKinds /\ Truth

LEMMA ExecCalls ==
    ASSUME NEW p \in Procs, ExecOf(p)
    PROVE  /\ \A q \in Procs : Holds(q)' => Holds(q) /\ call'[q].id = call[q].id /\ call'[q].copy = call[q].copy
           /\ \A q \in Procs : Creating(q)' => Creating(q) /\ call'[q].id = call[q].id
           /\ \A q \in Procs : Creating(q)' /\ exec'[q].step = "load" => q # p /\ exec[q].step = "load"
           /\ \A q \in Procs : Sends(q)' => Sends(q) /\ call'[q].id = call[q].id
           /\ \A q \in Procs : call'[q].id \in Messages => call'[q].id = call[q].id
<1> USE DEF ExecOf
<1>1. /\ pc[p] \in Running
      /\ \A q \in Procs \ {p} : exec'[q] = exec[q] /\ pc'[q] = pc[q] /\ call'[q] = call[q]
  BY Mechanics
<1>2. CASE GoesOn(p)
  BY <1>1, <1>2 DEF GoesOn, Holds, Creating, Sends
<1>3. ASSUME NEW answered \in BOOLEAN, Ends(p, answered)
      PROVE  /\ Holds(p)' => Holds(p) /\ call'[p].id = call[p].id /\ call'[p].copy = call[p].copy
             /\ ~Creating(p)'
             /\ Sends(p)' => Sends(p) /\ call'[p].id = call[p].id
             /\ call'[p].id \in Messages => call'[p].id = call[p].id
  <2>1. call[p] \in Call
    BY <1>1, Commands
  <2>2. CASE pc'[p] = "idle" /\ call'[p] = NoCall
    BY <2>2, MailboxAssumption DEF NoCall, Holds, Creating, Running, Sends, R!MailKinds
  <2>3. CASE \/ pc[p] = "create" /\ pc'[p] = "shadow"
             \/ pc[p] = "exec" /\ pc'[p] = "mark"
    <3>1. call'[p].id = call[p].id /\ call'[p].copy = call[p].copy /\ call'[p].kind = call[p].kind
      BY <1>3, <2>1, <2>3 DEF Ends, Call
    <3> QED BY <2>3, <3>1 DEF Holds, Creating, Running, Sends
  <2> QED BY <1>3, <2>2, <2>3 DEF Ends
<1> QED BY <1>1, <1>2, <1>3, Mechanics DEF Holds, Creating, Sends

LEMMA ExecFresh ==
    ASSUME NEW p \in Procs, ExecOf(p)
    PROVE  Locked' /\ Fresh'
<1> USE DEF ExecOf, Truth
<1>1. UNCHANGED <<legacy, keyOf>>
  BY Mechanics
<1>2. Locked'
  BY <1>1, ExecCalls DEF Locked
<1>3. ASSUME NEW m \in Messages, keyOf'[m] = None PROVE Nowhere(m)'
  BY <1>1, <1>3, NowhereStays DEF Fresh
<1>4. \A q \in Procs : call'[q].id \in Messages => keyOf'[call'[q].id] # None
  BY <1>1, ExecCalls DEF Fresh
<1>5. ASSUME NEW q \in Procs, Creating(q)', exec'[q].step = "load" PROVE Nowhere(call[q].id)'
  <2>1. Creating(q) /\ call'[q].id = call[q].id /\ q # p /\ exec[q].step = "load"
    BY <1>5, ExecCalls
  <2>2. call[q].id \in Messages /\ Nowhere(call[q].id)
    BY <2>1 DEF Fresh, CallKinds, Creating, Running, Sends
  <2>3. ~(Creating(p) /\ call[p].id = call[q].id)
    BY <2>1 DEF Fresh, Creating
  <2>4. ASSUME NEW n \in Messages, n = call[q].id PROVE Nowhere(n)'
    BY <2>2, <2>3, <2>4, NowhereStays
  <2> QED BY <2>1, <2>2, <2>4 DEF Nowhere
<1>6. \A q, r \in Procs : Sends(q)' /\ Sends(r)' /\ call'[q].id = call'[r].id => q = r
  BY ExecCalls DEF Fresh
<1>7. \A q \in Procs : Holds(q)' => legacy'[call'[q].id] = "none"
  BY <1>1, ExecCalls DEF Fresh
<1> QED BY <1>2, <1>3, <1>4, <1>5, <1>6, <1>7 DEF Fresh

(* A command that is answered has told what it is about.                   *)
LEMMA AnsweredTold ==
    ASSUME NEW p \in Procs, ExecOf(p), Refill(p), NEW m \in Messages, m = call[p].id
    PROVE  /\ pc[p] = "create" => Told(Created(m))'
           /\ pc[p] = "exec" /\ call[p].kind = "MarkMailboxDelivered" => Told(Delivered(m))'
<1> USE DEF ExecOf, Truth
<1>1. \A q \in Procs \ {p} : exec'[q] = exec[q]
  BY Mechanics
<1>2. exec'[p].step = "load" /\ ~Fill(p) /\ exec[p].step = "refill"
  BY DEF Refill, Over, TypeOK, NoExec, Fill, At
<1>3. SaveView(p) /\ Current(p) /\ behind' = behind /\ logged' = logged
  BY <1>1, <1>2, FillEngines DEF Refill
<1>4. /\ logged # None /\ logged \in R!Mailbox /\ Within(exec[p].mail, logged)
      /\ exec[p].mail \in R!Mailbox /\ exec[p].mail # None
  BY <1>2, <1>3, EngineIsMail, MailboxAssumption DEF Engines, Saved, TypeOK
<1>5. \A q \in Procs : Current(q)' =>
          exec'[q].mail \in R!Mailbox /\ Within(exec[p].mail, exec'[q].mail)
  BY <1>1, <1>2, <1>3, EngineIsMail DEF Current, Leader, Saved
<1>6. view' # None /\ (half' \/ view' = exec[p].mail)
  BY <1>2, <1>3, <1>4 DEF SaveView, Carried, Saved
<1>7. ASSUME NEW e, e.id \in Messages, Shows(exec[p].mail, e) PROVE Told(e)'
  <2>1. Shows(logged, e) /\ \A q \in Procs : Current(q)' => Shows(exec'[q].mail, e)
    BY <1>4, <1>5, <1>7, ShowsGrow
  <2> QED BY <1>3, <1>4, <1>6, <1>7, <2>1 DEF Told
<1>8. Created(m).id = m /\ Delivered(m).id = m
  BY DEF Created, Delivered
<1>9. /\ pc[p] = "create" => Shows(exec[p].mail, Created(m))
      /\ pc[p] = "exec" /\ call[p].kind = "MarkMailboxDelivered" => Shows(exec[p].mail, Delivered(m))
  BY <1>2 DEF Created, Delivered, Shows, Carried, CallKinds
<1> QED BY <1>7, <1>8, <1>9

LEMMA ExecTold ==
    ASSUME NEW p \in Procs, ExecOf(p)
    PROVE  Pending' /\ Logged'
<1> USE DEF ExecOf, Truth
<1>1. /\ UNCHANGED <<legacy, events>> /\ pc[p] \in Running
      /\ \A q \in Procs \ {p} : pc'[q] = pc[q] /\ call'[q] = call[q]
  BY Mechanics
<1>2. /\ view # None => view' # None /\ Within(view, view')
  BY ViewGrows
<1>3. ASSUME NEW m \in Messages
      PROVE  /\ Told(Created(m)) => Told(Created(m))'
             /\ Told(Delivered(m)) => Told(Delivered(m))'
  BY ToldStays DEF Created, Delivered
<1>4. Pending'
  <2>1. ASSUME NEW q \in Procs, q # p PROVE Pending!(q)'
    <3>1. CASE pc[q] \in {"shadow", "announce", "mark", "log"}
      <4>1. PICK m \in Messages : m = call[q].id
        BY <3>1, CallsAreTyped
      <4>2. view # None => view' # None /\ (view[m] # "none" => view'[m] # "none")
        BY <1>2 DEF Within
      <4>3. Pending!(q)
        BY DEF Pending
      <4>4. m = call'[q].id /\ pc'[q] = pc[q] /\ call'[q] = call[q]
        BY <1>1, <2>1, <4>1
      <4>5. Told(Created(m)) => view # None
        BY DEF Told
      <4>6. /\ pc'[q] = "shadow" /\ call'[q].answered => Told(Created(m))'
            /\ pc'[q] = "announce" /\ call'[q].answered =>
                 Told(Created(m))' /\ view'[m] # "none" /\ legacy'[m] # "none"
            /\ pc'[q] = "announce" /\ ~call'[q].answered /\ view' = None => legacy'[m] # "none"
            /\ pc'[q] \in {"mark", "log"} /\ call'[q].kind = "MarkMailboxDelivered" /\ call'[q].answered =>
                 Told(Delivered(m))'
            /\ pc'[q] = "log" /\ (call'[q].answered \/ view' = None) => legacy'[m] = "delivered"
        BY <1>1, <1>3, <4>1, <4>2, <4>3, <4>4, <4>5
      <4> QED BY <4>4, <4>6
    <3>2. CASE pc[q] \notin {"shadow", "announce", "mark", "log"}
      BY <1>1, <2>1, <3>2
    <3> QED BY <3>1, <3>2
  <2>2. Pending!(p)'
    <3>1. CASE GoesOn(p)
      BY <1>1, <3>1 DEF GoesOn, Running
    <3>2. CASE Ends(p, FALSE) \/ (Refill(p) /\ Ends(p, TRUE))
      <4>1. call[p] \in Call
        BY <1>1, Commands
      <4>2. CASE pc'[p] = "idle"
        BY <4>2
      <4>3. CASE pc'[p] \in {"shadow", "mark"}
        <5>1. /\ call'[p].id = call[p].id /\ call'[p].kind = call[p].kind
              /\ pc'[p] = "shadow" <=> pc[p] = "create"
              /\ pc'[p] = "mark" <=> pc[p] = "exec"
              /\ call'[p].answered => Refill(p)
          BY <3>2, <4>1, <4>3 DEF Ends, Call
        <5>2. PICK m \in Messages : m = call[p].id
          BY <4>3, <5>1, CallsAreTyped
        <5>3. /\ pc'[p] = "shadow" /\ call'[p].answered => Told(Created(m))'
              /\ pc'[p] = "mark" /\ call'[p].kind = "MarkMailboxDelivered" /\ call'[p].answered =>
                   Told(Delivered(m))'
          BY <5>1, <5>2, AnsweredTold
        <5>4. m = call'[p].id
          BY <5>1, <5>2
        <5> QED BY <4>3, <5>3, <5>4
      <4> QED BY <3>2, <4>2, <4>3 DEF Ends
    <3> QED BY <3>1, <3>2, Mechanics
  <2> QED BY <2>1, <2>2 DEF Pending
<1>5. Logged'
  <2>1. ASSUME NEW e \in events PROVE Logged!(e)'
    <3>1. e.id \in Messages
      BY DEF TypeOK, Entry
    <3>2. Told(e) => Told(e)'
      BY <3>1, ToldStays
    <3>3. view # None /\ Shows(view, e) => Shows(view', e)
      BY <1>2, <3>1 DEF Within, Shows
    <3>4. Shows(legacy, e) => Shows(legacy', e)
      BY <1>1 DEF Shows
    <3> QED BY <1>2, <3>2, <3>3, <3>4 DEF Logged, Told
  <2> QED BY <1>1, <2>1 DEF Logged
<1> QED BY <1>4, <1>5

LEMMA ExecHolds ==
    ASSUME IInv, NEW p \in Procs, RunExec(p)
    PROVE  IInv'
<1>1. TypeOK' /\ CallKinds'
  BY Mechanics, ExecKinds DEF IInv
<1>2. lost => lost'
  BY DEF RunExec, LoadEngine, Persist, Fill, Reopen, Refill, Failed, SaveEvents, History
<1>3. ASSUME ~lost' PROVE Truth'
  <2>1. ExecOf(p)
    BY <1>2, <1>3 DEF ExecOf, IInv
  <2> QED BY <1>3, <2>1, EnginesHold, CarriedStays, ExecFresh, ExecTold DEF ExecOf, Truth
<1> QED BY <1>1, <1>3 DEF IInv

-----------------------------------------------------------------------------
(* The steps of the calls *)

(* A step outside the commands.                                            *)
Outside(p) ==
    /\ UNCHANGED <<view, half, logged, exec, behind, lost>>
    /\ \A q \in Procs \ {p} : pc'[q] = pc[q] /\ call'[q] = call[q]
    /\ exec[p].step = "load" \/ call'[p] = call[p]

LEMMA OutsideKeeps ==
    ASSUME NEW p \in Procs, Outside(p), Truth
    PROVE  /\ Engines' /\ Leader' /\ Carried'
           /\ \A m \in Messages : /\ Told(Created(m)) => Told(Created(m))'
                                  /\ Told(Delivered(m)) => Told(Delivered(m))'
           /\ \A e \in events : Told(e) => Told(e)'
<1> USE DEF Outside, Truth
<1>1. \A q \in Procs : (Current(q)' <=> Current(q)) /\ (Saved(q)' <=> Saved(q))
  BY DEF Current, Saved
<1>2. Engines' /\ Leader'
  BY <1>1 DEF Engines, Leader
<1>3. Carried'
  BY <1>1 DEF Carried
<1>4. ASSUME NEW e, Told(e) PROVE Told(e)'
  BY <1>1, <1>4 DEF Told, Shows
<1>5. \A m \in Messages : /\ Told(Created(m)) => Told(Created(m))'
                          /\ Told(Delivered(m)) => Told(Delivered(m))'
  BY <1>4
<1> QED BY <1>2, <1>3, <1>4, <1>5

(* A call that holds nothing yet and owes no log entry.                    *)
LEMMA IdleExec ==
    ASSUME CallKinds, NEW p \in Procs, pc[p] \notin Running
    PROVE  exec[p] = NoExec /\ exec[p].step = "load"
  BY DEF CallKinds, NoExec

(* What a step of p leaves to the others.                                  *)
LEMMA OthersPending ==
    ASSUME TypeOK, CallKinds, NEW p \in Procs, Outside(p), Truth, NEW q \in Procs, q # p,
           NEW m \in Messages, m = call[q].id,
           legacy[m] # "none" /\ (view = None \/ Told(Created(m))) => legacy'[m] # "none",
           legacy[m] = "delivered" /\ (view = None \/ Told(Delivered(m))) => legacy'[m] = "delivered"
    PROVE  Pending!(q)'
<1>1. Pending!(q) /\ pc'[q] = pc[q] /\ call'[q] = call[q] /\ view' = view
  BY DEF Truth, Pending, Outside
<1>2. call'[q].id = m
  BY <1>1
<1>3. /\ Told(Created(m)) => Told(Created(m))'
      /\ Told(Delivered(m)) => Told(Delivered(m))'
  BY OutsideKeeps
<1>4. pc[q] = "log" => call[q].kind = "MarkMailboxDelivered"
  BY DEF CallKinds
<1>5. /\ pc'[q] = "shadow" /\ call'[q].answered => Told(Created(m))'
      /\ pc'[q] = "announce" /\ call'[q].answered =>
           Told(Created(m))' /\ view'[m] # "none" /\ legacy'[m] # "none"
      /\ pc'[q] = "announce" /\ ~call'[q].answered /\ view' = None => legacy'[m] # "none"
      /\ pc'[q] \in {"mark", "log"} /\ call'[q].kind = "MarkMailboxDelivered" /\ call'[q].answered =>
           Told(Delivered(m))'
      /\ pc'[q] = "log" /\ (call'[q].answered \/ view' = None) => legacy'[m] = "delivered"
  BY <1>1, <1>3, <1>4
<1> QED BY <1>2, <1>5

LEMMA PendingStays ==
    ASSUME TypeOK, CallKinds, NEW p \in Procs, Outside(p), Truth, Pending!(p)',
           \A m \in Messages :
              /\ legacy[m] # "none" /\ (view = None \/ Told(Created(m))) => legacy'[m] # "none"
              /\ legacy[m] = "delivered" /\ (view = None \/ Told(Delivered(m))) => legacy'[m] = "delivered"
    PROVE  Pending'
<1>1. ASSUME NEW q \in Procs, q # p PROVE Pending!(q)'
  <2>1. CASE pc[q] \in {"shadow", "announce", "mark", "log"}
    <3>1. PICK m \in Messages : m = call[q].id
      BY <2>1, CallsAreTyped
    <3> QED BY <1>1, <3>1, OthersPending
  <2>2. CASE pc[q] \notin {"shadow", "announce", "mark", "log"}
    BY <1>1, <2>2 DEF Outside
  <2> QED BY <2>1, <2>2
<1> QED BY <1>1 DEF Pending

LEMMA LoggedStays ==
    ASSUME TypeOK, NEW p \in Procs, Outside(p), Truth,
           \A m \in Messages :
              /\ legacy[m] # "none" /\ (view = None \/ Told(Created(m))) => legacy'[m] # "none"
              /\ legacy[m] = "delivered" /\ (view = None \/ Told(Delivered(m))) => legacy'[m] = "delivered"
    PROVE  \A e \in events : Logged!(e)'
<1> SUFFICES ASSUME NEW e \in events PROVE Logged!(e)'
  OBVIOUS
<1>1. Logged!(e) /\ e.id \in Messages /\ e.event \in {"mailbox_created", "delivered"} /\ view' = view
  BY DEF Truth, Logged, TypeOK, Entry, Outside
<1>2. Told(e) => Told(e)'
  BY OutsideKeeps
<1>3. e.event = "mailbox_created" => (Told(e) => Told(Created(e.id)))
  BY DEF Told, Created, Shows
<1>4. e.event = "delivered" => (Told(e) => Told(Delivered(e.id)))
  BY DEF Told, Delivered, Shows
<1>5. Shows(legacy, e) /\ (view = None \/ Told(e)) => Shows(legacy', e)
  BY <1>1, <1>3, <1>4 DEF Shows
<1>6. Shows(view, e) => Shows(view', e)
  BY <1>1
<1> QED BY <1>1, <1>2, <1>5, <1>6

LEMMA InitHolds == Init => IInv
<1> SUFFICES ASSUME Init PROVE IInv
  OBVIOUS
<1> USE DEF Init
<1>1. Empty \in R!Mailbox /\ \A m \in Messages : Empty[m] = "none"
  BY DEF Empty, R!Mailbox, R!MailStatus
<1>2. TypeOK
  <2>1. NoExec \in Exec
    BY <1>1 DEF NoExec, Exec
  <2>2. 0 \in 0 .. MaxCalls /\ 0 \in 0 .. MaxFaults /\ 0 \in 0 .. MaxCrashes
    BY MailboxAssumption
  <2>3. exec \in [Procs -> Exec] /\ legacy \in R!Mailbox
    BY <1>1, <2>1
  <2> QED BY <2>2, <2>3 DEF TypeOK, Steps
<1>3. CallKinds
  BY DEF CallKinds, NoCall
<1>4. Engines /\ Leader /\ Carried /\ Locked
  BY DEF Engines, Leader, Carried, Locked, Current, Saved, Holds, NoExec
<1>5. \A m \in Messages : Nowhere(m)
  BY <1>1 DEF Nowhere, NoExec
<1>6. Fresh
  <2>1. \A p \in Procs : call[p].id \notin Messages /\ ~Sends(p) /\ ~Creating(p) /\ ~Holds(p)
    BY MailboxAssumption DEF Creating, Sends, Holds, NoCall, R!MailKinds
  <2> QED BY <1>5, <2>1 DEF Fresh
<1>7. Pending /\ Logged
  BY DEF Pending, Logged
<1> QED BY <1>2, <1>3, <1>4, <1>6, <1>7 DEF IInv, Truth

LEMMA SendHolds ==
    ASSUME IInv, NEW p \in Procs, NEW k \in Keys, Send(p, k)
    PROVE  IInv'
<1> USE DEF IInv
<1>1. /\ pc[p] = "idle" /\ calls' \in 0 .. MaxCalls
      /\ UNCHANGED <<view, half, logged, legacy, events, exec, unheard, behind, lost, faults, crashes>>
      /\ \A q \in Procs : ~Holds(q)
      /\ exec[p] = NoExec /\ exec[p].step = "load"
  BY MailboxAssumption, IdleExec DEF Send, CountCall, LockFree, Holds, TypeOK, History, Running
<1>2. CASE UNCHANGED <<keyOf, pc, call>>
  <2>1. TypeOK' /\ CallKinds'
    BY <1>1, <1>2 DEF TypeOK, CallKinds
  <2>2. ASSUME Truth PROVE Truth'
    <3>1. Outside(p)
      BY <1>1, <1>2 DEF Outside
    <3>2. Locked' /\ Fresh'
      BY <1>1, <1>2, <2>2 DEF Truth, Locked, Holds, Fresh, Nowhere, Creating, Sends
    <3>3. Pending!(p)'
      BY <1>1, <1>2
    <3>4. \A e \in events : Logged!(e)'
      BY <1>1, <2>2, <3>1, LoggedStays
    <3> QED BY <1>1, <2>2, <3>1, <3>2, <3>3, <3>4, PendingStays, OutsideKeeps DEF Truth, Logged
  <2> QED BY <1>1, <2>1, <2>2
<1>3. CASE \E m \in Messages :
             /\ keyOf[m] = None
             /\ keyOf' = [keyOf EXCEPT ![m] = k]
             /\ Begin(p, m, "CreateMailboxMessage", "create")
  <2>1. PICK m \in Messages :
             /\ keyOf[m] = None
             /\ keyOf' = [keyOf EXCEPT ![m] = k]
             /\ Begin(p, m, "CreateMailboxMessage", "create")
    BY <1>3
  <2>2. /\ \A q \in Procs \ {p} : call'[q] = call[q] /\ pc'[q] = pc[q]
        /\ pc'[p] = "create"
        /\ call'[p] = [id |-> m, kind |-> "CreateMailboxMessage", copy |-> legacy, answered |-> FALSE]
    BY <2>1 DEF Begin, TypeOK
  <2>3. call'[p] \in Call
    BY <2>2 DEF Call, TypeOK, R!MailKinds, Kinds
  <2>4. TypeOK'
    BY <1>1, <2>1, <2>2, <2>3 DEF TypeOK, Begin, Steps, Running
  <2>5. CallKinds'
    BY <1>1, <2>2, <2>3 DEF CallKinds, Running
  <2>6. ASSUME Truth PROVE Truth'
    <3> USE <2>6 DEF Truth
    <3>1. Outside(p)
      BY <1>1, <2>2 DEF Outside
    <3>2. Locked'
      BY <1>1, <2>2 DEF Locked, Holds
    <3>3. Fresh'
      <4>1. Nowhere(m)'
        BY <1>1, <2>1 DEF Fresh, Nowhere
      <4>2. \A n \in Messages : keyOf'[n] = None => Nowhere(n)'
        BY <1>1, <2>1 DEF Fresh, Nowhere, TypeOK
      <4>3. \A n \in Messages : keyOf[n] # None => keyOf'[n] # None
        BY <2>1, MailboxAssumption DEF TypeOK
      <4>4. keyOf'[m] # None
        BY <2>1, MailboxAssumption DEF TypeOK
      <4>5. \A q \in Procs \ {p} : Creating(q)' => Creating(q) /\ call[q].id # m /\ call'[q].id = call[q].id
        BY <2>1, <2>2 DEF Creating, Sends, Fresh
      <4>6. \A q \in Procs : Holds(q)' => q = p
        BY <1>1, <2>2 DEF Holds
      <4>7. \A q \in Procs : Creating(q)' /\ exec'[q].step = "load" => Nowhere(call[q].id)'
        <5>1. ASSUME NEW q \in Procs \ {p}, Creating(q)', exec'[q].step = "load" PROVE Nowhere(call[q].id)'
          BY <1>1, <2>2, <4>5, <5>1 DEF Fresh, Nowhere
        <5>2. Nowhere(call[p].id)'
          BY <2>2, <4>1 DEF Nowhere
        <5> QED BY <5>1, <5>2
      <4>8. legacy'[call'[p].id] = "none"
        BY <2>2, <4>1 DEF Nowhere
      <4>9. \A q \in Procs : call'[q].id \in Messages => keyOf'[call'[q].id] # None
        BY <2>2, <4>3, <4>4 DEF Fresh
      <4>10. \A q, r \in Procs : Sends(q)' /\ Sends(r)' /\ call'[q].id = call'[r].id => q = r
        BY <2>1, <2>2 DEF Fresh, Sends
      <4> QED BY <4>2, <4>6, <4>7, <4>8, <4>9, <4>10 DEF Fresh
    <3>4. Pending' /\ Logged'
      <4>1. \A e \in events : Logged!(e)'
        BY <1>1, <3>1, LoggedStays
      <4> QED BY <1>1, <2>2, <3>1, <4>1, PendingStays DEF Logged
    <3> QED BY <3>1, <3>2, <3>3, <3>4, OutsideKeeps
  <2> QED BY <1>1, <2>4, <2>5, <2>6
<1> QED BY <1>2, <1>3 DEF Send

LEMMA ShadowHolds ==
    ASSUME IInv, NEW p \in Procs, Shadow(p)
    PROVE  IInv'
<1> USE DEF IInv
<1> DEFINE m == call[p].id
           found == call[p].answered /\ ReadMailbox[m] # "none"
<1>1. /\ pc[p] = "shadow" /\ pc' = [pc EXCEPT ![p] = "announce"]
      /\ legacy' = [call[p].copy EXCEPT ![m] = IF found THEN ReadMailbox[m] ELSE "created"]
      /\ call' = [call EXCEPT ![p].answered = found]
      /\ UNCHANGED <<view, half, logged, keyOf, events, exec, unheard, behind, lost, calls, faults, crashes>>
      /\ exec[p] = NoExec /\ exec[p].step = "load"
  BY IdleExec DEF Shadow, History, Bounds, Running
<1>2. call[p] \in Call /\ m \in Messages /\ call[p].copy \in R!Mailbox
  BY <1>1, CallsAreTyped
<1>3. ReadMailbox \in R!Mailbox
  BY DEF ReadMailbox, TypeOK
<1>4. /\ legacy' \in R!Mailbox
      /\ legacy'[m] # "none"
      /\ \A n \in Messages \ {m} : legacy'[n] = call[p].copy[n]
  BY <1>1, <1>2, <1>3 DEF R!Mailbox, R!MailStatus
<1>5. [call[p] EXCEPT !.answered = found] \in Call
  <2>1. found \in BOOLEAN
    BY ZenonT(20)
  <2> QED BY <1>2, <2>1 DEF Call
<1>6. /\ call' \in [Procs -> Call \cup {NoCall}]
      /\ \A q \in Procs \ {p} : call'[q] = call[q] /\ pc'[q] = pc[q]
      /\ pc'[p] = "announce" /\ call'[p] \in Call /\ call'[p].id = m /\ call'[p].kind = call[p].kind
      /\ call'[p].answered => found
  BY <1>1, <1>2, <1>5 DEF TypeOK, Call
<1>7. TypeOK'
  BY <1>1, <1>4, <1>6 DEF TypeOK, Steps
<1>8. CallKinds'
  BY <1>1, <1>6 DEF CallKinds, Running
<1>9. ASSUME Truth PROVE Truth'
  <2> USE <1>9 DEF Truth
  <2>1. call[p].copy = legacy /\ legacy[m] = "none" /\ keyOf[m] # None
    BY <1>1, <1>2 DEF Locked, Holds, Fresh
  <2>2. Outside(p)
    BY <1>1, <1>6 DEF Outside
  <2>3. \A n \in Messages : legacy[n] # "none" => legacy'[n] = legacy[n]
    BY <1>4, <2>1
  <2>4. \A q \in Procs : ~Holds(q)'
    BY <1>1, <1>6 DEF Locked, Holds
  <2>5. Fresh'
    <3>1. \A n \in Messages \ {m} : Nowhere(n) => Nowhere(n)'
      BY <1>1, <1>4, <2>1 DEF Nowhere
    <3>2. \A q \in Procs : Creating(q)' => q # p /\ Creating(q)
      BY <1>6 DEF Creating, Sends, Running
    <3>3. \A q \in Procs : Creating(q) => call[q].id \in Messages /\ (q # p => call[q].id # m)
      <4>1. Sends(p)
        BY <1>1 DEF Sends, CallKinds
      <4>2. \A q \in Procs : Creating(q) => call[q].id \in Messages
        BY DEF Creating, Sends, CallKinds, Running
      <4> QED BY <4>1, <4>2 DEF Creating, Fresh
    <3>4. \A q \in Procs : Sends(q)' => Sends(q)
      BY <1>6 DEF Sends
    <3>5. \A q \in Procs : call'[q].id = call[q].id
      BY <1>6
    <3> QED BY <1>1, <1>6, <2>1, <2>4, <3>1, <3>2, <3>3, <3>4, <3>5 DEF Fresh
  <2>6. Pending!(p)'
    <3>1. PICK n \in Messages : n = m
      BY <1>2
    <3>2. call'[p].answered => Told(Created(n)) /\ view[n] # "none"
      <4>1. found => Told(Created(n))
        BY <1>1, <3>1 DEF Pending
      <4>2. found => view[n] # "none"
        BY <2>1, <3>1 DEF ReadMailbox
      <4> QED BY <1>6, <4>1, <4>2
    <3>3. /\ pc'[p] = "announce" /\ n = call'[p].id /\ view' = view /\ legacy'[n] # "none"
          /\ Told(Created(n)) => Told(Created(n))'
      BY <1>1, <1>4, <1>6, <2>2, <3>1, OutsideKeeps
    <3> QED BY <3>2, <3>3
  <2>7. \A e \in events : Logged!(e)'
    BY <2>2, <2>3, LoggedStays
  <2> QED BY <1>1, <2>2, <2>3, <2>4, <2>5, <2>6, <2>7, PendingStays, OutsideKeeps DEF Locked, Logged
<1> QED BY <1>1, <1>7, <1>8, <1>9

(* A step of p after which it holds no lock.                               *)
LEMMA CallHolds ==
    ASSUME IInv, NEW p \in Procs, Outside(p), TypeOK', CallKinds', UNCHANGED keyOf,
           ~Holds(p)', pc'[p] \in Running => pc[p] \in Running \/ ~Sends(p)',
           \/ call'[p] = call[p]
           \/ ~Sends(p)' /\ (call'[p].id \in Messages => keyOf[call'[p].id] # None),
           \/ legacy' = legacy
           \/ LockFree /\ \A m \in Messages : Nowhere(m) => legacy'[m] = "none",
           Truth =>
             /\ \A m \in Messages :
                  /\ legacy[m] # "none" /\ (view = None \/ Told(Created(m))) => legacy'[m] # "none"
                  /\ legacy[m] = "delivered" /\ (view = None \/ Told(Delivered(m))) => legacy'[m] = "delivered"
             /\ Pending!(p)'
             /\ \A e \in events' \ events : Logged!(e)'
    PROVE  IInv'
<1> SUFFICES ASSUME Truth PROVE Truth'
  BY DEF IInv, Outside
<1> USE DEF IInv, Truth
<1>1. \A q \in Procs : Holds(q)' => Holds(q) /\ q # p /\ call'[q] = call[q]
  BY DEF Holds, Outside
<1>2. (\E q \in Procs : Holds(q)') => legacy' = legacy
  BY <1>1 DEF LockFree, Holds
<1>3. Locked'
  BY <1>1, <1>2 DEF Locked
<1>4. Fresh'
  <2>1. ASSUME NEW m \in Messages, Nowhere(m) PROVE Nowhere(m)'
    BY <2>1 DEF Nowhere, Outside
  <2>2. \A m \in Messages : keyOf'[m] = None => Nowhere(m)'
    BY <2>1 DEF Fresh
  <2>3. \A q \in Procs : Sends(q)' => Sends(q) /\ call'[q] = call[q]
    BY DEF Sends, Outside
  <2>4. \A q \in Procs : Creating(q)' => Creating(q) /\ call'[q] = call[q] /\ exec'[q] = exec[q]
    BY <2>3 DEF Creating, Outside
  <2>5. \A q \in Procs : Creating(q) => call[q].id \in Messages
    BY DEF Creating, Sends, CallKinds, Running
  <2>6. \A q \in Procs : Creating(q)' /\ exec'[q].step = "load" => Nowhere(call[q].id)'
    <3>1. ASSUME NEW q \in Procs, Creating(q)', exec'[q].step = "load" PROVE Nowhere(call[q].id)'
      <4>1. PICK m \in Messages : m = call[q].id
        BY <2>4, <2>5, <3>1
      <4>2. Nowhere(m)'
        BY <2>1, <2>4, <3>1, <4>1 DEF Fresh
      <4> QED BY <2>4, <3>1, <4>1, <4>2 DEF Nowhere
    <3> QED BY <3>1
  <2>7. \A q \in Procs : call'[q].id \in Messages => keyOf'[call'[q].id] # None
    BY DEF Fresh, Outside
  <2>8. \A q \in Procs : Holds(q)' => legacy'[call'[q].id] = "none"
    BY <1>1, <1>2 DEF Fresh
  <2> QED BY <2>2, <2>3, <2>6, <2>7, <2>8 DEF Fresh
<1>5. Pending'
  BY PendingStays
<1>6. \A e \in events : Logged!(e)'
  BY LoggedStays
<1> QED BY <1>3, <1>4, <1>5, <1>6, OutsideKeeps DEF Logged

LEMMA ReturnIs ==
    ASSUME TypeOK, CallKinds, NEW p \in Procs, Return(p), exec' = exec, exec[p] = NoExec
    PROVE  /\ pc' \in [Procs -> Steps] /\ call' \in [Procs -> Call \cup {NoCall}]
           /\ \A q \in Procs \ {p} : pc'[q] = pc[q] /\ call'[q] = call[q]
           /\ pc'[p] = "idle" /\ call'[p] = NoCall
           /\ CallKinds' /\ ~Holds(p)' /\ ~Sends(p)' /\ call'[p].id \notin Messages
           /\ pc'[p] \notin Running /\ Pending!(p)'
<1>1. /\ pc' \in [Procs -> Steps] /\ call' \in [Procs -> Call \cup {NoCall}]
      /\ \A q \in Procs \ {p} : pc'[q] = pc[q] /\ call'[q] = call[q]
      /\ pc'[p] = "idle" /\ call'[p] = NoCall
  BY DEF Return, TypeOK, Steps
<1>2. ~Sends(p)' /\ call'[p].id \notin Messages
  BY <1>1, MailboxAssumption DEF Sends, NoCall, R!MailKinds
<1>3. CallKinds'
  BY <1>1 DEF CallKinds, NoCall
<1> QED BY <1>1, <1>2, <1>3 DEF Holds, Running

LEMMA EntryHolds ==
    ASSUME IInv, NEW p \in Procs, pc[p] \in {"announce", "log"}, NEW x \in Entry, events' = events \cup {x},
           Return(p), UNCHANGED <<view, half, logged, legacy, keyOf, exec, History, Bounds>>,
           Truth => /\ x.transport = "bridge" => Told(x) /\ Shows(legacy, x)
                    /\ x.transport = "bridge" /\ x.event = "mailbox_created" => Shows(view, x)
                    /\ view = None => Shows(legacy, x)
    PROVE  IInv'
<1> USE DEF IInv
<1>1. exec[p] = NoExec /\ exec[p].step = "load"
  BY IdleExec DEF Running
<1>2. UNCHANGED <<view, half, logged, legacy, keyOf, exec, unheard, behind, lost, calls, faults, crashes>>
  BY DEF History, Bounds
<1>3. Outside(p)
  BY <1>1, <1>2, ReturnIs DEF Outside
<1>4. TypeOK'
  BY <1>1, <1>2, ReturnIs DEF TypeOK
<1>5. ASSUME Truth PROVE Logged!(x)'
  BY <1>2, <1>5 DEF Told, Shows, Current
<1> QED BY <1>1, <1>2, <1>3, <1>4, <1>5, ReturnIs, CallHolds

LEMMA LogHolds ==
    ASSUME IInv, NEW p \in Procs, Announce(p) \/ LogDelivered(p)
    PROVE  IInv'
<1> USE DEF IInv
<1> DEFINE x == [event |-> IF pc[p] = "log" THEN "delivered" ELSE "mailbox_created",
                 id |-> call[p].id, transport |-> TransportOf(p)]
<1>1. /\ pc[p] = "announce" \/ pc[p] = "log"
      /\ events' = events \cup {x} /\ Return(p)
      /\ UNCHANGED <<view, half, logged, legacy, keyOf, exec, History, Bounds>>
  BY DEF Announce, LogDelivered, LogEntry
<1>2. x \in Entry
  BY <1>1, CallsAreTyped DEF Entry, TransportOf, Transport
<1>3. x.transport = "bridge" <=> call[p].answered
  BY <1>1, CallsAreTyped DEF TransportOf, Call
<1>4. ASSUME Truth
      PROVE  /\ x.transport = "bridge" => Told(x) /\ Shows(legacy, x)
             /\ x.transport = "bridge" /\ x.event = "mailbox_created" => Shows(view, x)
             /\ view = None => Shows(legacy, x)
  <2>1. Pending!(p) /\ (pc[p] = "log" => call[p].kind = "MarkMailboxDelivered")
    BY <1>4 DEF Truth, Pending, CallKinds
  <2>2. CASE pc[p] = "log"
    BY <1>3, <2>1, <2>2 DEF Told, Shows, Delivered
  <2>3. CASE pc[p] = "announce"
    BY <1>3, <2>1, <2>3 DEF Told, Shows, Created
  <2> QED BY <1>1, <2>2, <2>3
<1> HIDE DEF x
<1> QED BY <1>1, <1>2, <1>4, EntryHolds

LEMMA BeginHolds ==
    ASSUME IInv, NEW p \in Procs,
           \/ OtherCommand(p)
           \/ \E m \in Messages : BeginDelivered(p, m) \/ BeginNotified(p, m)
    PROVE  IInv'
<1> USE DEF IInv
<1>1. /\ pc[p] = "idle" /\ calls' \in 0 .. MaxCalls
      /\ UNCHANGED <<Files, exec, History, faults, crashes>>
      /\ UNCHANGED <<view, half, logged, legacy, keyOf, events, exec, unheard, behind, lost, faults, crashes>>
      /\ exec[p] = NoExec /\ exec[p].step = "load"
  BY MailboxAssumption, IdleExec
     DEF OtherCommand, BeginDelivered, BeginNotified, CountCall, TypeOK, Files, History, Running
<1>2. \/ UNCHANGED <<pc, call>>
      \/ Begin(p, None, "CaptureSnapshot", "other")
      \/ \E m \in Messages, kind \in MarkKinds :
            (m \in Undelivered(ReadMailbox) \/ keyOf[m] # None) /\ Begin(p, m, kind, "exec")
  BY DEF OtherCommand, BeginDelivered, BeginNotified, MarkKinds
<1>3. CASE UNCHANGED <<pc, call>>
  <2>1. Outside(p) /\ TypeOK' /\ CallKinds' /\ ~Holds(p)' /\ pc'[p] \notin Running /\ Pending!(p)'
    BY <1>1, <1>3 DEF Outside, TypeOK, CallKinds, Holds, Running
  <2> QED BY <1>1, <1>3, <2>1, CallHolds
<1>4. ASSUME NEW id \in Messages \cup {None}, NEW kind \in MarkKinds \cup {"CaptureSnapshot"},
             NEW at \in {"exec", "other"}, Begin(p, id, kind, at),
             IF at = "exec" THEN id \in Messages /\ kind \in MarkKinds
                            ELSE id = None /\ kind = "CaptureSnapshot",
             Truth /\ at = "exec" => keyOf[id] # None
      PROVE  IInv'
  <2> DEFINE begun == [id |-> id, kind |-> kind, copy |-> legacy, answered |-> FALSE]
  <2>1. begun \in Call
    BY DEF Call, TypeOK, R!MailKinds, Kinds, MarkKinds
  <2>2. /\ pc' = [pc EXCEPT ![p] = at] /\ call' = [call EXCEPT ![p] = begun]
        /\ pc'[p] = at /\ call'[p] = begun
        /\ \A q \in Procs \ {p} : pc'[q] = pc[q] /\ call'[q] = call[q]
    BY <1>4 DEF Begin, TypeOK
  <2>3. TypeOK'
    BY <1>1, <2>1, <2>2 DEF TypeOK, Steps, Running
  <2>4. CallKinds'
    BY <1>1, <1>4, <2>1, <2>2 DEF CallKinds, Running, MarkKinds
  <2>5. Outside(p) /\ ~Holds(p)' /\ ~Sends(p)' /\ Pending!(p)'
    BY <1>1, <1>4, <2>2 DEF Outside, Holds, Sends, MarkKinds
  <2>6. Truth => (call'[p].id \in Messages => keyOf[call'[p].id] # None)
    BY <1>4, <2>2, MailboxAssumption
  <2>7. CASE Truth
    BY <1>1, <2>3, <2>4, <2>5, <2>6, <2>7, CallHolds
  <2>8. CASE lost
    BY <1>1, <2>3, <2>4, <2>8
  <2> QED BY <2>7, <2>8
<1>5. ASSUME Truth, NEW m \in Messages, m \in Undelivered(ReadMailbox) PROVE keyOf[m] # None
  <2>1. ReadMailbox[m] # "none"
    BY <1>5 DEF Undelivered
  <2> QED BY <1>5, <2>1 DEF Truth, Fresh, Nowhere, ReadMailbox
<1>6. CASE Begin(p, None, "CaptureSnapshot", "other")
  BY <1>4, <1>6
<1>7. ASSUME NEW m \in Messages, NEW kind \in MarkKinds,
             m \in Undelivered(ReadMailbox) \/ keyOf[m] # None, Begin(p, m, kind, "exec")
      PROVE  IInv'
  BY <1>4, <1>5, <1>7
<1> QED BY <1>2, <1>3, <1>6, <1>7

LEMMA CrashHolds ==
    ASSUME IInv, NEW p \in Procs, Crash(p)
    PROVE  IInv'
<1> USE DEF IInv
<1>1. /\ pc[p] \notin {"idle", "orphan"} /\ crashes' \in 0 .. MaxCrashes
      /\ UNCHANGED <<view, half, logged, legacy, keyOf, events, exec, unheard, behind, lost, calls, faults>>
  BY MailboxAssumption DEF Crash, TypeOK, Files, History
<1>2. CASE exec[p].step = "load" /\ Return(p)
  <2>1. exec[p] = NoExec
    BY <1>2 DEF CallKinds
  <2>2. TypeOK' /\ Outside(p)
    BY <1>1, <1>2, <2>1, ReturnIs DEF TypeOK, Outside
  <2> QED BY <1>1, <1>2, <2>1, <2>2, ReturnIs, CallHolds
<1>3. CASE pc[p] \in Running /\ pc' = [pc EXCEPT ![p] = "orphan"] /\ UNCHANGED call
  <2>1. /\ pc'[p] = "orphan" /\ \A q \in Procs \ {p} : pc'[q] = pc[q]
        /\ TypeOK'
    BY <1>1, <1>3 DEF TypeOK, Steps, Running
  <2>2. Outside(p) /\ ~Holds(p)' /\ Pending!(p)'
    BY <1>1, <1>3, <2>1 DEF Outside, Holds
  <2>3. CallKinds'
    BY <1>1, <1>3, <2>1 DEF CallKinds, Running
  <2> QED BY <1>1, <1>3, <2>1, <2>2, <2>3, CallHolds
<1> QED BY <1>2, <1>3 DEF Crash

(* What a mark writes to the legacy file under the lock.                   *)
LEMMA WriteBack ==
    ASSUME TypeOK, Truth, NEW m \in Messages, ReadMailbox[m] # "none",
           NEW status \in {"notified", "delivered"}, ReadMailbox[m] = "delivered" => status = "delivered",
           legacy' = [ReadMailbox EXCEPT ![m] = status]
    PROVE  /\ legacy' \in R!Mailbox
           /\ legacy'[m] = status
           /\ \A n \in Messages :
                /\ legacy[n] # "none" /\ (view = None \/ Told(Created(n))) => legacy'[n] # "none"
                /\ legacy[n] = "delivered" /\ (view = None \/ Told(Delivered(n))) => legacy'[n] = "delivered"
           /\ \A n \in Messages : Nowhere(n) => legacy'[n] = "none"
<1>1. /\ ReadMailbox \in R!Mailbox
      /\ ReadMailbox = legacy \/ (view # None /\ ~half /\ ReadMailbox = view)
  BY DEF ReadMailbox, TypeOK
<1>2. legacy' \in R!Mailbox /\ legacy'[m] = status /\ \A n \in Messages \ {m} : legacy'[n] = ReadMailbox[n]
  BY <1>1 DEF R!Mailbox, R!MailStatus
<1>3. \A n \in Messages :
        /\ legacy[n] # "none" /\ (view = None \/ Told(Created(n))) => ReadMailbox[n] # "none"
        /\ legacy[n] = "delivered" /\ (view = None \/ Told(Delivered(n))) => ReadMailbox[n] = "delivered"
        /\ Nowhere(n) => ReadMailbox[n] = "none"
  BY <1>1 DEF Told, Created, Delivered, Shows, Nowhere
<1> QED BY <1>2, <1>3

LEMMA MarkHolds ==
    ASSUME IInv, NEW p \in Procs, MarkDelivered(p) \/ MarkNotified(p)
    PROVE  IInv'
<1> USE DEF IInv
<1> DEFINE m == call[p].id
<1>1. /\ pc[p] = "mark" /\ LockFree /\ m \in Messages /\ call[p] \in Call
      /\ UNCHANGED <<view, half, logged, keyOf, events, exec, behind, lost, calls, faults, crashes>>
      /\ exec[p] = NoExec /\ exec[p].step = "load"
      /\ unheard' \subseteq Messages
  BY CallsAreTyped, IdleExec DEF MarkDelivered, MarkNotified, TypeOK, History, Bounds, Running
<1>2. \/ /\ legacy' = legacy
         /\ \/ Return(p)
            \/ ReadMailbox[m] = "delivered" /\ ~call[p].answered
      \/ /\ ReadMailbox[m] # "none"
         /\ \E status \in {"notified", "delivered"} :
               /\ ReadMailbox[m] = "delivered" => status = "delivered"
               /\ ~Return(p) => status = "delivered"
               /\ legacy' = [ReadMailbox EXCEPT ![m] = status]
  BY DEF MarkDelivered, MarkNotified
<1>3. Return(p) \/ (pc' = [pc EXCEPT ![p] = "log"] /\ call' = call /\ call[p].kind = "MarkMailboxDelivered")
  BY DEF MarkDelivered, MarkNotified
<1>4. legacy' \in R!Mailbox
  BY <1>1, <1>2 DEF ReadMailbox, TypeOK, R!Mailbox, R!MailStatus
<1>5. ASSUME Truth
      PROVE  /\ \A n \in Messages :
                  /\ legacy[n] # "none" /\ (view = None \/ Told(Created(n))) => legacy'[n] # "none"
                  /\ legacy[n] = "delivered" /\ (view = None \/ Told(Delivered(n))) => legacy'[n] = "delivered"
             /\ \A n \in Messages : Nowhere(n) => legacy'[n] = "none"
             /\ ~Return(p) => (call[p].answered \/ view = None => legacy'[m] = "delivered")
  <2>1. CASE legacy' = legacy
    BY <1>1, <1>2, <2>1 DEF Nowhere, ReadMailbox, TypeOK, R!Mailbox
  <2>2. ASSUME NEW status \in {"notified", "delivered"}, ReadMailbox[m] # "none",
               ReadMailbox[m] = "delivered" => status = "delivered",
               ~Return(p) => status = "delivered",
               legacy' = [ReadMailbox EXCEPT ![m] = status]
        PROVE  <1>5!2
    BY <1>1, <1>5, <2>2, WriteBack
  <2> QED BY <1>2, <2>1, <2>2
<1>6. CASE Return(p)
  <2>1. Outside(p) /\ TypeOK'
    BY <1>1, <1>4, <1>6, ReturnIs DEF Outside, TypeOK
  <2> QED BY <1>1, <1>5, <1>6, <2>1, ReturnIs, CallHolds
<1>7. CASE ~Return(p)
  <2>1. /\ pc'[p] = "log" /\ call' = call /\ call[p].kind = "MarkMailboxDelivered"
        /\ \A q \in Procs \ {p} : pc'[q] = pc[q]
        /\ TypeOK'
    BY <1>1, <1>3, <1>4, <1>7 DEF TypeOK, Steps
  <2>2. Outside(p) /\ ~Holds(p)' /\ pc'[p] \notin Running
    BY <1>1, <2>1 DEF Outside, Holds, Running
  <2>3. CallKinds'
    BY <1>1, <2>1 DEF CallKinds, Running
  <2>4. ASSUME Truth PROVE Pending!(p)'
    <3>1. PICK n \in Messages : n = m
      BY <1>1
    <3>2. call[p].answered => Told(Delivered(n))
      BY <1>1, <2>1, <2>4, <3>1 DEF Truth, Pending
    <3>3. call[p].answered => Told(Delivered(n))'
      BY <2>2, <2>4, <3>2, OutsideKeeps
    <3>4. n = call'[p].id /\ (call[p].answered \/ view = None => legacy'[n] = "delivered") /\ view' = view
      BY <1>1, <1>5, <1>7, <2>1, <2>4, <3>1
    <3> QED BY <2>1, <3>3, <3>4
  <2> QED BY <1>1, <1>5, <2>1, <2>2, <2>3, <2>4, CallHolds
<1> QED BY <1>6, <1>7

LEMMA StepHolds == IInv /\ [Next]_vars => IInv'
<1> SUFFICES ASSUME IInv, [Next]_vars PROVE IInv'
  OBVIOUS
<1>1. CASE UNCHANGED vars
  <2> USE <1>1 DEF vars
  <2>1. TypeOK' <=> TypeOK
    BY DEF TypeOK
  <2>2. CallKinds' <=> CallKinds
    BY DEF CallKinds
  <2>3. (Engines' <=> Engines) /\ (Leader' <=> Leader) /\ (Carried' <=> Carried)
    BY DEF Engines, Leader, Carried, Current, Saved
  <2>4. (Locked' <=> Locked) /\ (Fresh' <=> Fresh)
    BY DEF Locked, Holds, Fresh, Nowhere, Creating, Sends
  <2>5. ASSUME NEW e PROVE Told(e)' <=> Told(e)
    BY DEF Told, Shows, Current
  <2>6. (Pending' <=> Pending) /\ (Logged' <=> Logged)
    BY <2>5 DEF Pending, Logged, Shows
  <2> QED BY <2>1, <2>2, <2>3, <2>4, <2>6 DEF IInv, Truth
<1>2. CASE Next
  BY <1>2, ExecHolds, SendHolds, ShadowHolds, LogHolds, BeginHolds, MarkHolds, CrashHolds DEF Next
<1> QED BY <1>1, <1>2

-----------------------------------------------------------------------------

(* The files, the engines in hand, the calls and the delivery log keep     *)
(* their form.                                                             *)
THEOREM TypeCorrect == Spec => []TypeOK
<1>1. IInv => TypeOK
  BY DEF IInv
<1> QED BY InitHolds, StepHolds, <1>1, PTL DEF Spec

(* Until a command that others have overtaken writes its engine, or one is *)
(* killed over events.json: what the delivery log says was created or      *)
(* delivered is what readers find, for ever if it went through the bridge, *)
(* and otherwise as long as there is no mailbox.json.                      *)
THEOREM ReadersFindWhatIsLogged == Spec => []LogIsTrue
<1>1. IInv => LogIsTrue
  <2> SUFFICES ASSUME Truth PROVE LogIsTrue
    BY DEF IInv, LogIsTrue
  <2> QED BY DEF Truth, Logged, LogIsTrue, Counts, ReadMailbox, Told
<1> QED BY InitHolds, StepHolds, <1>1, PTL DEF Spec

-----------------------------------------------------------------------------
(* One undelivered copy                                                    *)
(* Announced, or written to the legacy file and about to be announced, in  *)
(* a way that counts.                                                      *)
Sent(m) ==
    \/ m \in Announced
    \/ \E p \in Procs : pc[p] = "announce" /\ call[p].id = m /\ (call[p].answered \/ view = None)

Open(m) == Sent(m) /\ m \notin unheard /\ Settled[m] \in {"created", "notified"}

(* Delivered in every engine that may be written to mailbox.json, which is *)
(* no JSON at the moment.                                                  *)
Closing(m) == half /\ Told(Delivered(m))

(* An open message is undelivered in the legacy file too: whichever file a *)
(* repeated send reads, it finds the message.                              *)
Findable == \A m \in Messages : Open(m) => legacy[m] \in {"created", "notified"} \/ Closing(m)

OnePerKey == \A m, n \in Messages : Open(m) /\ Open(n) /\ keyOf[m] = keyOf[n] => m = n

(* The sender that holds the lock has found no open message of its key.    *)
Reserved ==
    \A p \in Procs : Holds(p) =>
        \A m \in Messages : Open(m) /\ keyOf[m] = keyOf[call[p].id] => Closing(m)

CopyInv == Findable /\ OnePerKey /\ Reserved

CInv == IInv /\ (lost \/ CopyInv)

LEMMA SentIsSeen ==
    ASSUME TypeOK, Truth, NEW m \in Messages, Sent(m)
    PROVE  /\ keyOf[m] # None /\ legacy[m] # "none"
           /\ view # None => view[m] # "none"
           /\ \/ view = None
              \/ \E e \in events : e.event = "mailbox_created" /\ e.transport = "bridge" /\ e.id = m
              \/ \E p \in Procs : pc[p] = "announce" /\ call[p].id = m /\ call[p].answered
<1> USE DEF Truth
<1>1. CASE m \in Announced
  <2>1. PICK e \in events : e.event = "mailbox_created" /\ e.id = m /\ Counts(e)
    BY <1>1 DEF Announced
  <2>2. legacy[m] # "none" /\ (view # None => view[m] # "none")
    BY <2>1 DEF Logged, Counts, Shows
  <2> QED BY <2>1, <2>2 DEF Fresh, Nowhere, Counts
<1>2. CASE \E p \in Procs : pc[p] = "announce" /\ call[p].id = m /\ (call[p].answered \/ view = None)
  <2>1. PICK p \in Procs : pc[p] = "announce" /\ call[p].id = m /\ (call[p].answered \/ view = None)
    BY <1>2
  <2>2. legacy[m] # "none" /\ (view # None => view[m] # "none")
    BY <2>1 DEF Pending
  <2> QED BY <2>1, <2>2 DEF Fresh
<1> QED BY <1>1, <1>2 DEF Sent

(* A step that opens no message and takes no lock.                         *)
LEMMA CopiesStay ==
    ASSUME TypeOK, CallKinds, CopyInv, keyOf' = keyOf,
           \A m \in Messages : Open(m)' => Open(m) /\ (legacy'[m] \in {"created", "notified"} \/ Closing(m)'),
           \A m \in Messages : Open(m)' /\ Closing(m) => Closing(m)',
           \A p \in Procs : Holds(p)' => Holds(p) /\ call'[p].id = call[p].id
    PROVE  CopyInv'
  BY DEF CopyInv, Findable, OnePerKey, Reserved

LEMMA InitCopies == Init => CopyInv
  BY DEF Init, CopyInv, Findable, OnePerKey, Reserved, Holds, Open, Sent, Announced

(* A command opens no message: what has been sent it shows already, and no *)
(* longer if it shows it delivered.                                        *)
LEMMA ExecCopies ==
    ASSUME CopyInv, NEW p \in Procs, ExecOf(p)
    PROVE  CopyInv'
<1> USE DEF ExecOf
<1>1. /\ UNCHANGED <<legacy, keyOf, events, unheard>> /\ pc[p] \in Running
      /\ \A q \in Procs \ {p} : pc'[q] = pc[q] /\ call'[q] = call[q]
      /\ pc'[p] # "announce"
  BY Mechanics DEF GoesOn, Ends, Running
<1>2. view # None => view' # None /\ Within(view, view')
  BY ViewGrows DEF Truth
<1>3. \A m \in Messages : Sent(m)' => Sent(m)
  BY <1>1, <1>2 DEF Sent, Announced, Counts
<1>4. ASSUME NEW m \in Messages, Sent(m)', view' # None PROVE view # None
  <2>1. CASE m \in Announced'
    <3>1. PICK e \in events : e.transport = "bridge"
      BY <1>1, <1>4, <2>1 DEF Announced, Counts
    <3> QED BY <3>1 DEF Truth, Logged, Told
  <2>2. ASSUME NEW q \in Procs, pc'[q] = "announce", call'[q].answered PROVE view # None
    <3>1. pc[q] = "announce" /\ call[q].answered
      BY <1>1, <2>2
    <3> QED BY <3>1 DEF Truth, Pending, Told
  <2> QED BY <1>4, <2>1, <2>2 DEF Sent
<1>5. ASSUME NEW m \in Messages, Open(m)' PROVE Open(m)
  <2>1. Sent(m) /\ m \notin unheard
    BY <1>1, <1>3, <1>5 DEF Open
  <2>2. CASE view' = None
    BY <1>1, <1>2, <1>5, <2>1, <2>2 DEF Open, Settled
  <2>3. CASE view' # None
    <3>1. view # None /\ view'[m] \in {"created", "notified"}
      BY <1>4, <1>5, <2>3 DEF Open, Settled
    <3>2. view[m] # "none" /\ view[m] # "delivered"
      BY <1>2, <2>1, <3>1, SentIsSeen DEF Within
    <3>3. view[m] \in {"created", "notified"}
      BY <3>1, <3>2 DEF TypeOK, R!Mailbox, R!MailStatus
    <3> QED BY <2>1, <3>1, <3>3 DEF Open, Settled
  <2> QED BY <2>2, <2>3
<1>6. ASSUME NEW m \in Messages, Open(m)', Closing(m) PROVE Closing(m)'
  <2>1. Told(Delivered(m))'
    BY <1>6, ToldStays DEF Closing, Delivered, Truth
  <2>2. ~Shows(view', Delivered(m))
    BY <1>6, <2>1 DEF Open, Settled, Shows, Delivered, Told
  <2> QED BY <2>1, <2>2 DEF Closing, Told
<1>7. \A q \in Procs : Holds(q)' => Holds(q) /\ call'[q].id = call[q].id
  BY ExecCalls
<1> QED BY <1>1, <1>5, <1>6, <1>7, CopiesStay DEF CopyInv, Findable

(* A repeated send finds what is open, in mailbox.json or in the legacy    *)
(* file.                                                                   *)
LEMMA SendCopies ==
    ASSUME IInv, Truth, CopyInv, NEW p \in Procs, NEW k \in Keys, Send(p, k)
    PROVE  CopyInv'
<1> USE DEF IInv, CopyInv
<1>1. /\ pc[p] = "idle" /\ LockFree
      /\ UNCHANGED <<view, half, logged, legacy, events, exec, unheard, behind>>
  BY DEF Send, History
<1>2. CASE UNCHANGED <<keyOf, pc, call>>
  <2>1. \A m \in Messages : (Open(m)' <=> Open(m)) /\ (Closing(m)' <=> Closing(m))
    BY <1>1, <1>2 DEF Open, Sent, Settled, Announced, Counts, Closing, Told, Shows, Current
  <2> QED BY <1>1, <1>2, <2>1 DEF Findable, OnePerKey, Reserved, Holds
<1>3. CASE ~UNCHANGED <<keyOf, pc, call>>
  <2>1. PICK m \in Messages :
             /\ Copies(Candidates(ReadMailbox), k) = {}
             /\ keyOf[m] = None
             /\ keyOf' = [keyOf EXCEPT ![m] = k]
             /\ Begin(p, m, "CreateMailboxMessage", "create")
    BY <1>3 DEF Send
  <2>2. /\ \A q \in Procs \ {p} : call'[q] = call[q] /\ pc'[q] = pc[q]
        /\ pc'[p] = "create" /\ call'[p].id = m
        /\ keyOf'[m] = k /\ \A n \in Messages \ {m} : keyOf'[n] = keyOf[n]
    BY <2>1 DEF Begin, TypeOK
  <2>3. \A n \in Messages : Sent(n)' => Sent(n) /\ n # m
    BY <1>1, <2>1, <2>2, SentIsSeen DEF Sent, Announced, Counts
  <2>4. \A n \in Messages : (Open(n)' => Open(n) /\ n # m) /\ (Closing(n)' <=> Closing(n))
    BY <1>1, <2>3 DEF Open, Settled, Closing, Told, Shows, Current
  <2>5. ASSUME NEW n \in Messages, Open(n), keyOf[n] = k PROVE Closing(n)
    <3>1. Candidates(ReadMailbox)[n] \notin {"created", "notified"}
      BY <2>1, <2>5 DEF Copies, Undelivered
    <3>2. Candidates(ReadMailbox)[n] = IF ReadMailbox[n] = "none" THEN legacy[n] ELSE ReadMailbox[n]
      BY DEF Candidates
    <3>3. ReadMailbox = IF view = None \/ half THEN legacy ELSE view
      BY DEF ReadMailbox
    <3>4. Settled[n] \in {"created", "notified"} /\ (legacy[n] \in {"created", "notified"} \/ Closing(n))
      BY <2>5 DEF Open, Findable
    <3> QED BY <3>1, <3>2, <3>3, <3>4 DEF Settled
  <2>6. \A q \in Procs : Holds(q)' => q = p
    BY <1>1, <2>2 DEF LockFree, Holds
  <2>7. Findable' /\ OnePerKey'
    BY <1>1, <2>2, <2>4 DEF Findable, OnePerKey
  <2>8. Reserved'
    BY <2>2, <2>4, <2>5, <2>6 DEF Reserved
  <2> QED BY <2>7, <2>8
<1> QED BY <1>2, <1>3

(* The sender that has the lock opens its message.                         *)
LEMMA ShadowCopies ==
    ASSUME IInv, Truth, CopyInv, NEW p \in Procs, Shadow(p)
    PROVE  CopyInv'
<1> USE DEF IInv, CopyInv
<1>0. PICK m \in Messages : m = call[p].id
  BY CallsAreTyped DEF Shadow
<1> DEFINE found == call[p].answered /\ ReadMailbox[m] # "none"
<1>1. /\ pc[p] = "shadow" /\ pc' = [pc EXCEPT ![p] = "announce"]
      /\ legacy' = [call[p].copy EXCEPT ![m] = IF found THEN ReadMailbox[m] ELSE "created"]
      /\ call' = [call EXCEPT ![p].answered = found]
      /\ UNCHANGED <<view, half, logged, keyOf, events, exec, unheard, behind>>
  BY <1>0 DEF Shadow, History
<1>2. /\ call[p] \in Call /\ call[p].copy = legacy /\ legacy[m] = "none"
      /\ \A n \in Messages : Open(n) /\ keyOf[n] = keyOf[m] => Closing(n)
  BY <1>0, <1>1, CallsAreTyped DEF Truth, Locked, Holds, Fresh, Reserved
<1>3. /\ \A q \in Procs \ {p} : call'[q] = call[q] /\ pc'[q] = pc[q]
      /\ pc'[p] = "announce" /\ call'[p].id = m /\ (call'[p].answered => found)
  BY <1>0, <1>1, <1>2 DEF TypeOK, Call
<1>4. \A n \in Messages \ {m} : legacy'[n] = legacy[n]
  BY <1>1, <1>2 DEF TypeOK, R!Mailbox
<1>5. ~Sent(m)
  BY <1>2, SentIsSeen
<1>6. \A n \in Messages \ {m} : Sent(n)' => Sent(n)
  BY <1>1, <1>3 DEF Sent, Announced, Counts
<1>7. Sent(m)' => found \/ view = None
  BY <1>1, <1>3, <1>5 DEF Sent, Announced, Counts
<1>8. \A n \in Messages : Closing(n)' <=> Closing(n)
  BY <1>1 DEF Closing, Told, Shows, Current
<1>9. \A n \in Messages \ {m} : Open(n)' => Open(n)
  BY <1>1, <1>4, <1>6 DEF Open, Settled
<1>10. Sent(m)' => view = None \/ (~half /\ found /\ ReadMailbox = view)
  BY <1>2, <1>7 DEF ReadMailbox
<1>11. Open(m)' => legacy'[m] \in {"created", "notified"}
  <2> SUFFICES ASSUME Open(m)' PROVE legacy'[m] \in {"created", "notified"}
    OBVIOUS
  <2>1. Settled'[m] \in {"created", "notified"} /\ Sent(m)'
    BY DEF Open
  <2>2. CASE view = None
    BY <1>1, <2>1, <2>2 DEF Settled
  <2>3. CASE view # None
    <3>1. found /\ ReadMailbox = view
      BY <1>10, <2>1, <2>3
    <3>2. legacy'[m] = view[m]
      BY <1>1, <1>2, <3>1 DEF TypeOK, R!Mailbox
    <3> QED BY <1>1, <2>1, <2>3, <3>2 DEF Settled
  <2> QED BY <2>2, <2>3
<1>12. \A q \in Procs : ~Holds(q)'
  BY <1>1, <1>3 DEF Truth, Locked, Holds
<1>13. Findable'
  BY <1>4, <1>8, <1>9, <1>11 DEF Findable
<1>14. \A n \in Messages : Open(m)' /\ Open(n)' /\ keyOf[m] = keyOf[n] => m = n
  <2> SUFFICES ASSUME NEW n \in Messages, Open(m)', Open(n)', keyOf[m] = keyOf[n], m # n PROVE FALSE
    OBVIOUS
  <2>1. Closing(n) /\ Sent(m)'
    BY <1>2, <1>9 DEF Open
  <2> QED BY <1>10, <2>1 DEF Closing, Told
<1>15. OnePerKey' /\ Reserved'
  BY <1>1, <1>9, <1>12, <1>14 DEF OnePerKey, Reserved
<1> QED BY <1>13, <1>15

(* What a mark writes back leaves open messages undelivered, but for the   *)
(* one it marks: that one the engine has delivered, or has not heard of.   *)
LEMMA MarkCopies ==
    ASSUME IInv, Truth, CopyInv, NEW p \in Procs, MarkDelivered(p) \/ MarkNotified(p)
    PROVE  CopyInv'
<1> USE DEF IInv, CopyInv
<1>0. PICK m \in Messages : m = call[p].id
  BY CallsAreTyped DEF MarkDelivered, MarkNotified
<1>1. /\ pc[p] = "mark"
      /\ UNCHANGED <<view, half, logged, keyOf, events, exec, behind>>
      /\ unheard \subseteq unheard'
      /\ pc' \in [Procs -> Steps] /\ pc'[p] \in {"idle", "log"}
      /\ \A q \in Procs \ {p} : pc'[q] = pc[q] /\ call'[q] = call[q]
  BY DEF MarkDelivered, MarkNotified, Return, TypeOK, Steps, History
<1>2. /\ ReadMailbox \in R!Mailbox
      /\ ReadMailbox = legacy \/ (view # None /\ ~half /\ ReadMailbox = view)
      /\ view = None \/ half => ReadMailbox = legacy
  BY DEF ReadMailbox, TypeOK
<1>3. \/ legacy' = legacy
      \/ /\ MarkDelivered(p) /\ ReadMailbox[m] # "none"
         /\ legacy' = [ReadMailbox EXCEPT ![m] = "delivered"]
         /\ call[p].kind = "MarkMailboxDelivered" /\ (~call[p].answered => m \in unheard')
      \/ /\ ReadMailbox[m] # "none"
         /\ legacy' = [ReadMailbox EXCEPT ![m] = IF ReadMailbox[m] = "delivered" THEN "delivered" ELSE "notified"]
  BY <1>0 DEF MarkDelivered, MarkNotified
<1>4. \A n \in Messages : (Sent(n)' => Sent(n)) /\ (Closing(n)' <=> Closing(n))
  BY <1>1 DEF Sent, Announced, Counts, Closing, Told, Shows, Current
<1>5. \A q \in Procs : Holds(q)' => Holds(q) /\ call'[q].id = call[q].id
  BY <1>1 DEF Holds
<1>6. \A n \in Messages \ {m} : legacy'[n] \in {legacy[n], ReadMailbox[n]}
  BY <1>2, <1>3 DEF R!Mailbox
<1>7. \/ legacy'[m] = legacy[m]
      \/ /\ legacy'[m] = "delivered"
         /\ call[p].kind = "MarkMailboxDelivered" /\ (~call[p].answered => m \in unheard')
      \/ ReadMailbox[m] = "delivered" /\ legacy'[m] = "delivered"
      \/ ReadMailbox[m] \in {"created", "notified"} /\ legacy'[m] = "notified"
  BY <1>2, <1>3 DEF R!Mailbox, R!MailStatus
<1>8. ASSUME NEW n \in Messages, Open(n)' PROVE Open(n)
  <2>1. Sent(n) /\ n \notin unheard /\ (view # None => view[n] \in {"created", "notified"})
    BY <1>1, <1>4, <1>8 DEF Open, Settled
  <2>2. CASE view # None
    BY <2>1, <2>2 DEF Open, Settled
  <2>3. CASE view = None
    <3>1. legacy'[n] \in {"created", "notified"}
      BY <1>1, <1>8, <2>3 DEF Open, Settled
    <3>2. legacy[n] \in {"created", "notified"}
      BY <1>2, <1>6, <1>7, <2>3, <3>1
    <3> QED BY <2>1, <2>3, <3>2 DEF Open, Settled
  <2> QED BY <2>2, <2>3
<1>9. ASSUME NEW n \in Messages, Open(n)' PROVE legacy'[n] \in {"created", "notified"} \/ Closing(n)
  <2>1. CASE view = None
    BY <1>1, <1>9, <2>1 DEF Open, Settled
  <2>2. CASE view # None
    <3>1. /\ legacy[n] \in {"created", "notified"} \/ Closing(n)
          /\ view[n] \in {"created", "notified"}
      BY <1>8, <1>9, <2>2 DEF Findable, Open, Settled
    <3>2. CASE n # m
      BY <1>2, <1>6, <3>1, <3>2
    <3>3. CASE n = m
      <4>1. ~call[p].answered => m \notin unheard' \/ Closing(n)
        BY <1>9, <3>3 DEF Open
      <4>2. ASSUME call[p].kind = "MarkMailboxDelivered", call[p].answered PROVE Closing(n)
        <5>1. Told(Delivered(m))
          BY <1>0, <1>1, <4>2 DEF Truth, Pending
        <5> QED BY <3>1, <3>3, <5>1 DEF Closing, Told, Shows, Delivered
      <4>3. n \notin unheard'
        BY <1>9 DEF Open
      <4> QED BY <1>2, <1>7, <3>1, <3>3, <4>2, <4>3
    <3> QED BY <3>2, <3>3
  <2> QED BY <2>1, <2>2
<1> QED BY <1>1, <1>4, <1>5, <1>8, <1>9, CopiesStay

(* The steps that write neither file and take no lock.                     *)
LEMMA OtherCopies ==
    ASSUME IInv, Truth, CopyInv, NEW p \in Procs,
           \/ Announce(p) \/ LogDelivered(p) \/ OtherCommand(p) \/ Crash(p)
           \/ \E m \in Messages : BeginDelivered(p, m) \/ BeginNotified(p, m)
    PROVE  CopyInv'
<1> USE DEF IInv, CopyInv
<1>1. /\ UNCHANGED <<view, half, logged, legacy, keyOf, exec, unheard, behind>>
      /\ \A q \in Procs \ {p} : pc'[q] = pc[q] /\ call'[q] = call[q]
      /\ pc'[p] \in {"idle", "exec", "other", "orphan", "log"} \/ (pc'[p] = pc[p] /\ call'[p] = call[p])
  BY DEF Announce, LogDelivered, OtherCommand, Crash, BeginDelivered, BeginNotified, Begin, Return, TypeOK,
     Files, History
<1>2. \A q \in Procs : Holds(q)' => Holds(q) /\ call'[q].id = call[q].id
  BY <1>1 DEF Holds
<1>3. \/ events' = events
      \/ \E x : /\ events' = events \cup {x} /\ x.event = "delivered"
      \/ /\ pc[p] = "announce"
         /\ \E x : /\ events' = events \cup {x} /\ x.id = call[p].id
                   /\ x.transport = "bridge" => call[p].answered
  <2>1. CASE Announce(p)
    <3> DEFINE x == [event |-> "mailbox_created", id |-> call[p].id, transport |-> TransportOf(p)]
    <3>1. events' = events \cup {x} /\ pc[p] = "announce" /\ x.id = call[p].id
      BY <2>1 DEF Announce, LogEntry
    <3>2. x.transport = "bridge" => call[p].answered
      BY DEF TransportOf
    <3> HIDE DEF x
    <3> QED BY <3>1, <3>2
  <2>2. CASE LogDelivered(p)
    <3> DEFINE x == [event |-> "delivered", id |-> call[p].id, transport |-> TransportOf(p)]
    <3>1. events' = events \cup {x} /\ x.event = "delivered"
      BY <2>2 DEF LogDelivered, LogEntry
    <3> HIDE DEF x
    <3> QED BY <3>1
  <2>3. CASE OtherCommand(p) \/ Crash(p) \/ \E m \in Messages : BeginDelivered(p, m) \/ BeginNotified(p, m)
    BY <2>3 DEF OtherCommand, Crash, BeginDelivered, BeginNotified, Files
  <2> QED BY <2>1, <2>2, <2>3
<1>4. Announced' \subseteq Announced \cup
        {n \in {call[p].id} : pc[p] = "announce" /\ (call[p].answered \/ view = None)}
  BY <1>1, <1>3 DEF Announced, Counts
<1>5. \A m \in Messages : Sent(m)' => Sent(m)
  BY <1>1, <1>4 DEF Sent
<1>6. \A m \in Messages : (Open(m)' => Open(m)) /\ (Closing(m)' <=> Closing(m))
  BY <1>1, <1>5 DEF Open, Settled, Closing, Told, Shows, Current
<1> QED BY <1>1, <1>2, <1>6, CopiesStay DEF Findable

LEMMA CopiesStep == CInv /\ [Next]_vars => CInv'
<1> SUFFICES ASSUME CInv, [Next]_vars PROVE lost' \/ CopyInv'
  BY StepHolds DEF CInv
<1>1. CASE UNCHANGED vars
  <2>1. \A m \in Messages : (Open(m)' <=> Open(m)) /\ (Closing(m)' <=> Closing(m))
    BY <1>1 DEF vars, Open, Sent, Settled, Announced, Counts, Closing, Told, Shows, Current
  <2> QED BY <1>1, <2>1 DEF vars, CInv, CopyInv, Findable, OnePerKey, Reserved, Holds
<1>2. ASSUME NEW p \in Procs, RunExec(p), ~lost' PROVE CopyInv'
  <2>1. ~lost
    BY <1>2 DEF RunExec, LoadEngine, Persist, Fill, Reopen, Refill, Failed, SaveEvents, History
  <2>2. ExecOf(p) /\ CopyInv
    BY <1>2, <2>1 DEF CInv, IInv, ExecOf
  <2> QED BY <2>2, ExecCopies
<1>3. ASSUME NEW p \in Procs,
             \/ \E k \in Keys : Send(p, k)
             \/ Shadow(p) \/ MarkDelivered(p) \/ MarkNotified(p)
             \/ Announce(p) \/ LogDelivered(p) \/ OtherCommand(p) \/ Crash(p)
             \/ \E m \in Messages : BeginDelivered(p, m) \/ BeginNotified(p, m)
      PROVE  lost' \/ CopyInv'
  <2>1. lost' = lost
    BY <1>3 DEF Send, Shadow, MarkDelivered, MarkNotified, Announce, LogDelivered, OtherCommand, Crash,
       BeginDelivered, BeginNotified, History
  <2>2. CASE ~lost
    <3>1. IInv /\ Truth /\ CopyInv
      BY <2>2 DEF CInv, IInv
    <3> QED BY <1>3, <3>1, SendCopies, ShadowCopies, MarkCopies, OtherCopies
  <2> QED BY <2>1, <2>2
<1> QED BY <1>1, <1>2, <1>3 DEF Next

(* With the same exception: two messages with one sender and text that     *)
(* were announced are never undelivered at the same time, unless the       *)
(* engine has not heard that one of them was delivered.                    *)
THEOREM SendsAreNotRepeated == Spec => []OneUndeliveredCopy
<1>1. CInv => OneUndeliveredCopy
  BY DEF CInv, CopyInv, OnePerKey, OneUndeliveredCopy, Open, Sent, Undelivered
<1>2. Init => CInv
  BY InitHolds, InitCopies DEF CInv
<1> QED BY <1>1, <1>2, CopiesStep, PTL DEF Spec

-----------------------------------------------------------------------------
(* Delivered messages                                                      *)

DeliveredStay ==
    lost' \/ ((view = None <=> view' = None) =>
        \A m \in Messages : Settled[m] = "delivered" => Settled'[m] = "delivered")

(* As long as there is no mailbox.json, no write to the legacy file takes  *)
(* a delivery back.                                                        *)
LEMMA LegacyDelivered ==
    ASSUME IInv, Truth, [Next]_vars, view = None
    PROVE  \A m \in Messages : legacy[m] = "delivered" => legacy'[m] = "delivered"
<1> USE DEF IInv
<1>1. CASE legacy' = legacy
  BY <1>1
<1>2. ASSUME NEW p \in Procs, Shadow(p)
      PROVE  \A m \in Messages : legacy[m] = "delivered" => legacy'[m] = "delivered"
  <2>1. call[p].id \in Messages /\ call[p].copy = legacy /\ legacy[call[p].id] = "none"
    BY <1>2, CallsAreTyped DEF Shadow, Truth, Locked, Holds, Fresh
  <2>2. \A m \in Messages \ {call[p].id} : legacy'[m] = legacy[m]
    BY <1>2, <2>1 DEF Shadow, TypeOK, R!Mailbox
  <2> QED BY <2>1, <2>2
<1>3. ASSUME NEW p \in Procs, MarkDelivered(p) \/ MarkNotified(p)
      PROVE  \A m \in Messages : legacy[m] = "delivered" => legacy'[m] = "delivered"
  <2>1. pc[p] = "mark" /\ call[p].id \in Messages
    BY <1>3, CallsAreTyped DEF MarkDelivered, MarkNotified
  <2>2. ReadMailbox = legacy
    BY DEF ReadMailbox
  <2> QED BY <1>3, <2>1, <2>2 DEF MarkDelivered, MarkNotified, TypeOK, R!Mailbox
<1>4. ASSUME NEW p \in Procs, RunExec(p) PROVE legacy' = legacy
  BY <1>4, Mechanics
<1>5. ASSUME NEW p \in Procs,
             \/ \E k \in Keys : Send(p, k)
             \/ \E m \in Messages : BeginDelivered(p, m) \/ BeginNotified(p, m)
             \/ Announce(p) \/ LogDelivered(p) \/ OtherCommand(p) \/ Crash(p)
      PROVE  legacy' = legacy
  BY <1>5 DEF Send, BeginDelivered, BeginNotified, Announce, LogDelivered, OtherCommand, Crash, Files
<1>6. CASE UNCHANGED vars
  BY <1>1, <1>6 DEF vars
<1> QED BY <1>1, <1>2, <1>3, <1>4, <1>5, <1>6 DEF Next

(* Once there is one, no command that may write it does.                   *)
LEMMA ViewDelivered ==
    ASSUME IInv, Truth, [Next]_vars, ~lost', view # None
    PROVE  \A m \in Messages : view[m] = "delivered" => view'[m] = "delivered"
<1> USE DEF IInv
<1>1. ASSUME NEW p \in Procs, RunExec(p)
      PROVE  \A m \in Messages : view[m] = "delivered" => view'[m] = "delivered"
  BY <1>1, ViewGrows DEF Truth, Within
<1>2. ASSUME NEW p \in Procs,
             \/ \E k \in Keys : Send(p, k)
             \/ \E m \in Messages : BeginDelivered(p, m) \/ BeginNotified(p, m)
             \/ Shadow(p) \/ Announce(p) \/ MarkDelivered(p) \/ MarkNotified(p) \/ LogDelivered(p)
             \/ OtherCommand(p) \/ Crash(p)
      PROVE  view' = view
  BY <1>2 DEF Send, BeginDelivered, BeginNotified, Shadow, Announce, MarkDelivered, MarkNotified, LogDelivered,
     OtherCommand, Crash, Files
<1>3. CASE UNCHANGED vars
  BY <1>3 DEF vars
<1> QED BY <1>1, <1>2, <1>3 DEF Next

(* With the same exception: a message mailbox.json, or the legacy file     *)
(* before there is one, shows delivered is not handed to a reader again,   *)
(* unless mailbox.json arrives in between.                                 *)
THEOREM DeliveryIsFinal == Spec => DeliveredStaysDelivered
<1>1. ASSUME IInv, [Next]_vars PROVE DeliveredStay
  <2> SUFFICES ASSUME ~lost' PROVE DeliveredStay
    BY DEF DeliveredStay
  <2>1. ~lost
    <3>1. ASSUME NEW p \in Procs, RunExec(p), lost PROVE FALSE
      BY <3>1 DEF RunExec, LoadEngine, Persist, Fill, Reopen, Refill, Failed, SaveEvents, History
    <3>2. CASE UNCHANGED vars
      BY <3>2 DEF vars
    <3> QED BY <1>1, <3>1, <3>2 DEF Next, Send, Shadow, MarkDelivered, MarkNotified, Announce, LogDelivered,
            OtherCommand, Crash, BeginDelivered, BeginNotified, History
  <2>2. IInv /\ Truth
    BY <1>1, <2>1 DEF IInv
  <2> QED BY <1>1, <2>2, LegacyDelivered, ViewDelivered DEF DeliveredStay, Settled
<1>2. IInv /\ [Next]_vars => [DeliveredStay]_vars
  BY <1>1
<1> QED BY InitHolds, StepHolds, <1>2, PTL DEF Spec, DeliveredStaysDelivered, DeliveredStay
=============================================================================
