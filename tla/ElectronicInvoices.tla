------------------------- MODULE ElectronicInvoices -------------------------
(***************************************************************************)
(* Invoices on their way through the tax authority: DianService            *)
(* (src/src/modules/dian/dian.service.ts) sends them and asks for their    *)
(* status, keeps what happened in the JSON column timeline, and sets the   *)
(* status that users set and cancel as well (invoices.service.ts).         *)
(*                                                                         *)
(* DIAN itself is external: it may receive a document and not answer,      *)
(* give it a tracking id or none, and judge it at once or later.           *)
(***************************************************************************)
EXTENDS Naturals, Sequences, FiniteSets

CONSTANTS
    Invoices, Tasks, None,
    Pins,        \* values of the tenant's DIAN software pin
    Mixes,       \* the sets of kinds of request an instance explores
    MaxDocs,     \* bounds the documents DIAN receives
    MaxEvents,   \* bounds the timeline of an invoice
    MaxFaults    \* bounds the statements and calls that fail

ASSUME EInvoiceAssumption ==
    /\ None \notin Invoices \union Pins
    /\ {MaxDocs, MaxEvents, MaxFaults} \subseteq Nat

VARIABLES
    config,    \* the DIAN columns of the tenant
    invoice,   \* Invoice.status per row, "removed" when there is none
    timeline,  \* Invoice.timeline
    docs,      \* the documents DIAN has received, their index is the tracking id
    mailed,    \* CUFEs mailed to a client
    task,
    faults,
    mix,       \* the kinds of request made in this behaviour
    \* history, read by properties only
    overlap,   \* invoices one of whose timelines was written from a stale copy
    lost,      \* documents whose answer could not be recorded
    byHand,    \* invoices whose status a user has set
    cancels    \* cancellations per invoice, at most two

invoicingVars == <<config, invoice, timeline, docs, mailed, task, faults, mix, overlap, lost, byHand, cancels>>
-----------------------------------------------------------------------------
Envs == {"test", "production"}
Statuses == {"emitted", "sent", "accepted", "cancelled"}

\* buildCufe: the hash covers the invoice and the pin, not the attempt.
Cufe(i, pin) == [invoice |-> i, pin |-> pin]

\* TransmissionEvent.
Event(action, status, cufe, track) ==
    [action |-> action, status |-> status, cufe |-> cufe, track |-> track]

IdleTask == [pc |-> "idle", invoice |-> None, cufe |-> None, env |-> None, track |-> None,
             event |-> None, copy |-> <<>>]

AtTask(t, pc) == task[t].pc = pc
Inv(t) == task[t].invoice
Exists(i) == invoice[i] # "removed"
Continue(t, row) == task' = [task EXCEPT ![t] = row]
End(t) == Continue(t, IdleTask)
Idle(t, kind) == kind \in mix /\ AtTask(t, "idle")
LastEvent(i) == timeline[i][Len(timeline[i])]
\* A request appends at most two events.
Room(i) == Len(timeline[i]) + 2 * Cardinality({t \in Tasks : Inv(t) = i}) + 2 <= MaxEvents

\* validateConfig, as far as it has errors: a column is missing.
Valid(c) == c.pin # None

InvoicingInit ==
    /\ config \in [pin : Pins, env : Envs]
    /\ invoice = [i \in Invoices |-> "emitted"]
    /\ timeline = [i \in Invoices |-> <<>>]
    /\ docs = <<>> /\ mailed = {}
    /\ task = [t \in Tasks |-> IdleTask]
    /\ faults = 0 /\ overlap = {} /\ lost = {} /\ byHand = {}
    /\ cancels = [i \in Invoices |-> 0]
    /\ mix \in Mixes

-----------------------------------------------------------------------------
\* sendInvoiceToDian and sendInvoice.  The XML is built from this read of the
\* tenant; a send is not refused because there was one before.
SendRead(t) ==
    /\ Idle(t, "send") /\ Len(docs) < MaxDocs
    /\ \E i \in Invoices :
         /\ Exists(i) /\ Valid(config) /\ Room(i)
         /\ Continue(t, [IdleTask EXCEPT !.pc = "call", !.invoice = i,
                                     !.cufe = Cufe(i, config.pin), !.env = config.env])
    /\ UNCHANGED <<config, invoice, timeline, docs, mailed, faults, overlap, lost, byHand, cancels>>

\* What reaches DIAN: the signed XML, by the CUFE in it, and what becomes of it.
Document(t, verdict, tracked, answered) ==
    [cufe |-> task[t].cufe, env |-> task[t].env, verdict |-> verdict,
     tracked |-> tracked, answered |-> answered]

\* Mutant: any answer counts as a transmission.
Accepted_Any(valid, track) == TRUE
Accepted(valid, track) == valid \/ track # None

\* executeDianSoapCall: DIAN keeps the document; it is answered with a tracking
\* id, judged, or neither.
CallAnswered(t) ==
    /\ AtTask(t, "call") /\ Valid(config) /\ Len(docs) < MaxDocs
    /\ \E tracked \in BOOLEAN, verdict \in {"none", "valid", "invalid"} :
         LET track == IF tracked THEN Len(docs) + 1 ELSE None
             good == Accepted(verdict = "valid", track)
         IN  /\ docs' = Append(docs, Document(t, verdict, tracked, TRUE))
             /\ Continue(t, [task[t] EXCEPT !.pc = "read", !.track = Len(docs) + 1,
                   !.event = Event("send", IF good THEN "sent" ELSE "rejected", task[t].cufe, track)])
    /\ UNCHANGED <<config, invoice, timeline, mailed, faults, overlap, lost, byHand, cancels>>

\* The call fails, before or after DIAN got the document.
CallFails(t) ==
    /\ AtTask(t, "call") /\ "fault" \in mix /\ faults < MaxFaults
    /\ \/ docs' = Append(docs, Document(t, "none", FALSE, FALSE))
       \/ UNCHANGED docs
    /\ faults' = faults + 1
    /\ Continue(t, [task[t] EXCEPT !.pc = "read", !.track = None,
                               !.event = Event("fail", "rejected", task[t].cufe, None)])
    /\ UNCHANGED <<config, invoice, timeline, mailed, overlap, lost, byHand, cancels>>

\* The configuration was emptied since the tenant was read.
CallRefused(t) ==
    /\ AtTask(t, "call") /\ ~Valid(config)
    /\ End(t)
    /\ UNCHANGED <<config, invoice, timeline, docs, mailed, faults, overlap, lost, byHand, cancels>>

-----------------------------------------------------------------------------
\* appendDianTimeline reads the column and writes it back, one event longer.
AppendRead(t) ==
    /\ AtTask(t, "read")
    /\ Continue(t, [task[t] EXCEPT !.pc = "write",
                               !.copy = IF Exists(Inv(t)) THEN timeline[Inv(t)] ELSE <<>>])
    /\ UNCHANGED <<config, invoice, timeline, docs, mailed, faults, overlap, lost, byHand, cancels>>

\* Mutant: only the last event is kept.
Extended_Last(copy, e) == <<e>>
Extended(copy, e) == Append(copy, e)

\* After it: a send sets the status, a failed send is over, an answer to a poll
\* sets the status if the document is valid.
AfterAppend(t) ==
    IF task[t].event.action = "send" \/ task[t].event.status = "accepted"
    THEN Continue(t, [task[t] EXCEPT !.pc = "status", !.copy = <<>>])
    ELSE End(t)

Stale(t) == \E u \in Tasks \ {t} : AtTask(u, "write") /\ Inv(u) = Inv(t)

AppendWrite(t) ==
    /\ AtTask(t, "write") /\ Exists(Inv(t))
    /\ timeline' = [timeline EXCEPT ![Inv(t)] = Extended(task[t].copy, task[t].event)]
    /\ overlap' = IF Stale(t) THEN overlap \union {Inv(t)} ELSE overlap
    /\ AfterAppend(t)
    /\ UNCHANGED <<config, invoice, docs, mailed, faults, lost, byHand, cancels>>

Mailable(e) == e.status = "sent"

NewStatus(e) == CASE e.status = "sent" -> "sent"
                  [] e.status = "rejected" -> "emitted"
                  [] e.status = "accepted" -> "accepted"

\* The status is set whatever it is by now; a transmitted invoice is mailed.
SetStatus(t) ==
    /\ AtTask(t, "status") /\ Exists(Inv(t))
    /\ invoice' = [invoice EXCEPT ![Inv(t)] = NewStatus(task[t].event)]
    /\ mailed' = IF Mailable(task[t].event) THEN mailed \union {task[t].cufe} ELSE mailed
    /\ End(t)
    /\ UNCHANGED <<config, timeline, docs, faults, overlap, lost, byHand, cancels>>

\* A statement on the row fails: always when the row is gone.  A send then
\* appends that it was rejected; a poll and that very append just end.
RowFails(t) ==
    /\ AtTask(t, "write") \/ AtTask(t, "status")
    /\ \/ ~Exists(Inv(t)) /\ UNCHANGED faults
       \/ "fault" \in mix /\ faults < MaxFaults /\ faults' = faults + 1
    /\ IF task[t].event.action = "send"
       THEN Continue(t, [task[t] EXCEPT !.pc = "read", !.copy = <<>>,
                                    !.event = Event("fail", "rejected", task[t].cufe, None)])
       ELSE End(t)
    /\ lost' = IF task[t].event.action = "send" /\ AtTask(t, "write")
               THEN lost \union {task[t].track} ELSE lost
    /\ UNCHANGED <<config, invoice, timeline, docs, mailed, overlap, byHand, cancels>>

\* The process ends.
Crash ==
    /\ "crash" \in mix /\ faults < MaxFaults
    /\ faults' = faults + 1
    /\ lost' = lost \union {task[t].track : t \in {u \in Tasks :
                   task[u].pc \in {"read", "write"} /\ task[u].event.action = "send"}}
    /\ task' = [t \in Tasks |-> IdleTask]
    /\ UNCHANGED <<config, invoice, timeline, docs, mailed, overlap, byHand, cancels>>
-----------------------------------------------------------------------------
\* checkInvoiceStatusInDian: the CUFE of the last event; nothing was sent
\* without one.
PollRead(t) ==
    /\ Idle(t, "poll")
    /\ \E i \in Invoices :
         /\ Exists(i) /\ timeline[i] # <<>> /\ Room(i)
         /\ Continue(t, [IdleTask EXCEPT !.pc = "find", !.invoice = i,
                                     !.cufe = LastEvent(i).cufe, !.env = config.env])
    /\ UNCHANGED <<config, invoice, timeline, docs, mailed, faults, overlap, lost, byHand, cancels>>

Tracked(i) == LastEvent(i).track # None

\* checkInvoiceStatus looks the row up by an event with that CUFE, and takes the
\* tracking id of the row's last event, if it has one.
PollFind(t) ==
    /\ AtTask(t, "find")
    /\ IF /\ Exists(Inv(t))
          /\ \E k \in DOMAIN timeline[Inv(t)] : timeline[Inv(t)][k].cufe = task[t].cufe
          /\ Tracked(Inv(t))
       THEN Continue(t, [task[t] EXCEPT !.pc = "ask", !.track = LastEvent(Inv(t)).track])
       ELSE End(t)
    /\ UNCHANGED <<config, invoice, timeline, docs, mailed, faults, overlap, lost, byHand, cancels>>

\* GetStatus, in the environment the tenant was in.  An error ends the poll.
PollAnswered(t) ==
    /\ AtTask(t, "ask")
    /\ LET d == docs[task[t].track]
           valid == d.verdict = "valid" /\ d.env = task[t].env
       IN  Continue(t, [task[t] EXCEPT !.pc = "read",
                      !.event = Event("status", IF valid THEN "accepted" ELSE "pending",
                                      task[t].cufe, task[t].track)])
    /\ UNCHANGED <<config, invoice, timeline, docs, mailed, faults, overlap, lost, byHand, cancels>>

PollFails(t) ==
    /\ AtTask(t, "ask")
    /\ End(t)
    /\ UNCHANGED <<config, invoice, timeline, docs, mailed, faults, overlap, lost, byHand, cancels>>

\* DIAN judges a document it had not judged.
Judge(k) ==
    /\ docs[k].verdict = "none"
    /\ \E v \in {"valid", "invalid"} : docs' = [docs EXCEPT ![k].verdict = v]
    /\ UNCHANGED <<config, invoice, timeline, mailed, task, faults, overlap, lost, byHand, cancels>>
-----------------------------------------------------------------------------
\* updateConfig.
UpdateConfig ==
    /\ "config" \in mix
    /\ config' \in [pin : Pins \union {None}, env : Envs]
    /\ UNCHANGED <<invoice, timeline, docs, mailed, task, faults, overlap, lost, byHand, cancels>>

\* InvoicesService.updateStatus, with any status the user names.
UpdateStatus(i) ==
    /\ "byHand" \in mix /\ Exists(i)
    /\ \E s \in Statuses : invoice' = [invoice EXCEPT ![i] = s]
    /\ byHand' = byHand \union {i}
    /\ UNCHANGED <<config, timeline, docs, mailed, task, faults, overlap, lost, cancels>>

\* InvoicesService.cancel: refused only if the status is cancelled right now.
\* The goods go back to the stock each time (see Stock).
Cancel(i) ==
    /\ "cancel" \in mix /\ invoice[i] \notin {"cancelled", "removed"}
    /\ cancels[i] < 2
    /\ invoice' = [invoice EXCEPT ![i] = "cancelled"]
    /\ cancels' = [cancels EXCEPT ![i] = @ + 1]
    /\ UNCHANGED <<config, timeline, docs, mailed, task, faults, overlap, lost, byHand>>

Remove(i) ==
    /\ "remove" \in mix /\ Exists(i)
    /\ invoice' = [invoice EXCEPT ![i] = "removed"]
    /\ timeline' = [timeline EXCEPT ![i] = <<>>]
    /\ UNCHANGED <<config, docs, mailed, task, faults, overlap, lost, byHand, cancels>>

Step ==
    \/ \E t \in Tasks :
         \/ SendRead(t) \/ CallAnswered(t) \/ CallFails(t) \/ CallRefused(t)
         \/ AppendRead(t) \/ AppendWrite(t) \/ SetStatus(t) \/ RowFails(t)
         \/ PollRead(t) \/ PollFind(t) \/ PollAnswered(t) \/ PollFails(t)
    \/ \E k \in DOMAIN docs : Judge(k)
    \/ \E i \in Invoices : UpdateStatus(i) \/ Cancel(i) \/ Remove(i)
    \/ UpdateConfig \/ Crash

InvoicingNext == Step /\ UNCHANGED mix

InvoicingSpec == InvoicingInit /\ [][InvoicingNext]_invoicingVars
-----------------------------------------------------------------------------
Cufes == [invoice : Invoices, pin : Pins]
Transmissions ==
    [cufe : Cufes, env : Envs, verdict : {"none", "valid", "invalid"},
     tracked : BOOLEAN, answered : BOOLEAN]
Events ==
    [action : {"send", "fail", "status"}, status : {"sent", "rejected", "accepted", "pending"},
     cufe : Cufes, track : DOMAIN docs \union {None}]

\* Statuses and timelines have the shape the service writes; a tracking id is
\* that of a document DIAN has.
InvoicingTypeOK ==
    /\ invoice \in [Invoices -> Statuses \union {"removed"}]
    /\ docs \in Seq(Transmissions)
    /\ DOMAIN timeline = Invoices /\ \A i \in Invoices : timeline[i] \in Seq(Events)
    /\ config \in [pin : Pins \union {None}, env : Envs] /\ mailed \subseteq Cufes
    /\ \A t \in Tasks : AtTask(t, "ask") => task[t].track \in DOMAIN docs

\* Whatever overlaps or fails, the service never says more of an invoice than
\* DIAN did: `sent' goes back to a document DIAN took in, `accepted' to one it
\* found valid, both of this very invoice.
StatusIsBacked ==
    \A i \in Invoices \ byHand :
       LET Of(d) == docs[d].cufe.invoice = i
       IN  /\ invoice[i] = "sent" =>
                \E d \in DOMAIN docs : Of(d) /\ (docs[d].tracked \/ docs[d].verdict = "valid")
           /\ invoice[i] = "accepted" =>
                \E d \in DOMAIN docs : Of(d) /\ docs[d].verdict = "valid"

\* A document DIAN took in and answered for is in the timeline of its invoice
\* when its request is over, unless a statement failed meanwhile or two events
\* of the invoice were written from the same copy of the column.
AnswerRecorded ==
    \A d \in DOMAIN docs :
       LET i == docs[d].cufe.invoice
       IN  \/ ~docs[d].answered \/ d \in lost \/ i \in overlap \/ ~Exists(i)
           \/ \E t \in Tasks : task[t].pc \in {"read", "write"} /\ task[t].track = d
           \/ \E k \in DOMAIN timeline[i] :
                /\ timeline[i][k].action = "send" /\ timeline[i][k].cufe = docs[d].cufe
                /\ timeline[i][k].track = (IF docs[d].tracked THEN d ELSE None)

\* The client is mailed an invoice only when its transmission is on record.
MailFollowsRecord ==
    \A c \in mailed : LET i == c.invoice
                      IN  \/ i \in overlap \/ ~Exists(i)
                          \/ \E k \in DOMAIN timeline[i] : /\ timeline[i][k].cufe = c
                                                           /\ timeline[i][k].status = "sent"

\* What a transmission did is on record, with tracking ids that exist: the DIAN's
\* answer, and what the client was told.
RecordComplete == InvoicingTypeOK /\ AnswerRecorded /\ MailFollowsRecord

-----------------------------------------------------------------------------
\* Why these hold: an invariant that is inductive.

\* What the service knows of invoice i goes back to documents of i.
SentOnes(i) == {d \in DOMAIN docs : docs[d].cufe.invoice = i /\ (docs[d].tracked \/ docs[d].verdict = "valid")}
ValidOnes(i) == {d \in DOMAIN docs : docs[d].cufe.invoice = i /\ docs[d].verdict = "valid"}
Sound(i, e) ==
    /\ e \in Events /\ e.cufe.invoice = i
    /\ e.track # None => docs[e.track].cufe.invoice = i
    /\ e.action = "send" => e.status \in {"sent", "rejected"}
    /\ e.action = "fail" => e.status = "rejected"
    /\ e.action = "status" => e.status \in {"accepted", "pending"}
    /\ e.status = "sent" => SentOnes(i) # {}
    /\ e.status = "accepted" => ValidOnes(i) # {}
TimelinesSound == \A i \in Invoices : \A k \in DOMAIN timeline[i] : Sound(i, timeline[i][k])

\* An answer is in its timeline, or with the request that will append it; a
\* transmission the client is told of is.
Recorded(d) ==
    \E k \in DOMAIN timeline[docs[d].cufe.invoice] :
       LET e == timeline[docs[d].cufe.invoice][k]
       IN  /\ e.action = "send" /\ e.cufe = docs[d].cufe
           /\ e.track = IF docs[d].tracked THEN d ELSE None
Recording(c, d) ==
    /\ c.pc \in {"read", "write"} /\ c.event.action = "send" /\ c.track = d
    /\ c.event.cufe = docs[d].cufe /\ c.event.track = IF docs[d].tracked THEN d ELSE None
ToldSent(c) == \E k \in DOMAIN timeline[c.invoice] : /\ timeline[c.invoice][k].cufe = c
                                                    /\ timeline[c.invoice][k].status = "sent"

\* What a request carries.
TaskSound(c) ==
    /\ c = [pc |-> c.pc, invoice |-> c.invoice, cufe |-> c.cufe, env |-> c.env, track |-> c.track,
            event |-> c.event, copy |-> c.copy]
    /\ c.pc \in {"idle", "call", "find", "ask", "read", "write", "status"}
    /\ c.pc # "idle" => c.invoice \in Invoices /\ c.cufe \in Cufes /\ c.cufe.invoice = c.invoice /\ c.env \in Envs
    /\ c.pc = "ask" => c.track \in DOMAIN docs /\ docs[c.track].cufe.invoice = c.invoice
    /\ c.pc \in {"read", "write", "status"} => Sound(c.invoice, c.event) /\ c.event.cufe = c.cufe
    /\ c.pc \in {"read", "write"} /\ c.event.action = "send" => c.track \in DOMAIN docs /\ Recording(c, c.track)
    /\ c.pc = "write" =>
         /\ c.copy \in Seq(Events) /\ \A k \in DOMAIN c.copy : Sound(c.invoice, c.copy[k])
         /\ Exists(c.invoice) => c.copy = timeline[c.invoice] \/ c.invoice \in overlap
    /\ c.pc = "status" =>
         /\ c.event.status # "pending"
         /\ c.event.status = "sent" => c.invoice \in overlap \/ ~Exists(c.invoice) \/ ToldSent(c.cufe)
TasksSound == DOMAIN task = Tasks /\ \A t \in Tasks : TaskSound(task[t])

\* An answer that is not in the timeline yet is carried by the request it went to.
AnswerKept(d) ==
    LET i == docs[d].cufe.invoice
    IN  \/ ~docs[d].answered \/ d \in lost \/ i \in overlap \/ ~Exists(i)
        \/ \E t \in Tasks : Recording(task[t], d)
        \/ Recorded(d)
AnswersKept == \A d \in DOMAIN docs : AnswerKept(d)

InvoicingInv ==
    InvoicingTypeOK /\ TimelinesSound /\ TasksSound /\ StatusIsBacked /\ AnswersKept /\ MailFollowsRecord
=============================================================================
