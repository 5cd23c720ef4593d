---------------------------- MODULE AfterPayment ----------------------------
(***************************************************************************)
(* What SubscriptionsController does around the booking of a payment       *)
(* (src/src/modules/subscriptions/subscriptions.controller.ts): the mail   *)
(* with the invoice, the transmission of it to the DIAN and the mail of    *)
(* welcome, after the transaction; and the complaint about a payment that  *)
(* failed.  The booking itself, which Subscriptions models statement by    *)
(* statement, is one step here.                                            *)
(*                                                                         *)
(* Wompi delivers an event again until it is answered.  None of the steps  *)
(* after the booking is part of its transaction, and an error of one does  *)
(* not keep the next one from being tried.                                 *)
(***************************************************************************)
EXTENDS Naturals, FiniteSets

CONSTANTS
    Transactions,
    Deliveries,   \* concurrent calls of wompiWebhook
    MaxComplaints,\* bound of the deliveries of a failed payment
    NoTransaction

ASSUME AfterPaymentAssumption == NoTransaction \notin Transactions

VARIABLES
    delivery,   \* the calls: [pc, transaction]
    bookedTx,   \* transactions with a Payment and a SubscriptionInvoice
    effects,    \* history: how often each effect of a transaction happened
    dianStatus  \* SubscriptionInvoice.dianStatus, with its entries in timeline

afterPaymentVars == <<delivery, bookedTx, effects, dianStatus>>
-----------------------------------------------------------------------------
Effects == {"invoice mail", "transmission", "welcome", "complaint"}
IdleDelivery == [pc |-> "idle", transaction |-> NoTransaction]

AfterPaymentInit ==
    /\ delivery = [d \in Deliveries |-> IdleDelivery]
    /\ bookedTx = {}
    /\ effects = [x \in Transactions |-> [e \in Effects |-> 0]]
    /\ dianStatus = [x \in Transactions |-> [status |-> "none", timeline |-> 0]]

Happens(d, effect) == effects' = [effects EXCEPT ![delivery[d].transaction][effect] = @ + 1]

\* A step is tried, comes to its effect or not, and the next one follows.
Attempt(d, from, to, effect) ==
    /\ delivery[d].pc = from
    /\ delivery' = [delivery EXCEPT ![d].pc = to]
    /\ Happens(d, effect) \/ UNCHANGED effects
    /\ UNCHANGED bookedTx

DeliverEvent(d, x, pc) ==
    /\ delivery[d].pc = "idle"
    /\ delivery' = [delivery EXCEPT ![d] = [pc |-> pc, transaction |-> x]]
    /\ UNCHANGED <<bookedTx, effects, dianStatus>>

\* An event of a transaction that is not approved is not looked up: a payment
\* that is voided after its approval stays booked.
Approved(d, x) == DeliverEvent(d, x, "book")
Declined(d, x) == effects[x]["complaint"] < MaxComplaints /\ DeliverEvent(d, x, "complain")

\* A transaction that is booked ends the call, be it found before or by the
\* unique index of the insert.
AfterBooking_Again(x) == "mail"   \* Mutant: its invoice is looked up, and sent.
AfterBooking(x) == IF x \in bookedTx THEN "idle" ELSE "mail"

BookPayment(d) ==
    LET x == delivery[d].transaction IN
    /\ delivery[d].pc = "book"
    /\ bookedTx' = bookedTx \union {x}
    /\ delivery' = [delivery EXCEPT ![d].pc = AfterBooking(x)]
    /\ UNCHANGED <<effects, dianStatus>>

\* Not sent if the company has no administrator, or if an error is caught.
SendInvoiceEmail(d) ==
    /\ Attempt(d, "mail", "issue", "invoice mail")
    /\ UNCHANGED dianStatus

\* Left out without a configuration, or for a company that is gone.
SkipIssue(d) ==
    /\ delivery[d].pc = "issue"
    /\ delivery' = [delivery EXCEPT ![d].pc = "welcome"]
    /\ UNCHANGED <<bookedTx, effects, dianStatus>>

\* The DIAN may have the invoice without an answer getting here.
SendInvoice(d) ==
    /\ \E to \in {"record", "welcome"} : Attempt(d, "issue", to, "transmission")
    /\ UNCHANGED dianStatus

\* The answer is appended to the timeline that was read; or it is lost.
RecordAnswer(d) ==
    LET x == delivery[d].transaction IN
    /\ delivery[d].pc = "record"
    /\ delivery' = [delivery EXCEPT ![d].pc = "welcome"]
    /\ \/ \E status \in {"accepted", "rejected"} :
            dianStatus' = [dianStatus EXCEPT ![x] =
                [status |-> status, timeline |-> @.timeline + 1]]
       \/ UNCHANGED dianStatus
    /\ UNCHANGED <<bookedTx, effects>>

SendWelcomeEmail(d) ==
    /\ Attempt(d, "welcome", "idle", "welcome")
    /\ UNCHANGED dianStatus

\* The event goes to the log first; whatever fails is caught.
HandleFailedPayment(d) ==
    /\ Attempt(d, "complain", "idle", "complaint")
    /\ UNCHANGED dianStatus

\* What is not done after a booking is never done: the next delivery finds the
\* payment.
RestartAll ==
    /\ delivery' = [d \in Deliveries |-> IdleDelivery]
    /\ UNCHANGED <<bookedTx, effects, dianStatus>>

AfterPaymentNext ==
    \/ \E d \in Deliveries :
         \/ \E x \in Transactions : Approved(d, x) \/ Declined(d, x)
         \/ BookPayment(d) \/ SendInvoiceEmail(d) \/ SkipIssue(d) \/ SendInvoice(d) \/ RecordAnswer(d)
         \/ SendWelcomeEmail(d) \/ HandleFailedPayment(d)
    \/ RestartAll

AfterPaymentSpec == AfterPaymentInit /\ [][AfterPaymentNext]_afterPaymentVars
-----------------------------------------------------------------------------
\* However often and however concurrently an approval is delivered, and wherever
\* the process stops, each effect of a payment happens at most once, and only
\* after it was booked; and an answer of the DIAN is recorded at most once.
EffectsOnce == \A x \in Transactions :
    /\ \A e \in Effects \ {"complaint"} : effects[x][e] <= IF x \in bookedTx THEN 1 ELSE 0
    /\ dianStatus[x].timeline <= 1

-----------------------------------------------------------------------------
\* Why EffectsOnce holds: an invariant that is inductive.
StepsAfter == {"mail", "issue", "record", "welcome"}

AfterPaymentTypeOK ==
    /\ delivery \in [Deliveries -> [pc : {"idle", "book", "complain"} \union StepsAfter,
                                    transaction : Transactions \union {NoTransaction}]]
    /\ \A d \in Deliveries : delivery[d].pc # "idle" => delivery[d].transaction \in Transactions
    /\ bookedTx \subseteq Transactions
    /\ effects \in [Transactions -> [Effects -> Nat]]
    /\ dianStatus \in [Transactions -> [status : {"none", "accepted", "rejected"}, timeline : Nat]]

\* Past the booking there is one call at most for a payment: the one that booked it.
GoingOn == {d \in Deliveries : delivery[d].pc \in StepsAfter}
OneGoesOn == \A d, e \in GoingOn : delivery[d].transaction = delivery[e].transaction => d = e

\* The effects that a call has still ahead of it.
Ahead(pc) ==
    CASE pc = "mail" -> Effects \ {"complaint"}
      [] pc = "issue" -> {"transmission", "welcome"}
      [] OTHER -> {"welcome"}

\* A call that goes on does so for a payment that is booked, and what is ahead of
\* it has not happened.
AheadOpen == \A d \in GoingOn :
    LET x == delivery[d].transaction IN
    /\ x \in bookedTx
    /\ \A e \in Ahead(delivery[d].pc) : effects[x][e] = 0
    /\ delivery[d].pc # "welcome" => dianStatus[x].timeline = 0

\* No answer is recorded for a payment that is not booked.
AnsweredAfterBooking == \A x \in Transactions \ bookedTx : dianStatus[x].timeline = 0

AfterPaymentInv == AfterPaymentTypeOK /\ OneGoesOn /\ AheadOpen /\ AnsweredAfterBooking /\ EffectsOnce
=============================================================================
