--------------------------- MODULE DocumentProofs ---------------------------
(***************************************************************************)
(* Proofs about AfterPayment, Approvals, ElectronicInvoices and Treasury:  *)
(* what a payment sets off, what an approved document leaves behind, what  *)
(* is on record of an invoice sent to DIAN, and what the books add up to,  *)
(* for every number of deliveries, calls, requests, parties, documents,    *)
(* invoices, payments and entries.                                         *)
(***************************************************************************)
EXTENDS AfterPayment, Approvals, ElectronicInvoices, Treasury,
    FiniteSetTheorems, SequenceTheorems, WellFoundedInduction, TLAPS
-----------------------------------------------------------------------------
\* After a payment: the effects happen once.

\* The initial states are in the invariant.
LEMMA PaymentsInit == AfterPaymentInit => AfterPaymentInv
<1> SUFFICES ASSUME AfterPaymentInit PROVE AfterPaymentInv
  OBVIOUS
<1>1. AfterPaymentTypeOK
  BY DEF AfterPaymentInit, IdleDelivery, AfterPaymentTypeOK
<1>2. GoingOn = {}
  BY DEF AfterPaymentInit, IdleDelivery, GoingOn, StepsAfter
<1>3. OneGoesOn /\ AheadOpen
  BY <1>2 DEF OneGoesOn, AheadOpen
<1>4. AnsweredAfterBooking /\ EffectsOnce
  BY DEF AfterPaymentInit, AnsweredAfterBooking, EffectsOnce
<1> QED
  BY <1>1, <1>3, <1>4 DEF AfterPaymentInv

\* A call that moves to another step, or takes a payment, leaves the others
\* where they are.
LEMMA DeliveryMoves ==
  ASSUME AfterPaymentTypeOK, NEW d \in Deliveries, delivery[d].pc # "idle",
         NEW pc \in {"idle", "book", "complain"} \union StepsAfter,
         delivery' = [delivery EXCEPT ![d].pc = pc]
  PROVE  /\ delivery' \in [Deliveries -> [pc : {"idle", "book", "complain"} \union StepsAfter,
                                          transaction : Transactions \union {NoTransaction}]]
         /\ delivery'[d].pc = pc /\ delivery'[d].transaction = delivery[d].transaction
         /\ \A o \in Deliveries \ {d} : delivery'[o] = delivery[o]
         /\ \A o \in Deliveries : delivery'[o].pc # "idle" => delivery'[o].transaction \in Transactions
  BY DEF AfterPaymentTypeOK

\* A call that goes on from a step to a later one, with at most an effect that
\* was ahead of it.
LEMMA GoesOn ==
  ASSUME AfterPaymentInv, NEW d \in GoingOn, NEW pc \in StepsAfter \union {"idle"},
         delivery' = [delivery EXCEPT ![d].pc = pc],
         UNCHANGED bookedTx,
         delivery[d].pc = "welcome" => pc = "idle",
         pc # "idle" => Ahead(pc) \subseteq Ahead(delivery[d].pc),
         effects' \in [Transactions -> [Effects -> Nat]],
         \A x \in Transactions, e \in Effects :
            \/ effects'[x][e] = effects[x][e]
            \/ /\ x = delivery[d].transaction /\ e \in Ahead(delivery[d].pc)
               /\ pc # "idle" => e \notin Ahead(pc)
               /\ effects'[x][e] = effects[x][e] + 1,
         dianStatus' \in [Transactions -> [status : {"none", "accepted", "rejected"}, timeline : Nat]],
         \A x \in Transactions :
            \/ dianStatus'[x] = dianStatus[x]
            \/ /\ x = delivery[d].transaction /\ delivery[d].pc # "welcome" /\ pc \in {"welcome", "idle"}
               /\ dianStatus'[x].timeline = dianStatus[x].timeline + 1
  PROVE  AfterPaymentInv'
<1> USE DEF AfterPaymentInv, AfterPaymentTypeOK
<1> DEFINE t == delivery[d].transaction
<1>1. /\ d \in Deliveries /\ t \in bookedTx /\ t \in Transactions
      /\ \A e \in Ahead(delivery[d].pc) : effects[t][e] = 0
      /\ delivery[d].pc # "welcome" => dianStatus[t].timeline = 0
  BY DEF AheadOpen, GoingOn, StepsAfter
<1>2. /\ AfterPaymentTypeOK'
      /\ delivery'[d].pc = pc /\ delivery'[d].transaction = t
      /\ \A o \in Deliveries \ {d} : delivery'[o] = delivery[o]
  <2>1. delivery[d].pc # "idle" /\ pc \in {"idle", "book", "complain"} \union StepsAfter
    BY DEF GoingOn, StepsAfter
  <2> QED
    BY <1>1, <2>1, DeliveryMoves
<1>3. \A o \in GoingOn' : o \in GoingOn /\ delivery'[o].transaction = delivery[o].transaction
  BY <1>1, <1>2 DEF GoingOn
<1>4. OneGoesOn'
  BY <1>3 DEF OneGoesOn
<1>5. AheadOpen'
  <2> SUFFICES ASSUME NEW o \in GoingOn'
               PROVE  /\ delivery'[o].transaction \in bookedTx'
                      /\ \A e \in Ahead(delivery'[o].pc) : effects'[delivery'[o].transaction][e] = 0
                      /\ delivery'[o].pc # "welcome" => dianStatus'[delivery'[o].transaction].timeline = 0
    BY DEF AheadOpen
  <2>1. CASE o = d
    <3>1. pc # "idle"
      BY <1>2, <2>1 DEF GoingOn, StepsAfter
    <3>2. \A e \in Ahead(pc) : e \in Effects /\ effects[t][e] = 0
      BY <1>1, <3>1 DEF Ahead, Effects
    <3>3. \A e \in Ahead(pc) : effects'[t][e] = 0
      BY <1>1, <3>1, <3>2
    <3>4. pc # "welcome" => dianStatus'[t].timeline = 0
      BY <1>1, <3>1
    <3> QED
      BY <1>1, <1>2, <2>1, <3>3, <3>4
  <2>2. CASE o # d
    <3>1. o \in GoingOn /\ delivery'[o] = delivery[o] /\ delivery[o].transaction # t
      BY <1>2, <1>3, <2>2 DEF OneGoesOn, GoingOn
    <3>2. delivery[o].transaction \in Transactions /\ \A e \in Ahead(delivery[o].pc) : e \in Effects
      BY <3>1 DEF GoingOn, StepsAfter, Ahead, Effects
    <3> QED
      BY <3>1, <3>2 DEF AheadOpen
  <2> QED
    BY <2>1, <2>2
<1>6. AnsweredAfterBooking'
  BY <1>1 DEF AnsweredAfterBooking
<1>7. EffectsOnce'
  <2> SUFFICES ASSUME NEW x \in Transactions
               PROVE  /\ \A e \in Effects \ {"complaint"} : effects'[x][e] <= IF x \in bookedTx THEN 1 ELSE 0
                      /\ dianStatus'[x].timeline <= 1
    BY DEF EffectsOnce
  <2>1. CASE x = t
    <3>1. ASSUME NEW e \in Effects \ {"complaint"} PROVE effects'[x][e] <= 1
      <4>1. CASE e \in Ahead(delivery[d].pc)
        BY <1>1, <2>1, <4>1
      <4>2. CASE e \notin Ahead(delivery[d].pc)
        BY <1>1, <2>1, <4>2 DEF EffectsOnce
      <4> QED
        BY <4>1, <4>2
    <3>2. dianStatus'[x].timeline <= 1
      BY <1>1, <2>1 DEF EffectsOnce
    <3> QED
      BY <1>1, <2>1, <3>1, <3>2
  <2>2. CASE x # t
    BY <2>2 DEF EffectsOnce
  <2> QED
    BY <2>1, <2>2
<1> QED
  BY <1>2, <1>4, <1>5, <1>6, <1>7

\* Every step, and every stutter, keeps the invariant.
LEMMA PaymentsNext == AfterPaymentInv /\ [AfterPaymentNext]_afterPaymentVars => AfterPaymentInv'
<1> SUFFICES ASSUME AfterPaymentInv, [AfterPaymentNext]_afterPaymentVars PROVE AfterPaymentInv'
  OBVIOUS
<1> USE DEF AfterPaymentInv, AfterPaymentTypeOK
<1>1. ASSUME NEW d \in Deliveries, NEW x \in Transactions, Approved(d, x) \/ Declined(d, x)
      PROVE  AfterPaymentInv'
  <2>1. PICK pc \in {"book", "complain"} : DeliverEvent(d, x, pc)
    BY <1>1 DEF Approved, Declined
  <2>2. AfterPaymentTypeOK'
    BY <2>1 DEF DeliverEvent
  <2>3. /\ GoingOn' \subseteq GoingOn /\ UNCHANGED <<bookedTx, effects, dianStatus>>
        /\ \A o \in GoingOn' : delivery'[o] = delivery[o]
    BY <2>1 DEF DeliverEvent, GoingOn, StepsAfter
  <2> QED
    BY <2>2, <2>3 DEF OneGoesOn, AheadOpen, AnsweredAfterBooking, EffectsOnce
<1>2. ASSUME NEW d \in Deliveries, BookPayment(d) PROVE AfterPaymentInv'
  <2> DEFINE x == delivery[d].transaction
             pc == AfterBooking(x)
  <2>1. /\ delivery[d].pc = "book" /\ x \in Transactions /\ d \notin GoingOn
        /\ delivery' = [delivery EXCEPT ![d].pc = pc]
        /\ bookedTx' = bookedTx \union {x} /\ UNCHANGED <<effects, dianStatus>>
    BY <1>2 DEF BookPayment, GoingOn, StepsAfter
  <2>2. pc = (IF x \in bookedTx THEN "idle" ELSE "mail")
    BY DEF AfterBooking
  <2> HIDE DEF pc
  <2>3. /\ AfterPaymentTypeOK'
        /\ delivery'[d].pc = pc /\ delivery'[d].transaction = x
        /\ \A o \in Deliveries \ {d} : delivery'[o] = delivery[o]
    <3>1. delivery[d].pc # "idle" /\ pc \in {"idle", "book", "complain"} \union StepsAfter
      BY <2>1, <2>2 DEF StepsAfter
    <3> QED
      BY <2>1, <3>1, DeliveryMoves
  <2>4. \A e \in Effects : x \notin bookedTx => effects[x][e] = 0 \/ e = "complaint"
    BY <2>1 DEF EffectsOnce
  <2>5. \A o \in GoingOn' : \/ o \in GoingOn /\ delivery'[o] = delivery[o]
                            \/ o = d /\ x \notin bookedTx /\ delivery'[o].pc = "mail"
    BY <2>2, <2>3 DEF GoingOn, StepsAfter
  <2>6. OneGoesOn'
    BY <2>1, <2>3, <2>5 DEF OneGoesOn, AheadOpen
  <2>7. AheadOpen'
    <3> SUFFICES ASSUME NEW o \in GoingOn'
                 PROVE  /\ delivery'[o].transaction \in bookedTx'
                        /\ \A e \in Ahead(delivery'[o].pc) : effects'[delivery'[o].transaction][e] = 0
                        /\ delivery'[o].pc # "welcome" => dianStatus'[delivery'[o].transaction].timeline = 0
      BY DEF AheadOpen
    <3>1. CASE o \in GoingOn /\ delivery'[o] = delivery[o]
      BY <2>1, <3>1 DEF AheadOpen
    <3>2. CASE o = d /\ x \notin bookedTx /\ delivery'[o].pc = "mail"
      <4>1. Ahead("mail") = Effects \ {"complaint"}
        BY DEF Ahead
      <4> QED
        BY <2>1, <2>3, <2>4, <3>2, <4>1 DEF AnsweredAfterBooking
    <3> QED
      BY <2>5, <3>1, <3>2
  <2>8. AnsweredAfterBooking'
    BY <2>1 DEF AnsweredAfterBooking
  <2>9. EffectsOnce'
    BY <2>1 DEF EffectsOnce
  <2> QED
    BY <2>3, <2>6, <2>7, <2>8, <2>9
<1>3. ASSUME NEW d \in Deliveries, NEW from \in StepsAfter, NEW to \in StepsAfter \union {"idle"},
             NEW effect \in Ahead(from), Attempt(d, from, to, effect), UNCHANGED dianStatus,
             from = "welcome" => to = "idle",
             to # "idle" => effect \notin Ahead(to) /\ Ahead(to) \subseteq Ahead(from)
      PROVE  AfterPaymentInv'
  <2> DEFINE t == delivery[d].transaction
  <2>1. /\ d \in GoingOn /\ delivery[d].pc = from /\ t \in Transactions /\ effect \in Effects
        /\ delivery' = [delivery EXCEPT ![d].pc = to] /\ UNCHANGED bookedTx
    BY <1>3 DEF Attempt, GoingOn, StepsAfter, Ahead, Effects
  <2>2. effects' \in [Transactions -> [Effects -> Nat]]
    BY <1>3, <2>1 DEF Attempt, Happens
  <2>3. \A x \in Transactions, e \in Effects :
          \/ effects'[x][e] = effects[x][e]
          \/ /\ x = delivery[d].transaction /\ e \in Ahead(delivery[d].pc)
             /\ to # "idle" => e \notin Ahead(to)
             /\ effects'[x][e] = effects[x][e] + 1
    BY <1>3, <2>1 DEF Attempt, Happens
  <2>4. to # "idle" => Ahead(to) \subseteq Ahead(delivery[d].pc)
    BY <1>3, <2>1
  <2>5. \A x \in Transactions : dianStatus'[x] = dianStatus[x]
    BY <1>3
  <2> QED
    BY <1>3, <2>1, <2>2, <2>3, <2>4, <2>5, GoesOn
<1>4. ASSUME NEW d \in Deliveries,
             SendInvoiceEmail(d) \/ SendInvoice(d) \/ SendWelcomeEmail(d)
      PROVE  AfterPaymentInv'
  <2>1. CASE SendInvoiceEmail(d)
    <3>1. "invoice mail" \in Ahead("mail") /\ "invoice mail" \notin Ahead("issue")
          /\ Ahead("issue") \subseteq Ahead("mail") /\ "mail" \in StepsAfter /\ "issue" \in StepsAfter
      BY DEF Ahead, Effects, StepsAfter
    <3> QED
      BY <1>3, <2>1, <3>1 DEF SendInvoiceEmail
  <2>2. CASE SendInvoice(d)
    <3>1. PICK to \in {"record", "welcome"} : Attempt(d, "issue", to, "transmission")
      BY <2>2 DEF SendInvoice
    <3>2. "transmission" \in Ahead("issue") /\ "transmission" \notin Ahead(to)
          /\ Ahead(to) \subseteq Ahead("issue") /\ "issue" \in StepsAfter /\ to \in StepsAfter
      BY DEF Ahead, Effects, StepsAfter
    <3> QED
      BY <1>3, <2>2, <3>1, <3>2 DEF SendInvoice
  <2>3. CASE SendWelcomeEmail(d)
    <3>1. "welcome" \in Ahead("welcome") /\ "welcome" \in StepsAfter
      BY DEF Ahead, StepsAfter
    <3> QED
      BY <1>3, <2>3, <3>1 DEF SendWelcomeEmail
  <2> QED
    BY <1>4, <2>1, <2>2, <2>3
<1>5. ASSUME NEW d \in Deliveries, SkipIssue(d) \/ RecordAnswer(d)
      PROVE  AfterPaymentInv'
  <2> DEFINE t == delivery[d].transaction
  <2>1. /\ d \in GoingOn /\ delivery[d].pc \in {"issue", "record"} /\ t \in Transactions
        /\ delivery' = [delivery EXCEPT ![d].pc = "welcome"] /\ UNCHANGED <<bookedTx, effects>>
    BY <1>5 DEF SkipIssue, RecordAnswer, GoingOn, StepsAfter
  <2>2. \/ UNCHANGED dianStatus
        \/ \E status \in {"accepted", "rejected"} :
             dianStatus' = [dianStatus EXCEPT ![t] = [status |-> status, timeline |-> @.timeline + 1]]
    BY <1>5 DEF SkipIssue, RecordAnswer
  <2>3. /\ dianStatus' \in [Transactions -> [status : {"none", "accepted", "rejected"}, timeline : Nat]]
        /\ \A x \in Transactions :
             \/ dianStatus'[x] = dianStatus[x]
             \/ x = t /\ dianStatus'[x].timeline = dianStatus[x].timeline + 1
    <3>1. CASE UNCHANGED dianStatus
      BY <3>1
    <3>2. ASSUME NEW status \in {"accepted", "rejected"},
                 dianStatus' = [dianStatus EXCEPT ![t] = [status |-> status, timeline |-> @.timeline + 1]]
          PROVE  <2>3
      <4>1. dianStatus[t].timeline + 1 \in Nat
        BY <2>1
      <4> QED
        BY <2>1, <3>2, <4>1
    <3> QED
      BY <2>2, <3>1, <3>2
  <2>4. /\ "welcome" \in StepsAfter \union {"idle"}
        /\ Ahead("welcome") \subseteq Ahead(delivery[d].pc)
    BY <2>1 DEF Ahead, StepsAfter
  <2>5. \A x \in Transactions, e \in Effects : effects'[x][e] = effects[x][e]
    BY <2>1
  <2> QED
    BY <2>1, <2>3, <2>4, <2>5, GoesOn
<1>6. ASSUME NEW d \in Deliveries, HandleFailedPayment(d) PROVE AfterPaymentInv'
  <2> DEFINE t == delivery[d].transaction
  <2>1. /\ delivery[d].pc = "complain" /\ t \in Transactions
        /\ delivery' = [delivery EXCEPT ![d].pc = "idle"] /\ UNCHANGED <<bookedTx, dianStatus>>
        /\ effects' = [effects EXCEPT ![t]["complaint"] = @ + 1] \/ UNCHANGED effects
    BY <1>6 DEF HandleFailedPayment, Attempt, Happens
  <2>2. /\ effects' \in [Transactions -> [Effects -> Nat]]
        /\ \A x \in Transactions, e \in Effects \ {"complaint"} : effects'[x][e] = effects[x][e]
    <3>1. "complaint" \in Effects
      BY DEF Effects
    <3>2. CASE UNCHANGED effects
      BY <3>2
    <3>3. CASE effects' = [effects EXCEPT ![t]["complaint"] = @ + 1]
      <4> DEFINE row == [effects[t] EXCEPT !["complaint"] = @ + 1]
      <4>1. row \in [Effects -> Nat] /\ \A e \in Effects \ {"complaint"} : row[e] = effects[t][e]
        BY <2>1, <3>1
      <4>2. effects' = [effects EXCEPT ![t] = row]
        BY <2>1, <3>3
      <4> HIDE DEF row
      <4> QED
        BY <2>1, <4>1, <4>2
    <3> QED
      BY <2>1, <3>2, <3>3
  <2>3. AfterPaymentTypeOK' /\ \A o \in GoingOn' : o \in GoingOn /\ delivery'[o] = delivery[o]
    <3>1. delivery[d].pc # "idle" /\ "idle" \in {"idle", "book", "complain"} \union StepsAfter
      BY <2>1
    <3>2. /\ delivery'[d].pc = "idle"
          /\ \A o \in Deliveries \ {d} : delivery'[o] = delivery[o]
          /\ AfterPaymentTypeOK'
      BY <2>1, <2>2, <3>1, DeliveryMoves
    <3> QED
      BY <3>2 DEF GoingOn, StepsAfter
  <2>4. \A o \in GoingOn : /\ delivery[o].transaction \in Transactions
                           /\ Ahead(delivery[o].pc) \subseteq Effects \ {"complaint"}
    BY DEF GoingOn, StepsAfter, Ahead, Effects
  <2> QED
    BY <2>1, <2>2, <2>3, <2>4 DEF OneGoesOn, AheadOpen, AnsweredAfterBooking, EffectsOnce
<1>7. CASE RestartAll
  <2>1. GoingOn' = {} /\ AfterPaymentTypeOK'
    BY <1>7 DEF RestartAll, IdleDelivery, GoingOn, StepsAfter
  <2> QED
    BY <1>7, <2>1 DEF RestartAll, OneGoesOn, AheadOpen, AnsweredAfterBooking, EffectsOnce
<1>8. CASE UNCHANGED afterPaymentVars
  BY <1>8 DEF afterPaymentVars, GoingOn, OneGoesOn, AheadOpen, AnsweredAfterBooking, EffectsOnce
<1> QED
  BY <1>1, <1>2, <1>4, <1>5, <1>6, <1>7, <1>8 DEF AfterPaymentNext

\* However often and however concurrently an approval is delivered, and wherever
\* the process stops, each effect of a payment happens at most once
\* (EffectsOnce).
THEOREM EffectsHappenOnce == AfterPaymentSpec => []EffectsOnce
<1>1. AfterPaymentInv => EffectsOnce
  BY DEF AfterPaymentInv
<1> QED
  BY <1>1, PaymentsInit, PaymentsNext, PTL DEF AfterPaymentSpec
-----------------------------------------------------------------------------
\* Approvals: what is in the books.

\* A set whose members are all equal has one at most.
LEMMA AtMostOne ==
  ASSUME NEW S, \A x, y \in S : x = y
  PROVE  Cardinality(S) <= 1
<1>1. CASE S = {}
  BY <1>1, FS_EmptySet
<1>2. ASSUME NEW x \in S PROVE Cardinality(S) <= 1
  <2>1. S = {x}
    BY <1>2
  <2> QED
    BY <2>1, FS_Singleton
<1> QED
  BY <1>1, <1>2

\* The initial states are in the invariant.
LEMMA ApprovalsInit == ApprovalInit => ApprovalInv
<1> SUFFICES ASSUME ApprovalInit PROVE ApprovalInv
  OBVIOUS
<1>1. ApprovalTypeOK
  <2>1. IdleApproval \in ApprovalRows
    BY DEF IdleApproval, ApprovalRows, ApprovalSteps
  <2>2. IdleImport \in [rows : Seq([nit : Nits \union {NoId}, kind : STRING]), imported : Nat, errors : Nat]
    BY DEF IdleImport
  <2> QED
    BY <2>1, <2>2 DEF ApprovalInit, ApprovalTypeOK
<1>2. \A a \in Approvals : approval[a].pc = "idle"
  BY DEF ApprovalInit, IdleApproval
<1> QED
  BY <1>1, <1>2 DEF ApprovalInit, ApprovalInv, RunsMade, Listed, WrittenBefore, ApprovedOffList, DocumentBooked,
     LaterRaced, WrittenByCalls, CountedSince, CountedPerBooking

\* A third party is added with an id that nobody had.
LEMMA PartyInserted ==
  ASSUME ApprovalTypeOK, NEW nit \in Nits, NEW kind \in ThirdPartyKind, Insert(nit, kind)
  PROVE  /\ parties' \subseteq PartyRows /\ ids' \subseteq PartyIds
         /\ (CHOOSE id \in ids' \ ids : TRUE) \in PartyIds
<1>1. PICK id \in PartyIds \ ids :
        /\ ids' = ids \union {id}
        /\ parties' = parties \union {[id |-> id, nit |-> nit, kind |-> kind]}
  BY DEF Insert
<1>2. [id |-> id, nit |-> nit, kind |-> kind] \in PartyRows
  BY DEF PartyRows
<1>3. ids' \ ids = {id}
  BY <1>1
<1>4. (CHOOSE i \in ids' \ ids : TRUE) = id
  BY <1>3
<1> QED
  BY <1>1, <1>2, <1>4 DEF ApprovalTypeOK

\* The calls whose purchase was written.
Purchased == erased \union {b.by : b \in purchases}

\* Steps of third parties: the runs and the calls stay, and no purchase is lost
\* but to a user.
LEMMA BooksStay ==
  ASSUME ApprovalInv, ApprovalTypeOK', UNCHANGED <<ocrRuns, expenses, usage, approval, made, dropped, raced>>,
         Purchased \subseteq Purchased'
  PROVE  ApprovalInv'
<1>1. RunsMade' /\ ApprovedOffList'
  BY DEF ApprovalInv, RunsMade, ApprovedOffList, Listed
<1>2. WrittenBefore'
  BY DEF ApprovalInv, WrittenBefore, Purchased
<1>3. DocumentBooked'
  BY DEF ApprovalInv, DocumentBooked, Purchased
<1>4. LaterRaced' /\ WrittenByCalls'
  BY DEF ApprovalInv, LaterRaced, WrittenByCalls
<1>5. CountedSince'
  BY DEF ApprovalInv, CountedSince, CountedPerBooking
<1> QED
  BY <1>1, <1>2, <1>3, <1>4, <1>5 DEF ApprovalInv

\* A call takes a run, or goes to another step before its end.
LEMMA CallGoesOn ==
  ASSUME ApprovalInv, ApprovalTypeOK', NEW a \in Approvals, NEW row,
         approval' = [approval EXCEPT ![a] = row],
         approval[a].pc # "approved", row.pc \notin {"idle", "approved"}, row.run \in made, row.nit \in Nits,
         row.pc \in {"expense", "delete"} => a \in Purchased',
         row.pc = "delete" => a \in expenses',
         \/ approval[a].pc # "idle" /\ row.run = approval[a].run
         \/ /\ approval[a].pc = "idle"
            /\ \A b \in Approvals \ {a} : approval[b].pc # "idle" /\ approval[b].run = row.run => a \in raced',
         Purchased \subseteq Purchased', expenses \subseteq expenses', expenses' \subseteq expenses \union {a},
         raced \subseteq raced',
         UNCHANGED <<ocrRuns, usage, made, dropped>>
  PROVE  ApprovalInv'
<1>1. approval'[a] = row /\ \A o \in Approvals \ {a} : approval'[o] = approval[o]
  BY DEF ApprovalInv, ApprovalTypeOK
<1>2. RunsMade'
  BY <1>1 DEF ApprovalInv, RunsMade, Listed
<1>3. ASSUME NEW o \in Approvals
      PROVE  /\ approval'[o].pc \in {"expense", "delete", "approved"} => o \in Purchased'
             /\ approval'[o].pc \in {"delete", "approved"} => o \in expenses'
  <2>1. CASE o = a
    BY <1>1, <2>1
  <2>2. CASE o # a
    BY <1>1, <2>2 DEF ApprovalInv, WrittenBefore, Purchased
  <2> QED
    BY <2>1, <2>2
<1>4. ApprovedOffList'
  BY <1>1 DEF ApprovalInv, ApprovedOffList, Listed
<1>5. \A x \in expenses : x \in Approvals /\ approval'[x].run = approval[x].run
  BY <1>1 DEF ApprovalInv, WrittenByCalls, ApprovalTypeOK
<1>6. DocumentBooked'
  <2> SUFFICES ASSUME NEW r \in made \ dropped, r \notin {o.run : o \in ocrRuns}
               PROVE  \E x \in expenses' : approval'[x].run = r /\ x \in Purchased'
    BY DEF DocumentBooked, Purchased
  <2>1. PICK x \in expenses : approval[x].run = r /\ x \in Purchased
    BY DEF ApprovalInv, DocumentBooked, Purchased
  <2> QED
    BY <1>5, <2>1
<1>7. LaterRaced'
  <2> SUFFICES ASSUME NEW x \in Approvals, NEW y \in Approvals, x # y, approval'[x].pc # "idle",
                      approval'[y].pc # "idle", approval'[x].run = approval'[y].run
               PROVE  x \in raced' \/ y \in raced'
    BY DEF LaterRaced
  <2>1. CASE x # a /\ y # a
    BY <1>1, <2>1 DEF ApprovalInv, LaterRaced
  <2>2. CASE x = a
    BY <1>1, <2>2 DEF ApprovalInv, LaterRaced
  <2>3. CASE y = a
    BY <1>1, <2>3 DEF ApprovalInv, LaterRaced
  <2> QED
    BY <2>1, <2>2, <2>3
<1>8. WrittenByCalls'
  BY <1>1 DEF ApprovalInv, WrittenByCalls, ApprovalTypeOK
<1>9. CountedSince'
  <2>1. \A r \in Runs : (\E o \in Approvals : approval[o].pc = "approved" /\ approval[o].run = r)
                      => \E o \in Approvals : approval'[o].pc = "approved" /\ approval'[o].run = r
    BY <1>1
  <2>2. \A r \in Runs : usage[r] \in Nat
    BY DEF ApprovalInv, ApprovalTypeOK
  <2> QED
    BY <2>1, <2>2 DEF ApprovalInv, CountedSince, CountedPerBooking
<1> QED
  BY <1>2, <1>3, <1>4, <1>6, <1>7, <1>8, <1>9 DEF ApprovalInv, WrittenBefore, Purchased

\* A run comes to the list, or a user takes it off.
LEMMA ListChanges ==
  ASSUME ApprovalInv, NEW r \in Runs, UploadRun(r) \/ SimulateOcrRun(r) \/ DeleteOcrRun(r)
  PROVE  ApprovalInv'
<1>1. UNCHANGED <<parties, purchases, expenses, approval, import, ids, erased, raced>> /\ usage' \in [Runs -> Nat]
  BY DEF UploadRun, SimulateOcrRun, DeleteOcrRun, RecordUsage, ApprovalInv, ApprovalTypeOK
<1>2. WrittenBefore' /\ LaterRaced' /\ WrittenByCalls'
  BY <1>1 DEF ApprovalInv, WrittenBefore, LaterRaced, WrittenByCalls
<1>3. CASE UploadRun(r) \/ SimulateOcrRun(r)
  <2>1. PICK nit \in Nits \union {NoId} : ocrRuns' = ocrRuns \union {[run |-> r, nit |-> nit]}
    BY <1>3 DEF UploadRun, SimulateOcrRun
  <2>2. r \notin made /\ made' = made \union {r} /\ UNCHANGED dropped
    BY <1>3 DEF UploadRun, SimulateOcrRun
  <2>3. [run |-> r, nit |-> nit] \in [run : Runs, nit : Nits \union {NoId}]
    OBVIOUS
  <2>4. Listed' = Listed \union {r}
    <3>1. \A o \in ocrRuns' : o \in ocrRuns \/ o.run = r
      BY <2>1
    <3>2. \E o \in ocrRuns' : o.run = r
      <4>1. [run |-> r, nit |-> nit] \in ocrRuns' /\ [run |-> r, nit |-> nit].run = r
        BY <2>1
      <4> QED
        BY <4>1
    <3> QED
      BY <2>1, <3>1, <3>2 DEF Listed
  <2>5. ApprovalTypeOK'
    BY <1>1, <2>1, <2>2, <2>3 DEF ApprovalInv, ApprovalTypeOK
  <2>6. RunsMade'
    BY <1>1, <2>2, <2>4 DEF ApprovalInv, RunsMade
  <2>7. ApprovedOffList'
    BY <1>1, <2>2, <2>4 DEF ApprovalInv, RunsMade, ApprovedOffList
  <2>8. DocumentBooked'
    BY <1>1, <2>2, <2>4 DEF ApprovalInv, DocumentBooked, Listed
  <2>9. CountedSince'
    <3>1. usage[r] = 0 /\ usage \in [Runs -> Nat]
      BY <2>2 DEF ApprovalInv, CountedSince, ApprovalTypeOK
    <3>2. usage'[r] <= 1 /\ \A q \in Runs \ {r} : usage'[q] = usage[q]
      BY <1>3, <3>1 DEF UploadRun, SimulateOcrRun, RecordUsage
    <3>3. usage'[r] \in Nat
      BY <1>1
    <3>4. \A q \in Runs : usage'[q] <= IF \E a \in Approvals : approval[a].pc = "approved" /\ approval[a].run = q
                                      THEN 2 ELSE 1
      BY <3>2, <3>3 DEF ApprovalInv, CountedSince, CountedPerBooking
    <3> QED
      BY <1>1, <2>2, <3>2, <3>4 DEF ApprovalInv, CountedSince, CountedPerBooking
  <2> QED
    BY <1>2, <2>5, <2>6, <2>7, <2>8, <2>9 DEF ApprovalInv
<1>4. CASE DeleteOcrRun(r)
  <2>1. /\ ocrRuns' = {o \in ocrRuns : o.run # r} /\ dropped' = dropped \union {r} /\ UNCHANGED <<made, usage>>
    BY <1>4 DEF DeleteOcrRun
  <2>2. Listed' = Listed \ {r}
    BY <2>1 DEF Listed
  <2>3. ApprovalTypeOK'
    BY <1>1, <2>1 DEF ApprovalInv, ApprovalTypeOK
  <2>4. RunsMade'
    BY <1>1, <2>1, <2>2 DEF ApprovalInv, RunsMade
  <2>5. ApprovedOffList'
    BY <1>1, <2>2 DEF ApprovalInv, ApprovedOffList
  <2>6. DocumentBooked'
    BY <1>1, <2>1, <2>2 DEF ApprovalInv, DocumentBooked, Listed
  <2>7. CountedSince'
    BY <1>1, <2>1 DEF ApprovalInv, CountedSince, CountedPerBooking
  <2> QED
    BY <1>2, <2>3, <2>4, <2>5, <2>6, <2>7 DEF ApprovalInv
<1> QED
  BY <1>3, <1>4

\* The delete decides between the calls that approve a run, and the books have
\* it by then.
LEMMA RunApproved ==
  ASSUME ApprovalInv, NEW a \in Approvals, DeleteApproved(a)
  PROVE  ApprovalInv'
<1> DEFINE r == approval[a].run
           row == [approval[a] EXCEPT !.pc = "approved"]
<1>1. /\ approval[a].pc = "delete" /\ r \in Listed
      /\ ocrRuns' = {o \in ocrRuns : o.run # r}
      /\ approval' = [approval EXCEPT ![a] = row]
      /\ usage' \in {usage, [usage EXCEPT ![r] = @ + 1]}
      /\ UNCHANGED <<parties, purchases, expenses, import, ids, made, dropped, erased, raced>>
  BY DEF DeleteApproved, Deletable, Listed, Goto, After, RecordUsage
<1>2. r \in made /\ approval[a].nit \in Nits /\ r \in Runs /\ approval[a] \in ApprovalRows
  BY <1>1 DEF ApprovalInv, RunsMade, ApprovalTypeOK
<1>3. row \in ApprovalRows /\ row.pc = "approved" /\ row.run = r /\ row.nit \in Nits
  BY <1>2 DEF ApprovalRows, ApprovalSteps
<1> HIDE DEF row
<1>4. approval'[a] = row /\ \A o \in Approvals \ {a} : approval'[o] = approval[o]
  BY <1>1 DEF ApprovalInv, ApprovalTypeOK
<1>5. Listed' = Listed \ {r}
  BY <1>1 DEF Listed
<1>6. ApprovalTypeOK'
  <2>1. usage' \in [Runs -> Nat]
    BY <1>1, <1>2 DEF ApprovalInv, ApprovalTypeOK
  <2> QED
    BY <1>1, <1>3, <2>1 DEF ApprovalInv, ApprovalTypeOK
<1>7. RunsMade'
  BY <1>1, <1>2, <1>3, <1>4, <1>5 DEF ApprovalInv, RunsMade
<1>8. a \in Purchased /\ a \in expenses /\ UNCHANGED Purchased
  BY <1>1 DEF ApprovalInv, WrittenBefore, Purchased
<1>9. \A o \in Approvals : approval[o].pc = "approved" => approval[o].run # r
  BY <1>1 DEF ApprovalInv, ApprovedOffList
<1>10. WrittenBefore'
  <2> SUFFICES ASSUME NEW o \in Approvals
               PROVE  /\ approval'[o].pc \in {"expense", "delete", "approved"} => o \in Purchased
                      /\ approval'[o].pc \in {"delete", "approved"} => o \in expenses
    BY <1>1 DEF WrittenBefore, Purchased
  <2>1. CASE o = a
    BY <1>8, <2>1
  <2>2. CASE o # a
    BY <1>4, <2>2 DEF ApprovalInv, WrittenBefore, Purchased
  <2> QED
    BY <2>1, <2>2
<1>11. ApprovedOffList'
  BY <1>3, <1>4, <1>5, <1>9 DEF ApprovalInv, ApprovedOffList
<1>12. \A o \in Approvals : approval'[o].run = approval[o].run
  BY <1>3, <1>4
<1>13. DocumentBooked'
  <2> SUFFICES ASSUME NEW q \in made \ dropped, q \notin Listed'
               PROVE  \E x \in expenses : approval'[x].run = q /\ x \in Purchased
    BY <1>1 DEF DocumentBooked, Purchased, Listed
  <2>1. CASE q = r
    BY <1>8, <1>12, <2>1
  <2>2. CASE q # r
    <3>1. q \notin Listed
      BY <1>5, <2>2
    <3>2. PICK x \in expenses : approval[x].run = q /\ x \in Purchased
      BY <3>1 DEF ApprovalInv, DocumentBooked, Purchased, Listed
    <3> QED
      BY <1>12, <3>2 DEF ApprovalInv, ApprovalTypeOK
  <2> QED
    BY <2>1, <2>2
<1>14. LaterRaced'
  BY <1>1, <1>3, <1>4, <1>12 DEF ApprovalInv, LaterRaced
<1>15. WrittenByCalls'
  BY <1>1, <1>3, <1>4 DEF ApprovalInv, WrittenByCalls, ApprovalTypeOK
<1>16. CountedSince'
  <2>1. usage \in [Runs -> Nat] /\ \A q \in Runs \ {r} : usage'[q] = usage[q]
    BY <1>1, <1>2 DEF ApprovalInv, ApprovalTypeOK
  <2>2. usage[r] <= 1
    BY <1>2, <1>9 DEF ApprovalInv, CountedSince, CountedPerBooking
  <2>3. usage'[r] <= 2
    BY <1>1, <1>2, <2>1, <2>2
  <2>4. \A q \in Runs : (\E o \in Approvals : approval[o].pc = "approved" /\ approval[o].run = q)
                      => \E o \in Approvals : approval'[o].pc = "approved" /\ approval'[o].run = q
    BY <1>1, <1>4
  <2>5. \E o \in Approvals : approval'[o].pc = "approved" /\ approval'[o].run = r
    BY <1>3, <1>4
  <2>6. CountedPerBooking'
    <3> SUFFICES ASSUME NEW q \in Runs
                 PROVE  usage'[q] <= IF \E o \in Approvals : approval'[o].pc = "approved" /\ approval'[o].run = q
                                     THEN 2 ELSE 1
      BY DEF CountedPerBooking
    <3>1. CASE q = r
      BY <2>3, <2>5, <3>1
    <3>2. CASE q # r
      <4>1. usage[q] <= IF \E o \in Approvals : approval[o].pc = "approved" /\ approval[o].run = q
                        THEN 2 ELSE 1
        BY DEF ApprovalInv, CountedSince, CountedPerBooking
      <4>2. usage'[q] = usage[q] /\ usage[q] \in Nat
        BY <2>1, <3>2
      <4> QED
        BY <2>4, <4>1, <4>2
    <3> QED
      BY <3>1, <3>2
  <2> QED
    BY <1>1, <1>2, <2>1, <2>6 DEF ApprovalInv, CountedSince
<1> QED
  BY <1>6, <1>7, <1>10, <1>11, <1>13, <1>14, <1>15, <1>16 DEF ApprovalInv

\* The other statements of approveOcrRun.
LEMMA ApprovalGoesOn ==
  ASSUME ApprovalInv, NEW a \in Approvals,
         \/ ReadOcrRun(a) \/ FindProvider(a) \/ CreateProvider(a) \/ CreatePurchase(a)
         \/ CreateExpense(a) \/ FailApproval(a)
  PROVE  ApprovalInv'
<1> DEFINE old == approval[a]
<1>1. /\ old \in ApprovalRows /\ approval \in [Approvals -> ApprovalRows]
      /\ old.pc # "idle" => old.run \in made /\ old.run \in Runs /\ old.nit \in Nits
  BY DEF ApprovalInv, ApprovalTypeOK, RunsMade
\* A row with another step, or another provider and step, is a row.
<1>2. ASSUME NEW row \in ApprovalRows, NEW pc \in ApprovalSteps
      PROVE  /\ [row EXCEPT !.pc = pc] \in ApprovalRows
             /\ [row EXCEPT !.pc = pc].pc = pc /\ [row EXCEPT !.pc = pc].run = row.run
             /\ [row EXCEPT !.pc = pc].nit = row.nit
  BY DEF ApprovalRows
<1>3. ASSUME NEW id \in PartyIds
      PROVE  /\ [old EXCEPT !.pc = "purchase", !.provider = id] \in ApprovalRows
             /\ [old EXCEPT !.pc = "purchase", !.provider = id].pc = "purchase"
             /\ [old EXCEPT !.pc = "purchase", !.provider = id].run = old.run
             /\ [old EXCEPT !.pc = "purchase", !.provider = id].nit = old.nit
  <2> DEFINE row == [old EXCEPT !.provider = id]
  <2>1. row \in ApprovalRows /\ row.run = old.run /\ row.nit = old.nit
    BY <1>1 DEF ApprovalRows
  <2>2. [old EXCEPT !.pc = "purchase", !.provider = id] = [row EXCEPT !.pc = "purchase"]
    OBVIOUS
  <2> HIDE DEF row
  <2>3. "purchase" \in ApprovalSteps
    BY DEF ApprovalSteps
  <2> QED
    BY <1>2, <2>1, <2>2, <2>3
\* A call goes on, and writes nothing.
<1>4. ASSUME NEW row \in ApprovalRows, approval' = [approval EXCEPT ![a] = row],
             old.pc # "approved", row.pc \in {"find", "provider", "purchase", "failed"},
             row.run \in made, row.nit \in Nits,
             \/ old.pc # "idle" /\ row.run = old.run
             \/ /\ old.pc = "idle"
                /\ \A b \in Approvals \ {a} : approval[b].pc # "idle" /\ approval[b].run = row.run => a \in raced',
             parties' \subseteq PartyRows, ids' \subseteq PartyIds,
             raced' \in {raced, raced \union {a}},
             UNCHANGED <<ocrRuns, purchases, expenses, usage, import, made, dropped, erased>>
      PROVE  ApprovalInv'
  <2>1. ApprovalTypeOK'
    BY <1>4 DEF ApprovalInv, ApprovalTypeOK
  <2>2. Purchased' = Purchased
    BY <1>4 DEF Purchased
  <2> QED
    BY <1>4, <2>1, <2>2, CallGoesOn
<1>5. CASE ReadOcrRun(a)
  <2>1. PICK o \in ocrRuns :
          /\ approval' = [approval EXCEPT ![a] =
                [pc |-> "find", run |-> o.run, provider |-> NoId,
                 nit |-> IF o.nit = NoId THEN DefaultNit ELSE o.nit]]
          /\ raced' = IF Unfinished(o.run) = {} THEN raced ELSE raced \union {a}
    BY <1>5 DEF ReadOcrRun
  <2>2. o.run \in made /\ o.run \in Runs /\ o.nit \in Nits \union {NoId}
    BY DEF ApprovalInv, RunsMade, ApprovalTypeOK, Listed
  <2> DEFINE nit == IF o.nit = NoId THEN DefaultNit ELSE o.nit
             row == [pc |-> "find", run |-> o.run, provider |-> NoId, nit |-> nit]
  <2>3. nit \in Nits
    BY <2>2, ApprovalAssumption
  <2> HIDE DEF nit
  <2>4. row \in ApprovalRows /\ row.pc = "find" /\ row.run \in made /\ row.nit \in Nits
    BY <2>2, <2>3 DEF ApprovalRows, ApprovalSteps
  <2>5. approval' = [approval EXCEPT ![a] = row]
    BY <2>1 DEF nit
  <2> HIDE DEF row
  <2>6. parties' \subseteq PartyRows /\ ids' \subseteq PartyIds
        /\ UNCHANGED <<ocrRuns, purchases, expenses, usage, import, made, dropped, erased>>
        /\ old.pc = "idle"
    BY <1>5 DEF ReadOcrRun, ApprovalInv, ApprovalTypeOK
  <2>7. \A b \in Approvals \ {a} : approval[b].pc # "idle" /\ approval[b].run = o.run => a \in raced'
    <3>1. \A b \in Approvals : approval[b].run = o.run => approval[b].pc # "approved"
      BY DEF ApprovalInv, ApprovedOffList, Listed
    <3> QED
      BY <2>1, <3>1 DEF Unfinished
  <2>8. raced' \in {raced, raced \union {a}} /\ row.run = o.run
    BY <2>1 DEF row
  <2> QED
    BY <1>4, <2>4, <2>5, <2>6, <2>7, <2>8
<1>6. CASE FindProvider(a)
  <2>1. /\ old.pc = "find" /\ parties' \subseteq PartyRows /\ ids' \subseteq PartyIds
        /\ UNCHANGED <<ocrRuns, purchases, expenses, usage, import, made, dropped, erased, raced>>
    BY <1>6 DEF FindProvider, ApprovalInv, ApprovalTypeOK
  <2>2. CASE approval' = [approval EXCEPT ![a] = [old EXCEPT !.pc = "provider"]]
    <3>1. "provider" \in ApprovalSteps
      BY DEF ApprovalSteps
    <3> DEFINE row == [old EXCEPT !.pc = "provider"]
    <3>2. row \in ApprovalRows /\ row.pc = "provider" /\ row.run \in made /\ row.nit \in Nits
          /\ row.run = old.run
      BY <1>1, <1>2, <2>1, <3>1
    <3>3. approval' = [approval EXCEPT ![a] = row]
      BY <2>2
    <3> HIDE DEF row
    <3> QED
      BY <1>4, <2>1, <3>2, <3>3
  <2>3. ASSUME NEW p \in parties,
               approval' = [approval EXCEPT ![a] = [old EXCEPT !.pc = "purchase", !.provider = p.id]]
        PROVE  ApprovalInv'
    <3>1. p.id \in PartyIds
      BY DEF ApprovalInv, ApprovalTypeOK, PartyRows
    <3> DEFINE row == [old EXCEPT !.pc = "purchase", !.provider = p.id]
    <3>2. row \in ApprovalRows /\ row.pc = "purchase" /\ row.run \in made /\ row.nit \in Nits
          /\ row.run = old.run
      BY <1>1, <1>3, <2>1, <3>1
    <3>3. approval' = [approval EXCEPT ![a] = row]
      BY <2>3
    <3> HIDE DEF row
    <3> QED
      BY <1>4, <2>1, <3>2, <3>3
  <2> QED
    BY <1>6, <2>2, <2>3 DEF FindProvider, Goto, TakenBy
<1>7. CASE CreateProvider(a)
  <2>1. /\ old.pc = "provider" /\ Insert(old.nit, "provider")
        /\ UNCHANGED <<ocrRuns, purchases, expenses, usage, import, made, dropped, erased, raced>>
    BY <1>7 DEF CreateProvider
  <2> DEFINE id == CHOOSE fresh \in ids' \ ids : TRUE
             row == [old EXCEPT !.pc = "purchase", !.provider = id]
  <2>3. parties' \subseteq PartyRows /\ ids' \subseteq PartyIds /\ id \in PartyIds
    <3>1. old.nit \in Nits /\ "provider" \in ThirdPartyKind
      BY <1>1, <2>1 DEF ThirdPartyKind
    <3> QED
      BY <2>1, <3>1, PartyInserted DEF ApprovalInv
  <2>4. approval' = [approval EXCEPT ![a] = row]
    <3>1. approval' = [approval EXCEPT ![a].pc = "purchase",
                                       ![a].provider = CHOOSE fresh \in ids' \ ids : TRUE]
      BY <1>7, Zenon DEF CreateProvider
    <3>2. approval' = [approval EXCEPT ![a].pc = "purchase", ![a].provider = id]
      BY <3>1
    <3> HIDE DEF id
    <3> QED
      BY <3>2
  <2> HIDE DEF id
  <2>5. row \in ApprovalRows /\ row.pc = "purchase" /\ row.run \in made /\ row.nit \in Nits
        /\ row.run = old.run
    BY <1>1, <1>3, <2>1, <2>3
  <2> HIDE DEF row
  <2> QED
    BY <1>4, <2>1, <2>3, <2>4, <2>5
<1>8. CASE CreatePurchase(a)
  <2> DEFINE row == [old EXCEPT !.pc = "expense"]
             bought == [by |-> a, run |-> old.run, provider |-> old.provider]
  <2>1. /\ old.pc = "purchase" /\ approval' = [approval EXCEPT ![a] = row]
        /\ purchases' = purchases \union {bought}
        /\ UNCHANGED <<parties, ocrRuns, expenses, usage, import, ids, made, dropped, erased, raced>>
    BY <1>8 DEF CreatePurchase, Goto, After
  <2>2. "expense" \in ApprovalSteps
    BY DEF ApprovalSteps
  <2>3. row \in ApprovalRows /\ row.pc = "expense" /\ row.run = old.run /\ row.nit = old.nit
    BY <1>1, <1>2, <2>2
  <2>4. bought \in PurchaseRows /\ bought.by = a /\ bought.run = old.run
    BY <1>1, <2>1 DEF PurchaseRows, ApprovalRows
  <2> HIDE DEF row, bought
  <2>5. ApprovalTypeOK'
    BY <2>1, <2>3, <2>4 DEF ApprovalInv, ApprovalTypeOK
  <2>6. Purchased' = Purchased \union {a}
    <3>1. bought \in purchases' /\ \A b \in purchases' : b \in purchases \/ b = bought
      BY <2>1
    <3> QED
      BY <2>1, <2>4, <3>1 DEF Purchased
  <2> QED
    BY <1>1, <2>1, <2>3, <2>5, <2>6, CallGoesOn
<1>9. CASE CreateExpense(a)
  <2> DEFINE row == [old EXCEPT !.pc = "delete"]
  <2>1. /\ old.pc = "expense" /\ approval' = [approval EXCEPT ![a] = row]
        /\ expenses' = expenses \union {a}
        /\ UNCHANGED <<parties, ocrRuns, purchases, usage, import, ids, made, dropped, erased, raced>>
    BY <1>9 DEF CreateExpense, Goto, After
  <2>2. "delete" \in ApprovalSteps
    BY DEF ApprovalSteps
  <2>3. row \in ApprovalRows /\ row.pc = "delete" /\ row.run = old.run /\ row.nit = old.nit
    BY <1>1, <1>2, <2>2
  <2> HIDE DEF row
  <2>4. ApprovalTypeOK'
    BY <2>1, <2>3 DEF ApprovalInv, ApprovalTypeOK
  <2>5. a \in Purchased /\ Purchased' = Purchased
    BY <2>1, <2>3 DEF ApprovalInv, WrittenBefore, Purchased
  <2> QED
    BY <1>1, <2>1, <2>3, <2>4, <2>5, CallGoesOn
<1>10. CASE FailApproval(a)
  <2> DEFINE row == [old EXCEPT !.pc = "failed"]
  <2>1. /\ old.pc \notin {"idle", "approved"} /\ approval' = [approval EXCEPT ![a] = row]
        /\ UNCHANGED <<parties, ocrRuns, purchases, expenses, usage, import, ids, made, dropped, erased, raced>>
    BY <1>10 DEF FailApproval, Goto
  <2>2. "failed" \in ApprovalSteps
    BY DEF ApprovalSteps
  <2>3. row \in ApprovalRows /\ row.pc = "failed" /\ row.run \in made /\ row.nit \in Nits
        /\ row.run = old.run
    BY <1>1, <1>2, <2>1, <2>2
  <2> HIDE DEF row
  <2>4. parties' \subseteq PartyRows /\ ids' \subseteq PartyIds
    BY <2>1 DEF ApprovalInv, ApprovalTypeOK
  <2> QED
    BY <1>4, <2>1, <2>3, <2>4
<1> QED
  BY <1>5, <1>6, <1>7, <1>8, <1>9, <1>10

\* What ThirdPartiesService and the assistant do to third parties.
LEMMA PartiesChange ==
  ASSUME ApprovalInv,
         \/ \E nit \in Nits, kind \in Kinds :
              \/ CreateParty(nit, kind) \/ UpsertParty(nit, kind)
              \/ \E p \in parties : UpdateParty(p, nit, kind)
         \/ \E p \in parties : RemoveParty(p)
         \/ \E b \in purchases : RemovePurchase(b)
         \/ StartImport \/ ImportRow
  PROVE  ApprovalInv'
<1>1. ASSUME UNCHANGED <<ocrRuns, purchases, expenses, usage, approval, import, made, dropped, erased, raced>>,
             parties' \subseteq PartyRows, ids' \subseteq PartyIds
      PROVE  ApprovalInv'
  <2>1. ApprovalTypeOK'
    BY <1>1 DEF ApprovalInv, ApprovalTypeOK
  <2>2. Purchased' = Purchased
    BY <1>1 DEF Purchased
  <2> QED
    BY <1>1, <2>1, <2>2, BooksStay
<1>2. ASSUME NEW nit \in Nits, NEW kind \in Kinds, CreateParty(nit, kind) \/ UpsertParty(nit, kind)
      PROVE  ApprovalInv'
  <2>1. kind \in ThirdPartyKind
    BY ApprovalAssumption
  <2>2. CASE CreateParty(nit, kind)
    <3>1. parties' \subseteq PartyRows /\ ids' \subseteq PartyIds
      BY <2>1, <2>2, PartyInserted DEF CreateParty, ApprovalInv
    <3> QED
      BY <1>1, <2>2, <3>1 DEF CreateParty
  <2>3. CASE UNCHANGED approvalVars
    BY <1>1, <2>3 DEF approvalVars, ApprovalInv, ApprovalTypeOK
  <2> QED
    BY <1>2, <2>2, <2>3 DEF UpsertParty
<1>3. ASSUME NEW nit \in Nits, NEW kind \in Kinds, NEW p \in parties, UpdateParty(p, nit, kind)
      PROVE  ApprovalInv'
  <2> DEFINE half == [p EXCEPT !.nit = nit]
             row == [half EXCEPT !.kind = kind]
  <2>1. kind \in ThirdPartyKind /\ p \in PartyRows
    BY ApprovalAssumption DEF ApprovalInv, ApprovalTypeOK
  <2>2. half \in PartyRows
    BY <2>1 DEF PartyRows
  <2>3. [p EXCEPT !.nit = nit, !.kind = kind] = row
    OBVIOUS
  <2> HIDE DEF half
  <2>4. row \in PartyRows
    BY <2>1, <2>2 DEF PartyRows
  <2>5. parties' = (parties \ {p}) \union {row}
    BY <1>3, <2>3 DEF UpdateParty
  <2> HIDE DEF row
  <2>6. parties' \subseteq PartyRows /\ ids' \subseteq PartyIds
    BY <1>3, <2>4, <2>5 DEF UpdateParty, ApprovalInv, ApprovalTypeOK
  <2> QED
    BY <1>1, <1>3, <2>6 DEF UpdateParty
<1>4. ASSUME NEW p \in parties, RemoveParty(p) PROVE ApprovalInv'
  <2> DEFINE left(b) == IF b.provider = p.id THEN [b EXCEPT !.provider = NoId] ELSE b
  <2>1. /\ purchases' = {left(b) : b \in purchases} /\ parties' = parties \ {p}
        /\ UNCHANGED <<ocrRuns, expenses, usage, approval, import, ids, made, dropped, erased, raced>>
    BY <1>4 DEF RemoveParty
  <2>2. ASSUME NEW b \in purchases
        PROVE  left(b) \in PurchaseRows /\ left(b).by = b.by /\ left(b).run = b.run
    <3>1. b \in PurchaseRows
      BY DEF ApprovalInv, ApprovalTypeOK
    <3> QED
      BY <3>1 DEF PurchaseRows
  <2> HIDE DEF left
  <2>3. ApprovalTypeOK'
    BY <2>1, <2>2 DEF ApprovalInv, ApprovalTypeOK
  <2>4. Purchased \subseteq Purchased'
    BY <2>1, <2>2 DEF Purchased
  <2> QED
    BY <2>1, <2>3, <2>4, BooksStay
<1>5. CASE StartImport \/ ImportRow
  <2>1. /\ UNCHANGED <<ocrRuns, purchases, expenses, usage, approval, made, dropped, erased, raced>>
        /\ parties' \subseteq PartyRows /\ ids' \subseteq PartyIds
        /\ import' \in [rows : Seq([nit : Nits \union {NoId}, kind : STRING]), imported : Nat, errors : Nat]
    <3>1. CASE StartImport
      <4>1. PICK rows \in Imports : import' = [IdleImport EXCEPT !.rows = rows]
        BY <3>1 DEF StartImport
      <4>2. rows \in Seq([nit : Nits \union {NoId}, kind : STRING])
        BY ApprovalAssumption
      <4>3. import' \in [rows : Seq([nit : Nits \union {NoId}, kind : STRING]), imported : Nat, errors : Nat]
        BY <4>1, <4>2 DEF IdleImport
      <4> QED
        BY <3>1, <4>3 DEF StartImport, ApprovalInv, ApprovalTypeOK
    <3>2. CASE ImportRow
      <4> DEFINE row == Head(import.rows)
                 rest == Tail(import.rows)
                 Rows == Seq([nit : Nits \union {NoId}, kind : STRING])
                 ImportRows == [rows : Rows, imported : Nat, errors : Nat]
      <4>1. import.rows # <<>> /\ import \in ImportRows
        BY <3>2 DEF ImportRow, ApprovalInv, ApprovalTypeOK
      <4>2. import.rows \in Rows /\ rest \in Rows /\ row \in [nit : Nits \union {NoId}, kind : STRING]
        <5>1. import.rows \in Rows
          BY <4>1
        <5> QED
          BY <4>1, <5>1, HeadTailProperties
      <4>3. row.nit \in Nits \union {NoId}
        BY <4>2
      <4> HIDE DEF Rows
      <4> DEFINE taken == [import EXCEPT !.rows = rest]
      <4>4. taken \in ImportRows
        BY <4>1, <4>2
      <4>5. [taken EXCEPT !.imported = taken.imported + 1] \in ImportRows
            /\ [taken EXCEPT !.errors = taken.errors + 1] \in ImportRows
        <5> HIDE DEF taken
        <5>1. taken.imported + 1 \in Nat /\ taken.errors + 1 \in Nat
          BY <4>4
        <5> QED
          BY <4>4, <5>1
      <4>6. CASE /\ row.nit # NoId /\ row.kind \in ThirdPartyKind /\ Insert(row.nit, row.kind)
                 /\ import' = [import EXCEPT !.rows = Tail(@), !.imported = @ + 1]
        <5>1. import' = [taken EXCEPT !.imported = taken.imported + 1]
          BY <4>1, <4>6
        <5>2. row.nit \in Nits
          BY <4>3, <4>6
        <5>3. parties' \subseteq PartyRows /\ ids' \subseteq PartyIds
          BY <4>6, <5>2, PartyInserted DEF ApprovalInv
        <5> QED
          BY <3>2, <4>5, <5>1, <5>3 DEF ImportRow, Rows
      <4>7. CASE /\ import' = [import EXCEPT !.rows = Tail(@), !.errors = @ + 1]
                 /\ UNCHANGED <<parties, ids>>
        <5>1. import' = [taken EXCEPT !.errors = taken.errors + 1]
          BY <4>1, <4>7
        <5> QED
          BY <3>2, <4>5, <4>7, <5>1 DEF ImportRow, ApprovalInv, ApprovalTypeOK, Rows
      <4> QED
        BY <3>2, <4>6, <4>7 DEF ImportRow
    <3> QED
      BY <1>5, <3>1, <3>2
  <2>2. ApprovalTypeOK'
    BY <2>1 DEF ApprovalInv, ApprovalTypeOK
  <2>3. Purchased' = Purchased
    BY <2>1 DEF Purchased
  <2> QED
    BY <2>1, <2>2, <2>3, BooksStay
<1>6. ASSUME NEW b \in purchases, RemovePurchase(b) PROVE ApprovalInv'
  <2>1. b.by \in Approvals
    BY DEF ApprovalInv, ApprovalTypeOK, PurchaseRows
  <2>2. ApprovalTypeOK'
    BY <1>6, <2>1 DEF RemovePurchase, ApprovalInv, ApprovalTypeOK
  <2>3. Purchased \subseteq Purchased'
    BY <1>6 DEF RemovePurchase, Purchased
  <2> QED
    BY <1>6, <2>2, <2>3, BooksStay DEF RemovePurchase
<1> QED
  BY <1>2, <1>3, <1>4, <1>5, <1>6

\* Every step, and every stutter, keeps the invariant.
LEMMA ApprovalsNext == ApprovalInv /\ [ApprovalNext]_approvalVars => ApprovalInv'
<1> SUFFICES ASSUME ApprovalInv, [ApprovalNext]_approvalVars PROVE ApprovalInv'
  OBVIOUS
<1>1. CASE UNCHANGED approvalVars
  <2>1. ApprovalTypeOK'
    BY <1>1 DEF approvalVars, ApprovalInv, ApprovalTypeOK
  <2> QED
    BY <1>1, <2>1, BooksStay DEF approvalVars, Purchased
<1>2. ASSUME NEW r \in Runs, UploadRun(r) \/ SimulateOcrRun(r) \/ DeleteOcrRun(r)
      PROVE  ApprovalInv'
  BY <1>2, ListChanges
<1>3. ASSUME NEW a \in Approvals,
             \/ ReadOcrRun(a) \/ FindProvider(a) \/ CreateProvider(a) \/ CreatePurchase(a)
             \/ CreateExpense(a) \/ DeleteApproved(a) \/ FailApproval(a)
      PROVE  ApprovalInv'
  BY <1>3, ApprovalGoesOn, RunApproved
<1>4. CASE \/ \E nit \in Nits, kind \in Kinds :
                \/ CreateParty(nit, kind) \/ UpsertParty(nit, kind)
                \/ \E p \in parties : UpdateParty(p, nit, kind)
           \/ \E p \in parties : RemoveParty(p)
           \/ \E b \in purchases : RemovePurchase(b)
           \/ StartImport \/ ImportRow
  BY <1>4, PartiesChange
<1> QED
  BY <1>1, <1>2, <1>3, <1>4 DEF ApprovalNext

\* However many calls approve a run at once and whatever statement of theirs
\* fails: one of them at most reports a purchase; a second purchase and expense
\* are written only by a call that raced with the first or followed its failure;
\* a run that nobody deleted is on the list or was booked by one call; and it
\* counts once for its approval (ApprovalSound).
THEOREM ApprovalsSound == ApprovalSpec => []ApprovalSound
<1>1. ApprovalInv => ApprovedOnce
  <2> SUFFICES ASSUME ApprovalInv, NEW r \in Runs
               PROVE  Cardinality({a \in Approvals : approval[a].pc = "approved" /\ approval[a].run = r}) <= 1
    BY DEF ApprovedOnce
  <2> DEFINE approved == {a \in Approvals : approval[a].pc = "approved" /\ approval[a].run = r}
  <2>1. \A a, b \in approved : a = b
    BY DEF ApprovalInv, ApprovedOffList
  <2> QED
    BY <2>1, AtMostOne
<1>2. ApprovalInv => BookedAgainInRace
  BY DEF ApprovalInv, ApprovalTypeOK, WrittenByCalls, LaterRaced, BookedAgainInRace
<1>3. ApprovalInv => ApprovalSound
  BY <1>1, <1>2 DEF ApprovalInv, CountedSince, ApprovalSound
<1> QED
  BY <1>3, ApprovalsInit, ApprovalsNext, PTL DEF ApprovalSpec
-----------------------------------------------------------------------------
\* Electronic invoices: statuses go back to documents, answers are on record.

\* The fields a request has.
Shaped(c) ==
    c = [pc |-> c.pc, invoice |-> c.invoice, cufe |-> c.cufe, env |-> c.env, track |-> c.track,
         event |-> c.event, copy |-> c.copy]

\* The record a request carries next, field by field.
LEMMA RowAnswered ==
  ASSUME NEW c, Shaped(c), NEW p, NEW k, NEW e
  PROVE  [c EXCEPT !.pc = p, !.track = k, !.event = e] =
           [pc |-> p, invoice |-> c.invoice, cufe |-> c.cufe, env |-> c.env, track |-> k,
            event |-> e, copy |-> c.copy]
<1> DEFINE one == [c EXCEPT !.pc = p]
           two == [one EXCEPT !.track = k]
           three == [two EXCEPT !.event = e]
<1>1. one = [pc |-> p, invoice |-> c.invoice, cufe |-> c.cufe, env |-> c.env, track |-> c.track,
             event |-> c.event, copy |-> c.copy]
  BY DEF Shaped
<1>2. [c EXCEPT !.pc = p, !.track = k, !.event = e] = three
  OBVIOUS
<1> HIDE DEF one
<1>3. two = [pc |-> p, invoice |-> c.invoice, cufe |-> c.cufe, env |-> c.env, track |-> k,
             event |-> c.event, copy |-> c.copy]
  BY <1>1
<1> HIDE DEF two
<1>4. three = [pc |-> p, invoice |-> c.invoice, cufe |-> c.cufe, env |-> c.env, track |-> k,
               event |-> e, copy |-> c.copy]
  BY <1>3
<1> QED
  BY <1>2, <1>4

\* The same, where a copy of the column changes.
LEMMA RowCopied ==
  ASSUME NEW c, Shaped(c), NEW p, NEW s
  PROVE  [c EXCEPT !.pc = p, !.copy = s] =
           [pc |-> p, invoice |-> c.invoice, cufe |-> c.cufe, env |-> c.env, track |-> c.track,
            event |-> c.event, copy |-> s]
<1> DEFINE one == [c EXCEPT !.pc = p]
           two == [one EXCEPT !.copy = s]
<1>1. one = [pc |-> p, invoice |-> c.invoice, cufe |-> c.cufe, env |-> c.env, track |-> c.track,
             event |-> c.event, copy |-> c.copy]
  BY DEF Shaped
<1>2. [c EXCEPT !.pc = p, !.copy = s] = two
  OBVIOUS
<1> HIDE DEF one
<1>3. two = [pc |-> p, invoice |-> c.invoice, cufe |-> c.cufe, env |-> c.env, track |-> c.track,
             event |-> c.event, copy |-> s]
  BY <1>1
<1> QED
  BY <1>2, <1>3

\* Where the event changes as well.
LEMMA RowFailed ==
  ASSUME NEW c, Shaped(c), NEW p, NEW s, NEW e
  PROVE  [c EXCEPT !.pc = p, !.copy = s, !.event = e] =
           [pc |-> p, invoice |-> c.invoice, cufe |-> c.cufe, env |-> c.env, track |-> c.track,
            event |-> e, copy |-> s]
<1> DEFINE one == [c EXCEPT !.pc = p]
           two == [one EXCEPT !.copy = s]
           three == [two EXCEPT !.event = e]
<1>1. one = [pc |-> p, invoice |-> c.invoice, cufe |-> c.cufe, env |-> c.env, track |-> c.track,
             event |-> c.event, copy |-> c.copy]
  BY DEF Shaped
<1>2. [c EXCEPT !.pc = p, !.copy = s, !.event = e] = three
  OBVIOUS
<1> HIDE DEF one
<1>3. two = [pc |-> p, invoice |-> c.invoice, cufe |-> c.cufe, env |-> c.env, track |-> c.track,
             event |-> c.event, copy |-> s]
  BY <1>1
<1> HIDE DEF two
<1>4. three = [pc |-> p, invoice |-> c.invoice, cufe |-> c.cufe, env |-> c.env, track |-> c.track,
               event |-> e, copy |-> s]
  BY <1>3
<1> QED
  BY <1>2, <1>4

\* Where it is the tracking id, or the event.
LEMMA RowFound ==
  ASSUME NEW c, Shaped(c), NEW p, NEW k
  PROVE  /\ [c EXCEPT !.pc = p, !.track = k] =
             [pc |-> p, invoice |-> c.invoice, cufe |-> c.cufe, env |-> c.env, track |-> k,
              event |-> c.event, copy |-> c.copy]
         /\ [c EXCEPT !.pc = p, !.event = k] =
             [pc |-> p, invoice |-> c.invoice, cufe |-> c.cufe, env |-> c.env, track |-> c.track,
              event |-> k, copy |-> c.copy]
<1> DEFINE one == [c EXCEPT !.pc = p]
<1>1. one = [pc |-> p, invoice |-> c.invoice, cufe |-> c.cufe, env |-> c.env, track |-> c.track,
             event |-> c.event, copy |-> c.copy]
  BY DEF Shaped
<1>2. [c EXCEPT !.pc = p, !.track = k] = [one EXCEPT !.track = k]
      /\ [c EXCEPT !.pc = p, !.event = k] = [one EXCEPT !.event = k]
  OBVIOUS
<1> HIDE DEF one
<1>3. [one EXCEPT !.track = k] =
         [pc |-> p, invoice |-> c.invoice, cufe |-> c.cufe, env |-> c.env, track |-> k,
          event |-> c.event, copy |-> c.copy]
  BY <1>1
<1>4. [one EXCEPT !.event = k] =
         [pc |-> p, invoice |-> c.invoice, cufe |-> c.cufe, env |-> c.env, track |-> c.track,
          event |-> k, copy |-> c.copy]
  BY <1>1
<1> QED
  BY <1>2, <1>3, <1>4

\* A request that starts.
Started(p, i, f, e) == [IdleTask EXCEPT !.pc = p, !.invoice = i, !.cufe = f, !.env = e]

\* Where a request starts.
LEMMA RowStarted ==
  ASSUME NEW p, NEW i, NEW f, NEW e
  PROVE  Started(p, i, f, e) =
           [pc |-> p, invoice |-> i, cufe |-> f, env |-> e, track |-> None, event |-> None, copy |-> <<>>]
<1> DEFINE one == [IdleTask EXCEPT !.pc = p]
           two == [one EXCEPT !.invoice = i]
           three == [two EXCEPT !.cufe = f]
           four == [three EXCEPT !.env = e]
<1>1. one = [pc |-> p, invoice |-> None, cufe |-> None, env |-> None, track |-> None, event |-> None, copy |-> <<>>]
  BY DEF IdleTask
<1>2. Started(p, i, f, e) = four
  BY DEF Started
<1> HIDE DEF one
<1>3. two = [pc |-> p, invoice |-> i, cufe |-> None, env |-> None, track |-> None, event |-> None, copy |-> <<>>]
  BY <1>1
<1> HIDE DEF two
<1>4. three = [pc |-> p, invoice |-> i, cufe |-> f, env |-> None, track |-> None, event |-> None, copy |-> <<>>]
  BY <1>3
<1> HIDE DEF three
<1>5. four = [pc |-> p, invoice |-> i, cufe |-> f, env |-> e, track |-> None, event |-> None, copy |-> <<>>]
  BY <1>4
<1> QED
  BY <1>2, <1>5

-----------------------------------------------------------------------------
\* DIAN forgets no document, and a row that is gone stays away.
Later ==
    /\ DOMAIN docs \subseteq DOMAIN docs'
    /\ \A d \in DOMAIN docs : /\ docs'[d].cufe = docs[d].cufe
                              /\ docs'[d].tracked = docs[d].tracked
                              /\ docs'[d].answered = docs[d].answered
                              /\ docs[d].verdict = "valid" => docs'[d].verdict = "valid"
    /\ overlap \subseteq overlap' /\ lost \subseteq lost' /\ byHand \subseteq byHand'
    /\ \A i \in Invoices : invoice[i] = "removed" => invoice'[i] = "removed"

\* The timeline of i got longer, or stayed.
Grew(i) == \A k \in DOMAIN timeline[i] : k \in DOMAIN timeline'[i] /\ timeline'[i][k] = timeline[i][k]

\* So what goes back to documents still does.
LEMMA EvidenceKept ==
  ASSUME Later
  PROVE  /\ \A i : SentOnes(i) \subseteq SentOnes(i)' /\ ValidOnes(i) \subseteq ValidOnes(i)'
         /\ Events \subseteq Events'
         /\ \A i, e : Sound(i, e) => Sound(i, e)'
<1>1. \A i : SentOnes(i) \subseteq SentOnes(i)' /\ ValidOnes(i) \subseteq ValidOnes(i)'
  BY DEF Later, SentOnes, ValidOnes
<1>2. Events \subseteq Events'
  BY DEF Later, Events
<1>3. ASSUME NEW i, NEW e, Sound(i, e) PROVE Sound(i, e)'
  <2>1. e \in Events' /\ (e.track # None => docs'[e.track].cufe.invoice = i)
    BY <1>3 DEF Later, Sound, Events
  <2> QED
    BY <1>1, <1>3, <2>1 DEF Sound
<1> QED
  BY <1>1, <1>2, <1>3

\* A request that does not move stays sound, if it need not see its timeline.
LEMMA TaskKept ==
  ASSUME Later, NEW t \in Tasks, TaskSound(task[t]), task'[t] = task[t],
         \/ timeline'[task[t].invoice] = timeline[task[t].invoice]
         \/ task[t].invoice \in overlap' \/ ~Exists(task[t].invoice)'
         \/ task[t].pc # "write" /\ Grew(task[t].invoice)
  PROVE  TaskSound(task[t])'
<1> DEFINE c == task[t]
           i == c.invoice
<1>0. TaskSound(c) /\ c' = c
  OBVIOUS
<1>1. \A j, e : Sound(j, e) => Sound(j, e)'
  BY EvidenceKept
<1>2. c.pc = "ask" => c.track \in DOMAIN docs' /\ docs'[c.track].cufe.invoice = i
  BY <1>0 DEF TaskSound, Later
<1>3. c.pc \in {"read", "write", "status"} => Sound(i, c.event)'
  BY <1>0, <1>1 DEF TaskSound
<1>4. c.pc \in {"read", "write"} /\ c.event.action = "send" =>
         c.track \in DOMAIN docs' /\ Recording(c, c.track)'
  <2> SUFFICES ASSUME c.pc \in {"read", "write"} /\ c.event.action = "send"
               PROVE  c.track \in DOMAIN docs' /\ Recording(c, c.track)'
    OBVIOUS
  <2>1. c.track \in DOMAIN docs /\ Recording(c, c.track)
    BY <1>0 DEF TaskSound
  <2>2. c.track \in DOMAIN docs' /\ docs'[c.track].cufe = docs[c.track].cufe
        /\ docs'[c.track].tracked = docs[c.track].tracked
    BY <2>1 DEF Later
  <2> QED
    BY <1>0, <2>1, <2>2 DEF Recording
<1>5. c.pc = "write" =>
         /\ c.copy \in Seq(Events') /\ \A k \in DOMAIN c.copy : Sound(i, c.copy[k])'
         /\ Exists(i)' => c.copy = timeline'[i] \/ i \in overlap'
  <2> SUFFICES ASSUME c.pc = "write"
               PROVE  /\ c.copy \in Seq(Events') /\ \A k \in DOMAIN c.copy : Sound(i, c.copy[k])'
                      /\ Exists(i)' => c.copy = timeline'[i] \/ i \in overlap'
    OBVIOUS
  <2>1. /\ c.copy \in Seq(Events) /\ \A k \in DOMAIN c.copy : Sound(i, c.copy[k])
        /\ Exists(i) => c.copy = timeline[i] \/ i \in overlap
    BY <1>0 DEF TaskSound
  <2>2. c.copy \in Seq(Events')
    BY <2>1, EvidenceKept, SeqMonotonic
  <2>3. \A k \in DOMAIN c.copy : Sound(i, c.copy[k])'
    BY <1>0, <1>1, <2>1
  <2>4. i \in Invoices
    BY <1>0 DEF TaskSound
  <2>5. Exists(i)' => c.copy = timeline'[i] \/ i \in overlap'
    BY <1>0, <2>1, <2>4 DEF Exists, Later
  <2> QED
    BY <2>2, <2>3, <2>5
<1>6. c.pc = "status" /\ c.event.status = "sent" =>
         i \in overlap' \/ ~Exists(i)' \/ ToldSent(c.cufe)'
  <2> SUFFICES ASSUME c.pc = "status", c.event.status = "sent", i \notin overlap', Exists(i)'
               PROVE  ToldSent(c.cufe)'
    OBVIOUS
  <2>1. i \in Invoices /\ c.cufe.invoice = i /\ (i \in overlap \/ ~Exists(i) \/ ToldSent(c.cufe))
    BY <1>0 DEF TaskSound
  <2>2. ToldSent(c.cufe)
    BY <1>0, <2>1 DEF Later, Exists
  <2>3. timeline'[i] = timeline[i] \/ Grew(i)
    BY <1>0
  <2> QED
    BY <1>0, <2>1, <2>2, <2>3 DEF ToldSent, Grew
<1> QED
  BY <1>0, <1>2, <1>3, <1>4, <1>5, <1>6 DEF TaskSound

\* One request moves, the timelines stay.
LEMMA OneTask ==
  ASSUME TasksSound, Later, NEW t \in Tasks, NEW row, task' = [task EXCEPT ![t] = row],
         TaskSound(task[t])', timeline' = timeline
  PROVE  TasksSound'
<1>1. DOMAIN task' = Tasks /\ \A u \in Tasks \ {t} : task'[u] = task[u]
  BY DEF TasksSound
<1>2. ASSUME NEW u \in Tasks PROVE TaskSound(task[u])'
  <2>1. CASE u = t
    BY <2>1
  <2>2. CASE u # t
    BY <1>1, <2>2, TaskKept DEF TasksSound
  <2> QED
    BY <2>1, <2>2
<1> QED
  BY <1>1, <1>2 DEF TasksSound

\* None does.
LEMMA NoTask ==
  ASSUME TasksSound, Later, task' = task, timeline' = timeline
  PROVE  TasksSound'
<1>1. ASSUME NEW u \in Tasks PROVE TaskSound(task[u])'
  BY TaskKept DEF TasksSound
<1> QED
  BY <1>1 DEF TasksSound

\* An idle request is sound.
LEMMA IdleSound == TaskSound(IdleTask) /\ IdleTask.pc = "idle"
  BY DEF TaskSound, IdleTask

\* A request ends.
LEMMA Ended ==
  ASSUME TasksSound, Later, NEW t \in Tasks, End(t), timeline' = timeline
  PROVE  TasksSound' /\ task'[t].pc = "idle" /\ \A u \in Tasks \ {t} : task'[u] = task[u]
<1>1. task' = [task EXCEPT ![t] = IdleTask] /\ task'[t] = IdleTask
      /\ \A u \in Tasks \ {t} : task'[u] = task[u]
  BY DEF End, Continue, TasksSound
<1>2. TaskSound(task[t])'
  BY <1>1 DEF TaskSound, IdleTask
<1>3. TasksSound'
  <2> DEFINE row == IdleTask
  <2>1. task' = [task EXCEPT ![t] = row]
    BY <1>1
  <2> HIDE DEF row
  <2> QED
    BY <1>2, <2>1, OneTask
<1>4. task'[t].pc = "idle"
  BY <1>1 DEF IdleTask
<1> QED
  BY <1>1, <1>3, <1>4

\* Timelines that stay, stay right.
LEMMA TimelinesKept ==
  ASSUME InvoicingInv, Later, timeline' = timeline
  PROVE  TimelinesSound' /\ \A i \in Invoices : timeline'[i] \in Seq(Events')
<1>1. ASSUME NEW i \in Invoices PROVE timeline'[i] \in Seq(Events')
  BY EvidenceKept, SeqMonotonic DEF InvoicingInv, InvoicingTypeOK
<1>2. TimelinesSound'
  BY EvidenceKept DEF InvoicingInv, TimelinesSound
<1> QED
  BY <1>1, <1>2

\* A status that is not set by the service goes back to what it went back to.
LEMMA BackedKept ==
  ASSUME StatusIsBacked, Later,
         \A i \in Invoices \ byHand' : /\ invoice'[i] = "sent" => invoice[i] = "sent"
                                       /\ invoice'[i] = "accepted" => invoice[i] = "accepted"
  PROVE  StatusIsBacked'
<1> SUFFICES ASSUME NEW i \in Invoices \ byHand'
             PROVE  /\ invoice'[i] = "sent" =>
                         \E d \in DOMAIN docs' : docs'[d].cufe.invoice = i
                            /\ (docs'[d].tracked \/ docs'[d].verdict = "valid")
                    /\ invoice'[i] = "accepted" =>
                         \E d \in DOMAIN docs' : docs'[d].cufe.invoice = i /\ docs'[d].verdict = "valid"
  BY DEF StatusIsBacked
<1>1. i \in Invoices \ byHand
  BY DEF Later
<1> QED
  BY <1>1 DEF StatusIsBacked, Later

\* Rows and timelines stay, so what is said of them does.
LEMMA RowsStay ==
  ASSUME InvoicingInv, Later, UNCHANGED <<invoice, timeline>>, TasksSound',
         config' \in [pin : Pins \union {None}, env : Envs], mailed' = mailed, docs' \in Seq(Transmissions)
  PROVE  /\ InvoicingTypeOK' /\ TimelinesSound' /\ StatusIsBacked' /\ MailFollowsRecord'
<1>1. InvoicingTypeOK'
  <2>1. \A t \in Tasks : AtTask(t, "ask")' => task'[t].track \in DOMAIN docs'
    BY DEF TasksSound, TaskSound, AtTask
  <2> QED
    BY <2>1, TimelinesKept DEF InvoicingInv, InvoicingTypeOK
<1>2. TimelinesSound'
  BY TimelinesKept
<1>3. StatusIsBacked'
  BY BackedKept DEF InvoicingInv
<1>4. MailFollowsRecord'
  BY DEF InvoicingInv, MailFollowsRecord, Later, Exists
<1> QED
  BY <1>1, <1>2, <1>3, <1>4

\* An answer is kept if whoever carries it goes on carrying it.
LEMMA AnswersStay ==
  ASSUME InvoicingInv, Later, UNCHANGED <<invoice, timeline>>, NEW d \in DOMAIN docs,
         \A t \in Tasks : Recording(task[t], d) => d \in lost' \/ Recording(task[t], d)'
  PROVE  AnswerKept(d)'
<1> DEFINE i == docs[d].cufe.invoice
<1>1. docs'[d].cufe = docs[d].cufe /\ docs'[d].answered = docs[d].answered /\ docs'[d].tracked = docs[d].tracked
  BY DEF Later
<1>2. \/ ~docs[d].answered \/ d \in lost \/ i \in overlap \/ ~Exists(i)
      \/ \E t \in Tasks : Recording(task[t], d)
      \/ Recorded(d)
  BY DEF InvoicingInv, AnswersKept, AnswerKept
<1>3. Recorded(d) => Recorded(d)'
  BY <1>1 DEF Recorded
<1>4. (\E t \in Tasks : Recording(task[t], d)) => d \in lost' \/ \E t \in Tasks : Recording(task[t], d)'
  OBVIOUS
<1>5. (i \in overlap => i \in overlap') /\ (d \in lost => d \in lost')
  BY DEF Later
<1>6. docs'[d].cufe.invoice = i /\ invoice' = invoice
  BY <1>1
<1> QED
  BY <1>1, <1>2, <1>3, <1>4, <1>5, <1>6 DEF AnswerKept, Exists

\* Nothing is taken back when no document and no row moves.
LEMMA LaterWithDocs ==
  ASSUME UNCHANGED <<docs, invoice>>, overlap \subseteq overlap', lost \subseteq lost', byHand \subseteq byHand'
  PROVE  Later
  BY DEF Later

\* A request that starts, reads or ends.
LEMMA OnlyTask ==
  ASSUME InvoicingInv, NEW t \in Tasks, NEW row, task' = [task EXCEPT ![t] = row], TaskSound(row),
         UNCHANGED <<invoice, timeline, docs, mailed, overlap, byHand>>,
         config' = config, lost \subseteq lost',
         \A d \in DOMAIN docs : Recording(task[t], d) => d \in lost' \/ Recording(row, d)
  PROVE  InvoicingInv'
<1>0. TasksSound /\ InvoicingTypeOK
  BY DEF InvoicingInv
<1>1. Later
  BY LaterWithDocs
<1>2. task'[t] = row /\ \A u \in Tasks \ {t} : task'[u] = task[u]
  BY <1>0 DEF TasksSound
<1>3. TaskSound(task[t])'
  BY <1>2 DEF TaskSound, Sound, Recording, ToldSent, Exists, Events, SentOnes, ValidOnes
<1>4. TasksSound'
  BY <1>0, <1>1, <1>3, OneTask
<1>5. InvoicingTypeOK' /\ TimelinesSound' /\ StatusIsBacked' /\ MailFollowsRecord'
  BY <1>0, <1>1, <1>4, RowsStay DEF InvoicingTypeOK
<1>6. AnswersKept'
  <2>1. ASSUME NEW d \in DOMAIN docs, NEW u \in Tasks, Recording(task[u], d)
        PROVE  d \in lost' \/ Recording(task[u], d)'
    <3>1. CASE u = t
      BY <1>2, <2>1, <3>1 DEF Recording
    <3>2. CASE u # t
      BY <1>2, <2>1, <3>2 DEF Recording
    <3> QED
      BY <3>1, <3>2
  <2>2. DOMAIN docs' = DOMAIN docs
    OBVIOUS
  <2>3. ASSUME NEW d \in DOMAIN docs PROVE AnswerKept(d)'
    BY <1>1, <2>1, AnswersStay
  <2> QED
    BY <2>2, <2>3 DEF AnswersKept
<1> QED
  BY <1>4, <1>5, <1>6 DEF InvoicingInv

-----------------------------------------------------------------------------
\* The last event of an invoice is one of its events.
LEMMA LastSound ==
  ASSUME InvoicingInv, NEW i \in Invoices, timeline[i] # <<>>
  PROVE  Sound(i, LastEvent(i))
<1>1. timeline[i] \in Seq(Events)
  BY DEF InvoicingInv, InvoicingTypeOK
<1>2. Len(timeline[i]) \in DOMAIN timeline[i]
  BY <1>1
<1> QED
  BY <1>2 DEF InvoicingInv, TimelinesSound, LastEvent

\* Requests start with what they read of the tenant and of the invoice.
LEMMA RequestsStart ==
  ASSUME InvoicingInv, NEW t \in Tasks, SendRead(t) \/ PollRead(t)
  PROVE  InvoicingInv'
<1> DEFINE Row(p, i, f) == [pc |-> p, invoice |-> i, cufe |-> f, env |-> config.env,
                            track |-> None, event |-> None, copy |-> <<>>]
<1>0. config \in [pin : Pins \union {None}, env : Envs]
  BY DEF InvoicingInv, InvoicingTypeOK
<1>1. \E i \in Invoices, f \in Cufes, p \in {"call", "find"} :
         f.invoice = i /\ task' = [task EXCEPT ![t] = Row(p, i, f)]
  <2>1. ASSUME SendRead(t)
        PROVE  \E i \in Invoices, f \in Cufes, p \in {"call", "find"} :
                  f.invoice = i /\ task' = [task EXCEPT ![t] = Row(p, i, f)]
    <3>1. PICK i \in Invoices :
             /\ Valid(config)
             /\ Continue(t, [IdleTask EXCEPT !.pc = "call", !.invoice = i,
                                             !.cufe = Cufe(i, config.pin), !.env = config.env])
      BY <2>1 DEF SendRead
    <3>2. Cufe(i, config.pin) \in Cufes /\ Cufe(i, config.pin).invoice = i
      BY <1>0, <3>1 DEF Cufe, Cufes, Valid
    <3> DEFINE f == Cufe(i, config.pin)
               e == config.env
               row == Started("call", i, f, e)
    <3>3. task' = [task EXCEPT ![t] = Row("call", i, f)]
      <4>1. task' = [task EXCEPT ![t] = row]
        BY <3>1 DEF Continue, Started
      <4>2. row = Row("call", i, f)
        BY RowStarted
      <4> HIDE DEF row
      <4> QED
        BY <4>1, <4>2
    <3> QED
      BY <3>2, <3>3
  <2>2. ASSUME PollRead(t)
        PROVE  \E i \in Invoices, f \in Cufes, p \in {"call", "find"} :
                  f.invoice = i /\ task' = [task EXCEPT ![t] = Row(p, i, f)]
    <3>1. PICK i \in Invoices :
             /\ timeline[i] # <<>>
             /\ Continue(t, [IdleTask EXCEPT !.pc = "find", !.invoice = i,
                                             !.cufe = LastEvent(i).cufe, !.env = config.env])
      BY <2>2 DEF PollRead
    <3>2. LastEvent(i).cufe \in Cufes /\ LastEvent(i).cufe.invoice = i
      BY <3>1, LastSound DEF Sound, Events
    <3> DEFINE f == LastEvent(i).cufe
               e == config.env
               row == Started("find", i, f, e)
    <3>3. task' = [task EXCEPT ![t] = Row("find", i, f)]
      <4>1. task' = [task EXCEPT ![t] = row]
        BY <3>1 DEF Continue, Started
      <4>2. row = Row("find", i, f)
        BY RowStarted
      <4> HIDE DEF row
      <4> QED
        BY <4>1, <4>2
    <3> QED
      BY <3>2, <3>3
  <2> QED
    BY <2>1, <2>2
<1>2. PICK i \in Invoices, f \in Cufes, p \in {"call", "find"} :
         f.invoice = i /\ task' = [task EXCEPT ![t] = Row(p, i, f)]
  BY <1>1
<1> DEFINE row == Row(p, i, f)
<1>3. TaskSound(row)
  BY <1>0, <1>2 DEF TaskSound
<1>4. \A d \in DOMAIN docs : ~Recording(task[t], d)
  BY DEF SendRead, PollRead, Idle, AtTask, Recording
<1>5. task' = [task EXCEPT ![t] = row]
  BY <1>2
<1> HIDE DEF row
<1>6. UNCHANGED <<invoice, timeline, docs, mailed, overlap, byHand, config, lost>>
  BY DEF SendRead, PollRead
<1> QED
  BY <1>3, <1>4, <1>5, <1>6, OnlyTask

\* Requests that end without an event.
LEMMA RequestsEnd ==
  ASSUME InvoicingInv, NEW t \in Tasks, End(t), task[t].pc \notin {"read", "write"},
         UNCHANGED <<invoice, timeline, docs, mailed, overlap, byHand, config, lost>>
  PROVE  InvoicingInv'
<1> DEFINE row == IdleTask
<1>1. task' = [task EXCEPT ![t] = row] /\ TaskSound(row)
  BY IdleSound DEF End, Continue
<1> HIDE DEF row
<1>2. \A d \in DOMAIN docs : ~Recording(task[t], d)
  BY DEF Recording
<1> QED
  BY <1>1, <1>2, OnlyTask

\* Requests that read a row, or end.
LEMMA RequestsGoOn ==
  ASSUME InvoicingInv, NEW t \in Tasks,
         CallRefused(t) \/ AppendRead(t) \/ PollFind(t) \/ PollAnswered(t) \/ PollFails(t)
  PROVE  InvoicingInv'
<1> DEFINE c == task[t]
           i == c.invoice
<1>0. TaskSound(c) /\ Shaped(c) /\ c.pc # "idle" /\ i \in Invoices
      /\ UNCHANGED <<invoice, timeline, docs, mailed, overlap, byHand, config, lost>>
  BY DEF InvoicingInv, TasksSound, TaskSound, Shaped, CallRefused, AppendRead, PollFind, PollAnswered,
         PollFails, AtTask
<1>1. CASE End(t) /\ c.pc \notin {"read", "write"}
  BY <1>0, <1>1, RequestsEnd
<1>2. ASSUME AppendRead(t) PROVE InvoicingInv'
  <2> DEFINE s == IF Exists(i) THEN timeline[i] ELSE <<>>
             row == [pc |-> "write", invoice |-> c.invoice, cufe |-> c.cufe, env |-> c.env,
                     track |-> c.track, event |-> c.event, copy |-> s]
  <2>1. task' = [task EXCEPT ![t] = row]
    BY <1>0, <1>2, RowCopied DEF AppendRead, Continue, Inv
  <2>2. c.pc = "read"
    BY <1>2 DEF AppendRead, AtTask
  <2>3. s \in Seq(Events) /\ (\A k \in DOMAIN s : Sound(i, s[k])) /\ (Exists(i) => s = timeline[i])
    <3>1. <<>> \in Seq(Events) /\ DOMAIN <<>> = {}
      OBVIOUS
    <3>2. timeline[i] \in Seq(Events) /\ \A k \in DOMAIN timeline[i] : Sound(i, timeline[i][k])
      BY <1>0 DEF InvoicingInv, InvoicingTypeOK, TimelinesSound
    <3> QED
      BY <3>1, <3>2
  <2> HIDE DEF s
  <2>4. TaskSound(row)
    BY <1>0, <2>2, <2>3 DEF TaskSound, Recording
  <2>5. \A d \in DOMAIN docs : Recording(c, d) => Recording(row, d)
    BY DEF Recording
  <2> HIDE DEF row
  <2> QED
    BY <1>0, <2>1, <2>4, <2>5, OnlyTask
<1>3. ASSUME PollFind(t), ~End(t) PROVE InvoicingInv'
  <2> DEFINE k == LastEvent(i).track
             row == [pc |-> "ask", invoice |-> c.invoice, cufe |-> c.cufe, env |-> c.env,
                     track |-> k, event |-> c.event, copy |-> c.copy]
  <2>1. task' = [task EXCEPT ![t] = row] /\ c.pc = "find" /\ Tracked(i)
        /\ \E j \in DOMAIN timeline[i] : timeline[i][j].cufe = c.cufe
    <3> DEFINE next == [c EXCEPT !.pc = "ask", !.track = k]
    <3>1. c.pc = "find" /\ Tracked(i) /\ \E j \in DOMAIN timeline[i] : timeline[i][j].cufe = c.cufe
      BY <1>3 DEF PollFind, Inv, AtTask
    <3>2. task' = [task EXCEPT ![t] = next]
      BY <1>3 DEF PollFind, Continue, Inv
    <3>3. next = row
      <4> HIDE DEF k
      <4> QED
        BY <1>0, RowFound
    <3> HIDE DEF next, row
    <3> QED
      BY <3>1, <3>2, <3>3
  <2>2. timeline[i] # <<>>
    BY <2>1
  <2>3. Sound(i, LastEvent(i))
    BY <1>0, <2>2, LastSound
  <2>4. k \in DOMAIN docs /\ docs[k].cufe.invoice = i
    BY <2>1, <2>3 DEF Sound, Events, Tracked
  <2>5. TaskSound(row)
    BY <1>0, <2>4 DEF TaskSound
  <2>6. \A d \in DOMAIN docs : ~Recording(c, d)
    BY <2>1 DEF Recording
  <2> HIDE DEF row
  <2> QED
    BY <1>0, <2>1, <2>5, <2>6, OnlyTask
<1>4. ASSUME PollAnswered(t) PROVE InvoicingInv'
  <2> DEFINE d == docs[c.track]
             valid == d.verdict = "valid" /\ d.env = c.env
             e == Event("status", IF valid THEN "accepted" ELSE "pending", c.cufe, c.track)
             row == [pc |-> "read", invoice |-> c.invoice, cufe |-> c.cufe, env |-> c.env,
                     track |-> c.track, event |-> e, copy |-> c.copy]
  <2>1. task' = [task EXCEPT ![t] = row] /\ c.pc = "ask"
    <3> DEFINE next == [c EXCEPT !.pc = "read", !.event = e]
    <3>1. c.pc = "ask"
      BY <1>4 DEF PollAnswered, AtTask
    <3>2. task' = [task EXCEPT ![t] = next]
      BY <1>4 DEF PollAnswered, Continue
    <3>3. next = row
      <4> HIDE DEF e
      <4> QED
        BY <1>0, RowFound
    <3> HIDE DEF next, row
    <3> QED
      BY <3>1, <3>2, <3>3
  <2>2. c.track \in DOMAIN docs /\ d.cufe.invoice = i /\ c.cufe \in Cufes /\ c.cufe.invoice = i
    BY <1>0, <2>1 DEF TaskSound
  <2>3. valid => ValidOnes(i) # {}
    BY <2>2 DEF ValidOnes
  <2>4. Sound(i, e) /\ e.action = "status" /\ e.cufe = c.cufe
    BY <2>2, <2>3 DEF Sound, Event, Events
  <2> HIDE DEF e
  <2>5. TaskSound(row)
    BY <1>0, <2>4 DEF TaskSound
  <2>6. \A j \in DOMAIN docs : ~Recording(c, j)
    BY <2>1 DEF Recording
  <2> HIDE DEF row
  <2> QED
    BY <1>0, <2>1, <2>5, <2>6, OnlyTask
<1> QED
  BY <1>1, <1>2, <1>3, <1>4 DEF CallRefused, PollFails, PollFind, AtTask

-----------------------------------------------------------------------------
\* What reaches DIAN.

\* DIAN gets a document.
LEMMA DocsGrow ==
  ASSUME InvoicingInv, NEW x \in Transmissions, docs' = Append(docs, x),
         UNCHANGED <<invoice, overlap, lost, byHand>>
  PROVE  /\ Later /\ docs' \in Seq(Transmissions) /\ Len(docs) \in Nat
         /\ DOMAIN docs' = DOMAIN docs \union {Len(docs) + 1} /\ Len(docs) + 1 \notin DOMAIN docs
         /\ docs'[Len(docs) + 1] = x
         /\ \A d \in DOMAIN docs : docs'[d] = docs[d]
<1>1. docs \in Seq(Transmissions)
  BY DEF InvoicingInv, InvoicingTypeOK
<1>2. /\ docs' \in Seq(Transmissions) /\ Len(docs') = Len(docs) + 1
      /\ \A d \in 1 .. Len(docs) : docs'[d] = docs[d]
      /\ docs'[Len(docs) + 1] = x
  BY <1>1, AppendProperties
<1>3. DOMAIN docs = 1 .. Len(docs) /\ DOMAIN docs' = 1 .. (Len(docs) + 1) /\ Len(docs) \in Nat
  BY <1>1, <1>2
<1>4. DOMAIN docs' = DOMAIN docs \union {Len(docs) + 1} /\ Len(docs) + 1 \notin DOMAIN docs
  BY <1>3
<1> QED
  BY <1>2, <1>3, <1>4 DEF Later

\* The answers to older documents are where they were; the caller carried none.
LEMMA OldAnswers ==
  ASSUME InvoicingInv, Later, UNCHANGED <<invoice, timeline>>, NEW t \in Tasks, task[t].pc = "call",
         \A u \in Tasks \ {t} : task'[u] = task[u], NEW d \in DOMAIN docs
  PROVE  AnswerKept(d)'
<1>1. ASSUME NEW u \in Tasks, Recording(task[u], d) PROVE d \in lost' \/ Recording(task[u], d)'
  <2>1. u # t
    BY <1>1 DEF Recording
  <2>2. docs'[d].cufe = docs[d].cufe /\ docs'[d].tracked = docs[d].tracked /\ task'[u] = task[u]
    BY <2>1 DEF Later
  <2> QED
    BY <1>1, <2>2 DEF Recording
<1> QED
  BY <1>1, AnswersStay

\* DIAN answers: the request carries the answer.
LEMMA CallsAnswered ==
  ASSUME InvoicingInv, NEW t \in Tasks, CallAnswered(t)
  PROVE  InvoicingInv'
<1> PICK n : n = Len(docs) + 1
  OBVIOUS
<1> DEFINE c == task[t]
           i == c.invoice
<1>0. /\ TasksSound /\ TaskSound(c) /\ Shaped(c) /\ c.pc = "call" /\ i \in Invoices
      /\ c.cufe \in Cufes /\ c.cufe.invoice = i /\ c.env \in Envs
      /\ UNCHANGED <<config, invoice, timeline, mailed, overlap, lost, byHand>>
  BY DEF InvoicingInv, TasksSound, TaskSound, Shaped, CallAnswered, AtTask
<1>1. PICK tracked \in BOOLEAN, verdict \in {"none", "valid", "invalid"} :
         LET track == IF tracked THEN Len(docs) + 1 ELSE None
             good == Accepted(verdict = "valid", track)
         IN  /\ docs' = Append(docs, Document(t, verdict, tracked, TRUE))
             /\ Continue(t, [task[t] EXCEPT !.pc = "read", !.track = Len(docs) + 1,
                   !.event = Event("send", IF good THEN "sent" ELSE "rejected", task[t].cufe, track)])
  BY DEF CallAnswered
<1> DEFINE x == Document(t, verdict, tracked, TRUE)
           track == IF tracked THEN n ELSE None
           good == Accepted(verdict = "valid", track)
           e == Event("send", IF good THEN "sent" ELSE "rejected", c.cufe, track)
           row == [pc |-> "read", invoice |-> c.invoice, cufe |-> c.cufe, env |-> c.env,
                   track |-> n, event |-> e, copy |-> c.copy]
<1>2. x \in Transmissions /\ x.cufe = c.cufe /\ x.tracked = tracked /\ x.verdict = verdict
  BY <1>0 DEF Document, Transmissions
<1>3. docs' = Append(docs, x)
  BY <1>1
<1> HIDE DEF x
<1>4. /\ Later /\ docs' \in Seq(Transmissions)
      /\ DOMAIN docs' = DOMAIN docs \union {n}
      /\ docs'[n] = x
  BY <1>0, <1>2, <1>3, DocsGrow
<1>5. task' = [task EXCEPT ![t] = row]
  <2> DEFINE next == [c EXCEPT !.pc = "read", !.track = n, !.event = e]
  <2>1. task' = [task EXCEPT ![t] = next]
    BY <1>1 DEF Continue
  <2>2. next = row
    <3> HIDE DEF c, e
    <3>1. Shaped(c)
      BY <1>0
    <3> QED
      BY ONLY <3>1, RowAnswered
  <2> HIDE DEF next, row
  <2> QED
    BY <2>1, <2>2
<1>6. good => SentOnes(i)' # {}
  <2> SUFFICES ASSUME good PROVE SentOnes(i)' # {}
    OBVIOUS
  <2>1. tracked \/ verdict = "valid"
    BY DEF Accepted
  <2>2. n \in DOMAIN docs' /\ docs'[n].cufe.invoice = i /\ (docs'[n].tracked \/ docs'[n].verdict = "valid")
    BY <1>0, <1>2, <1>4, <2>1
  <2>3. task'[t].invoice = i
    BY <1>0, <1>5 DEF TasksSound
  <2> QED
    BY <2>2, <2>3 DEF SentOnes
<1>7. /\ e.action = "send" /\ e.cufe = c.cufe /\ e.track = track
      /\ e.status = (IF good THEN "sent" ELSE "rejected")
      /\ e = [action |-> "send", status |-> IF good THEN "sent" ELSE "rejected", cufe |-> c.cufe, track |-> track]
  BY DEF Event
<1> HIDE DEF good, e
<1>8. track \in DOMAIN docs' \union {None} /\ (track # None => docs'[track].cufe.invoice = i)
  BY <1>0, <1>2, <1>4
<1>9. e \in Events'
  BY <1>0, <1>7, <1>8 DEF Events
<1>10. task'[t] = row /\ \A u \in Tasks \ {t} : task'[u] = task[u]
  BY <1>0, <1>5 DEF TasksSound
<1>11. Sound(task[t].invoice, task[t].event)'
  BY <1>0, <1>6, <1>7, <1>8, <1>9, <1>10 DEF Sound
<1>12. Recording(task[t], n)'
  BY <1>0, <1>2, <1>4, <1>7, <1>10 DEF Recording
<1>13. TaskSound(task[t])'
  BY <1>0, <1>4, <1>7, <1>10, <1>11, <1>12 DEF TaskSound, Recording
<1>14. TasksSound'
  <2> HIDE DEF row
  <2> QED
    BY <1>0, <1>4, <1>5, <1>13, OneTask
<1>15. InvoicingTypeOK' /\ TimelinesSound' /\ StatusIsBacked' /\ MailFollowsRecord'
  BY <1>0, <1>4, <1>14, RowsStay DEF InvoicingInv, InvoicingTypeOK
<1>16. AnswersKept'
  <2>1. ASSUME NEW d \in DOMAIN docs PROVE AnswerKept(d)'
    BY <1>0, <1>4, <1>10, OldAnswers
  <2>2. ASSUME NEW d \in DOMAIN docs', d \notin DOMAIN docs PROVE AnswerKept(d)'
    <3>1. d = n
      BY <1>4, <2>2
    <3>2. Recording(task[t], d)'
      BY <1>12, <3>1 DEF Recording
    <3> QED
      BY <3>2 DEF AnswerKept
  <2> QED
    BY <2>1, <2>2 DEF AnswersKept
<1> QED
  BY <1>14, <1>15, <1>16 DEF InvoicingInv

\* The call fails, whether DIAN got the document or not.
LEMMA CallsFail ==
  ASSUME InvoicingInv, NEW t \in Tasks, CallFails(t)
  PROVE  InvoicingInv'
<1> DEFINE c == task[t]
           i == c.invoice
           e == Event("fail", "rejected", c.cufe, None)
           x == Document(t, "none", FALSE, FALSE)
           row == [pc |-> "read", invoice |-> c.invoice, cufe |-> c.cufe, env |-> c.env,
                   track |-> None, event |-> e, copy |-> c.copy]
<1>0. /\ TasksSound /\ TaskSound(c) /\ Shaped(c) /\ c.pc = "call" /\ i \in Invoices
      /\ c.cufe \in Cufes /\ c.cufe.invoice = i /\ c.env \in Envs
      /\ UNCHANGED <<config, invoice, timeline, mailed, overlap, lost, byHand>>
  BY DEF InvoicingInv, TasksSound, TaskSound, Shaped, CallFails, AtTask
<1>1. x \in Transmissions /\ x.answered = FALSE
  BY <1>0 DEF Document, Transmissions
<1>2. docs' = Append(docs, x) \/ docs' = docs
  BY DEF CallFails
<1> HIDE DEF x
<1>3. /\ Later /\ docs' \in Seq(Transmissions) /\ DOMAIN docs \subseteq DOMAIN docs'
      /\ \A d \in DOMAIN docs' : d \in DOMAIN docs \/ docs'[d].answered = FALSE
  <2>1. CASE docs' = Append(docs, x)
    BY <1>0, <1>1, <2>1, DocsGrow
  <2>2. CASE docs' = docs
    BY <1>0, <2>2, LaterWithDocs DEF InvoicingInv, InvoicingTypeOK
  <2> QED
    BY <1>2, <2>1, <2>2
<1>4. task' = [task EXCEPT ![t] = row]
  <2> DEFINE next == [c EXCEPT !.pc = "read", !.track = None, !.event = e]
  <2>1. task' = [task EXCEPT ![t] = next]
    BY DEF CallFails, Continue
  <2>2. next = row
    <3> DEFINE k == None
    <3>1. [c EXCEPT !.pc = "read", !.track = k, !.event = e] =
             [pc |-> "read", invoice |-> c.invoice, cufe |-> c.cufe, env |-> c.env, track |-> k,
              event |-> e, copy |-> c.copy]
      <4> HIDE DEF k, e
      <4> QED
        BY <1>0, RowAnswered
    <3> QED
      BY <3>1
  <2> HIDE DEF next, row
  <2> QED
    BY <2>1, <2>2
<1>5. e \in Events' /\ e.action = "fail" /\ e.status = "rejected" /\ e.cufe = c.cufe /\ e.track = None
  BY <1>0 DEF Event, Events
<1> HIDE DEF e
<1>6. task'[t] = row /\ \A u \in Tasks \ {t} : task'[u] = task[u]
  BY <1>0, <1>4 DEF TasksSound
<1>7. Sound(task[t].invoice, task[t].event)'
  BY <1>0, <1>5, <1>6 DEF Sound
<1>8. TaskSound(task[t])'
  BY <1>0, <1>5, <1>6, <1>7 DEF TaskSound
<1>9. TasksSound'
  <2> HIDE DEF row
  <2> QED
    BY <1>0, <1>3, <1>4, <1>8, OneTask
<1>10. InvoicingTypeOK' /\ TimelinesSound' /\ StatusIsBacked' /\ MailFollowsRecord'
  BY <1>0, <1>3, <1>9, RowsStay DEF InvoicingInv, InvoicingTypeOK
<1>11. AnswersKept'
  <2>1. ASSUME NEW d \in DOMAIN docs PROVE AnswerKept(d)'
    BY <1>0, <1>3, <1>6, OldAnswers
  <2>2. ASSUME NEW d \in DOMAIN docs', d \notin DOMAIN docs PROVE AnswerKept(d)'
    BY <1>3, <2>2 DEF AnswerKept
  <2> QED
    BY <2>1, <2>2 DEF AnswersKept
<1> QED
  BY <1>9, <1>10, <1>11 DEF InvoicingInv

-----------------------------------------------------------------------------
\* Rows and timelines.

\* An answer is kept where its timeline is kept, grows, or is given up.
LEMMA AnswersMove ==
  ASSUME InvoicingInv, Later, docs' = docs, NEW d \in DOMAIN docs,
         \/ timeline'[docs[d].cufe.invoice] = timeline[docs[d].cufe.invoice]
         \/ docs[d].cufe.invoice \in overlap' \/ ~Exists(docs[d].cufe.invoice)' \/ Grew(docs[d].cufe.invoice),
         \A t \in Tasks : Recording(task[t], d) => d \in lost' \/ Recording(task[t], d)' \/ AnswerKept(d)'
  PROVE  AnswerKept(d)'
<1> SUFFICES ASSUME ~AnswerKept(d)' PROVE FALSE
  OBVIOUS
<1> PICK i : i = docs[d].cufe.invoice
  OBVIOUS
<1>1. docs[d] \in Transmissions
  BY DEF InvoicingInv, InvoicingTypeOK
<1>2. i \in Invoices
  BY <1>1 DEF Transmissions, Cufes
<1>3. docs[d].answered /\ d \notin lost' /\ i \notin overlap' /\ Exists(i)' /\ ~Recorded(d)'
      /\ \A t \in Tasks : ~Recording(task[t], d)'
  BY DEF AnswerKept
<1>4. d \notin lost /\ i \notin overlap /\ Exists(i)
  BY <1>2, <1>3 DEF Later, Exists
<1>5. \A t \in Tasks : ~Recording(task[t], d)
  BY <1>3
<1>6. Recorded(d)
  BY <1>3, <1>4, <1>5 DEF InvoicingInv, AnswersKept, AnswerKept
<1>7. timeline'[i] = timeline[i] \/ Grew(i)
  BY <1>3
<1>8. Recorded(d)'
  BY <1>6, <1>7 DEF Recorded, Grew
<1> QED
  BY <1>3, <1>8

\* What a client was mailed is on record where timelines stay or grow.
LEMMA MailKept ==
  ASSUME InvoicingInv, Later, mailed' = mailed,
         \A i \in Invoices : timeline'[i] = timeline[i] \/ i \in overlap' \/ ~Exists(i)' \/ Grew(i)
  PROVE  MailFollowsRecord'
<1> SUFFICES ASSUME NEW c \in mailed, c.invoice \notin overlap', Exists(c.invoice)'
             PROVE  \E k \in DOMAIN timeline'[c.invoice] : /\ timeline'[c.invoice][k].cufe = c
                                                           /\ timeline'[c.invoice][k].status = "sent"
  BY DEF MailFollowsRecord
<1>1. c.invoice \in Invoices
  BY DEF InvoicingInv, InvoicingTypeOK, Cufes
<1>2. c.invoice \notin overlap /\ Exists(c.invoice)
  BY <1>1 DEF Later, Exists
<1>3. \E k \in DOMAIN timeline[c.invoice] : /\ timeline[c.invoice][k].cufe = c
                                            /\ timeline[c.invoice][k].status = "sent"
  BY <1>2 DEF InvoicingInv, MailFollowsRecord
<1>4. timeline'[c.invoice] = timeline[c.invoice] \/ Grew(c.invoice)
  BY <1>1
<1> QED
  BY <1>3, <1>4 DEF Grew

\* DIAN judges a document; the tenant's columns are set.
LEMMA DianAndTenant ==
  ASSUME InvoicingInv, UpdateConfig \/ \E k \in DOMAIN docs : Judge(k)
  PROVE  InvoicingInv'
<1>0. TasksSound /\ docs \in Seq(Transmissions)
      /\ UNCHANGED <<invoice, timeline, mailed, task, overlap, lost, byHand>>
  BY DEF InvoicingInv, InvoicingTypeOK, UpdateConfig, Judge
<1>1. Later /\ docs' \in Seq(Transmissions) /\ DOMAIN docs' = DOMAIN docs
  <2>1. CASE UpdateConfig
    BY <1>0, <2>1, LaterWithDocs DEF UpdateConfig
  <2>2. ASSUME NEW k \in DOMAIN docs, Judge(k)
        PROVE  Later /\ docs' \in Seq(Transmissions) /\ DOMAIN docs' = DOMAIN docs
    <3>1. PICK v \in {"valid", "invalid"} : docs' = [docs EXCEPT ![k].verdict = v] /\ docs[k].verdict = "none"
      BY <2>2 DEF Judge
    <3> DEFINE row == [docs[k] EXCEPT !.verdict = v]
    <3>2. docs[k] \in Transmissions /\ k \in 1 .. Len(docs)
      BY <1>0
    <3>3. row \in Transmissions /\ row.cufe = docs[k].cufe /\ row.tracked = docs[k].tracked
          /\ row.answered = docs[k].answered
      BY <3>2 DEF Transmissions
    <3>4. docs' = [docs EXCEPT ![k] = row]
      BY <3>1
    <3> HIDE DEF row
    <3>5. docs' \in Seq(Transmissions)
      BY <1>0, <3>2, <3>3, <3>4, ExceptSeq
    <3>6. DOMAIN docs' = DOMAIN docs /\ docs'[k] = row /\ \A d \in DOMAIN docs \ {k} : docs'[d] = docs[d]
      BY <3>4
    <3>7. Later
      BY <1>0, <3>1, <3>3, <3>6 DEF Later
    <3> QED
      BY <3>5, <3>6, <3>7
  <2> QED
    BY <2>1, <2>2
<1>2. config' \in [pin : Pins \union {None}, env : Envs]
  BY DEF UpdateConfig, Judge, InvoicingInv, InvoicingTypeOK
<1>3. TasksSound'
  BY <1>0, <1>1, NoTask
<1>4. InvoicingTypeOK' /\ TimelinesSound' /\ StatusIsBacked' /\ MailFollowsRecord'
  BY <1>0, <1>1, <1>2, <1>3, RowsStay
<1>5. ASSUME NEW d \in DOMAIN docs PROVE AnswerKept(d)'
  <2>1. \A t \in Tasks : Recording(task[t], d) => Recording(task[t], d)'
    BY <1>0, <1>1 DEF Recording, Later
  <2> QED
    BY <1>0, <1>1, <2>1, AnswersStay
<1>6. AnswersKept'
  BY <1>1, <1>5 DEF AnswersKept
<1> QED
  BY <1>3, <1>4, <1>6 DEF InvoicingInv

\* Users set and cancel the status, and remove invoices.
LEMMA UserSets ==
  ASSUME InvoicingInv, NEW i \in Invoices, UpdateStatus(i) \/ Cancel(i)
  PROVE  InvoicingInv'
<1>0. /\ TasksSound /\ Exists(i) /\ byHand \subseteq byHand'
      /\ UNCHANGED <<config, timeline, docs, mailed, task, overlap, lost>>
  BY DEF InvoicingInv, UpdateStatus, Cancel, Exists
<1>1. PICK s \in Statuses : /\ invoice' = [invoice EXCEPT ![i] = s]
                            /\ i \in byHand' \/ s = "cancelled"
  BY DEF UpdateStatus, Cancel, Statuses
<1>2. invoice \in [Invoices -> Statuses \union {"removed"}]
  BY DEF InvoicingInv, InvoicingTypeOK
<1>3. /\ invoice' \in [Invoices -> Statuses \union {"removed"}]
      /\ invoice'[i] = s /\ \A j \in Invoices \ {i} : invoice'[j] = invoice[j]
  BY <1>1, <1>2
<1>4. Later
  BY <1>0, <1>3 DEF Later, Exists
<1>5. TasksSound'
  BY <1>0, <1>4, NoTask
<1>6. TimelinesSound' /\ \A j \in Invoices : timeline'[j] \in Seq(Events')
  BY <1>0, <1>4, TimelinesKept
<1>7. InvoicingTypeOK'
  <2>1. \A t \in Tasks : AtTask(t, "ask")' => task'[t].track \in DOMAIN docs'
    BY <1>5 DEF TasksSound, TaskSound, AtTask
  <2> QED
    BY <1>0, <1>3, <1>6, <2>1 DEF InvoicingInv, InvoicingTypeOK
<1>8. StatusIsBacked'
  <2>1. \A j \in Invoices \ byHand' : /\ invoice'[j] = "sent" => invoice[j] = "sent"
                                      /\ invoice'[j] = "accepted" => invoice[j] = "accepted"
    BY <1>1, <1>3
  <2> QED
    BY <1>4, <2>1, BackedKept DEF InvoicingInv
<1>9. MailFollowsRecord'
  BY <1>0, <1>4, MailKept
<1>10. ASSUME NEW d \in DOMAIN docs PROVE AnswerKept(d)'
  <2>1. \A t \in Tasks : Recording(task[t], d) => Recording(task[t], d)'
    BY <1>0 DEF Recording
  <2> QED
    BY <1>0, <1>4, <2>1, AnswersMove
<1>11. AnswersKept'
  BY <1>0, <1>10 DEF AnswersKept
<1> QED
  BY <1>5, <1>6, <1>7, <1>8, <1>9, <1>11 DEF InvoicingInv

\* An invoice is removed with its timeline.
LEMMA InvoiceRemoved ==
  ASSUME InvoicingInv, NEW i \in Invoices, Remove(i)
  PROVE  InvoicingInv'
<1>0. /\ TasksSound /\ Exists(i)
      /\ invoice' = [invoice EXCEPT ![i] = "removed"] /\ timeline' = [timeline EXCEPT ![i] = <<>>]
      /\ UNCHANGED <<config, docs, mailed, task, overlap, lost, byHand>>
  BY DEF InvoicingInv, Remove
<1>1. invoice \in [Invoices -> Statuses \union {"removed"}] /\ DOMAIN timeline = Invoices
      /\ \A j \in Invoices : timeline[j] \in Seq(Events)
  BY DEF InvoicingInv, InvoicingTypeOK
<1>2. /\ invoice' \in [Invoices -> Statuses \union {"removed"}] /\ DOMAIN timeline' = Invoices
      /\ invoice'[i] = "removed" /\ timeline'[i] = <<>>
      /\ \A j \in Invoices \ {i} : invoice'[j] = invoice[j] /\ timeline'[j] = timeline[j]
  BY <1>0, <1>1
<1>3. Later
  BY <1>0, <1>2 DEF Later
<1>4. ASSUME NEW j \in Invoices PROVE timeline'[j] = timeline[j] \/ ~Exists(j)'
  BY <1>2 DEF Exists
<1>5. TasksSound'
  <2>1. ASSUME NEW u \in Tasks PROVE TaskSound(task[u])'
    <3>1. TaskSound(task[u]) /\ task'[u] = task[u]
      BY <1>0 DEF TasksSound
    <3>2. CASE task[u].invoice \in Invoices
      <4>1. timeline'[task[u].invoice] = timeline[task[u].invoice] \/ ~Exists(task[u].invoice)'
        BY <1>0, <1>2, <3>2 DEF Exists
      <4> QED
        BY <1>3, <3>1, <4>1, TaskKept
    <3>3. CASE task[u].invoice \notin Invoices
      BY <3>1, <3>3 DEF TaskSound
    <3> QED
      BY <3>2, <3>3
  <2> QED
    BY <1>0, <2>1 DEF TasksSound
<1>6. InvoicingTypeOK' /\ TimelinesSound'
  <2>1. \A t \in Tasks : AtTask(t, "ask")' => task'[t].track \in DOMAIN docs'
    BY <1>5 DEF TasksSound, TaskSound, AtTask
  <2>2. ASSUME NEW j \in Invoices
        PROVE  timeline'[j] \in Seq(Events) /\ \A k \in DOMAIN timeline'[j] : Sound(j, timeline'[j][k])
    <3>1. CASE j = i
      <4>1. timeline'[j] = <<>> /\ <<>> \in Seq(Events) /\ DOMAIN <<>> = {}
        BY <1>2, <3>1
      <4> QED
        BY <4>1
    <3>2. CASE j # i
      BY <1>1, <1>2, <3>2 DEF InvoicingInv, TimelinesSound
    <3> QED
      BY <3>1, <3>2
  <2>3. Events' = Events
    BY <1>0 DEF Events
  <2>4. TimelinesSound'
    BY <1>3, <2>2, EvidenceKept DEF TimelinesSound
  <2> QED
    BY <1>0, <1>2, <2>1, <2>2, <2>3, <2>4 DEF InvoicingInv, InvoicingTypeOK
<1>7. StatusIsBacked'
  <2>1. \A j \in Invoices \ byHand' : /\ invoice'[j] = "sent" => invoice[j] = "sent"
                                      /\ invoice'[j] = "accepted" => invoice[j] = "accepted"
    BY <1>2
  <2> QED
    BY <1>3, <2>1, BackedKept DEF InvoicingInv
<1>8. MailFollowsRecord'
  BY <1>0, <1>3, <1>4, MailKept
<1>9. ASSUME NEW d \in DOMAIN docs PROVE AnswerKept(d)'
  <2>1. \A t \in Tasks : Recording(task[t], d) => Recording(task[t], d)'
    BY <1>0 DEF Recording
  <2>2. docs[d].cufe.invoice \in Invoices
    <3>1. docs[d] \in Transmissions
      BY DEF InvoicingInv, InvoicingTypeOK
    <3> QED
      BY <3>1 DEF Transmissions, Cufes
  <2>3. timeline'[docs[d].cufe.invoice] = timeline[docs[d].cufe.invoice] \/ ~Exists(docs[d].cufe.invoice)'
    BY <1>0, <1>2, <2>2 DEF Exists
  <2> QED
    BY <1>0, <1>3, <2>1, <2>3, AnswersMove
<1>10. AnswersKept'
  BY <1>0, <1>9 DEF AnswersKept
<1> QED
  BY <1>5, <1>6, <1>7, <1>8, <1>10 DEF InvoicingInv

\* appendDianTimeline writes the column back, one event longer.
LEMMA EventAppended ==
  ASSUME InvoicingInv, NEW t \in Tasks, AppendWrite(t)
  PROVE  InvoicingInv'
<1> DEFINE c == task[t]
<1> PICK i, e : i = c.invoice /\ e = c.event
  OBVIOUS
<1>0. /\ TasksSound /\ TaskSound(c) /\ Shaped(c) /\ c.pc = "write" /\ i \in Invoices /\ Exists(i)
      /\ UNCHANGED <<config, invoice, docs, mailed, lost, byHand>>
  BY DEF InvoicingInv, TasksSound, TaskSound, Shaped, AppendWrite, AtTask, Inv
<1>1. /\ Sound(i, e) /\ e.cufe = c.cufe /\ c.cufe.invoice = i
      /\ c.copy \in Seq(Events) /\ (\A k \in DOMAIN c.copy : Sound(i, c.copy[k]))
      /\ (c.copy = timeline[i] \/ i \in overlap)
      /\ (e.action = "send" => c.track \in DOMAIN docs /\ Recording(c, c.track))
  BY <1>0 DEF TaskSound
<1>2. e \in Events
  BY <1>1 DEF Sound
<1> PICK s : s = Append(c.copy, e)
  OBVIOUS
<1>3. /\ s \in Seq(Events) /\ Len(c.copy) \in Nat /\ Len(s) = Len(c.copy) + 1
      /\ (\A k \in 1 .. Len(c.copy) : s[k] = c.copy[k]) /\ s[Len(c.copy) + 1] = e
  BY <1>1, <1>2, AppendProperties
<1>4. DOMAIN s = DOMAIN c.copy \union {Len(c.copy) + 1} /\ DOMAIN c.copy = 1 .. Len(c.copy)
  BY <1>1, <1>3
<1>5. \A k \in DOMAIN s : Sound(i, s[k])
  BY <1>1, <1>3, <1>4
<1>6. timeline' = [timeline EXCEPT ![i] = s]
  BY DEF AppendWrite, Extended, Inv
<1>7. DOMAIN timeline = Invoices /\ \A j \in Invoices : timeline[j] \in Seq(Events)
  BY DEF InvoicingInv, InvoicingTypeOK
<1>8. /\ DOMAIN timeline' = Invoices /\ timeline'[i] = s
      /\ \A j \in Invoices \ {i} : timeline'[j] = timeline[j]
  <2>1. i \in Invoices
    BY <1>0
  <2>2. DOMAIN timeline = Invoices
    BY <1>7
  <2>3. DOMAIN timeline' = Invoices
    BY <1>6, <2>2
  <2>4. timeline'[i] = s
    BY <1>6, <2>1, <2>2
  <2>5. \A j \in Invoices \ {i} : timeline'[j] = timeline[j]
    BY <1>6, <2>2
  <2> QED
    BY <2>3, <2>4, <2>5
<1>9. overlap \subseteq overlap' /\ (Stale(t) => i \in overlap')
  BY DEF AppendWrite, Inv
<1>10. Later
  BY <1>0, <1>9 DEF Later
<1>11. Grew(i) \/ i \in overlap'
  <2>1. CASE c.copy = timeline[i]
    BY <1>3, <1>4, <1>8, <2>1 DEF Grew
  <2>2. CASE i \in overlap
    BY <1>9, <2>2
  <2> QED
    BY <1>1, <2>1, <2>2
<1>12. ASSUME NEW j \in Invoices
       PROVE  timeline'[j] = timeline[j] \/ j \in overlap' \/ ~Exists(j)' \/ Grew(j)
  BY <1>8, <1>11
<1> DEFINE row == [pc |-> "status", invoice |-> c.invoice, cufe |-> c.cufe, env |-> c.env,
                   track |-> c.track, event |-> c.event, copy |-> <<>>]
<1>13. /\ \A u \in Tasks \ {t} : task'[u] = task[u]
       /\ DOMAIN task' = Tasks
       /\ \/ task'[t] = IdleTask
          \/ task'[t] = row /\ (e.action = "send" \/ e.status = "accepted")
  <2>1. CASE End(t)
    BY <1>0, <2>1 DEF End, Continue, TasksSound
  <2>2. CASE ~End(t)
    <3> DEFINE empty == <<>>
               next == [c EXCEPT !.pc = "status", !.copy = empty]
    <3>1. task' = [task EXCEPT ![t] = next] /\ (e.action = "send" \/ e.status = "accepted")
      BY <2>2 DEF AppendWrite, AfterAppend, Continue
    <3>2. next = row
      <4> HIDE DEF c, empty
      <4>1. Shaped(c)
        BY <1>0
      <4>2. next = [pc |-> "status", invoice |-> c.invoice, cufe |-> c.cufe, env |-> c.env,
                    track |-> c.track, event |-> c.event, copy |-> empty]
        BY ONLY <4>1, RowCopied
      <4> QED
        BY <4>2 DEF empty
    <3> HIDE DEF next
    <3>3. DOMAIN task' = Tasks /\ task'[t] = next /\ \A u \in Tasks \ {t} : task'[u] = task[u]
      BY <1>0, <3>1 DEF TasksSound
    <3> QED
      BY <3>1, <3>2, <3>3
  <2> QED
    BY <2>1, <2>2
<1>14. TaskSound(task[t])'
  <2>1. CASE task'[t] = IdleTask
    BY <2>1 DEF TaskSound, IdleTask
  <2>2. CASE task'[t] = row /\ (e.action = "send" \/ e.status = "accepted")
    <3>1. Sound(i, e)' /\ c.env \in Envs /\ c.cufe \in Cufes
      BY <1>0, <1>1, <1>10, EvidenceKept DEF TaskSound
    <3>2. Sound(task[t].invoice, task[t].event)'
      BY <2>2, <3>1 DEF Sound
    <3>3. e.status # "pending"
      BY <1>1, <2>2 DEF Sound
    <3>4. e.status = "sent" => ToldSent(task[t].cufe)'
      <4> SUFFICES ASSUME e.status = "sent" PROVE ToldSent(task[t].cufe)'
        OBVIOUS
      <4>1. Len(c.copy) + 1 \in DOMAIN timeline'[i]
            /\ timeline'[i][Len(c.copy) + 1].cufe = c.cufe
            /\ timeline'[i][Len(c.copy) + 1].status = "sent"
        BY <1>1, <1>3, <1>4, <1>8
      <4>2. task'[t].cufe = c.cufe
        <5> HIDE DEF c
        <5> QED
          BY <2>2
      <4>3. task'[t].cufe.invoice = i
        BY <1>1, <4>2
      <4>4. \E k \in DOMAIN timeline'[i] :
               timeline'[i][k].cufe = task'[t].cufe /\ timeline'[i][k].status = "sent"
        BY <4>1, <4>2
      <4> QED
        BY <4>3, <4>4 DEF ToldSent
    <3> QED
      BY <1>0, <1>1, <2>2, <3>1, <3>2, <3>3, <3>4 DEF TaskSound
  <2> QED
    BY <1>13, <2>1, <2>2
<1>15. TasksSound'
  <2>1. ASSUME NEW u \in Tasks, u # t PROVE TaskSound(task[u])'
    <3>1. TaskSound(task[u]) /\ task'[u] = task[u]
      BY <1>0, <1>13, <2>1 DEF TasksSound
    <3>2. CASE task[u].pc = "idle"
      BY <3>1, <3>2 DEF TaskSound
    <3>3. CASE task[u].pc # "idle"
      <4>1. task[u].invoice \in Invoices
        BY <3>1, <3>3 DEF TaskSound
      <4>2. CASE task[u].invoice = i /\ task[u].pc = "write"
        <5>1. Stale(t)
          BY <2>1, <4>2 DEF Stale, AtTask, Inv
        <5>2. task[u].invoice \in overlap'
          BY <1>9, <4>2, <5>1
        <5> QED
          BY <1>10, <3>1, <5>2, TaskKept
      <4>3. CASE task[u].invoice = i /\ task[u].pc # "write"
        BY <1>10, <1>11, <3>1, <4>3, TaskKept
      <4>4. CASE task[u].invoice # i
        <5>1. timeline'[task[u].invoice] = timeline[task[u].invoice]
          BY <1>8, <4>1, <4>4
        <5> QED
          BY <1>10, <3>1, <5>1, TaskKept
      <4> QED
        BY <4>2, <4>3, <4>4
    <3> QED
      BY <3>2, <3>3
  <2> QED
    BY <1>13, <1>14, <2>1 DEF TasksSound
<1>16. ASSUME NEW j \in Invoices
       PROVE  timeline'[j] \in Seq(Events) /\ \A k \in DOMAIN timeline'[j] : Sound(j, timeline'[j][k])
  <2>1. CASE j = i
    BY <1>3, <1>5, <1>8, <2>1
  <2>2. CASE j # i
    BY <1>7, <1>8, <2>2 DEF InvoicingInv, TimelinesSound
  <2> QED
    BY <2>1, <2>2
<1>17. TimelinesSound'
  BY <1>10, <1>16, EvidenceKept DEF TimelinesSound
<1>18. InvoicingTypeOK'
  <2>1. \A u \in Tasks : AtTask(u, "ask")' => task'[u].track \in DOMAIN docs'
    BY <1>15 DEF TasksSound, TaskSound, AtTask
  <2>2. Events' = Events
    BY <1>0 DEF Events
  <2> QED
    BY <1>0, <1>8, <1>16, <2>1, <2>2 DEF InvoicingInv, InvoicingTypeOK
<1>19. StatusIsBacked'
  BY <1>0, <1>10, BackedKept DEF InvoicingInv
<1>20. MailFollowsRecord'
  BY <1>0, <1>10, <1>12, MailKept
<1>21. ASSUME NEW d \in DOMAIN docs PROVE AnswerKept(d)'
  <2>1. docs[d].cufe.invoice \in Invoices
    <3>1. docs[d] \in Transmissions
      BY DEF InvoicingInv, InvoicingTypeOK
    <3> QED
      BY <3>1 DEF Transmissions, Cufes
  <2>2. ASSUME NEW u \in Tasks, Recording(task[u], d) PROVE Recording(task[u], d)' \/ AnswerKept(d)'
    <3>1. CASE u = t
      <4>1. e.action = "send" /\ e.cufe = docs[d].cufe /\ e.track = IF docs[d].tracked THEN d ELSE None
        BY <2>2, <3>1 DEF Recording
      <4>2. docs[d].cufe.invoice = i
        BY <1>1, <4>1
      <4>3. Len(c.copy) + 1 \in DOMAIN timeline'[i] /\ timeline'[i][Len(c.copy) + 1] = e
        BY <1>3, <1>4, <1>8
      <4>4. Recorded(d)'
        BY <1>0, <4>1, <4>2, <4>3 DEF Recorded
      <4> QED
        BY <4>4 DEF AnswerKept
    <3>2. CASE u # t
      BY <1>0, <1>13, <2>2, <3>2 DEF Recording
    <3> QED
      BY <3>1, <3>2
  <2>3. \/ timeline'[docs[d].cufe.invoice] = timeline[docs[d].cufe.invoice]
        \/ docs[d].cufe.invoice \in overlap' \/ ~Exists(docs[d].cufe.invoice)' \/ Grew(docs[d].cufe.invoice)
    BY <1>0, <1>8, <1>11, <2>1 DEF Exists
  <2> QED
    BY <1>0, <1>10, <2>2, <2>3, AnswersMove
<1>22. AnswersKept'
  BY <1>0, <1>21 DEF AnswersKept
<1> QED
  BY <1>15, <1>17, <1>18, <1>19, <1>20, <1>22 DEF InvoicingInv

\* The status is set from the event, whatever it is by now.
LEMMA StatusSet ==
  ASSUME InvoicingInv, NEW t \in Tasks, SetStatus(t)
  PROVE  InvoicingInv'
<1> DEFINE c == task[t]
<1> PICK i, e : i = c.invoice /\ e = c.event
  OBVIOUS
<1>0. /\ TasksSound /\ TaskSound(c) /\ c.pc = "status" /\ i \in Invoices /\ Exists(i) /\ End(t)
      /\ UNCHANGED <<config, timeline, docs, overlap, lost, byHand>>
  BY DEF InvoicingInv, TasksSound, TaskSound, SetStatus, AtTask, Inv
<1>1. /\ Sound(i, e) /\ c.cufe \in Cufes /\ c.cufe.invoice = i /\ e.status # "pending"
      /\ (e.status = "sent" => i \in overlap \/ ToldSent(c.cufe))
  BY <1>0 DEF TaskSound
<1>2. e.status \in {"sent", "rejected", "accepted"}
  BY <1>1 DEF Sound, Events
<1> PICK s : s = NewStatus(e)
  OBVIOUS
<1>3. /\ s \in Statuses /\ (s = "sent" => e.status = "sent") /\ (s = "accepted" => e.status = "accepted")
  BY <1>2 DEF NewStatus, Statuses
<1>4. invoice' = [invoice EXCEPT ![i] = s] /\ invoice \in [Invoices -> Statuses \union {"removed"}]
  BY DEF SetStatus, Inv, InvoicingInv, InvoicingTypeOK
<1>5. /\ invoice' \in [Invoices -> Statuses \union {"removed"}]
      /\ invoice'[i] = s /\ \A j \in Invoices \ {i} : invoice'[j] = invoice[j]
  <2>1. i \in Invoices
    BY <1>0
  <2>2. s \in Statuses \union {"removed"}
    BY <1>3
  <2> QED
    BY <1>4, <2>1, <2>2
<1>6. Later
  BY <1>0, <1>5 DEF Later, Exists
<1>7. TasksSound' /\ \A u \in Tasks \ {t} : task'[u] = task[u]
  BY <1>0, <1>6, Ended
<1>8. TimelinesSound' /\ \A j \in Invoices : timeline'[j] \in Seq(Events')
  BY <1>0, <1>6, TimelinesKept
<1>9. mailed' \subseteq Cufes /\ (mailed' = mailed \/ (mailed' = mailed \union {c.cufe} /\ e.status = "sent"))
  <2>1. mailed' = IF e.status = "sent" THEN mailed \union {c.cufe} ELSE mailed
    BY DEF SetStatus, Mailable
  <2>2. mailed \subseteq Cufes
    BY DEF InvoicingInv, InvoicingTypeOK
  <2>3. c.cufe \in Cufes
    BY <1>1
  <2>4. CASE e.status = "sent"
    BY <2>1, <2>2, <2>3, <2>4
  <2>5. CASE e.status # "sent"
    BY <2>1, <2>2, <2>5
  <2> QED
    BY <2>4, <2>5
<1>10. InvoicingTypeOK'
  <2>1. \A u \in Tasks : AtTask(u, "ask")' => task'[u].track \in DOMAIN docs'
    BY <1>7 DEF TasksSound, TaskSound, AtTask
  <2> QED
    BY <1>0, <1>5, <1>8, <1>9, <2>1 DEF InvoicingInv, InvoicingTypeOK
<1>11. StatusIsBacked'
  <2> SUFFICES ASSUME NEW j \in Invoices \ byHand'
               PROVE  /\ invoice'[j] = "sent" =>
                           \E d \in DOMAIN docs' : docs'[d].cufe.invoice = j
                              /\ (docs'[d].tracked \/ docs'[d].verdict = "valid")
                      /\ invoice'[j] = "accepted" =>
                           \E d \in DOMAIN docs' : docs'[d].cufe.invoice = j /\ docs'[d].verdict = "valid"
    BY DEF StatusIsBacked
  <2>1. CASE j = i
    <3>1. (s = "sent" => SentOnes(i) # {}) /\ (s = "accepted" => ValidOnes(i) # {})
      BY <1>1, <1>3 DEF Sound
    <3> QED
      BY <1>0, <1>5, <2>1, <3>1 DEF SentOnes, ValidOnes
  <2>2. CASE j # i
    BY <1>0, <1>5, <2>2 DEF InvoicingInv, StatusIsBacked
  <2> QED
    BY <2>1, <2>2
<1>12. MailFollowsRecord'
  <2> SUFFICES ASSUME NEW f \in mailed', f.invoice \notin overlap', Exists(f.invoice)'
               PROVE  \E k \in DOMAIN timeline'[f.invoice] : /\ timeline'[f.invoice][k].cufe = f
                                                             /\ timeline'[f.invoice][k].status = "sent"
    BY DEF MailFollowsRecord
  <2>1. CASE f \in mailed
    <3>1. f.invoice \in Invoices
      BY <2>1 DEF InvoicingInv, InvoicingTypeOK, Cufes
    <3>2. f.invoice \notin overlap /\ Exists(f.invoice)
      BY <1>6, <3>1 DEF Later, Exists
    <3> QED
      BY <1>0, <2>1, <3>2 DEF InvoicingInv, MailFollowsRecord
  <2>2. CASE f \notin mailed
    <3>1. f = c.cufe /\ e.status = "sent"
      BY <1>9, <2>2
    <3>2. ToldSent(f)
      BY <1>0, <1>1, <3>1
    <3> QED
      BY <1>0, <3>2 DEF ToldSent
  <2> QED
    BY <2>1, <2>2
<1>13. ASSUME NEW d \in DOMAIN docs PROVE AnswerKept(d)'
  <2>1. ASSUME NEW u \in Tasks, Recording(task[u], d) PROVE Recording(task[u], d)'
    <3>1. u # t
      BY <1>0, <2>1 DEF Recording
    <3> QED
      BY <1>0, <1>7, <2>1, <3>1 DEF Recording
  <2> QED
    BY <1>0, <1>6, <2>1, AnswersMove
<1>14. AnswersKept'
  BY <1>0, <1>13 DEF AnswersKept
<1> QED
  BY <1>7, <1>8, <1>10, <1>11, <1>12, <1>14 DEF InvoicingInv
\* A statement on the row fails: an answer that was to be written is lost.
LEMMA RowsFail ==
  ASSUME InvoicingInv, NEW t \in Tasks, RowFails(t)
  PROVE  InvoicingInv'
<1> DEFINE c == task[t]
           i == c.invoice
           e == Event("fail", "rejected", c.cufe, None)
           s == <<>>
           row == [pc |-> "read", invoice |-> c.invoice, cufe |-> c.cufe, env |-> c.env,
                   track |-> c.track, event |-> e, copy |-> s]
<1>0. /\ TaskSound(c) /\ Shaped(c) /\ c.pc \in {"write", "status"} /\ i \in Invoices
      /\ c.cufe \in Cufes /\ c.cufe.invoice = i /\ c.env \in Envs
      /\ UNCHANGED <<config, invoice, timeline, docs, mailed, overlap, byHand>>
      /\ lost \subseteq lost'
      /\ (c.event.action = "send" /\ c.pc = "write" => c.track \in lost')
  BY DEF InvoicingInv, TasksSound, TaskSound, Shaped, RowFails, AtTask
<1>1. \A d \in DOMAIN docs : Recording(c, d) => d \in lost'
  BY <1>0 DEF Recording
<1>2. CASE c.event.action = "send"
  <2>1. task' = [task EXCEPT ![t] = row]
    <3> DEFINE next == [c EXCEPT !.pc = "read", !.copy = s, !.event = e]
    <3>1. task' = [task EXCEPT ![t] = next]
      BY <1>2 DEF RowFails, Continue
    <3>2. next = row
      <4> HIDE DEF c, e, s
      <4>1. Shaped(c)
        BY <1>0
      <4>2. [c EXCEPT !.pc = "read", !.copy = s, !.event = e] =
              [pc |-> "read", invoice |-> c.invoice, cufe |-> c.cufe, env |-> c.env,
               track |-> c.track, event |-> e, copy |-> s]
        BY ONLY <4>1, RowFailed
      <4> QED
        BY <4>2
    <3> HIDE DEF next, row
    <3> QED
      BY <3>1, <3>2
  <2>2. Sound(i, e) /\ e.action = "fail" /\ e.cufe = c.cufe
    BY <1>0 DEF Sound, Event, Events
  <2> HIDE DEF e
  <2>3. TaskSound(row)
    BY <1>0, <2>2 DEF TaskSound
  <2> HIDE DEF row
  <2> QED
    BY <1>0, <1>1, <2>1, <2>3, OnlyTask
<1>3. CASE c.event.action # "send"
  <2> DEFINE idle == IdleTask
  <2>1. task' = [task EXCEPT ![t] = idle] /\ TaskSound(idle)
    BY <1>3, IdleSound DEF RowFails, End, Continue
  <2> HIDE DEF idle
  <2> QED
    BY <1>0, <1>1, <2>1, OnlyTask
<1> QED
  BY <1>2, <1>3

\* The process ends: what its requests carried is lost.
LEMMA ProcessEnds ==
  ASSUME InvoicingInv, Crash
  PROVE  InvoicingInv'
<1>0. /\ TasksSound /\ InvoicingTypeOK /\ lost \subseteq lost'
      /\ UNCHANGED <<config, invoice, timeline, docs, mailed, overlap, byHand>>
      /\ task' = [t \in Tasks |-> IdleTask]
  BY DEF InvoicingInv, Crash
<1>1. Later
  BY <1>0, LaterWithDocs
<1>2. TasksSound'
  <2>1. ASSUME NEW t \in Tasks PROVE TaskSound(task[t])'
    <3>1. task'[t] = IdleTask
      BY <1>0
    <3> QED
      BY <3>1 DEF TaskSound, IdleTask
  <2>2. DOMAIN task' = Tasks
    BY <1>0
  <2> QED
    BY <2>1, <2>2 DEF TasksSound
<1>3. InvoicingTypeOK' /\ TimelinesSound' /\ StatusIsBacked' /\ MailFollowsRecord'
  BY <1>0, <1>1, <1>2, RowsStay DEF InvoicingTypeOK
<1>4. ASSUME NEW d \in DOMAIN docs PROVE AnswerKept(d)'
  <2>1. ASSUME NEW t \in Tasks, Recording(task[t], d) PROVE d \in lost'
    BY <2>1 DEF Recording, Crash
  <2> QED
    BY <1>0, <1>1, <2>1, AnswersStay
<1>5. AnswersKept'
  BY <1>0, <1>4 DEF AnswersKept
<1> QED
  BY <1>2, <1>3, <1>5 DEF InvoicingInv

-----------------------------------------------------------------------------
\* At the start there is no document and no event.
LEMMA InvoicingStarts == InvoicingInit => InvoicingInv
<1> SUFFICES ASSUME InvoicingInit PROVE InvoicingInv
  OBVIOUS
<1>1. /\ config \in [pin : Pins, env : Envs] /\ invoice = [i \in Invoices |-> "emitted"]
      /\ timeline = [i \in Invoices |-> <<>>] /\ docs = <<>> /\ mailed = {}
      /\ task = [t \in Tasks |-> IdleTask]
  BY DEF InvoicingInit
<1>2. <<>> \in Seq(Events) /\ <<>> \in Seq(Transmissions) /\ DOMAIN <<>> = {}
  OBVIOUS
<1>3. TasksSound
  <2>1. ASSUME NEW t \in Tasks PROVE TaskSound(task[t])
    BY <1>1, IdleSound
  <2> QED
    BY <1>1, <2>1 DEF TasksSound
<1>4. InvoicingTypeOK
  <2>1. \A t \in Tasks : task[t].pc = "idle"
    BY <1>1 DEF IdleTask
  <2>2. invoice \in [Invoices -> Statuses \union {"removed"}] /\ mailed \subseteq Cufes
    BY <1>1 DEF Statuses
  <2>3. DOMAIN timeline = Invoices /\ \A i \in Invoices : timeline[i] \in Seq(Events)
    BY <1>1, <1>2
  <2>4. config \in [pin : Pins \union {None}, env : Envs]
    BY <1>1
  <2> QED
    BY <1>1, <1>2, <2>1, <2>2, <2>3, <2>4 DEF InvoicingTypeOK, AtTask
<1>5. TimelinesSound
  BY <1>1, <1>2 DEF TimelinesSound
<1>6. StatusIsBacked
  BY <1>1 DEF StatusIsBacked
<1>7. AnswersKept /\ MailFollowsRecord
  BY <1>1, <1>2 DEF AnswersKept, MailFollowsRecord
<1> QED
  BY <1>3, <1>4, <1>5, <1>6, <1>7 DEF InvoicingInv

\* Every step keeps the invariant.
LEMMA InvoicingKept == InvoicingInv /\ [InvoicingNext]_invoicingVars => InvoicingInv'
<1> SUFFICES ASSUME InvoicingInv, [InvoicingNext]_invoicingVars PROVE InvoicingInv'
  OBVIOUS
<1>1. ASSUME NEW t \in Tasks, SendRead(t) \/ PollRead(t) PROVE InvoicingInv'
  BY <1>1, RequestsStart
<1>2. ASSUME NEW t \in Tasks, CallAnswered(t) PROVE InvoicingInv'
  BY <1>2, CallsAnswered
<1>3. ASSUME NEW t \in Tasks, CallFails(t) PROVE InvoicingInv'
  BY <1>3, CallsFail
<1>4. ASSUME NEW t \in Tasks,
             CallRefused(t) \/ AppendRead(t) \/ PollFind(t) \/ PollAnswered(t) \/ PollFails(t)
      PROVE  InvoicingInv'
  BY <1>4, RequestsGoOn
<1>5. ASSUME NEW t \in Tasks, AppendWrite(t) PROVE InvoicingInv'
  BY <1>5, EventAppended
<1>6. ASSUME NEW t \in Tasks, SetStatus(t) PROVE InvoicingInv'
  BY <1>6, StatusSet
<1>7. ASSUME NEW t \in Tasks, RowFails(t) PROVE InvoicingInv'
  BY <1>7, RowsFail
<1>8. CASE UpdateConfig \/ \E k \in DOMAIN docs : Judge(k)
  BY <1>8, DianAndTenant
<1>9. ASSUME NEW i \in Invoices, UpdateStatus(i) \/ Cancel(i) PROVE InvoicingInv'
  BY <1>9, UserSets
<1>10. ASSUME NEW i \in Invoices, Remove(i) PROVE InvoicingInv'
  BY <1>10, InvoiceRemoved
<1>11. CASE Crash
  BY <1>11, ProcessEnds
<1>12. CASE UNCHANGED invoicingVars
  <2>0. TasksSound /\ InvoicingTypeOK
        /\ UNCHANGED <<config, invoice, timeline, docs, mailed, task, overlap, lost, byHand>>
    BY <1>12 DEF invoicingVars, InvoicingInv
  <2>1. Later
    BY <2>0, LaterWithDocs
  <2>2. TasksSound'
    BY <2>0, <2>1, NoTask
  <2>3. InvoicingTypeOK' /\ TimelinesSound' /\ StatusIsBacked' /\ MailFollowsRecord'
    BY <2>0, <2>1, <2>2, RowsStay DEF InvoicingTypeOK
  <2>4. ASSUME NEW d \in DOMAIN docs PROVE AnswerKept(d)'
    <3>1. \A t \in Tasks : Recording(task[t], d) => Recording(task[t], d)'
      BY <2>0 DEF Recording
    <3> QED
      BY <2>0, <2>1, <3>1, AnswersStay
  <2>5. AnswersKept'
    BY <2>0, <2>4 DEF AnswersKept
  <2> QED
    BY <2>2, <2>3, <2>5 DEF InvoicingInv
<1> QED
  BY <1>1, <1>2, <1>3, <1>4, <1>5, <1>6, <1>7, <1>8, <1>9, <1>10, <1>11, <1>12 DEF InvoicingNext, Step

\* The invariant says that the record is complete.
LEMMA InvoicingInvSays == InvoicingInv => RecordComplete
<1> SUFFICES ASSUME InvoicingInv PROVE AnswerRecorded
  BY DEF InvoicingInv, RecordComplete
<1>1. ASSUME NEW d \in DOMAIN docs
      PROVE  LET i == docs[d].cufe.invoice
             IN  \/ ~docs[d].answered \/ d \in lost \/ i \in overlap \/ ~Exists(i)
                 \/ \E t \in Tasks : task[t].pc \in {"read", "write"} /\ task[t].track = d
                 \/ \E k \in DOMAIN timeline[i] :
                      /\ timeline[i][k].action = "send" /\ timeline[i][k].cufe = docs[d].cufe
                      /\ timeline[i][k].track = (IF docs[d].tracked THEN d ELSE None)
  <2>1. AnswerKept(d)
    BY DEF InvoicingInv, AnswersKept
  <2>2. \A t \in Tasks : Recording(task[t], d) => task[t].pc \in {"read", "write"} /\ task[t].track = d
    BY DEF Recording
  <2> QED
    BY <2>1, <2>2 DEF AnswerKept, Recorded
<1> QED
  BY <1>1 DEF AnswerRecorded

-----------------------------------------------------------------------------
\* However sends, polls, users, crashes and DIAN interleave, an invoice no user
\* has set a status of is `sent' only if DIAN took in a document of it, and
\* `accepted' only if DIAN found one valid (sendInvoiceToDian, checkInvoiceStatus).
THEOREM StatusesBacked == InvoicingSpec => []StatusIsBacked
<1>1. InvoicingInv => StatusIsBacked
  BY DEF InvoicingInv
<1> QED
  BY <1>1, InvoicingStarts, InvoicingKept, PTL DEF InvoicingSpec

\* The answer DIAN gave is in the timeline of its invoice, with the tracking id it
\* came with, and a client is mailed only what is there: unless a statement
\* failed, or two events were written from one copy of the column.
THEOREM RecordsComplete == InvoicingSpec => []RecordComplete
  BY InvoicingStarts, InvoicingKept, InvoicingInvSays, PTL DEF InvoicingSpec
-----------------------------------------------------------------------------
\* Treasury: the reports of the books agree.

\* Sums that count units add up like sums.

\* Only the values on the set matter.
LEMMA SumsCongruent ==
  ASSUME NEW S, NEW f, NEW g, \A x \in S : f[x] = g[x]
  PROVE  SumOf(f, S) = SumOf(g, S)
<1>1. Units(f, S) = Units(g, S)
  BY DEF Units
<1>2. [x \in S |-> -f[x]] = [x \in S |-> -g[x]]
  OBVIOUS
<1> QED
  BY <1>1, <1>2 DEF SumOf

\* One more element brings its own units.
LEMMA UnitsAdd ==
  ASSUME NEW S, NEW f, NEW x, x \notin S, f[x] \in Int, IsFiniteSet(Units(f, S))
  PROVE  /\ IsFiniteSet(Units(f, S \union {x}))
         /\ Cardinality(Units(f, S \union {x}))
              = Cardinality(Units(f, S)) + (IF f[x] > 0 THEN f[x] ELSE 0)
<1> DEFINE own == {x} \X (1 .. f[x])
<1>1. Units(f, S \union {x}) = Units(f, S) \union own
  BY DEF Units
<1>2. Units(f, S) \cap own = {}
  BY DEF Units
<1>3. IsFiniteSet(1 .. f[x]) /\ Cardinality(1 .. f[x]) = IF 1 > f[x] THEN 0 ELSE f[x] - 1 + 1
  BY FS_Interval
<1>4. IsFiniteSet({x}) /\ Cardinality({x}) = 1
  BY FS_Singleton
<1>5. IsFiniteSet(own) /\ Cardinality(own) = 1 * Cardinality(1 .. f[x])
  BY <1>3, <1>4, FS_Product
<1>6. Cardinality(own) = IF f[x] > 0 THEN f[x] ELSE 0
  BY <1>3, <1>5
<1>7. Cardinality(Units(f, S)) \in Nat /\ Cardinality(own) \in Nat
  BY <1>5, FS_CardinalityType
<1> HIDE DEF own
<1>8. /\ IsFiniteSet(Units(f, S) \union own)
      /\ Cardinality(Units(f, S) \union own)
           = Cardinality(Units(f, S)) + Cardinality(own) - Cardinality(Units(f, S) \cap own)
  BY <1>5, FS_Union
<1>9. Cardinality(Units(f, S) \cap own) = 0
  BY <1>2, FS_EmptySet
<1> QED
  <2>1. Cardinality(Units(f, S) \union own) = Cardinality(Units(f, S)) + Cardinality(own)
    BY <1>7, <1>8, <1>9
  <2> QED
    BY <1>1, <1>6, <1>8, <2>1

\* A finite set has finitely many units.
LEMMA UnitsFinite ==
  ASSUME NEW S, IsFiniteSet(S), NEW f, \A x \in S : f[x] \in Int
  PROVE  IsFiniteSet(Units(f, S))
<1> DEFINE bad == {n \in Nat : \E T \in SUBSET S : /\ IsFiniteSet(T) /\ Cardinality(T) = n
                                                   /\ ~IsFiniteSet(Units(f, T))}
<1>1. SUFFICES ASSUME bad # {} PROVE FALSE
  <2>1. Cardinality(S) \in Nat
    BY FS_CardinalityType
  <2> QED
    BY <2>1
<1>2. PICK n \in bad : \A m \in bad : ~(<<m, n>> \in OpToRel(<, Nat))
  <2>1. bad \subseteq Nat
    OBVIOUS
  <2> HIDE DEF bad
  <2> QED
    BY <1>1, <2>1, WFMin, NatLessThanWellFounded
<1>3. \A m \in bad : ~(m < n)
  BY <1>2 DEF OpToRel
<1>4. PICK T \in SUBSET S : IsFiniteSet(T) /\ Cardinality(T) = n /\ ~IsFiniteSet(Units(f, T))
  OBVIOUS
<1>5. T # {}
  <2>1. Units(f, {}) = {}
    BY DEF Units
  <2> QED
    BY <1>4, <2>1, FS_EmptySet
<1>6. PICK x : x \in T
  BY <1>5
<1>7. IsFiniteSet(T \ {x}) /\ Cardinality(T \ {x}) = n - 1
  BY <1>4, <1>6, FS_RemoveElement
<1>8. n - 1 \in Nat
  <2>1. Cardinality(T \ {x}) \in Nat
    BY <1>7, FS_CardinalityType
  <2> QED
    BY <1>7, <2>1
<1>9. n - 1 \notin bad
  <2>1. n - 1 < n
    BY <1>8
  <2> HIDE DEF bad
  <2> QED
    BY <1>3, <2>1
<1>10. IsFiniteSet(Units(f, T \ {x}))
  BY <1>7, <1>8, <1>9
<1>11. (T \ {x}) \union {x} = T /\ f[x] \in Int
  BY <1>6
<1>12. IsFiniteSet(Units(f, (T \ {x}) \union {x}))
  BY <1>10, <1>11, UnitsAdd
<1> QED
  BY <1>4, <1>11, <1>12

\* A sum is a number.
LEMMA SumTyped ==
  ASSUME NEW S, IsFiniteSet(S), NEW f, \A x \in S : f[x] \in Int
  PROVE  SumOf(f, S) \in Int
<1> DEFINE g == [x \in S |-> -f[x]]
<1>1. \A x \in S : g[x] \in Int
  OBVIOUS
<1> HIDE DEF g
<1>2. IsFiniteSet(Units(f, S)) /\ IsFiniteSet(Units(g, S))
  BY <1>1, UnitsFinite
<1>3. Cardinality(Units(f, S)) \in Nat /\ Cardinality(Units(g, S)) \in Nat
  BY <1>2, FS_CardinalityType
<1> QED
  BY <1>3 DEF SumOf, g

\* The empty sum is zero.
LEMMA SumEmpty ==
  ASSUME NEW f
  PROVE  SumOf(f, {}) = 0
<1>1. Units(f, {}) = {} /\ Units([x \in {} |-> -f[x]], {}) = {}
  BY DEF Units
<1> QED
  BY <1>1, FS_EmptySet DEF SumOf

\* One more element adds its value.
LEMMA SumAdds ==
  ASSUME NEW S, IsFiniteSet(S), NEW x, x \notin S, NEW f, \A y \in S \union {x} : f[y] \in Int
  PROVE  SumOf(f, S \union {x}) = SumOf(f, S) + f[x]
<1> DEFINE R == S \union {x}
           g == [y \in R |-> -f[y]]
           h == [y \in S |-> -f[y]]
<1>1. f[x] \in Int /\ g[x] = -f[x] /\ \A y \in S : f[y] \in Int /\ g[y] \in Int /\ g[y] = h[y]
  OBVIOUS
<1> HIDE DEF g, h
<1>2. IsFiniteSet(Units(f, S)) /\ IsFiniteSet(Units(g, S))
  BY <1>1, UnitsFinite
<1>3. Units(g, S) = Units(h, S)
  BY <1>1 DEF Units
<1>4. Cardinality(Units(f, R)) = Cardinality(Units(f, S)) + (IF f[x] > 0 THEN f[x] ELSE 0)
  BY <1>1, <1>2, UnitsAdd
<1>5. Cardinality(Units(g, R)) = Cardinality(Units(g, S)) + (IF g[x] > 0 THEN g[x] ELSE 0)
  <2>1. g[x] \in Int
    BY <1>1
  <2> QED
    BY <1>2, <2>1, UnitsAdd
<1>6. Cardinality(Units(f, S)) \in Nat /\ Cardinality(Units(g, S)) \in Nat
  BY <1>2, FS_CardinalityType
<1>7. SumOf(f, R) = Cardinality(Units(f, R)) - Cardinality(Units(g, R))
  BY DEF SumOf, g
<1>8. SumOf(f, S) = Cardinality(Units(f, S)) - Cardinality(Units(h, S))
  BY DEF SumOf, h
<1> HIDE DEF R
<1>9. SumOf(f, R) = SumOf(f, S) + f[x]
  BY <1>1, <1>3, <1>4, <1>5, <1>6, <1>7, <1>8
<1> QED
  BY <1>9 DEF R

\* Sums over sets with nothing in common add.
LEMMA SumSplits ==
  ASSUME NEW S, IsFiniteSet(S), NEW T, IsFiniteSet(T), S \cap T = {},
         NEW f, \A x \in S \union T : f[x] \in Int
  PROVE  SumOf(f, S \union T) = SumOf(f, S) + SumOf(f, T)
<1> DEFINE R == S \union T
           g == [x \in R |-> -f[x]]
<1>1. \A x \in R : f[x] \in Int /\ g[x] \in Int
  OBVIOUS
<1>2. SumOf(f, R) = Cardinality(Units(f, R)) - Cardinality(Units(g, R))
  BY DEF SumOf
<1>3. SumOf(f, S) = Cardinality(Units(f, S)) - Cardinality(Units(g, S))
  <2>1. Units([x \in S |-> -f[x]], S) = Units(g, S)
    BY DEF Units
  <2> QED
    BY <2>1 DEF SumOf
<1>4. SumOf(f, T) = Cardinality(Units(f, T)) - Cardinality(Units(g, T))
  <2>1. Units([x \in T |-> -f[x]], T) = Units(g, T)
    BY DEF Units
  <2> QED
    BY <2>1 DEF SumOf
<1> HIDE DEF g
<1>5. \A e \in {f, g} : /\ IsFiniteSet(Units(e, S)) /\ IsFiniteSet(Units(e, T))
                        /\ Units(e, R) = Units(e, S) \union Units(e, T)
                        /\ Units(e, S) \cap Units(e, T) = {}
  <2>1. TAKE e \in {f, g}
  <2>2. IsFiniteSet(Units(e, S)) /\ IsFiniteSet(Units(e, T))
    <3>1. \A x \in S : e[x] \in Int
      BY <1>1
    <3>2. \A x \in T : e[x] \in Int
      BY <1>1
    <3> QED
      BY <3>1, <3>2, UnitsFinite
  <2>3. Units(e, R) = Units(e, S) \union Units(e, T)
    BY DEF Units
  <2>4. Units(e, S) \cap Units(e, T) = {}
    BY DEF Units
  <2> QED
    BY <2>2, <2>3, <2>4
<1>6. \A e \in {f, g} : /\ Cardinality(Units(e, R)) = Cardinality(Units(e, S)) + Cardinality(Units(e, T))
                        /\ Cardinality(Units(e, S)) \in Nat /\ Cardinality(Units(e, T)) \in Nat
  <2>1. TAKE e \in {f, g}
  <2>2. Cardinality(Units(e, S)) \in Nat /\ Cardinality(Units(e, T)) \in Nat
    BY <1>5, FS_CardinalityType
  <2>3. Cardinality(Units(e, S) \union Units(e, T))
          = Cardinality(Units(e, S)) + Cardinality(Units(e, T)) - Cardinality(Units(e, S) \cap Units(e, T))
    BY <1>5, FS_Union
  <2>4. Cardinality(Units(e, S) \cap Units(e, T)) = 0
    BY <1>5, FS_EmptySet
  <2> QED
    <3>1. Cardinality(Units(e, S) \union Units(e, T)) = Cardinality(Units(e, S)) + Cardinality(Units(e, T))
      BY <2>2, <2>3, <2>4
    <3> QED
      BY <1>5, <2>2, <3>1
<1> HIDE DEF R
<1>7. SumOf(f, R) = SumOf(f, S) + SumOf(f, T)
  BY <1>2, <1>3, <1>4, <1>6
<1> QED
  BY <1>7 DEF R

\* A sum of two.
LEMMA SumOfTwo ==
  ASSUME NEW a, NEW b, a # b, NEW f, f[a] \in Int, f[b] \in Int
  PROVE  SumOf(f, {a, b}) = f[a] + f[b]
<1>1. IsFiniteSet({}) /\ IsFiniteSet({a})
  BY FS_EmptySet, FS_Singleton
<1>2. SumOf(f, {} \union {a}) = SumOf(f, {}) + f[a]
  BY <1>1, SumAdds
<1>3. SumOf(f, {a} \union {b}) = SumOf(f, {a}) + f[b]
  BY <1>1, SumAdds
<1>4. {} \union {a} = {a} /\ {a} \union {b} = {a, b}
  OBVIOUS
<1>5. SumOf(f, {a}) = f[a]
  BY <1>2, <1>4, SumEmpty
<1> QED
  BY <1>3, <1>4, <1>5

\* A pair is finite.
LEMMA PairFinite ==
  ASSUME NEW a, NEW b
  PROVE  IsFiniteSet({a, b})
<1>1. IsFiniteSet({a} \union {b})
  BY FS_Singleton, FS_AddElement
<1>2. {a} \union {b} = {a, b}
  OBVIOUS
<1> QED
  BY <1>1, <1>2

\* A sum of nothings.
LEMMA SumOfZeros ==
  ASSUME NEW S, NEW f, \A x \in S : f[x] = 0
  PROVE  SumOf(f, S) = 0
<1> DEFINE g == [x \in S |-> -f[x]]
<1>1. \A x \in S : g[x] = 0
  OBVIOUS
<1> HIDE DEF g
<1>2. Units(f, S) = {} /\ Units(g, S) = {}
  BY <1>1 DEF Units
<1> QED
  BY <1>2, FS_EmptySet DEF SumOf, g

\* Adding up over the accounts.
LEMMA OverAccountsAdds ==
  ASSUME NEW f \in [Accounts -> Int], NEW g \in [Accounts -> Int], NEW h,
         \A a \in Accounts : h[a] = f[a] + g[a]
  PROVE  OverAccounts(h) = OverAccounts(f) + OverAccounts(g) /\ OverAccounts(f) \in Int
<1>1. /\ Cash \in Accounts /\ Banks \in Accounts /\ Clients \in Accounts /\ Suppliers \in Accounts
      /\ TaxDue \in Accounts /\ TaxPaid \in Accounts /\ Income \in Accounts /\ Purchasing \in Accounts
      /\ "310505" \in Accounts /\ "613505" \in Accounts /\ "510505" \in Accounts /\ "other" \in Accounts
  BY DEF Accounts
<1> QED
  BY <1>1 DEF OverAccounts

\* What an entry does to the accounts cancels out as far as its two sides do.
LEMMA EntryNets ==
  ASSUME NEW x \in Accounts, NEW y \in Accounts, x # y, NEW debit \in Int, NEW credit \in Int
  PROVE  /\ Entry(x, y, debit, credit) \in [Accounts -> Int]
         /\ OverAccounts(Entry(x, y, debit, credit)) = debit - credit
<1> DEFINE e == Entry(x, y, debit, credit)
           in == [a \in Accounts |-> IF a = x THEN debit ELSE 0]
           out == [a \in Accounts |-> IF a = y THEN -credit ELSE 0]
<1> USE DEF Cash, Banks, Clients, Suppliers, TaxDue, TaxPaid, Income, Purchasing
<1>1. e \in [Accounts -> Int] /\ \A a \in Accounts : e[a] = in[a] + out[a]
  BY DEF Entry, Zero
<1>2. OverAccounts(in) = debit
  BY DEF OverAccounts, Accounts
<1>3. OverAccounts(out) = -credit
  BY DEF OverAccounts, Accounts
<1>4. in \in [Accounts -> Int] /\ out \in [Accounts -> Int]
  OBVIOUS
<1> HIDE DEF e, in, out
<1>5. OverAccounts(e) = OverAccounts(in) + OverAccounts(out)
  BY <1>1, <1>4, OverAccountsAdds
<1>6. OverAccounts(e) = debit - credit
  BY <1>2, <1>3, <1>5
<1> QED
  BY <1>1, <1>6 DEF e

\* The entry of a new document moves no money, and is off by a cent at most.
LEMMA MadeNets ==
  ASSUME NEW d \in Documents
  PROVE  /\ MadeEntry(d) \in [Accounts -> Int]
         /\ MadeEntry(d)[Cash] + MadeEntry(d)[Banks] = 0
         /\ OverAccounts(MadeEntry(d)) \in Int /\ Abs(OverAccounts(MadeEntry(d))) <= 1
<1> DEFINE gap == Total[d] - Subtotal[d] - Tax[d]
<1>1. Total[d] \in Nat /\ Subtotal[d] \in Nat /\ Tax[d] \in Nat /\ Abs(gap) <= 1
  BY TreasuryAssumption
<1>2. MadeEntry(d) \in [Accounts -> Int]
  <2>1. Zero \in [Accounts -> Int]
    BY DEF Zero
  <2>2. Total[d] \in Int /\ -Total[d] \in Int /\ Subtotal[d] \in Int /\ -Subtotal[d] \in Int
        /\ Tax[d] \in Int /\ -Tax[d] \in Int
    BY <1>1
  <2>3. CASE d \in Sales
    BY <2>1, <2>2, <2>3 DEF MadeEntry
  <2>4. CASE d \notin Sales
    BY <2>1, <2>2, <2>4 DEF MadeEntry
  <2> QED
    BY <2>3, <2>4
<1> USE DEF Accounts, Cash, Banks, Clients, Suppliers, TaxDue, TaxPaid, Income, Purchasing
<1>3. MadeEntry(d)[Cash] + MadeEntry(d)[Banks] = 0
  <2>1. MadeEntry(d)[Cash] = 0 /\ MadeEntry(d)[Banks] = 0
    <3>1. CASE d \in Sales
      BY <3>1 DEF MadeEntry, Zero
    <3>2. CASE d \notin Sales
      BY <3>2 DEF MadeEntry, Zero
    <3> QED
      BY <3>1, <3>2
  <2> QED
    BY <2>1
<1>4. CASE d \in Sales
  <2>1. OverAccounts(MadeEntry(d)) = gap
    BY <1>1, <1>4 DEF MadeEntry, Zero, OverAccounts
  <2> QED
    BY <1>1, <1>2, <1>3, <2>1
<1>5. CASE d \notin Sales
  <2>1. OverAccounts(MadeEntry(d)) = -gap
    BY <1>1, <1>5 DEF MadeEntry, Zero, OverAccounts
  <2>2. gap \in Int
    BY <1>1
  <2> HIDE DEF gap
  <2>3. Abs(-gap) <= 1
    BY <1>1, <2>2 DEF Abs
  <2> QED
    BY <1>2, <1>3, <2>1, <2>2, <2>3
<1> QED
  BY <1>4, <1>5

\* The entry of a settled document moves its total, and cancels out.
LEMMA SettledNets ==
  ASSUME NEW d \in Documents
  PROVE  /\ SettledEntry(d) \in [Accounts -> Int] /\ OverAccounts(SettledEntry(d)) = 0
         /\ SettledEntry(d)[Cash] + SettledEntry(d)[Banks] = IF d \in Sales THEN Total[d] ELSE -Total[d]
<1>1. Total[d] \in Int
  BY TreasuryAssumption
<1>2. /\ Cash \in Accounts /\ Clients \in Accounts /\ Suppliers \in Accounts
      /\ Cash # Clients /\ Cash # Suppliers
  BY DEF Accounts, Cash, Clients, Suppliers
<1>3. /\ SettledEntry(d) \in [Accounts -> Int] /\ OverAccounts(SettledEntry(d)) = Total[d] - Total[d]
  BY <1>1, <1>2, EntryNets DEF SettledEntry
<1>4. SettledEntry(d)[Cash] + SettledEntry(d)[Banks] = IF d \in Sales THEN Total[d] ELSE -Total[d]
  BY <1>1 DEF SettledEntry, Entry, Zero, Accounts, Cash, Banks, Clients, Suppliers, TaxDue, TaxPaid, Income,
     Purchasing
<1> QED
  BY <1>1, <1>3, <1>4

\* A new entry adds itself to every account.
LEMMA PutAdds ==
  ASSUME entries \in [DOMAIN entries -> [Accounts -> Int]], IsFiniteSet(DOMAIN entries),
         NEW r, r \notin DOMAIN entries, NEW e \in [Accounts -> Int], Put(r, e)
  PROVE  /\ DOMAIN entries' = DOMAIN entries \union {r} /\ IsFiniteSet(DOMAIN entries')
         /\ entries' \in [DOMAIN entries' -> [Accounts -> Int]]
         /\ entries'[r] = e /\ \A s \in DOMAIN entries : entries'[s] = entries[s]
         /\ \A a \in Accounts : Sum(a) \in Int /\ Sum(a)' = Sum(a) + e[a]
<1> DEFINE E == DOMAIN entries
<1>1. /\ DOMAIN entries' = E \union {r} /\ entries' \in [DOMAIN entries' -> [Accounts -> Int]]
      /\ entries'[r] = e /\ \A s \in E : entries'[s] = entries[s]
  BY DEF Put
<1>2. IsFiniteSet(E \union {r})
  BY FS_AddElement
<1>3. ASSUME NEW a \in Accounts PROVE Sum(a) \in Int /\ Sum(a)' = Sum(a) + e[a]
  <2> DEFINE new == [s \in E \union {r} |-> entries'[s][a]]
             old == [s \in E |-> entries[s][a]]
  <2>1. Sum(a)' = SumOf(new, E \union {r})
    BY <1>1 DEF Sum
  <2>2. Sum(a) = SumOf(old, E)
    BY DEF Sum
  <2>3. \A s \in E : old[s] \in Int /\ new[s] = old[s]
    BY <1>1
  <2>4. new[r] = e[a] /\ e[a] \in Int
    BY <1>1
  <2> HIDE DEF new, old
  <2>5. SumOf(new, E) = SumOf(old, E)
    BY <2>3, SumsCongruent
  <2>6. \A s \in E \union {r} : new[s] \in Int
    BY <2>3, <2>4
  <2>7. SumOf(new, E \union {r}) = SumOf(new, E) + new[r]
    BY <2>6, SumAdds
  <2>8. SumOf(old, E) \in Int
    BY <2>3, SumTyped
  <2> QED
    BY <2>1, <2>2, <2>4, <2>5, <2>7, <2>8
<1> QED
  BY <1>1, <1>2, <1>3

\* And to all of them together what its sides leave over.
LEMMA PutNets ==
  ASSUME entries \in [DOMAIN entries -> [Accounts -> Int]], IsFiniteSet(DOMAIN entries),
         NEW r, r \notin DOMAIN entries, NEW e \in [Accounts -> Int], Put(r, e)
  PROVE  AllAccounts \in Int /\ AllAccounts' = AllAccounts + OverAccounts(e)
<1> DEFINE before == [a \in Accounts |-> Sum(a)]
           after == [a \in Accounts |-> Sum(a)']
<1>1. \A a \in Accounts : Sum(a) \in Int /\ Sum(a)' = Sum(a) + e[a]
  BY PutAdds
<1>2. before \in [Accounts -> Int] /\ \A a \in Accounts : after[a] = before[a] + e[a]
  BY <1>1
<1>3. AllAccounts = OverAccounts(before) /\ AllAccounts' = OverAccounts(after)
  BY DEF AllAccounts, OverAccounts
<1> HIDE DEF before, after
<1>4. OverAccounts(after) = OverAccounts(before) + OverAccounts(e) /\ OverAccounts(before) \in Int
  BY <1>2, OverAccountsAdds
<1> QED
  BY <1>3, <1>4

\* The entries that may be off by a cent.
Rounded == Manual \union {Made(d) : d \in Documents}

\* The accounts still cancel out after an entry that does, or that may be off by
\* a cent and is.
LEMMA CancelKept ==
  ASSUME TreasuryInv, NEW r, r \notin DOMAIN entries, NEW e \in [Accounts -> Int], Put(r, e),
         OverAccounts(e) \in Int,
         \/ OverAccounts(e) = 0 /\ r \notin Rounded
         \/ Abs(OverAccounts(e)) <= 1 /\ r \in Rounded
  PROVE  AccountsCancel'
<1>1. entries \in [DOMAIN entries -> [Accounts -> Int]] /\ IsFiniteSet(DOMAIN entries)
  BY DEF TreasuryInv, TreasuryTypeOK
<1>2. AllAccounts \in Int /\ AllAccounts' = AllAccounts + OverAccounts(e)
  BY <1>1, PutNets
<1>3. DOMAIN entries' = DOMAIN entries \union {r}
  BY <1>1, PutAdds
<1>4. PICK n, o : n = OverAccounts(e) /\ o = Inexact
  OBVIOUS
<1>5. IsFiniteSet(o) /\ r \notin o
  BY <1>1, <1>4, FS_Subset DEF Inexact
<1>6. Cardinality(o) \in Nat /\ Cardinality(o \union {r}) = Cardinality(o) + 1
  BY <1>5, FS_CardinalityType, FS_AddElement
<1>7. Abs(AllAccounts) <= Cardinality(o)
  BY <1>4 DEF TreasuryInv, AccountsCancel
<1>8. CASE n = 0 /\ r \notin Rounded
  <2>1. Inexact' = o
    BY <1>3, <1>4, <1>8 DEF Inexact, Rounded
  <2>2. AllAccounts' = AllAccounts
    BY <1>2, <1>4, <1>8
  <2> QED
    BY <1>7, <2>1, <2>2 DEF AccountsCancel
<1>9. CASE Abs(n) <= 1 /\ r \in Rounded
  <2>1. Inexact' = o \union {r}
    BY <1>3, <1>4, <1>9 DEF Inexact, Rounded
  <2>2. Abs(AllAccounts') <= Cardinality(o) + 1
    BY <1>2, <1>4, <1>6, <1>7, <1>9 DEF Abs
  <2> QED
    BY <1>6, <2>1, <2>2 DEF AccountsCancel
<1> QED
  BY <1>4, <1>8, <1>9

\* Nothing is booked at the start.
LEMMA BooksInit == TreasuryInit => TreasuryInv
<1> SUFFICES ASSUME TreasuryInit PROVE TreasuryInv
  OBVIOUS
<1>1. DOMAIN transactions = {} /\ DOMAIN entries = {} /\ pending = {}
  BY DEF TreasuryInit
<1>2. IsFiniteSet(DOMAIN transactions) /\ IsFiniteSet(DOMAIN entries)
  BY <1>1, FS_EmptySet
<1>3. TreasuryTypeOK
  BY DEF TreasuryInit, TreasuryTypeOK
<1>4. EntriesFollow /\ MadeOnce
  BY <1>1 DEF EntriesFollow, MadeOnce
<1>5. AccountsCancel
  <2>1. \A a : Sum(a) = 0
    BY <1>1, SumEmpty DEF Sum
  <2>2. AllAccounts = 0
    BY <2>1 DEF AllAccounts, OverAccounts, Accounts, Cash, Banks, Clients, Suppliers, TaxDue, TaxPaid, Income,
       Purchasing
  <2>3. Cardinality(Inexact) = 0
    BY <1>1, FS_EmptySet DEF Inexact
  <2> QED
    BY <2>2, <2>3 DEF AccountsCancel, Abs
<1> QED
  BY <1>2, <1>3, <1>4, <1>5 DEF TreasuryInv

\* What does not touch the entries does not touch what they add up to.
LEMMA EntriesStand ==
  ASSUME AccountsCancel, UNCHANGED entries
  PROVE  AccountsCancel'
  BY DEF AccountsCancel, AllAccounts, Sum, Inexact

Transfers == [type : {"INCOME", "EXPENSE"}, category : {"CAJA", "BANCO"}, amount : Amounts,
              documents : SUBSET Documents]

\* A new transaction leaves the others as they are.
LEMMA Registered ==
  ASSUME TreasuryInv, NEW p \in Payments \union Expensed, p \notin DOMAIN transactions,
         NEW x \in Transfers, Register(p, x)
  PROVE  /\ DOMAIN transactions' = DOMAIN transactions \union {p} /\ IsFiniteSet(DOMAIN transactions')
         /\ transactions' \in [DOMAIN transactions' -> Transfers]
         /\ DOMAIN transactions' \subseteq Payments \union Expensed
         /\ \A q \in DOMAIN transactions : transactions'[q] = transactions[q]
<1>1. /\ transactions \in [DOMAIN transactions -> Transfers] /\ IsFiniteSet(DOMAIN transactions)
      /\ DOMAIN transactions \subseteq Payments \union Expensed
  BY DEF TreasuryInv, TreasuryTypeOK, Transfers
<1>2. IsFiniteSet(DOMAIN transactions \union {p})
  BY <1>1, FS_AddElement
<1> QED
  BY <1>1, <1>2 DEF Register

\* A payment starts without its entry.
LEMMA PayKeeps ==
  ASSUME TreasuryInv, NEW p \in Payments, Pay(p)
  PROVE  TreasuryInv'
<1> USE DEF TreasuryInv
<1>1. PICK x \in Transfers : Register(p, x)
  BY DEF Pay, Transfer, Transfers
<1>2. /\ p \notin DOMAIN transactions /\ pending' = pending \union {p}
      /\ UNCHANGED <<present, removed, entries, reconciled>>
  BY DEF Pay
<1>3. /\ DOMAIN transactions' = DOMAIN transactions \union {p} /\ IsFiniteSet(DOMAIN transactions')
      /\ transactions' \in [DOMAIN transactions' -> Transfers]
      /\ DOMAIN transactions' \subseteq Payments \union Expensed
      /\ \A q \in DOMAIN transactions : transactions'[q] = transactions[q]
  BY <1>1, <1>2, Registered
<1>4. TreasuryTypeOK'
  BY <1>2, <1>3 DEF TreasuryTypeOK, Transfers
<1>5. EntriesFollow'
  <2>1. (DOMAIN transactions' \cap Payments) \ pending' = (DOMAIN transactions \cap Payments) \ pending
    BY <1>2, <1>3
  <2> QED
    BY <1>2, <1>3, <2>1 DEF EntriesFollow
<1>6. MadeOnce' /\ AccountsCancel'
  BY <1>2, EntriesStand DEF MadeOnce
<1> QED
  BY <1>2, <1>3, <1>4, <1>5, <1>6

\* The transaction of an approval has none.
LEMMA ExpenseKeeps ==
  ASSUME TreasuryInv, NEW p \in Expensed, Expense(p)
  PROVE  TreasuryInv'
<1> USE DEF TreasuryInv
<1>1. PICK x \in Transfers : Register(p, x)
  BY DEF Expense, Transfer, Transfers
<1>2. p \notin DOMAIN transactions /\ UNCHANGED <<present, removed, entries, pending, reconciled>>
  BY DEF Expense
<1>3. /\ DOMAIN transactions' = DOMAIN transactions \union {p} /\ IsFiniteSet(DOMAIN transactions')
      /\ transactions' \in [DOMAIN transactions' -> Transfers]
      /\ DOMAIN transactions' \subseteq Payments \union Expensed
      /\ \A q \in DOMAIN transactions : transactions'[q] = transactions[q]
  BY <1>1, <1>2, Registered
<1>4. TreasuryTypeOK'
  BY <1>2, <1>3 DEF TreasuryTypeOK, Transfers
<1>5. EntriesFollow'
  <2>1. DOMAIN transactions' \cap Payments = DOMAIN transactions \cap Payments
    BY <1>3, TreasuryAssumption
  <2> QED
    BY <1>2, <1>3, <2>1 DEF EntriesFollow
<1>6. MadeOnce' /\ AccountsCancel'
  BY <1>2, EntriesStand DEF MadeOnce
<1> QED
  BY <1>2, <1>3, <1>4, <1>5, <1>6

\* The entry of a payment moves its amount, and cancels out.
LEMMA PaymentNets ==
  ASSUME NEW x, x.type \in {"INCOME", "EXPENSE"}, x.amount \in Int
  PROVE  /\ PaymentEntry(x)[Cash] + PaymentEntry(x)[Banks] = Signed(x)
         /\ PaymentEntry(x) \in [Accounts -> Int] /\ OverAccounts(PaymentEntry(x)) = 0
<1>1. PICK account, n : account = (IF x.category = "BANCO" THEN Banks ELSE Cash) /\ n = x.amount
  OBVIOUS
<1>2. account \in {Cash, Banks} /\ n \in Int
  BY <1>1
<1>3. /\ account \in Accounts /\ Clients \in Accounts /\ Suppliers \in Accounts
      /\ account # Clients /\ account # Suppliers
  BY <1>2 DEF Accounts, Cash, Banks, Clients, Suppliers
<1>4. n - n = 0
  BY <1>2
<1>5. CASE x.type = "INCOME"
  <2>1. PaymentEntry(x) = Entry(account, Clients, n, n)
    BY <1>1, <1>5 DEF PaymentEntry
  <2>2. Entry(account, Clients, n, n)[Cash] + Entry(account, Clients, n, n)[Banks] = n
    BY <1>2 DEF Entry, Zero, Accounts, Cash, Banks, Clients, Suppliers, TaxDue, TaxPaid, Income, Purchasing
  <2>3. /\ Entry(account, Clients, n, n) \in [Accounts -> Int]
        /\ OverAccounts(Entry(account, Clients, n, n)) = 0
    BY <1>2, <1>3, <1>4, EntryNets
  <2> QED
    BY <1>1, <1>5, <2>1, <2>2, <2>3 DEF Signed
<1>6. CASE x.type # "INCOME"
  <2>1. PaymentEntry(x) = Entry(Suppliers, account, n, n)
    BY <1>1, <1>6 DEF PaymentEntry
  <2>2. Entry(Suppliers, account, n, n)[Cash] + Entry(Suppliers, account, n, n)[Banks] = -n
    BY <1>2 DEF Entry, Zero, Accounts, Cash, Banks, Clients, Suppliers, TaxDue, TaxPaid, Income, Purchasing
  <2>3. /\ Entry(Suppliers, account, n, n) \in [Accounts -> Int]
        /\ OverAccounts(Entry(Suppliers, account, n, n)) = 0
    BY <1>2, <1>3, <1>4, EntryNets
  <2> QED
    BY <1>1, <1>6, <2>1, <2>2, <2>3 DEF Signed
<1> QED
  BY <1>5, <1>6

\* No entry of a payment or by hand is one of a document, and none is both.
LEMMA KindsApart ==
  /\ \A p \in Payments : p \notin Manual /\ p \notin Postings /\ p \notin Rounded
  /\ \A r \in Manual : r \notin Postings
  /\ \A d \in Documents : Made(d) \in Postings /\ Made(d).what = "made" /\ Made(d).document = d
  /\ \A d \in Documents, n \in Times :
       LET e == [document |-> d, what |-> "settled", time |-> n]
       IN  e \in Postings /\ e.what = "settled" /\ e.document = d /\ e \notin Rounded
<1>1. /\ \A d \in Documents : Made(d) \in Postings /\ Made(d).what = "made" /\ Made(d).document = d
      /\ \A d \in Documents, n \in Times :
           LET e == [document |-> d, what |-> "settled", time |-> n]
           IN  e \in Postings /\ e.what = "settled" /\ e.document = d
  BY DEF Made, Postings
<1> QED
  BY <1>1, TreasuryAssumption DEF Rounded

\* A pending payment gets its entry.
LEMMA BookKeeps ==
  ASSUME TreasuryInv, NEW p \in Payments, Book(p)
  PROVE  TreasuryInv'
<1> USE DEF TreasuryInv
<1>1. /\ p \in pending /\ pending' = pending \ {p} /\ Put(p, PaymentEntry(transactions[p]))
      /\ UNCHANGED <<present, removed, transactions, reconciled>>
  BY DEF Book
<1>2. p \in DOMAIN transactions /\ p \notin DOMAIN entries
  BY <1>1 DEF TreasuryTypeOK, EntriesFollow
<1>3. PICK x : x = transactions[p]
  OBVIOUS
<1>4. x.type \in {"INCOME", "EXPENSE"} /\ x.amount \in Int
  BY <1>2, <1>3, TreasuryAssumption DEF TreasuryTypeOK
<1>5. PICK e : e = PaymentEntry(x)
  OBVIOUS
<1>6. Put(p, e) /\ e[Cash] + e[Banks] = Signed(x) /\ e \in [Accounts -> Int] /\ OverAccounts(e) = 0
  BY <1>1, <1>3, <1>4, <1>5, PaymentNets
<1>7. entries \in [DOMAIN entries -> [Accounts -> Int]] /\ IsFiniteSet(DOMAIN entries)
  BY DEF TreasuryTypeOK
<1>8. /\ DOMAIN entries' = DOMAIN entries \union {p} /\ IsFiniteSet(DOMAIN entries')
      /\ entries' \in [DOMAIN entries' -> [Accounts -> Int]]
      /\ entries'[p] = e /\ \A s \in DOMAIN entries : entries'[s] = entries[s]
  BY <1>2, <1>6, <1>7, PutAdds
<1>9. TreasuryTypeOK'
  BY <1>1, <1>2, <1>8 DEF TreasuryTypeOK
<1>10. EntriesFollow'
  <2>1. DOMAIN entries' \cap Payments = (DOMAIN transactions' \cap Payments) \ pending'
    BY <1>1, <1>2, <1>8 DEF EntriesFollow
  <2>2. \A q \in DOMAIN entries' \cap Payments : entries'[q][Cash] + entries'[q][Banks] = Signed(transactions'[q])
    BY <1>1, <1>3, <1>6, <1>8 DEF EntriesFollow
  <2>3. DOMAIN entries' \cap Postings = DOMAIN entries \cap Postings
    BY <1>8, KindsApart
  <2> QED
    BY <1>8, <2>1, <2>2, <2>3 DEF EntriesFollow
<1>11. MadeOnce'
  BY <1>1, <1>8, KindsApart DEF MadeOnce
<1>12. AccountsCancel'
  <2>1. OverAccounts(e) \in Int /\ p \notin Rounded
    BY <1>6, KindsApart
  <2> QED
    BY <1>2, <1>6, <2>1, CancelKept
<1> QED
  BY <1>1, <1>8, <1>9, <1>10, <1>11, <1>12

\* An entry made by hand is off by a cent at most.
LEMMA BookByHandKeeps ==
  ASSUME TreasuryInv, NEW r \in Manual, BookByHand(r)
  PROVE  TreasuryInv'
<1> USE DEF TreasuryInv
<1>1. PICK a \in Accounts, b \in Accounts, debit \in Amounts, credit \in Amounts :
        a # b /\ Balances(debit, credit) /\ Put(r, Entry(a, b, debit, credit))
  BY DEF BookByHand
<1>2. r \notin DOMAIN entries /\ UNCHANGED <<present, removed, transactions, pending, reconciled>>
  BY DEF BookByHand
<1>3. debit \in Int /\ credit \in Int
  <2>1. Amounts \subseteq Int
    BY TreasuryAssumption
  <2> QED
    BY <1>1, <2>1
<1>4. entries \in [DOMAIN entries -> [Accounts -> Int]] /\ IsFiniteSet(DOMAIN entries)
  BY DEF TreasuryTypeOK
<1>5. PICK e : e = Entry(a, b, debit, credit)
  OBVIOUS
<1>6. Put(r, e) /\ e \in [Accounts -> Int] /\ OverAccounts(e) \in Int /\ Abs(OverAccounts(e)) <= 1
  BY <1>1, <1>3, <1>5, EntryNets DEF Balances
<1>7. /\ DOMAIN entries' = DOMAIN entries \union {r} /\ IsFiniteSet(DOMAIN entries')
      /\ entries' \in [DOMAIN entries' -> [Accounts -> Int]]
      /\ \A s \in DOMAIN entries : entries'[s] = entries[s]
  BY <1>2, <1>4, <1>6, PutAdds
<1>8. TreasuryTypeOK'
  BY <1>2, <1>7 DEF TreasuryTypeOK
<1>9. EntriesFollow'
  <2>1. /\ DOMAIN entries' \cap Payments = DOMAIN entries \cap Payments
        /\ DOMAIN entries' \cap Postings = DOMAIN entries \cap Postings
    BY <1>7, KindsApart
  <2> QED
    BY <1>2, <1>7, <2>1 DEF EntriesFollow
<1>10. MadeOnce'
  BY <1>2, <1>7, KindsApart DEF MadeOnce
<1>11. AccountsCancel'
  BY <1>2, <1>6, CancelKept DEF Rounded
<1> QED
  BY <1>2, <1>7, <1>8, <1>9, <1>10, <1>11

\* A document books itself, once, when it is made; a draft does not.
LEMMA MakeKeeps ==
  ASSUME TreasuryInv, NEW d \in Documents, Make(d) \/ Draft(d)
  PROVE  TreasuryInv'
<1> USE DEF TreasuryInv
<1>1. /\ d \notin present \union removed /\ present' = present \union {d}
      /\ UNCHANGED <<removed, transactions, pending, reconciled>>
  BY DEF Make, Draft
<1>2. CASE Draft(d)
  <2>1. UNCHANGED entries
    BY <1>2 DEF Draft
  <2>2. TreasuryTypeOK' /\ EntriesFollow' /\ MadeOnce'
    BY <1>1, <2>1 DEF TreasuryTypeOK, EntriesFollow, MadeOnce
  <2> QED
    BY <1>1, <2>1, <2>2, EntriesStand
<1>3. CASE Make(d)
  <2>1. PICK r, e : r = Made(d) /\ e = MadeEntry(d)
    OBVIOUS
  <2>2. Put(r, e) /\ r \in Postings /\ r.what = "made" /\ r.document = d /\ r \notin DOMAIN entries
    BY <1>1, <1>3, <2>1, KindsApart DEF Make, MadeOnce
  <2>3. /\ e \in [Accounts -> Int] /\ e[Cash] + e[Banks] = 0
        /\ OverAccounts(e) \in Int /\ Abs(OverAccounts(e)) <= 1
    BY <2>1, MadeNets
  <2>4. entries \in [DOMAIN entries -> [Accounts -> Int]] /\ IsFiniteSet(DOMAIN entries)
    BY DEF TreasuryTypeOK
  <2>5. /\ DOMAIN entries' = DOMAIN entries \union {r} /\ IsFiniteSet(DOMAIN entries')
        /\ entries' \in [DOMAIN entries' -> [Accounts -> Int]]
        /\ entries'[r] = e /\ \A s \in DOMAIN entries : entries'[s] = entries[s]
    BY <2>2, <2>3, <2>4, PutAdds
  <2>6. TreasuryTypeOK'
    BY <1>1, <2>2, <2>5 DEF TreasuryTypeOK
  <2>7. EntriesFollow'
    <3>1. r \notin Payments /\ r \notin Manual
      BY <2>2, KindsApart
    <3>2. DOMAIN entries' \cap Payments = DOMAIN entries \cap Payments
      BY <2>5, <3>1
    <3>3. \A s \in DOMAIN entries' \cap Postings :
            entries'[s] = IF s.what = "made" THEN MadeEntry(s.document) ELSE SettledEntry(s.document)
      BY <2>1, <2>2, <2>5 DEF EntriesFollow
    <3> QED
      BY <1>1, <2>5, <3>2, <3>3 DEF EntriesFollow
  <2>8. MadeOnce'
    BY <1>1, <2>2, <2>5, KindsApart DEF MadeOnce
  <2>9. AccountsCancel'
    BY <2>1, <2>2, <2>3, CancelKept DEF Rounded
  <2> QED
    BY <1>1, <2>5, <2>6, <2>7, <2>8, <2>9
<1> QED
  BY <1>2, <1>3

\* And again each time its status settles it.
LEMMA SettleKeeps ==
  ASSUME TreasuryInv, NEW d \in Documents, NEW n \in Times, Settle(d, n)
  PROVE  TreasuryInv'
<1> USE DEF TreasuryInv
<1>1. PICK r, e : r = [document |-> d, what |-> "settled", time |-> n] /\ e = SettledEntry(d)
  OBVIOUS
<1>2. /\ Put(r, e) /\ r \notin DOMAIN entries
      /\ UNCHANGED <<present, removed, transactions, pending, reconciled>>
  BY <1>1 DEF Settle
<1>3. r \in Postings /\ r.what = "settled" /\ r.document = d /\ r \notin Rounded
  BY <1>1, KindsApart
<1>4. e \in [Accounts -> Int] /\ OverAccounts(e) = 0
  BY <1>1, SettledNets
<1>5. entries \in [DOMAIN entries -> [Accounts -> Int]] /\ IsFiniteSet(DOMAIN entries)
  BY DEF TreasuryTypeOK
<1>6. /\ DOMAIN entries' = DOMAIN entries \union {r} /\ IsFiniteSet(DOMAIN entries')
      /\ entries' \in [DOMAIN entries' -> [Accounts -> Int]]
      /\ entries'[r] = e /\ \A s \in DOMAIN entries : entries'[s] = entries[s]
  BY <1>2, <1>4, <1>5, PutAdds
<1>7. TreasuryTypeOK'
  BY <1>2, <1>3, <1>6 DEF TreasuryTypeOK
<1>8. EntriesFollow'
  <2>1. r \notin Payments
    BY <1>3, KindsApart
  <2>2. DOMAIN entries' \cap Payments = DOMAIN entries \cap Payments
    BY <1>6, <2>1
  <2>3. \A s \in DOMAIN entries' \cap Postings :
          entries'[s] = IF s.what = "made" THEN MadeEntry(s.document) ELSE SettledEntry(s.document)
    BY <1>1, <1>3, <1>6 DEF EntriesFollow
  <2> QED
    BY <1>2, <1>6, <2>2, <2>3 DEF EntriesFollow
<1>9. MadeOnce'
  BY <1>2, <1>3, <1>6, KindsApart DEF MadeOnce
<1>10. AccountsCancel'
  <2>1. OverAccounts(e) \in Int
    BY <1>4
  <2> QED
    BY <1>2, <1>3, <1>4, <2>1, CancelKept
<1> QED
  BY <1>2, <1>6, <1>7, <1>8, <1>9, <1>10

\* A document is removed from under its payments, which keep their amounts.
LEMMA RemoveDocumentKeeps ==
  ASSUME TreasuryInv, NEW d \in Documents, RemoveDocument(d)
  PROVE  TreasuryInv'
<1> USE DEF TreasuryInv
<1>1. /\ present' = present \ {d} /\ removed' = removed \union {d} /\ UNCHANGED <<entries, pending, reconciled>>
      /\ transactions' = [p \in DOMAIN transactions |-> [transactions[p] EXCEPT !.documents = @ \ {d}]]
  BY DEF RemoveDocument
<1>2. DOMAIN transactions' = DOMAIN transactions
  BY <1>1
<1>3. ASSUME NEW p \in DOMAIN transactions
      PROVE  transactions'[p] \in Transfers /\ Signed(transactions'[p]) = Signed(transactions[p])
  <2>1. transactions[p] \in Transfers
    BY DEF TreasuryTypeOK, Transfers
  <2>2. transactions'[p] = [transactions[p] EXCEPT !.documents = transactions[p].documents \ {d}]
    BY <1>1
  <2>3. transactions[p].documents \ {d} \in SUBSET Documents
    BY <2>1 DEF Transfers
  <2> QED
    BY <2>1, <2>2, <2>3 DEF Signed, Transfers
<1>4. TreasuryTypeOK'
  <2>1. transactions' \in [DOMAIN transactions' -> Transfers]
    BY <1>1, <1>3
  <2> QED
    BY <1>1, <1>2, <2>1 DEF TreasuryTypeOK, Transfers
<1>5. EntriesFollow'
  <2>1. \A p \in DOMAIN entries \cap Payments : p \in DOMAIN transactions
    BY DEF EntriesFollow
  <2> QED
    BY <1>1, <1>2, <1>3, <2>1 DEF EntriesFollow
<1>6. MadeOnce' /\ AccountsCancel'
  BY <1>1, EntriesStand DEF MadeOnce
<1> QED
  BY <1>1, <1>2, <1>4, <1>5, <1>6

\* Every step keeps the invariant.
LEMMA TreasurySteps == TreasuryInv /\ [TreasuryNext]_treasuryVars => TreasuryInv'
<1> SUFFICES ASSUME TreasuryInv, [TreasuryNext]_treasuryVars PROVE TreasuryInv'
  OBVIOUS
<1>1. ASSUME NEW p \in Payments, Pay(p) \/ Book(p) PROVE TreasuryInv'
  BY <1>1, PayKeeps, BookKeeps
<1>2. ASSUME NEW r \in Manual, BookByHand(r) PROVE TreasuryInv'
  BY <1>2, BookByHandKeeps
<1>3. ASSUME reconciled' \subseteq DOMAIN entries,
             UNCHANGED <<present, removed, transactions, entries, pending>>
      PROVE  TreasuryInv'
  <2>1. TreasuryTypeOK' /\ EntriesFollow' /\ MadeOnce'
    BY <1>3 DEF TreasuryInv, TreasuryTypeOK, EntriesFollow, MadeOnce
  <2> QED
    BY <1>3, <2>1, EntriesStand DEF TreasuryInv
<1>4. ASSUME NEW r, Reconcile(r) PROVE TreasuryInv'
  <2>1. reconciled' \subseteq DOMAIN entries /\ UNCHANGED <<present, removed, transactions, entries, pending>>
    BY <1>4 DEF Reconcile, TreasuryInv, TreasuryTypeOK
  <2> QED
    BY <1>3, <2>1
<1>5. ASSUME NEW d \in Documents, Make(d) \/ Draft(d) \/ RemoveDocument(d) PROVE TreasuryInv'
  BY <1>5, MakeKeeps, RemoveDocumentKeeps
<1>6. ASSUME NEW d \in Documents, NEW n \in Times, Settle(d, n) PROVE TreasuryInv'
  BY <1>6, SettleKeeps
<1>7. ASSUME NEW p \in Expensed, Expense(p) PROVE TreasuryInv'
  BY <1>7, ExpenseKeeps
<1>8. CASE UNCHANGED treasuryVars
  <2>1. reconciled' \subseteq DOMAIN entries /\ UNCHANGED <<present, removed, transactions, entries, pending>>
    BY <1>8 DEF treasuryVars, TreasuryInv, TreasuryTypeOK
  <2> QED
    BY <1>3, <2>1
<1> QED
  BY <1>1, <1>2, <1>4, <1>5, <1>6, <1>7, <1>8 DEF TreasuryNext

\* What the entries that are not by hand did to the money: the payments that are
\* booked, and what documents settled.
LEMMA MoneyMoved ==
  ASSUME TreasuryInv
  PROVE  LET booked == (DOMAIN transactions \cap Payments) \ pending
         IN  OnCash(DOMAIN entries \ Manual) = Balance(booked) + Settled
             /\ Balance(booked) \in Int /\ Settled \in Int
<1> DEFINE booked == (DOMAIN transactions \cap Payments) \ pending
           E == DOMAIN entries
           fresh == {e \in E \cap Postings : e.what = "made"}
           typed == E \ Manual
           moved == [r \in typed |-> entries[r][Cash] + entries[r][Banks]]
           paid == [p \in booked |-> Signed(transactions[p])]
           worth == [e \in Settlements |-> IF e.document \in Sales THEN Total[e.document]
                                                                  ELSE -Total[e.document]]
<1>1. /\ E \cap Payments = booked
      /\ \A e \in E \cap Postings : e.what \in {"made", "settled"} /\ e.document \in Documents
  BY DEF TreasuryInv, EntriesFollow, Postings
<1>2. /\ typed = booked \union (fresh \union Settlements)
      /\ booked \cap (fresh \union Settlements) = {} /\ fresh \cap Settlements = {}
  BY <1>1, KindsApart DEF TreasuryInv, TreasuryTypeOK, Settlements
<1>3. IsFiniteSet(booked) /\ IsFiniteSet(fresh) /\ IsFiniteSet(Settlements) /\ IsFiniteSet(fresh \union Settlements)
  <2>1. IsFiniteSet(E)
    BY DEF TreasuryInv
  <2>2. booked \subseteq E /\ fresh \union Settlements \subseteq E
    BY <1>1 DEF Settlements
  <2>3. fresh \subseteq fresh \union Settlements /\ Settlements \subseteq fresh \union Settlements
    OBVIOUS
  <2> HIDE DEF E, booked, fresh
  <2>4. IsFiniteSet(booked) /\ IsFiniteSet(fresh \union Settlements)
    BY <2>1, <2>2, FS_Subset
  <2> QED
    BY <2>3, <2>4, FS_Subset
<1>4. \A r \in typed : moved[r] \in Int
  <2>1. Cash \in Accounts /\ Banks \in Accounts
    BY DEF Accounts
  <2> QED
    BY <2>1 DEF TreasuryInv, TreasuryTypeOK
<1>5. \A p \in booked : moved[p] = paid[p]
  BY <1>1, <1>2 DEF TreasuryInv, EntriesFollow
<1>6. \A e \in fresh : moved[e] = 0
  BY <1>1, <1>2, MadeNets DEF TreasuryInv, EntriesFollow
<1>7. \A e \in Settlements : moved[e] = worth[e]
  BY <1>1, <1>2, SettledNets DEF TreasuryInv, EntriesFollow, Settlements
<1>8. OnCash(typed) = SumOf(moved, typed) /\ Balance(booked) = SumOf(paid, booked)
      /\ Settled = SumOf(worth, Settlements)
  BY DEF OnCash, Balance, Settled
<1> HIDE DEF moved, paid, worth, fresh, booked, typed, E
<1>9. SumOf(moved, booked \union (fresh \union Settlements))
        = SumOf(moved, booked) + SumOf(moved, fresh \union Settlements)
  BY <1>2, <1>3, <1>4, SumSplits
<1>10. SumOf(moved, fresh \union Settlements) = SumOf(moved, fresh) + SumOf(moved, Settlements)
  BY <1>2, <1>3, <1>4, SumSplits
<1>11. SumOf(moved, booked) = SumOf(paid, booked)
  BY <1>5, SumsCongruent
<1>12. SumOf(moved, fresh) = 0
  BY <1>6, SumOfZeros
<1>13. SumOf(moved, Settlements) = SumOf(worth, Settlements)
  BY <1>7, SumsCongruent
<1>14. SumOf(moved, booked) \in Int /\ SumOf(moved, Settlements) \in Int
  BY <1>2, <1>3, <1>4, SumTyped
<1>15. OnCash(typed) = Balance(booked) + Settled /\ Balance(booked) \in Int /\ Settled \in Int
  BY <1>2, <1>8, <1>9, <1>10, <1>11, <1>12, <1>13, <1>14
<1> QED
  BY <1>15 DEF typed, booked, E

\* What was paid is what is booked and what has no entry.
LEMMA CashFollows == TreasuryInv => CashFollowsPayments
<1> SUFFICES ASSUME TreasuryInv PROVE CashFollowsPayments
  OBVIOUS
<1> DEFINE T == DOMAIN transactions
           booked == (T \cap Payments) \ pending
           rest == pending \union (T \cap Expensed)
           paid == [p \in T |-> Signed(transactions[p])]
           some(S) == [p \in S |-> Signed(transactions[p])]
<1>1. T \subseteq Payments \union Expensed /\ pending \subseteq T \cap Payments /\ IsFiniteSet(T)
  BY DEF TreasuryInv, TreasuryTypeOK
<1>2. booked \union rest = T /\ booked \cap rest = {}
  BY <1>1, TreasuryAssumption
<1>3. IsFiniteSet(booked) /\ IsFiniteSet(rest)
  BY <1>1, <1>2, FS_Subset
<1>4. \A p \in T : paid[p] \in Int
  BY TreasuryAssumption DEF TreasuryInv, TreasuryTypeOK, Signed
<1>5. ASSUME NEW S, S \subseteq T PROVE Balance(S) = SumOf(paid, S)
  <2>1. Balance(S) = SumOf(some(S), S)
    BY DEF Balance
  <2>2. \A p \in S : some(S)[p] = paid[p]
    BY <1>5
  <2> HIDE DEF some, paid
  <2> QED
    BY <2>1, <2>2, SumsCongruent
<1>6. Balance(T) = SumOf(paid, T) /\ Balance(booked) = SumOf(paid, booked) /\ Balance(rest) = SumOf(paid, rest)
  BY <1>2, <1>5
<1>7. OnCash(DOMAIN entries \ Manual) = Balance(booked) + Settled /\ Balance(booked) \in Int /\ Settled \in Int
  BY MoneyMoved
<1> HIDE DEF T, booked, rest, paid
<1>8. SumOf(paid, booked \union rest) = SumOf(paid, booked) + SumOf(paid, rest)
  BY <1>2, <1>3, <1>4, SumSplits
<1>9. SumOf(paid, rest) \in Int
  BY <1>2, <1>3, <1>4, SumTyped
<1>10. OnCash(DOMAIN entries \ Manual) + Balance(rest) = Balance(T) + Settled
  <2>1. Balance(T) = Balance(booked) + Balance(rest) /\ Balance(rest) \in Int
    BY <1>2, <1>6, <1>8, <1>9
  <2>2. ASSUME NEW x \in Int, NEW y \in Int, NEW z \in Int PROVE (x + y) + z = (x + z) + y
    OBVIOUS
  <2> QED
    BY <1>7, <2>1, <2>2
<1> QED
  BY <1>10 DEF CashFollowsPayments, T, rest

\* The two statements and the accounts neither lists are all the accounts.
LEMMA GapExplained == TreasuryInv => SheetGapExplained
<1> SUFFICES ASSUME TreasuryInv PROVE SheetGapExplained
  OBVIOUS
<1>1. \A a \in Accounts : Sum(a) \in Int
  <2>1. TAKE a \in Accounts
  <2> DEFINE value == [r \in DOMAIN entries |-> entries[r][a]]
  <2>2. \A r \in DOMAIN entries : value[r] \in Int
    BY DEF TreasuryInv, TreasuryTypeOK
  <2>3. IsFiniteSet(DOMAIN entries)
    BY DEF TreasuryInv
  <2> HIDE DEF value
  <2>4. SumOf(value, DOMAIN entries) \in Int
    BY <2>2, <2>3, SumTyped
  <2> QED
    BY <2>4 DEF Sum, value
<1>2. /\ Cash \in Accounts /\ Banks \in Accounts /\ Clients \in Accounts /\ Suppliers \in Accounts
      /\ TaxDue \in Accounts /\ TaxPaid \in Accounts /\ Income \in Accounts /\ Purchasing \in Accounts
      /\ "310505" \in Accounts /\ "613505" \in Accounts /\ "510505" \in Accounts /\ "other" \in Accounts
  BY DEF Accounts
<1>3. ASSUME NEW a \in Accounts, NEW b \in Accounts, NEW c \in Accounts, NEW d \in Accounts,
             a # b, a # c, a # d, b # c, b # d, c # d, NEW as, as = {a, b, c, d}
      PROVE  TotalOf(as) = Sum(a) + Sum(b) + Sum(c) + Sum(d)
  <2> DEFINE f == [x \in as |-> Sum(x)]
  <2>1. f[a] = Sum(a) /\ f[b] = Sum(b) /\ f[c] = Sum(c) /\ f[d] = Sum(d)
    BY <1>3
  <2>2. TotalOf(as) = SumOf(f, as)
    BY DEF TotalOf
  <2> HIDE DEF f
  <2>3. f[a] \in Int /\ f[b] \in Int /\ f[c] \in Int /\ f[d] \in Int
    BY <1>1, <2>1
  <2>4. SumOf(f, as) = f[a] + f[b] + f[c] + f[d]
    <3>1. PICK left, right : left = {a, b} /\ right = {c, d}
      OBVIOUS
    <3>2. IsFiniteSet(left) /\ IsFiniteSet(right)
      BY <3>1, PairFinite
    <3>3. left \cap right = {} /\ \A x \in left \union right : f[x] \in Int
      BY <1>3, <2>3, <3>1
    <3>4. SumOf(f, left \union right) = SumOf(f, left) + SumOf(f, right)
      BY <3>2, <3>3, SumSplits
    <3>5. SumOf(f, left) = f[a] + f[b]
      BY <1>3, <2>3, <3>1, SumOfTwo
    <3>6. SumOf(f, right) = f[c] + f[d]
      BY <1>3, <2>3, <3>1, SumOfTwo
    <3>7. left \union right = as
      BY <1>3, <3>1
    <3>8. SumOf(f, as) = (f[a] + f[b]) + (f[c] + f[d])
      BY <3>4, <3>5, <3>6, <3>7
    <3> QED
      BY <2>3, <3>8
  <2> QED
    BY <2>1, <2>2, <2>4
<1>4. TotalOf(OnSheet) = Sum(Cash) + Sum(Clients) + Sum(TaxDue) + Sum("310505")
  <2>1. OnSheet = {Cash, Clients, TaxDue, "310505"}
    BY DEF OnSheet, Assets, Liabilities, Equity
  <2>2. /\ Cash # Clients /\ Cash # TaxDue /\ Cash # "310505"
        /\ Clients # TaxDue /\ Clients # "310505" /\ TaxDue # "310505"
    BY DEF Cash, Clients, TaxDue
  <2> QED
    BY <1>2, <1>3, <2>1, <2>2
<1>5. TotalOf(Accounts \ (OnSheet \union OnStatement)) = Sum(Banks) + Sum(Suppliers) + Sum(TaxPaid) + Sum("other")
  <2>1. Accounts \ (OnSheet \union OnStatement) = {Banks, Suppliers, TaxPaid, "other"}
    BY DEF Accounts, OnSheet, OnStatement, Assets, Liabilities, Equity, Cash, Banks, Clients, Suppliers,
       TaxDue, TaxPaid, Income, Purchasing
  <2>2. /\ Banks # Suppliers /\ Banks # TaxPaid /\ Banks # "other"
        /\ Suppliers # TaxPaid /\ Suppliers # "other" /\ TaxPaid # "other"
    BY DEF Banks, Suppliers, TaxPaid
  <2> QED
    BY <1>2, <1>3, <2>1, <2>2
<1>6. /\ Sum(Cash) \in Int /\ Sum(Banks) \in Int /\ Sum(Clients) \in Int /\ Sum(Suppliers) \in Int
      /\ Sum(TaxDue) \in Int /\ Sum(TaxPaid) \in Int /\ Sum(Income) \in Int /\ Sum(Purchasing) \in Int
      /\ Sum("310505") \in Int /\ Sum("613505") \in Int /\ Sum("510505") \in Int /\ Sum("other") \in Int
  BY <1>1, <1>2
<1>7. AllAccounts = Sum(Cash) + Sum(Banks) + Sum(Clients) + Sum(Suppliers) + Sum(TaxDue) + Sum(TaxPaid)
        + Sum(Income) + Sum(Purchasing) + Sum("310505") + Sum("613505") + Sum("510505") + Sum("other")
  BY <1>2 DEF AllAccounts, OverAccounts
<1>8. NetProfit = -Sum(Income) - Sum("613505") - (Sum("510505") + Sum(Purchasing))
  BY DEF NetProfit, Revenue, Costs, Expenses
<1>9. (TotalOf(OnSheet) - NetProfit) + TotalOf(Accounts \ (OnSheet \union OnStatement)) = AllAccounts
  BY <1>4, <1>5, <1>6, <1>7, <1>8
<1> QED
  BY <1>9 DEF SheetGapExplained, TreasuryInv, AccountsCancel

\* Whatever is made, settled, paid, booked, booked by hand, reconciled or deleted,
\* and whichever entries fail: the cash accounts differ from what getBalance shows
\* by the documents settled by their status and the transactions without an entry;
\* and the balance sheet differs from the profit and loss statement by what is on
\* the accounts neither lists, and a cent per entry made by hand or by a document.
THEOREM BooksAgreed == TreasurySpec => []BooksAgree
<1>1. TreasuryInv => BooksAgree
  BY CashFollows, GapExplained DEF BooksAgree
<1> QED
  BY <1>1, BooksInit, TreasurySteps, PTL DEF TreasurySpec
=============================================================================
