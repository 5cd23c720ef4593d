---------------------------- MODULE Subscriptions ----------------------------
(***************************************************************************)
(* The subscriptions of the tenants: the Wompi webhook that books a        *)
(* payment and activates its tenant (subscriptions.controller.ts,          *)
(* subscriptions.service.ts), the daily dunning cron that suspends overdue *)
(* tenants (dunning.scheduler.ts), the tenant's cancellation and the       *)
(* administrator's update (admin.service.ts).                              *)
(*                                                                         *)
(* A task is one HTTP request, preempted at its awaits.  The webhook is one*)
(* interactive transaction, READ COMMITTED: its writes appear at its       *)
(* commit, but the row of its subscription is locked, and the invoice      *)
(* number it inserted reserved, from the statement that writes them.  The  *)
(* clock counts months.                                                    *)
(***************************************************************************)
EXTENDS Naturals, FiniteSets

CONSTANTS
    Tenants,
    NoTenant,      \* the tenant of a task that serves no request
    Transactions,  \* approved Wompi transactions
    NoTransaction, \* the transaction of a task that is not a webhook
    TenantOf,      \* [Transactions -> Tenants], from the sku
    CycleOf,       \* [Transactions -> Nat], months paid for: 1 or 12
    Tasks,         \* requests that may be in flight at once
    Requests,      \* the kinds of request, besides webhooks
    MailFails,     \* whether a mail of the overdue loop may fail
    MaxLosses,     \* bounds the requests and sweeps lost to a fault, a crash or a reminder
    MaxTime        \* bounds the clock

RequestKinds == {"cancel", "admin"}

ASSUME TransactionAssumption ==
    /\ NoTransaction \notin Transactions
    /\ TenantOf \in [Transactions -> Tenants]
    /\ CycleOf \in [Transactions -> Nat \ {0}]
ASSUME TenantAssumption == NoTenant \notin Tenants
ASSUME EnvironmentAssumption ==
    /\ Requests \subseteq RequestKinds
    /\ MailFails \in BOOLEAN
    /\ MaxLosses \in Nat /\ MaxTime \in Nat

VARIABLES
    now,        \* the month
    rows,       \* tenants that have a row in table Subscription
    active,     \* Subscription.active
    renewsAt,   \* Subscription.renewsAt: {} for null, else {the month}
    cancelAt,   \* Subscription.cancelAt, likewise
    payments,   \* rows of table Payment per wompiTransactionId
    invoices,   \* table SubscriptionInvoice
    issued,     \* per transaction, times its invoice was sent to DIAN
    acked,      \* transactions Wompi has been answered {received: true} for
    overdue,    \* subscriptions runDailyDunning has read and not yet suspended
    losses,     \* requests and sweeps lost so far
    task        \* the tasks' control state and locals

row == <<rows, active, renewsAt, cancelAt>>
ledger == <<payments, invoices, issued>>
vars == <<now, row, ledger, acked, overdue, losses, task>>

-----------------------------------------------------------------------------
\* State.

Times == 0 .. MaxTime
InvoiceNumbers == [month : Times, seq : Nat]
Invoices == [tx : Transactions, number : InvoiceNumbers, month : Times]

Labels == {"idle",
           "check", "upsert", "pay", "count", "invoice", "commit",  \* the transaction
           "issue", "reply",                                        \* after it
           "setCancelAt", "setActive"}                              \* cancel, admin

\* The labels at which a webhook's transaction has written its subscription.
Writing == {"pay", "count", "invoice", "commit"}

IdleTask == [pc |-> "idle", tx |-> NoTransaction, tenant |-> NoTenant, date |-> 0,
             active |-> FALSE, creates |-> FALSE, number |-> [month |-> 0, seq |-> 0],
             month |-> 0]

\* payment.findUnique by wompiTransactionId, and the unique index behind it.
Booked(x) == payments[x] > 0

\* The row of the tenant's subscription is locked by a transaction.
\* Mutant: no statement before the count takes the lock.
Locked_Late(n) == \E u \in Tasks : task[u].tenant = n /\ task[u].pc \in {"invoice", "commit"}
Locked(n) == \E u \in Tasks : task[u].tenant = n /\ task[u].pc \in Writing

\* Subscriptions start as trials, created for an approved demo request.
Init ==
    /\ now = 0
    /\ rows \in SUBSET Tenants
    /\ active = [n \in Tenants |-> n \in rows]
    /\ renewsAt = [n \in Tenants |-> {}]
    /\ cancelAt = [n \in Tenants |-> {}]
    /\ payments = [x \in Transactions |-> 0]
    /\ invoices = {}
    /\ issued = [x \in Transactions |-> 0]
    /\ acked = {}
    /\ overdue = {}
    /\ losses = 0
    /\ task = [t \in Tasks |-> IdleTask]

At(t, l) == task[t].pc = l
Become(t, s) == task' = [task EXCEPT ![t] = s]
Goto(t, l) == Become(t, [task[t] EXCEPT !.pc = l])
End(t) == Become(t, IdleTask)

-----------------------------------------------------------------------------
\* POST /subscriptions/wompi-webhook.

\* Wompi delivers an approved transaction at least once, in any order, and again
\* while it has not been answered.
Deliver(t, x) ==
    /\ At(t, "idle")
    /\ Become(t, [IdleTask EXCEPT !.pc = "check", !.tx = x, !.tenant = TenantOf[x]])
    /\ UNCHANGED <<now, row, ledger, acked, overdue, losses>>

\* Steps 1 and 2: a transaction already booked is skipped; the renewal date is
\* computed before the row is locked.
\* Mutant: after the check, an invoice found there is sent again.
Check_Resends(t) ==
    /\ At(t, "check")
    /\ IF Booked(task[t].tx)
       THEN Goto(t, "issue")
       ELSE Become(t, [task[t] EXCEPT !.pc = "upsert", !.date = now + CycleOf[task[t].tx]])
    /\ UNCHANGED <<now, row, ledger, acked, overdue, losses>>
Check(t) ==
    /\ At(t, "check")
    /\ IF Booked(task[t].tx)
       THEN Goto(t, "reply")
       ELSE Become(t, [task[t] EXCEPT !.pc = "upsert", !.date = now + CycleOf[task[t].tx]])
    /\ UNCHANGED <<now, row, ledger, acked, overdue, losses>>

\* Step 3, activateSubscription: waits for the row's lock.
Upsert(t) ==
    /\ At(t, "upsert")
    /\ ~Locked(task[t].tenant)
    /\ Goto(t, "pay")
    /\ UNCHANGED <<now, row, ledger, acked, overdue, losses>>

\* Step 4, createPayment.  A unique violation (P2002) rolls the transaction back
\* and is answered like a success.
\* Mutant: the index on wompiTransactionId is not unique.
Pay_NotUnique(t) ==
    /\ At(t, "pay")
    /\ Goto(t, "count")
    /\ UNCHANGED <<now, row, ledger, acked, overdue, losses>>
Pay(t) ==
    /\ At(t, "pay")
    /\ Goto(t, IF Booked(task[t].tx) THEN "reply" ELSE "count")
    /\ UNCHANGED <<now, row, ledger, acked, overdue, losses>>

\* Step 5, createSubscriptionInvoice: generateInvoiceNumber counts the tenant's
\* invoices of the month, on a connection of its own: committed ones only.
OfMonth(n, m) == {i \in invoices : TenantOf[i.tx] = n /\ i.month = m}
NextNumber(n) == [month |-> now, seq |-> Cardinality(OfMonth(n, now)) + 1]

Count(t) ==
    /\ At(t, "count")
    /\ Become(t, [task[t] EXCEPT !.pc = "invoice", !.number = NextNumber(task[t].tenant)])
    /\ UNCHANGED <<now, row, ledger, acked, overdue, losses>>

\* The number is unique over all tenants.  The insert waits for a transaction
\* that has inserted the same number; if the number is taken it fails with
\* P2002, which is taken for a concurrent delivery.  createdAt is the time of the
\* insert.
Taken(k) == \E i \in invoices : i.number = k

InsertInvoice(t) ==
    /\ At(t, "invoice")
    /\ \A u \in Tasks : At(u, "commit") => task[u].number # task[t].number
    /\ IF Taken(task[t].number)
       THEN Goto(t, "reply")
       ELSE Become(t, [task[t] EXCEPT !.pc = "commit", !.month = now])
    /\ UNCHANGED <<now, row, ledger, acked, overdue, losses>>

\* The commit makes the writes of steps 3 to 6 visible and frees the row.
Commit(t) ==
    LET x == task[t].tx
        n == task[t].tenant
    IN  /\ At(t, "commit")
        /\ rows' = rows \union {n}
        /\ active' = [active EXCEPT ![n] = TRUE]
        /\ renewsAt' = [renewsAt EXCEPT ![n] = {task[t].date}]
        /\ cancelAt' = [cancelAt EXCEPT ![n] = {}]
        /\ payments' = [payments EXCEPT ![x] = @ + 1]
        /\ invoices' = invoices \union 
                         {[tx |-> x, number |-> task[t].number, month |-> task[t].month]}
        /\ Goto(t, "issue")
        /\ UNCHANGED <<now, issued, acked, overdue, losses>>

\* After the commit: mails and the invoice to DIAN, whose errors are swallowed.
Issue(t) ==
    /\ At(t, "issue")
    /\ \/ issued' = [issued EXCEPT ![task[t].tx] = @ + 1]
       \/ UNCHANGED issued
    /\ Goto(t, "reply")
    /\ UNCHANGED <<now, row, payments, invoices, acked, overdue, losses>>

Reply(t) ==
    /\ At(t, "reply")
    /\ acked' = acked \union {task[t].tx}
    /\ End(t)
    /\ UNCHANGED <<now, row, ledger, overdue, losses>>

-----------------------------------------------------------------------------
\* POST /subscriptions/cancel: reads the row, then writes cancelAt.
Cancel(t, n) ==
    /\ "cancel" \in Requests
    /\ At(t, "idle")
    /\ n \in rows
    /\ \E d \in (IF renewsAt[n] = {} THEN {now} ELSE renewsAt[n]) :
          Become(t, [IdleTask EXCEPT !.pc = "setCancelAt", !.tenant = n, !.date = d])
    /\ UNCHANGED <<now, row, ledger, acked, overdue, losses>>

SetCancelAt(t) ==
    LET n == task[t].tenant
    IN  /\ At(t, "setCancelAt")
        /\ ~Locked(n)
        /\ cancelAt' = [cancelAt EXCEPT ![n] = {task[t].date}]
        /\ End(t)
        /\ UNCHANGED <<now, rows, active, renewsAt, ledger, acked, overdue, losses>>

\* The administrator's updateSubscription: reads the row, then writes `active'
\* with the value given or, if none is given, the value read; a row that was
\* not found is created, unless there is one by then.
AdminUpdate(t, n) ==
    /\ "admin" \in Requests
    /\ At(t, "idle")
    /\ \E a \in BOOLEAN :
          Become(t, [IdleTask EXCEPT !.pc = "setActive", !.tenant = n, !.active = a,
                                     !.creates = n \notin rows])
    /\ UNCHANGED <<now, row, ledger, acked, overdue, losses>>

SetActive(t) ==
    LET n == task[t].tenant
    IN  /\ At(t, "setActive")
        /\ ~Locked(n)
        /\ IF task[t].creates /\ n \in rows
           THEN UNCHANGED <<rows, active>>
           ELSE rows' = rows \union {n} /\ active' = [active EXCEPT ![n] = task[t].active]
        /\ End(t)
        /\ UNCHANGED <<now, renewsAt, cancelAt, ledger, acked, overdue, losses>>

-----------------------------------------------------------------------------
\* DunningScheduler.runDailyDunning.

Overdue(n) == active[n] /\ \E d \in renewsAt[n] : d < now

\* What the run bounds: a fault, a crash, a reminder that fails.
Lose == losses < MaxLosses /\ losses' = losses + 1

\* Who may be mailed before the overdue subscriptions are read: that a trial has
\* expired, which leaves an inactive row, or that a renewal is due soon.
ToRemind == {n \in rows : ~active[n] \/ \E d \in renewsAt[n] : d >= now}

\* Such a mail fails, which ends the sweep of the day before it suspends anybody.
RemindFails ==
    /\ overdue = {} /\ ToRemind # {}
    /\ Lose
    /\ UNCHANGED <<now, row, ledger, acked, overdue, task>>

\* All reminders are out: the cron's snapshot of the overdue subscriptions.
DunningFind ==
    /\ overdue = {}
    /\ overdue' = {n \in Tenants : Overdue(n)}
    /\ overdue' # {}
    /\ UNCHANGED <<now, row, ledger, acked, losses, task>>

\* One iteration: the update by id, the audit event and the mail, whose error
\* ends the loop.
\* Mutant: the mail is sent before the update.
Suspend_MailFirst(n) ==
    /\ n \in overdue
    /\ ~Locked(n)
    /\ \/ active' = [active EXCEPT ![n] = FALSE] /\ overdue' = overdue \ {n}
       \/ MailFails /\ UNCHANGED active /\ overdue' = {}
    /\ UNCHANGED <<now, rows, renewsAt, cancelAt, ledger, acked, losses, task>>
Suspend(n) ==
    /\ n \in overdue
    /\ ~Locked(n)
    /\ active' = [active EXCEPT ![n] = FALSE]
    /\ overdue' \in {overdue \ {n}} \union (IF MailFails THEN {{}} ELSE {})
    /\ UNCHANGED <<now, rows, renewsAt, cancelAt, ledger, acked, losses, task>>

Dunning == DunningFind \/ \E n \in Tenants : Suspend(n)

-----------------------------------------------------------------------------
\* Time passes; an error, a timeout or a restart ends a request, whose open
\* transaction is rolled back, or the sweep.
Tick ==
    /\ now < MaxTime
    /\ now' = now + 1
    /\ UNCHANGED <<row, ledger, acked, overdue, losses, task>>

LoseTask(t) ==
    /\ ~At(t, "idle")
    /\ Lose
    /\ End(t)
    /\ UNCHANGED <<now, row, ledger, acked, overdue>>

LoseSweep ==
    /\ overdue # {}
    /\ Lose
    /\ overdue' = {}
    /\ UNCHANGED <<now, row, ledger, acked, task>>

-----------------------------------------------------------------------------
Request(t) ==
    \/ \E x \in Transactions : Deliver(t, x)
    \/ \E n \in Tenants : Cancel(t, n) \/ AdminUpdate(t, n)

Work(t) ==
    \/ Check(t) \/ Upsert(t) \/ Pay(t) \/ Count(t) \/ InsertInvoice(t) \/ Commit(t)
    \/ Issue(t) \/ Reply(t)
    \/ SetCancelAt(t) \/ SetActive(t)

Next ==
    \/ \E t \in Tasks : Request(t) \/ Work(t) \/ LoseTask(t)
    \/ Dunning \/ RemindFails \/ LoseSweep
    \/ Tick

Spec == Init /\ [][Next]_vars

\* Requests end, Wompi delivers until it is answered (an idle task is a bound of
\* the model, hence SF), the cron fires every day and time passes.  A reminder
\* that fails every day would keep the sweep from its second half for ever: the
\* reminders fail on MaxLosses days at most, the mails of the loop always.
Fairness ==
    /\ \A t \in Tasks : WF_vars(Work(t))
    /\ \A x \in Transactions : SF_vars(x \notin acked /\ \E t \in Tasks : Deliver(t, x))
    /\ WF_vars(Dunning)
    /\ WF_vars(Tick)

FairSpec == Spec /\ Fairness

-----------------------------------------------------------------------------
\* Properties.

\* Type correctness of the tables and the tasks.
TypeOK ==
    /\ now \in Times
    /\ rows \subseteq Tenants
    /\ active \in [Tenants -> BOOLEAN]
    /\ renewsAt \in [Tenants -> SUBSET Nat] /\ cancelAt \in [Tenants -> SUBSET Nat]
    /\ payments \in [Transactions -> Nat] /\ issued \in [Transactions -> Nat]
    /\ \A i \in invoices : i.tx \in Transactions /\ i.number.month \in Times /\ i.month \in Times
    /\ acked \subseteq Transactions
    /\ overdue \subseteq Tenants
    /\ losses \in 0 .. MaxLosses
    /\ \A t \in Tasks :
          /\ task[t].pc \in Labels
          /\ task[t].tx \in Transactions \union {NoTransaction}
          /\ task[t].tenant \in Tenants \union {NoTenant}

\* A transaction is booked at most once, with one invoice, however often and
\* however concurrently Wompi delivers it and whatever deliveries are lost
\* between their commit and their answer.
BookedOnce ==
    \A x \in Transactions :
       /\ payments[x] <= 1
       /\ Cardinality({i \in invoices : i.tx = x}) = payments[x]

\* The invoice of a booked transaction is sent to DIAN at most once, although
\* the sending follows the commit and redeliveries race with it.
IssuedOnce == \A x \in Transactions : issued[x] <= payments[x]

\* Payments of one tenant never compete for a number: the upsert locks the
\* tenant's row before the invoices are counted on another connection, so the
\* count sees every payment before.
OwnNumberFree ==
    \A t \in Tasks : task[t].pc \in {"invoice", "commit"} =>
       \A i \in invoices : i.number = task[t].number => TenantOf[i.tx] # task[t].tenant

\* "Another webhook already created the payment" (subscriptions.controller.ts):
\* what is answered as received, unique violations included, is booked.
AckedIsBooked == \A x \in acked : Booked(x)

\* An approved payment is booked in the end, although deliveries are lost.
PaymentsArrive == \A x \in Transactions : <>Booked(x)

\* A subscription does not stay active past its renewal date, although each mail
\* that fails in the loop ends the sweep for all the others, provided that the
\* reminders before it do not fail for ever.
OverdueSuspended == \A n \in Tenants : Overdue(n) ~> ~Overdue(n)

-----------------------------------------------------------------------------
\* The inductive invariant behind BookedOnce, IssuedOnce and OwnNumberFree.

NumberTypes == [month : Nat, seq : Nat]

TaskStates ==
    [pc : Labels, tx : Transactions \union {NoTransaction}, tenant : Tenants \union {NoTenant},
     date : Nat, active : BOOLEAN, creates : BOOLEAN, number : NumberTypes,
     month : Nat]

\* The part of the types it needs.
BillingType ==
    /\ now \in Nat
    /\ renewsAt \in [Tenants -> SUBSET Nat]
    /\ payments \in [Transactions -> Nat] /\ issued \in [Transactions -> Nat]
    /\ invoices \subseteq [tx : Transactions, number : NumberTypes, month : Nat]
    /\ IsFiniteSet(invoices)
    /\ task \in [Tasks -> TaskStates]

\* Numbers are of the month of their invoice or an earlier one (the month may end
\* between the count and the insert); those of this month are counted.
Dated ==
    \A i \in invoices :
       /\ i.number.month <= i.month /\ i.month <= now
       /\ i.number.month = now => i.number.seq <= Cardinality(OfMonth(TenantOf[i.tx], now))

\* A number the tenant may use.
Usable(n, k) ==
    /\ k.month <= now
    /\ k.month = now => k = NextNumber(n)
    /\ \A i \in invoices : i.number = k => TenantOf[i.tx] # n

\* Task t may be in state s, given the tables and the other tasks.
Webhook == {"check", "upsert", "pay", "count", "invoice", "commit", "issue", "reply"}

Fits(t, s) ==
    /\ s.pc \in Webhook => s.tx \in Transactions /\ s.tenant = TenantOf[s.tx]
    /\ s.pc \in Writing =>
          \A u \in Tasks \ {t} : task[u].pc \in Writing => task[u].tenant # s.tenant
    /\ s.pc \in {"count", "invoice", "commit"} => ~Booked(s.tx)
    /\ s.pc \in {"invoice", "commit"} => Usable(s.tenant, s.number)
    /\ s.pc = "commit" => s.number.month <= s.month /\ s.month <= now
    /\ s.pc = "issue" =>
          /\ Booked(s.tx) /\ issued[s.tx] = 0
          /\ \A u \in Tasks \ {t} : At(u, "issue") => task[u].tx # s.tx

TasksFit == \A t \in Tasks : Fits(t, task[t])

BillingInv == BillingType /\ Dated /\ TasksFit /\ BookedOnce /\ IssuedOnce

\* Rows and deliveries keep their types and the inductive invariant, and with one
\* tenant what is answered as received is booked, unique violations included.
AnswersBooked == TypeOK /\ BillingInv /\ AckedIsBooked
=============================================================================
