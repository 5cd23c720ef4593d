-------------------------- MODULE SubscriptionProofs --------------------------
(***************************************************************************)
(* Proofs about Subscriptions, for every number of tenants, transactions   *)
(* and concurrent requests and however long the clock runs.                *)
(***************************************************************************)
EXTENDS Subscriptions, FiniteSetTheorems, TLAPS

\* What the invariant says of the tables besides the tasks.
tables == <<now, renewsAt, payments, invoices, issued>>

-----------------------------------------------------------------------------
\* Tasks.

LEMMA IdleTyped == IdleTask \in TaskStates
  BY DEF IdleTask, TaskStates, Labels, NumberTypes

\* A task that becomes a state leaves the others alone.
LEMMA Becomes ==
  ASSUME task \in [Tasks -> TaskStates], NEW t \in Tasks, NEW s \in TaskStates, Become(t, s)
  PROVE  /\ task' \in [Tasks -> TaskStates]
         /\ task'[t] = s
         /\ \A u \in Tasks \ {t} : task'[u] = task[u]
  BY DEF Become

\* If the tables stay, a task may take any state that fits.
LEMMA Quiet ==
  ASSUME BillingInv, NEW t \in Tasks, NEW s \in TaskStates, Fits(t, s), Become(t, s),
         UNCHANGED tables
  PROVE  BillingInv'
<1> USE DEF tables
<1>1. /\ task' \in [Tasks -> TaskStates]
      /\ task'[t] = s
      /\ \A u \in Tasks \ {t} : task'[u] = task[u]
  BY Becomes DEF BillingInv, BillingType
<1>2. /\ BillingType' /\ BookedOnce' /\ IssuedOnce'
  BY <1>1 DEF BillingInv, BillingType, BookedOnce, IssuedOnce
<1>3. Dated'
  BY DEF BillingInv, Dated, OfMonth
<1>4. ASSUME NEW n, NEW k, Usable(n, k) PROVE Usable(n, k)'
  BY <1>4 DEF Usable, NextNumber, OfMonth
<1>5. \A u \in Tasks : Fits(u, task[u])
  BY DEF BillingInv, TasksFit
<1>6. ASSUME NEW u \in Tasks PROVE Fits(u, task[u])'
  <2>1. CASE u = t
    <3>1. task'[u] = s
      BY <1>1, <2>1
    <3>2. \A v \in Tasks \ {u} : task'[v] = task[v]
      BY <1>1, <2>1
    <3>3. Fits(u, s)
      BY <2>1
    <3> QED
      BY <3>1, <3>2, <3>3, <1>4 DEF Fits, Booked, At
  <2>2. CASE u # t
    <3>1. task'[u] = task[u]
      BY <1>1, <2>2
    <3>2. \A v \in Tasks \ {u} : v = t \/ task'[v] = task[v]
      BY <1>1
    <3>3. Fits(u, task[u]) /\ Fits(t, s) /\ task'[t] = s /\ u \in Tasks \ {t} /\ t \in Tasks \ {u}
      BY <1>1, <1>5, <2>2
    <3>4. task[u].pc \in Writing =>
            \A v \in Tasks \ {u} : task'[v].pc \in Writing => task'[v].tenant # task[u].tenant
      BY <3>2, <3>3 DEF Fits
    <3>5. task[u].pc = "issue" =>
            \A v \in Tasks \ {u} : task'[v].pc = "issue" => task'[v].tx # task[u].tx
      BY <3>2, <3>3 DEF Fits, At
    <3> QED
      BY <3>1, <3>3, <3>4, <3>5, <1>4 DEF Fits, Booked, At
  <2> QED
    BY <2>1, <2>2
<1> QED
  BY <1>2, <1>3, <1>6 DEF BillingInv, TasksFit

\* So do steps that leave the tasks alone, too.
LEMMA Silent ==
  ASSUME BillingInv, UNCHANGED <<tables, task>>
  PROVE  BillingInv'
<1> USE DEF tables
<1>1. BillingType' /\ BookedOnce' /\ IssuedOnce'
  BY DEF BillingInv, BillingType, BookedOnce, IssuedOnce
<1>2. Dated'
  BY DEF BillingInv, Dated, OfMonth
<1>3. TasksFit'
  BY DEF BillingInv, TasksFit, Fits, Usable, NextNumber, OfMonth, Booked, At
<1> QED
  BY <1>1, <1>2, <1>3 DEF BillingInv

\* A request ends, whatever it had done.
LEMMA Ends ==
  ASSUME BillingInv, NEW t \in Tasks, End(t), UNCHANGED tables
  PROVE  BillingInv'
<1>1. Fits(t, IdleTask)
  BY DEF Fits, IdleTask, Webhook, Writing
<1> QED
  BY <1>1, IdleTyped, Quiet DEF End

\* The requests that are not webhooks write no tables of the ledger.
LEMMA OtherRequests ==
  ASSUME BillingInv, NEW t \in Tasks, NEW n \in Tenants,
         Cancel(t, n) \/ AdminUpdate(t, n)
  PROVE  BillingInv'
<1>1. UNCHANGED tables
  BY DEF Cancel, AdminUpdate, tables, row, ledger
<1>2. CASE Cancel(t, n)
  <2>1. PICK d \in (IF renewsAt[n] = {} THEN {now} ELSE renewsAt[n]) :
           Become(t, [IdleTask EXCEPT !.pc = "setCancelAt", !.tenant = n, !.date = d])
    BY <1>2 DEF Cancel
  <2> DEFINE s == [IdleTask EXCEPT !.pc = "setCancelAt", !.tenant = n, !.date = d]
  <2>2. d \in Nat
    BY DEF BillingInv, BillingType
  <2>3. s \in TaskStates
    BY <2>2, IdleTyped DEF TaskStates, Labels
  <2>4. s.pc = "setCancelAt"
    BY IdleTyped DEF TaskStates
  <2>5. Become(t, s)
    BY <2>1
  <2> HIDE DEF s
  <2>6. Fits(t, s)
    BY <2>4 DEF Fits, Webhook, Writing
  <2> QED
    BY <2>3, <2>5, <2>6, <1>1, Quiet
<1>3. CASE AdminUpdate(t, n)
  <2>1. PICK a \in BOOLEAN :
           Become(t, [IdleTask EXCEPT !.pc = "setActive", !.tenant = n, !.active = a,
                                      !.creates = n \notin rows])
    BY <1>3 DEF AdminUpdate
  <2> DEFINE s == [IdleTask EXCEPT !.pc = "setActive", !.tenant = n, !.active = a,
                                   !.creates = n \notin rows]
  <2>2. (n \notin rows) \in BOOLEAN
    OBVIOUS
  <2>3. s \in TaskStates
    BY <2>2, IdleTyped DEF TaskStates, Labels
  <2>4. s.pc = "setActive"
    BY IdleTyped DEF TaskStates
  <2>5. Become(t, s)
    BY <2>1
  <2> HIDE DEF s
  <2>6. Fits(t, s)
    BY <2>4 DEF Fits, Webhook, Writing
  <2> QED
    BY <2>3, <2>5, <2>6, <1>1, Quiet
<1> QED
  BY <1>2, <1>3

-----------------------------------------------------------------------------
\* The steps of a webhook.

LEMMA DeliverStep ==
  ASSUME BillingInv, NEW t \in Tasks, NEW x \in Transactions, Deliver(t, x)
  PROVE  BillingInv'
<1> DEFINE s == [IdleTask EXCEPT !.pc = "check", !.tx = x, !.tenant = TenantOf[x]]
<1>1. TenantOf[x] \in Tenants
  BY TransactionAssumption
<1>2. s \in TaskStates
  BY <1>1, IdleTyped DEF TaskStates, Labels
<1>3. s.pc = "check" /\ s.tx = x /\ s.tenant = TenantOf[x]
  BY IdleTyped DEF TaskStates
<1>4. Become(t, s) /\ UNCHANGED tables
  BY DEF Deliver, tables, row, ledger
<1> HIDE DEF s
<1>5. Fits(t, s)
  BY <1>3 DEF Fits, Webhook, Writing
<1> QED
  BY <1>2, <1>4, <1>5, Quiet

\* A step that only moves the task to a label it fits.
LEMMA GotoStep ==
  ASSUME BillingInv, NEW t \in Tasks, NEW l \in Labels,
         \A s \in TaskStates : /\ s.pc = l /\ s.tx = task[t].tx
                               /\ s.tenant = task[t].tenant /\ s.number = task[t].number
                               => Fits(t, s),
         Goto(t, l), UNCHANGED tables
  PROVE  BillingInv'
<1> DEFINE s == [task[t] EXCEPT !.pc = l]
<1>1. task[t] \in TaskStates
  BY DEF BillingInv, BillingType
<1>2. s \in TaskStates
  BY <1>1 DEF TaskStates
<1>3. s.pc = l /\ s.tx = task[t].tx /\ s.tenant = task[t].tenant /\ s.number = task[t].number
  BY <1>1 DEF TaskStates
<1>4. Become(t, s)
  BY DEF Goto
<1> HIDE DEF s
<1> QED
  BY <1>2, <1>3, <1>4, Quiet

LEMMA CheckStep ==
  ASSUME BillingInv, NEW t \in Tasks, Check(t)
  PROVE  BillingInv'
<1>1. UNCHANGED tables /\ task[t].pc = "check" /\ Fits(t, task[t]) /\ task[t] \in TaskStates
  BY DEF Check, At, tables, row, ledger, BillingInv, BillingType, TasksFit
<1>2. task[t].tx \in Transactions /\ task[t].tenant = TenantOf[task[t].tx]
  BY <1>1 DEF Fits, Webhook
<1>3. CASE Booked(task[t].tx)
  <2>1. \A s \in TaskStates : s.pc = "reply" /\ s.tx = task[t].tx /\ s.tenant = task[t].tenant
                              => Fits(t, s)
    BY <1>2 DEF Fits, Webhook, Writing
  <2> QED
    BY <2>1, <1>1, <1>3, GotoStep DEF Check, Labels
<1>4. CASE ~Booked(task[t].tx)
  <2> DEFINE s == [task[t] EXCEPT !.pc = "upsert", !.date = now + CycleOf[task[t].tx]]
  <2>1. now + CycleOf[task[t].tx] \in Nat
    <3>1. CycleOf[task[t].tx] \in Nat /\ now \in Nat
      BY <1>2, TransactionAssumption DEF BillingInv, BillingType
    <3> QED
      BY <3>1
  <2>2. s \in TaskStates
    BY <1>1, <2>1 DEF TaskStates, Labels
  <2>3. s.pc = "upsert" /\ s.tx = task[t].tx /\ s.tenant = task[t].tenant
    BY <1>1 DEF TaskStates
  <2>4. Become(t, s)
    BY <1>4 DEF Check
  <2> HIDE DEF s
  <2>5. Fits(t, s)
    BY <1>2, <2>3 DEF Fits, Webhook, Writing
  <2> QED
    BY <2>2, <2>4, <2>5, <1>1, Quiet
<1> QED
  BY <1>3, <1>4

\* The lock: no other transaction of the tenant has written its row.
LEMMA UpsertStep ==
  ASSUME BillingInv, NEW t \in Tasks, Upsert(t)
  PROVE  BillingInv'
<1>1. UNCHANGED tables /\ task[t].pc = "upsert" /\ Fits(t, task[t])
  BY DEF Upsert, At, tables, row, ledger, BillingInv, TasksFit
<1>2. \A u \in Tasks : task[u].pc \in Writing => task[u].tenant # task[t].tenant
  BY DEF Upsert, Locked
<1>3. \A s \in TaskStates : s.pc = "pay" /\ s.tx = task[t].tx /\ s.tenant = task[t].tenant
                            => Fits(t, s)
  BY <1>1, <1>2 DEF Fits, Webhook, Writing
<1> QED
  BY <1>1, <1>3, GotoStep DEF Upsert, Labels

LEMMA PayStep ==
  ASSUME BillingInv, NEW t \in Tasks, Pay(t)
  PROVE  BillingInv'
<1>1. UNCHANGED tables /\ task[t].pc = "pay" /\ Fits(t, task[t])
  BY DEF Pay, At, tables, row, ledger, BillingInv, TasksFit
<1>2. CASE Booked(task[t].tx)
  <2>1. \A s \in TaskStates : s.pc = "reply" /\ s.tx = task[t].tx /\ s.tenant = task[t].tenant
                              => Fits(t, s)
    BY <1>1 DEF Fits, Webhook, Writing
  <2> QED
    BY <2>1, <1>1, <1>2, GotoStep DEF Pay, Labels
<1>3. CASE ~Booked(task[t].tx)
  <2>1. \A s \in TaskStates : s.pc = "count" /\ s.tx = task[t].tx /\ s.tenant = task[t].tenant
                              => Fits(t, s)
    BY <1>1, <1>3 DEF Fits, Webhook, Writing
  <2> QED
    BY <2>1, <1>1, <1>3, GotoStep DEF Pay, Labels
<1> QED
  BY <1>2, <1>3

\* The next number of a tenant is free among its own invoices.
LEMMA NextIsUsable ==
  ASSUME BillingInv, NEW n \in Tenants
  PROVE  NextNumber(n) \in NumberTypes /\ Usable(n, NextNumber(n))
<1>1. IsFiniteSet(OfMonth(n, now))
  <2>1. OfMonth(n, now) \in SUBSET invoices
    BY DEF OfMonth
  <2> QED
    BY <2>1, FS_Subset DEF BillingInv, BillingType
<1> DEFINE c == Cardinality(OfMonth(n, now))
<1>2. c \in Nat /\ now \in Nat
  BY <1>1, FS_CardinalityType DEF BillingInv, BillingType
<1>3. NextNumber(n).month = now /\ NextNumber(n).seq = c + 1
  BY DEF NextNumber
<1>4. ASSUME NEW i \in invoices, i.number = NextNumber(n), TenantOf[i.tx] = n PROVE FALSE
  <2>1. i.number.month = now /\ i.number.seq = c + 1
    BY <1>3, <1>4
  <2>2. i.number.seq <= c
    BY <1>4, <2>1 DEF BillingInv, Dated
  <2> HIDE DEF c
  <2> QED
    BY <1>2, <2>1, <2>2
<1>5. NextNumber(n) \in NumberTypes
  <2> HIDE DEF c
  <2>1. c + 1 \in Nat
    BY <1>2
  <2> QED
    BY <1>2, <2>1 DEF NextNumber, NumberTypes, c
<1>6. NextNumber(n).month <= now
  <2> HIDE DEF c
  <2> QED
    BY <1>2, <1>3
<1> QED
  BY <1>4, <1>5, <1>6 DEF Usable

LEMMA CountStep ==
  ASSUME BillingInv, NEW t \in Tasks, Count(t)
  PROVE  BillingInv'
<1>1. UNCHANGED tables /\ task[t].pc = "count" /\ Fits(t, task[t]) /\ task[t] \in TaskStates
  BY DEF Count, At, tables, row, ledger, BillingInv, BillingType, TasksFit
<1> DEFINE n == task[t].tenant
           k == NextNumber(n)
           s == [task[t] EXCEPT !.pc = "invoice", !.number = k]
<1>2. n \in Tenants
  BY <1>1, TransactionAssumption DEF Fits, Webhook
<1>3. k \in NumberTypes /\ Usable(n, k)
  BY <1>2, NextIsUsable
<1>4. Become(t, s)
  BY DEF Count
<1> HIDE DEF k
<1>5. s \in TaskStates
  BY <1>1, <1>3 DEF TaskStates, Labels
<1>6. s.pc = "invoice" /\ s.tx = task[t].tx /\ s.tenant = n /\ s.number = k
  BY <1>1 DEF TaskStates
<1> HIDE DEF s, n
<1>7. Fits(t, s)
  BY <1>1, <1>3, <1>6 DEF Fits, Webhook, Writing, n
<1> QED
  BY <1>1, <1>4, <1>5, <1>7, Quiet

LEMMA InsertInvoiceStep ==
  ASSUME BillingInv, NEW t \in Tasks, InsertInvoice(t)
  PROVE  BillingInv'
<1>1. UNCHANGED tables /\ task[t].pc = "invoice" /\ Fits(t, task[t]) /\ task[t] \in TaskStates
  BY DEF InsertInvoice, At, tables, row, ledger, BillingInv, BillingType, TasksFit
<1>2. CASE Taken(task[t].number)
  <2>1. \A s \in TaskStates : s.pc = "reply" /\ s.tx = task[t].tx /\ s.tenant = task[t].tenant
                              => Fits(t, s)
    BY <1>1 DEF Fits, Webhook, Writing
  <2> QED
    BY <2>1, <1>1, <1>2, GotoStep DEF InsertInvoice, Labels
<1>3. CASE ~Taken(task[t].number)
  <2> DEFINE s == [task[t] EXCEPT !.pc = "commit", !.month = now]
  <2>1. now \in Nat
    BY DEF BillingInv, BillingType
  <2>2. s \in TaskStates
    BY <1>1, <2>1 DEF TaskStates, Labels
  <2>3. /\ s.pc = "commit" /\ s.tx = task[t].tx /\ s.tenant = task[t].tenant
        /\ s.number = task[t].number /\ s.month = now
    BY <1>1 DEF TaskStates
  <2>4. Become(t, s)
    BY <1>3 DEF InsertInvoice
  <2> HIDE DEF s
  <2>5. s.number.month <= s.month /\ s.month <= now
    BY <1>1, <2>1, <2>3 DEF Fits, Usable
  <2>6. Fits(t, s)
    BY <1>1, <2>3, <2>5 DEF Fits, Webhook, Writing
  <2> QED
    BY <2>2, <2>4, <2>6, <1>1, Quiet
<1> QED
  BY <1>2, <1>3

LEMMA ReplyStep ==
  ASSUME BillingInv, NEW t \in Tasks, Reply(t)
  PROVE  BillingInv'
BY Ends DEF Reply, tables, row, ledger

\* The invoice of the task at "issue" has not been sent and no other task is
\* about to send it.
LEMMA IssueStep ==
  ASSUME BillingInv, NEW t \in Tasks, Issue(t)
  PROVE  BillingInv'
<1> DEFINE x == task[t].tx
           s == [task[t] EXCEPT !.pc = "reply"]
<1>1. /\ UNCHANGED <<now, renewsAt, payments, invoices>>
      /\ task[t].pc = "issue" /\ Fits(t, task[t]) /\ task[t] \in TaskStates
  BY DEF Issue, At, row, BillingInv, BillingType, TasksFit
<1>2. s \in TaskStates /\ s.pc = "reply" /\ s.tx = x /\ s.tenant = task[t].tenant
  BY <1>1 DEF TaskStates, Labels
<1>3. Become(t, s)
  BY DEF Issue, Goto
<1> HIDE DEF s
<1>4. /\ task' \in [Tasks -> TaskStates] /\ task'[t] = s
      /\ \A u \in Tasks \ {t} : task'[u] = task[u]
  BY <1>2, <1>3, Becomes DEF BillingInv, BillingType
<1>5. x \in Transactions /\ Booked(x) /\ issued[x] = 0
  BY <1>1 DEF Fits, Webhook
<1>6. /\ issued' \in [Transactions -> Nat]
      /\ issued'[x] \in {0, 1}
      /\ \A y \in Transactions \ {x} : issued'[y] = issued[y]
  BY <1>5 DEF Issue, BillingInv, BillingType
<1>7. BillingType' /\ BookedOnce'
  BY <1>1, <1>4, <1>6 DEF BillingInv, BillingType, BookedOnce
<1>8. IssuedOnce'
  <2>1. payments' = payments /\ payments[x] \in Nat /\ payments[x] > 0
    BY <1>1, <1>5 DEF BillingInv, BillingType, Booked
  <2> QED
    BY <2>1, <1>6 DEF BillingInv, IssuedOnce
<1>9. Dated'
  BY <1>1 DEF BillingInv, Dated, OfMonth
<1>10. ASSUME NEW u \in Tasks PROVE Fits(u, task[u])'
  <2>1. Fits(u, task[u]) /\ UNCHANGED <<now, payments, invoices>>
    BY <1>1 DEF BillingInv, TasksFit
  <2>2. CASE u = t
    BY <1>1, <1>2, <1>4, <2>2 DEF Fits, Webhook, Writing
  <2>3. CASE u # t
    <3>1. task'[u] = task[u]
      BY <1>4, <2>3
    <3>2. ASSUME NEW n, NEW k, Usable(n, k) PROVE Usable(n, k)'
      BY <1>1, <3>2 DEF Usable, NextNumber, OfMonth
    <3>3. task[u].pc \in Writing =>
            \A v \in Tasks \ {u} : task'[v].pc \in Writing => task'[v].tenant # task[u].tenant
      BY <1>2, <1>4, <2>1 DEF Fits, Writing
    <3>4. task[u].pc = "issue" =>
            /\ task[u].tx \in Transactions \ {x}
            /\ \A v \in Tasks \ {u} : task'[v].pc = "issue" => task'[v].tx # task[u].tx
      BY <1>1, <1>2, <1>4, <2>1, <2>3 DEF Fits, At, Webhook
    <3> HIDE DEF x
    <3> QED
      BY <1>6, <2>1, <3>1, <3>2, <3>3, <3>4 DEF Fits, Booked, At
  <2> QED
    BY <2>2, <2>3
<1> QED
  BY <1>7, <1>8, <1>9, <1>10 DEF BillingInv, TasksFit

\* A new month has no invoices and no numbers yet.
LEMMA TickStep ==
  ASSUME BillingInv, Tick
  PROVE  BillingInv'
<1>1. /\ UNCHANGED <<renewsAt, payments, invoices, issued, task>>
      /\ now \in Nat /\ now' = now + 1
  BY DEF Tick, row, ledger, BillingInv, BillingType
<1>2. BillingType' /\ BookedOnce' /\ IssuedOnce'
  <2>1. now' \in Nat
    BY <1>1
  <2> QED
    BY <1>1, <2>1 DEF BillingInv, BillingType, BookedOnce, IssuedOnce
<1>3. Dated'
  <2>1. ASSUME NEW i \in invoices
        PROVE  i.number.month <= i.month /\ i.month <= now' /\ i.number.month # now'
    <3>1. i.number.month \in Nat /\ i.month \in Nat
      BY DEF BillingInv, BillingType, NumberTypes
    <3>2. i.number.month <= i.month /\ i.month <= now
      BY DEF BillingInv, Dated
    <3> QED
      BY <1>1, <3>1, <3>2
  <2> QED
    BY <1>1, <2>1 DEF Dated
<1>4. ASSUME NEW t \in Tasks PROVE Fits(t, task[t])'
  <2>1. Fits(t, task[t]) /\ task[t].number.month \in Nat /\ task[t].month \in Nat
    BY DEF BillingInv, BillingType, TasksFit, TaskStates, NumberTypes
  <2>2. task[t].number.month <= now => task[t].number.month <= now' /\ task[t].number.month # now'
    BY <1>1, <2>1
  <2>3. Usable(task[t].tenant, task[t].number) => Usable(task[t].tenant, task[t].number)'
    BY <1>1, <2>2 DEF Usable, NextNumber, OfMonth
  <2>4. task[t].month <= now => task[t].month <= now'
    BY <1>1, <2>1
  <2> QED
    BY <1>1, <2>1, <2>3, <2>4 DEF Fits, Booked, At
<1> QED
  BY <1>2, <1>3, <1>4 DEF BillingInv, TasksFit

\* The commit: the transaction was not booked, its number is free among the
\* tenant's invoices, and no other task writes for the tenant.
LEMMA CommitStep ==
  ASSUME BillingInv, NEW t \in Tasks, Commit(t)
  PROVE  BillingInv'
<1>1. task[t].pc = "commit" /\ Fits(t, task[t]) /\ task[t] \in TaskStates
  BY DEF Commit, At, BillingInv, BillingType, TasksFit
<1>2. PICK x, n, k, i, s :
        /\ x = task[t].tx /\ n = task[t].tenant /\ k = task[t].number
        /\ i = [tx |-> x, number |-> k, month |-> task[t].month]
        /\ s = [task[t] EXCEPT !.pc = "issue"]
  OBVIOUS
<1>3. /\ x \in Transactions /\ n = TenantOf[x] /\ n \in Tenants /\ ~Booked(x)
      /\ k \in NumberTypes /\ Usable(n, k)
      /\ \A u \in Tasks \ {t} : task[u].pc \in Writing => task[u].tenant # n
  BY <1>1, <1>2, TransactionAssumption DEF Fits, Webhook, Writing, TaskStates
<1>4. s \in TaskStates /\ s.pc = "issue" /\ s.tx = x /\ s.tenant = n
  BY <1>1, <1>2 DEF TaskStates, Labels
<1>5. /\ now' = now /\ issued' = issued
      /\ renewsAt' = [renewsAt EXCEPT ![n] = {task[t].date}]
      /\ payments' = [payments EXCEPT ![x] = @ + 1]
      /\ invoices' = invoices \union {i}
  BY <1>2 DEF Commit
<1>6. i.tx = x /\ i.number = k /\ i.month \in Nat /\ k.month <= i.month /\ i.month <= now
  BY <1>1, <1>2 DEF Fits, TaskStates
<1>7. i \in [tx : Transactions, number : NumberTypes, month : Nat]
  BY <1>1, <1>2, <1>3 DEF TaskStates
<1>8. task[t].date \in Nat
  BY <1>1 DEF TaskStates
<1>9. /\ task' \in [Tasks -> TaskStates] /\ task'[t] = s
      /\ \A u \in Tasks \ {t} : task'[u] = task[u]
  BY <1>2, <1>4, Becomes DEF Commit, Goto, BillingInv, BillingType
<1>10. payments[x] = 0 /\ issued[x] = 0 /\ \A j \in invoices : j.tx # x
  <2>1. payments[x] = 0
    BY <1>3 DEF Booked, BillingInv, BillingType
  <2>2. issued[x] \in Nat /\ issued[x] <= payments[x]
    BY <1>3 DEF BillingInv, BillingType, IssuedOnce
  <2>3. {j \in invoices : j.tx = x} \in SUBSET invoices
    OBVIOUS
  <2>4. IsFiniteSet({j \in invoices : j.tx = x})
    BY <2>3, FS_Subset DEF BillingInv, BillingType
  <2>5. Cardinality({j \in invoices : j.tx = x}) = 0
    BY <1>3, <2>1 DEF BillingInv, BookedOnce
  <2>6. {j \in invoices : j.tx = x} = {}
    BY <2>4, <2>5, FS_EmptySet
  <2> QED
    BY <2>1, <2>2, <2>6
<1>11. /\ payments' \in [Transactions -> Nat]
       /\ payments'[x] = 1
       /\ \A y \in Transactions \ {x} : payments'[y] = payments[y]
  BY <1>3, <1>5, <1>10 DEF BillingInv, BillingType
<1>12. BillingType'
  <2>1. IsFiniteSet(invoices')
    BY <1>5, FS_AddElement DEF BillingInv, BillingType
  <2>2. renewsAt' \in [Tenants -> SUBSET Nat]
    BY <1>3, <1>5, <1>8 DEF BillingInv, BillingType
  <2> QED
    BY <1>5, <1>7, <1>9, <1>11, <2>1, <2>2 DEF BillingInv, BillingType
<1>13. BookedOnce'
  <2>1. ASSUME NEW y \in Transactions
        PROVE  payments'[y] <= 1 /\ Cardinality({j \in invoices' : j.tx = y}) = payments'[y]
    <3>1. CASE y = x
      <4>1. {j \in invoices' : j.tx = y} = {} \cup {i}
        BY <1>5, <1>6, <1>10, <3>1
      <4>2. PICK none : none = {} /\ IsFiniteSet(none) /\ Cardinality(none) = 0
        BY FS_EmptySet
      <4>3. Cardinality(none \cup {i}) = 1
        BY <4>2, FS_AddElement
      <4> QED
        BY <1>11, <3>1, <4>1, <4>2, <4>3
    <3>2. CASE y # x
      <4>1. {j \in invoices' : j.tx = y} = {j \in invoices : j.tx = y}
        BY <1>5, <1>6, <3>2
      <4> QED
        BY <1>11, <3>2, <4>1 DEF BillingInv, BookedOnce
    <3> QED
      BY <3>1, <3>2
  <2> QED
    BY <2>1 DEF BookedOnce
<1>14. IssuedOnce'
  BY <1>5, <1>10, <1>11 DEF BillingInv, IssuedOnce
<1>15. ASSUME NEW m \in Tenants
       PROVE  OfMonth(m, now)' =
                IF m = n /\ i.month = now THEN OfMonth(m, now) \cup {i} ELSE OfMonth(m, now)
  BY <1>3, <1>5, <1>6 DEF OfMonth
<1>16. ASSUME NEW m \in Tenants
       PROVE  IsFiniteSet(OfMonth(m, now)) /\ Cardinality(OfMonth(m, now)) \in Nat
  <2>1. OfMonth(m, now) \in SUBSET invoices
    BY DEF OfMonth
  <2> QED
    BY <2>1, FS_Subset, FS_CardinalityType DEF BillingInv, BillingType
<1>17. ASSUME i.month = now
       PROVE  Cardinality(OfMonth(n, now)') = Cardinality(OfMonth(n, now)) + 1
  <2>1. i \notin OfMonth(n, now)
    BY <1>6, <1>10 DEF OfMonth
  <2>2. Cardinality(OfMonth(n, now) \cup {i}) = Cardinality(OfMonth(n, now)) + 1
    BY <1>3, <1>16, <2>1, FS_AddElement
  <2>3. OfMonth(n, now)' = OfMonth(n, now) \cup {i}
    BY <1>3, <1>15, <1>17
  <2> QED
    BY <2>2, <2>3
<1>18. Dated'
  <2>1. ASSUME NEW j \in invoices'
        PROVE  /\ j.number.month <= j.month /\ j.month <= now
               /\ j.number.month = now =>
                    j.number.seq <= Cardinality(OfMonth(TenantOf[j.tx], now)')
    <3>1. CASE j \in invoices
      <4> DEFINE m == TenantOf[j.tx]
      <4>1. m \in Tenants /\ j.number.seq \in Nat
        BY <3>1, TransactionAssumption DEF BillingInv, BillingType, NumberTypes
      <4>2. /\ j.number.month <= j.month /\ j.month <= now
            /\ j.number.month = now => j.number.seq <= Cardinality(OfMonth(m, now))
        BY <3>1 DEF BillingInv, Dated
      <4> HIDE DEF m
      <4>3. Cardinality(OfMonth(m, now)) \in Nat
        BY <1>16, <4>1
      <4>4. \/ Cardinality(OfMonth(m, now)') = Cardinality(OfMonth(m, now))
            \/ Cardinality(OfMonth(m, now)') = Cardinality(OfMonth(m, now)) + 1
        BY <1>15, <1>17, <4>1
      <4>5. j.number.month = now => j.number.seq <= Cardinality(OfMonth(m, now)')
        BY <4>1, <4>2, <4>3, <4>4
      <4> QED
        BY <4>2, <4>5 DEF m
    <3>2. CASE j = i
      <4>1. now \in Nat /\ k.month \in Nat
        BY <1>3 DEF BillingInv, BillingType, NumberTypes
      <4>2. k.month = now => i.month = now
        BY <1>6, <4>1
      <4>3. k.month = now => k.seq = Cardinality(OfMonth(n, now)) + 1
        BY <1>3 DEF Usable, NextNumber
      <4>4. Cardinality(OfMonth(n, now)) \in Nat
        BY <1>3, <1>16
      <4>5. k.month = now => k.seq <= Cardinality(OfMonth(n, now)')
        BY <1>17, <4>2, <4>3, <4>4
      <4> QED
        BY <1>3, <1>6, <3>2, <4>5
    <3> QED
      BY <1>5, <3>1, <3>2
  <2> QED
    BY <1>5, <2>1 DEF Dated, OfMonth
<1>19. ASSUME NEW m \in Tenants \ {n}, NEW q, Usable(m, q) PROVE Usable(m, q)'
  <2>1. NextNumber(m)' = NextNumber(m)
    BY <1>5, <1>15 DEF NextNumber, OfMonth
  <2>2. \A j \in invoices' : j.number = q => TenantOf[j.tx] # m
    BY <1>3, <1>5, <1>6, <1>19 DEF Usable
  <2> QED
    BY <1>5, <1>19, <2>1, <2>2 DEF Usable
<1>20. ASSUME NEW u \in Tasks PROVE Fits(u, task[u])'
  <2>1. Fits(u, task[u]) /\ \A v \in Tasks : task'[v].pc \in Writing => task'[v] = task[v]
    BY <1>4, <1>9 DEF BillingInv, TasksFit, Writing
  <2>2. CASE u = t
    <3>1. \A v \in Tasks \ {t} : At(v, "issue") => task[v].tx # x
      BY <1>3 DEF BillingInv, TasksFit, Fits, At
    <3>2. Booked(x)'
      BY <1>11 DEF Booked
    <3> QED
      BY <1>3, <1>4, <1>5, <1>9, <1>10, <2>2, <3>1, <3>2 DEF Fits, At, Webhook, Writing
  <2>3. CASE u # t
    <3>1. task'[u] = task[u]
      BY <1>9, <2>3
    <3>2. task[u].pc \in Writing =>
            /\ task[u].tx \in Transactions \ {x} /\ task[u].tenant \in Tenants \ {n}
            /\ \A v \in Tasks \ {u} : task'[v].pc \in Writing => task'[v].tenant # task[u].tenant
      BY <1>3, <2>1, <2>3, TransactionAssumption DEF Fits, Webhook, Writing
    <3>3. task[u].pc \in {"invoice", "commit"} => Usable(task[u].tenant, task[u].number)'
      BY <1>19, <2>1, <3>1, <3>2 DEF Fits, Writing
    <3>4. task[u].pc \in {"count", "invoice", "commit"} => ~Booked(task[u].tx)'
      BY <1>11, <2>1, <3>1, <3>2 DEF Fits, Writing, Booked
    <3>5. task[u].pc = "issue" =>
            /\ task[u].tx \in Transactions \ {x} /\ Booked(task[u].tx)
            /\ issued[task[u].tx] = 0
            /\ \A v \in Tasks \ {u} : task'[v].pc = "issue" => task'[v].tx # task[u].tx
      BY <1>3, <1>4, <1>9, <2>1 DEF Fits, Webhook, At
    <3>6. task[u].pc = "issue" => Booked(task[u].tx)'
      BY <1>11, <3>1, <3>5 DEF Booked
    <3> QED
      BY <1>5, <2>1, <3>1, <3>2, <3>3, <3>4, <3>5, <3>6 DEF Fits, At
  <2> QED
    BY <2>2, <2>3
<1> QED
  BY <1>12, <1>13, <1>14, <1>18, <1>20 DEF BillingInv, TasksFit

-----------------------------------------------------------------------------
\* The invariant.

LEMMA InitBilling ==
  ASSUME Init
  PROVE  BillingInv
<1>1. invoices = {} /\ IsFiniteSet({}) /\ Cardinality({}) = 0
  BY FS_EmptySet DEF Init
<1>2. \A x \in Transactions : payments[x] = 0 /\ issued[x] = 0
  BY DEF Init
<1>3. BillingType
  BY <1>1, IdleTyped DEF Init, BillingType
<1>4. Dated
  BY <1>1 DEF Dated
<1>5. TasksFit
  BY DEF Init, TasksFit, Fits, IdleTask, Webhook, Writing
<1>6. BookedOnce
  <2>1. \A x \in Transactions : {j \in invoices : j.tx = x} = {}
    BY <1>1
  <2> QED
    BY <1>1, <1>2, <2>1 DEF BookedOnce
<1>7. IssuedOnce
  BY <1>2 DEF IssuedOnce
<1> QED
  BY <1>3, <1>4, <1>5, <1>6, <1>7 DEF BillingInv

\* A webhook's steps, one by one.
LEMMA WorkStep ==
  ASSUME BillingInv, NEW t \in Tasks, Work(t)
  PROVE  BillingInv'
<1>1. CASE SetCancelAt(t)
  BY <1>1, Ends DEF SetCancelAt, tables, ledger
<1>2. CASE SetActive(t)
  BY <1>2, Ends DEF SetActive, tables, ledger
<1> QED
  BY <1>1, <1>2, CheckStep, UpsertStep, PayStep, CountStep, InsertInvoiceStep, CommitStep,
     IssueStep, ReplyStep
  DEF Work

LEMMA NextBilling ==
  ASSUME BillingInv, [Next]_vars
  PROVE  BillingInv'
<1>1. ASSUME NEW t \in Tasks, Request(t) PROVE BillingInv'
  BY <1>1, DeliverStep, OtherRequests DEF Request
<1>2. ASSUME NEW t \in Tasks, LoseTask(t) PROVE BillingInv'
  BY <1>2, Ends DEF LoseTask, tables, row, ledger
<1>3. CASE Dunning
  BY <1>3, Silent DEF Dunning, DunningFind, Suspend, tables, row, ledger
<1>4. CASE LoseSweep \/ RemindFails
  BY <1>4, Silent DEF LoseSweep, RemindFails, tables, row, ledger
<1>5. CASE UNCHANGED vars
  BY <1>5, Silent DEF vars, tables, row, ledger
<1> QED
  BY <1>1, <1>2, <1>3, <1>4, <1>5, WorkStep, TickStep DEF Next

THEOREM BillingInvariant == Spec => []BillingInv
<1>1. BillingInv /\ [Next]_vars => BillingInv'
  BY NextBilling
<1> QED
  BY <1>1, InitBilling, PTL DEF Spec

-----------------------------------------------------------------------------
\* Results.

\* A transaction is booked at most once and has as many invoices as bookings,
\* however many deliveries of it are in flight and whichever of them are lost.
THEOREM PaymentsBookedOnce == Spec => []BookedOnce
<1>1. BillingInv => BookedOnce
  BY DEF BillingInv
<1> QED
  BY <1>1, BillingInvariant, PTL

\* The invoice of a transaction goes to DIAN at most once, and never before the
\* transaction is booked.
THEOREM InvoicesIssuedOnce == Spec => []IssuedOnce
<1>1. BillingInv => IssuedOnce
  BY DEF BillingInv
<1> QED
  BY <1>1, BillingInvariant, PTL

\* The number a payment is about to insert is not one of its own tenant's, over
\* any number of payments and months: only other tenants' invoices can take it.
THEOREM OwnNumbersFree == Spec => []OwnNumberFree
<1>1. BillingInv => OwnNumberFree
  BY DEF BillingInv, TasksFit, Fits, Usable, OwnNumberFree
<1> QED
  BY <1>1, BillingInvariant, PTL

-----------------------------------------------------------------------------
\* Types.

\* The administrator's update is of a tenant.
AdminReady == \A t \in Tasks : At(t, "setActive") => task[t].tenant \in Tenants

TypeInv == BillingInv /\ TypeOK /\ AdminReady

\* A task that takes another state, unless it is an update of no tenant.
LEMMA AdminTurn ==
  ASSUME task \in [Tasks -> TaskStates], AdminReady, NEW t \in Tasks, NEW s, Become(t, s),
         s.pc = "setActive" => s.tenant \in Tenants
  PROVE  AdminReady'
<1>1. \A u \in Tasks : task'[u] = IF u = t THEN s ELSE task[u]
  BY DEF Become
<1> QED
  BY <1>1 DEF AdminReady, At

\* Every update is of a tenant.
LEMMA AdminStep ==
  ASSUME task \in [Tasks -> TaskStates], AdminReady, [Next]_vars
  PROVE  AdminReady'
<1>1. ASSUME UNCHANGED task
      PROVE  AdminReady'
  BY <1>1 DEF AdminReady, At
<1>2. ASSUME NEW t \in Tasks, End(t)
      PROVE  AdminReady'
  BY <1>2, AdminTurn DEF End, IdleTask
<1>3. ASSUME NEW t \in Tasks, NEW l \in Labels \ {"setActive"}, Goto(t, l)
      PROVE  AdminReady'
  <2>1. [task[t] EXCEPT !.pc = l].pc # "setActive"
    BY DEF TaskStates
  <2> QED
    BY <1>3, <2>1, AdminTurn DEF Goto
<1>4. ASSUME NEW t \in Tasks, NEW x \in Transactions, Deliver(t, x)
      PROVE  AdminReady'
  <2>1. [IdleTask EXCEPT !.pc = "check", !.tx = x, !.tenant = TenantOf[x]].pc = "check"
    BY DEF IdleTask
  <2> QED
    BY <1>4, <2>1, AdminTurn DEF Deliver
<1>5. ASSUME NEW t \in Tasks, NEW n \in Tenants, Cancel(t, n)
      PROVE  AdminReady'
  <2>1. PICK d : Become(t, [IdleTask EXCEPT !.pc = "setCancelAt", !.tenant = n, !.date = d])
    BY <1>5 DEF Cancel
  <2>2. [IdleTask EXCEPT !.pc = "setCancelAt", !.tenant = n, !.date = d].pc = "setCancelAt"
    BY DEF IdleTask
  <2> QED
    BY <2>1, <2>2, AdminTurn
<1>6. ASSUME NEW t \in Tasks, NEW n \in Tenants, AdminUpdate(t, n)
      PROVE  AdminReady'
  <2>1. PICK a : Become(t, [IdleTask EXCEPT !.pc = "setActive", !.tenant = n, !.active = a,
                                            !.creates = n \notin rows])
    BY <1>6 DEF AdminUpdate
  <2>2. [IdleTask EXCEPT !.pc = "setActive", !.tenant = n, !.active = a,
                         !.creates = n \notin rows].tenant \in Tenants
    BY DEF IdleTask
  <2> QED
    BY <2>1, <2>2, AdminTurn
<1>7. ASSUME NEW t \in Tasks, Check(t)
      PROVE  AdminReady'
  <2> DEFINE s == [task[t] EXCEPT !.pc = "upsert", !.date = now + CycleOf[task[t].tx]]
  <2>1. s.pc = "upsert"
    BY DEF TaskStates
  <2>2. Become(t, s) \/ Goto(t, "reply")
    BY <1>7 DEF Check
  <2> QED
    BY <1>3, <2>1, <2>2, AdminTurn DEF Labels
<1>8. ASSUME NEW t \in Tasks, Count(t)
      PROVE  AdminReady'
  <2> DEFINE s == [task[t] EXCEPT !.pc = "invoice", !.number = NextNumber(task[t].tenant)]
  <2>1. s.pc = "invoice"
    BY DEF TaskStates
  <2> QED
    BY <1>8, <2>1, AdminTurn DEF Count
<1>9. ASSUME NEW t \in Tasks, InsertInvoice(t)
      PROVE  AdminReady'
  <2> DEFINE s == [task[t] EXCEPT !.pc = "commit", !.month = now]
  <2>1. s.pc = "commit"
    BY DEF TaskStates
  <2>2. Become(t, s) \/ Goto(t, "reply")
    BY <1>9 DEF InsertInvoice
  <2> QED
    BY <1>3, <2>1, <2>2, AdminTurn DEF Labels
<1>10. ASSUME NEW t \in Tasks, Upsert(t) \/ Pay(t) \/ Commit(t) \/ Issue(t)
       PROVE  AdminReady'
  BY <1>3, <1>10 DEF Upsert, Pay, Commit, Issue, Labels
<1>11. ASSUME NEW t \in Tasks, Reply(t) \/ SetCancelAt(t) \/ SetActive(t) \/ LoseTask(t)
       PROVE  AdminReady'
  BY <1>2, <1>11 DEF Reply, SetCancelAt, SetActive, LoseTask
<1>12. CASE Dunning \/ RemindFails \/ LoseSweep \/ Tick \/ UNCHANGED vars
  BY <1>1, <1>12 DEF Dunning, DunningFind, Suspend, RemindFails, LoseSweep, Tick, vars
<1> QED
  BY <1>4, <1>5, <1>6, <1>7, <1>8, <1>9, <1>10, <1>11, <1>12 DEF Next, Request, Work

\* The subscriptions' columns keep their types.
LEMMA RowStep ==
  ASSUME BillingInv, TypeOK, AdminReady, [Next]_vars
  PROVE  rows' \subseteq Tenants /\ active' \in [Tenants -> BOOLEAN]
         /\ cancelAt' \in [Tenants -> SUBSET Nat]
<1> DEFINE Typed == rows' \subseteq Tenants /\ active' \in [Tenants -> BOOLEAN]
                    /\ cancelAt' \in [Tenants -> SUBSET Nat]
<1>0. /\ rows \subseteq Tenants /\ active \in [Tenants -> BOOLEAN]
      /\ cancelAt \in [Tenants -> SUBSET Nat] /\ task \in [Tasks -> TaskStates]
  BY DEF TypeOK, BillingInv, BillingType
<1>1. ASSUME UNCHANGED row
      PROVE  Typed
  BY <1>0, <1>1 DEF row
<1>2. ASSUME NEW t \in Tasks, SetCancelAt(t)
      PROVE  Typed
  <2>1. {task[t].date} \in SUBSET Nat
    BY <1>0 DEF TaskStates
  <2> QED
    BY <1>0, <1>2, <2>1 DEF SetCancelAt
<1>3. ASSUME NEW t \in Tasks, SetActive(t)
      PROVE  Typed
  <2>1. task[t].tenant \in Tenants /\ task[t].active \in BOOLEAN
    BY <1>0, <1>3 DEF SetActive, AdminReady, TaskStates
  <2> QED
    BY <1>0, <1>3, <2>1 DEF SetActive
<1>4. ASSUME NEW t \in Tasks, Commit(t)
      PROVE  Typed
  <2>1. task[t].tenant \in Tenants
    BY <1>4, TransactionAssumption DEF Commit, At, BillingInv, TasksFit, Fits, Webhook
  <2> QED
    BY <1>0, <1>4, <2>1 DEF Commit
<1>5. ASSUME NEW n \in Tenants, Suspend(n)
      PROVE  Typed
  BY <1>0, <1>5 DEF Suspend
<1>6. ASSUME NEW t \in Tasks, Request(t) \/ LoseTask(t)
      PROVE  UNCHANGED row
  BY <1>6 DEF Request, Deliver, Cancel, AdminUpdate, LoseTask, row
<1>7. ASSUME NEW t \in Tasks, Work(t)
      PROVE  UNCHANGED row \/ Commit(t) \/ SetCancelAt(t) \/ SetActive(t)
  BY <1>7 DEF Work, Check, Upsert, Pay, Count, InsertInvoice, Issue, Reply, row
<1>8. ASSUME DunningFind \/ RemindFails \/ LoseSweep \/ Tick \/ UNCHANGED vars
      PROVE  UNCHANGED row
  BY <1>8 DEF DunningFind, RemindFails, LoseSweep, Tick, vars, row
<1> QED
  BY <1>1, <1>2, <1>3, <1>4, <1>5, <1>6, <1>7, <1>8 DEF Next, Dunning

\* The answers, the sweep, the clock and the losses keep their types.
LEMMA SweepStep ==
  ASSUME BillingInv, TypeOK, [Next]_vars
  PROVE  /\ now' \in Times /\ losses' \in 0 .. MaxLosses
         /\ acked' \subseteq Transactions /\ overdue' \subseteq Tenants
<1>0. /\ now \in Times /\ losses \in 0 .. MaxLosses
      /\ acked \subseteq Transactions /\ overdue \subseteq Tenants
  BY DEF TypeOK
<1>1. now' \in Times
  <2>1. CASE Tick
    BY <1>0, <2>1, EnvironmentAssumption DEF Tick, Times
  <2>2. CASE UNCHANGED now
    BY <1>0, <2>2
  <2>3. Tick \/ UNCHANGED now
    BY DEF Next, Request, Work, Deliver, Cancel, AdminUpdate, LoseTask, Check, Upsert, Pay, Count,
       InsertInvoice, Commit, Issue, Reply, SetCancelAt, SetActive, Dunning, DunningFind, Suspend,
       RemindFails, LoseSweep, vars
  <2> QED
    BY <2>1, <2>2, <2>3
<1>2. losses' \in 0 .. MaxLosses
  <2>1. CASE Lose
    BY <1>0, <2>1, EnvironmentAssumption DEF Lose
  <2>2. CASE UNCHANGED losses
    BY <1>0, <2>2
  <2>3. Lose \/ UNCHANGED losses
    BY DEF Next, Request, Work, Deliver, Cancel, AdminUpdate, LoseTask, Check, Upsert, Pay, Count,
       InsertInvoice, Commit, Issue, Reply, SetCancelAt, SetActive, Dunning, DunningFind, Suspend,
       RemindFails, LoseSweep, Tick, vars
  <2> QED
    BY <2>1, <2>2, <2>3
<1>3. acked' \subseteq Transactions
  <2>1. ASSUME NEW t \in Tasks, Reply(t)
        PROVE  acked' \subseteq Transactions
    <3>1. task[t].tx \in Transactions
      BY <2>1 DEF Reply, At, BillingInv, TasksFit, Fits, Webhook
    <3> QED
      BY <1>0, <2>1, <3>1 DEF Reply
  <2>2. (\E t \in Tasks : Reply(t)) \/ UNCHANGED acked
    BY DEF Next, Request, Work, Deliver, Cancel, AdminUpdate, LoseTask, Check, Upsert, Pay, Count,
       InsertInvoice, Commit, Issue, SetCancelAt, SetActive, Dunning, DunningFind, Suspend,
       RemindFails, LoseSweep, Tick, vars
  <2> QED
    BY <1>0, <2>1, <2>2
<1>4. overdue' \subseteq Tenants
  <2>1. CASE DunningFind \/ RemindFails \/ LoseSweep \/ \E n \in Tenants : Suspend(n)
    BY <1>0, <2>1 DEF DunningFind, RemindFails, LoseSweep, Suspend
  <2>2. CASE UNCHANGED overdue
    BY <1>0, <2>2
  <2>3. DunningFind \/ RemindFails \/ LoseSweep \/ (\E n \in Tenants : Suspend(n)) \/ UNCHANGED overdue
    BY DEF Next, Request, Work, Deliver, Cancel, AdminUpdate, LoseTask, Check, Upsert, Pay, Count,
       InsertInvoice, Commit, Issue, Reply, SetCancelAt, SetActive, Dunning, Tick, vars
  <2> QED
    BY <2>1, <2>2, <2>3
<1> QED
  BY <1>1, <1>2, <1>3, <1>4

\* Every step keeps the types.
LEMMA TypeStep == TypeInv /\ [Next]_vars => TypeInv'
<1> SUFFICES ASSUME TypeInv, [Next]_vars PROVE TypeInv'
  OBVIOUS
<1>1. BillingInv /\ TypeOK /\ AdminReady /\ task \in [Tasks -> TaskStates]
  BY DEF TypeInv, BillingInv, BillingType
<1>2. BillingInv' /\ AdminReady'
  BY <1>1, NextBilling, AdminStep
<1>3. /\ rows' \subseteq Tenants /\ active' \in [Tenants -> BOOLEAN]
      /\ cancelAt' \in [Tenants -> SUBSET Nat]
  BY <1>1, RowStep
<1>4. /\ now' \in Times /\ losses' \in 0 .. MaxLosses
      /\ acked' \subseteq Transactions /\ overdue' \subseteq Tenants
  BY <1>1, SweepStep
<1>5. \A i \in invoices' : i.tx \in Transactions /\ i.number.month \in Times /\ i.month \in Times
  <2>1. \A i \in invoices' : /\ i.tx \in Transactions /\ i.month \in Nat /\ i.number.month \in Nat
                             /\ i.number.month <= i.month /\ i.month <= now'
    BY <1>2 DEF BillingInv, BillingType, Dated, NumberTypes
  <2> QED
    BY <1>4, <2>1, EnvironmentAssumption DEF Times
<1>6. /\ renewsAt' \in [Tenants -> SUBSET Nat]
      /\ payments' \in [Transactions -> Nat] /\ issued' \in [Transactions -> Nat]
      /\ \A t \in Tasks : task'[t] \in TaskStates
  BY <1>2 DEF BillingInv, BillingType
<1>7. TypeOK'
  BY <1>3, <1>4, <1>5, <1>6 DEF TypeOK, TaskStates
<1> QED
  BY <1>2, <1>7 DEF TypeInv

\* At first no tenant has paid.
LEMMA TypeInit == Init => TypeInv
<1> SUFFICES ASSUME Init PROVE TypeInv
  OBVIOUS
<1>1. BillingInv
  BY InitBilling
<1>2. AdminReady
  BY DEF Init, AdminReady, At, IdleTask
<1>3. TypeOK
  BY EnvironmentAssumption DEF Init, TypeOK, IdleTask, Labels, Times
<1> QED
  BY <1>1, <1>2, <1>3 DEF TypeInv

\* The types of the tables and the tasks, for every number of tenants.
THEOREM BillingTyped == Spec => []TypeOK
<1>1. TypeInv => TypeOK
  BY DEF TypeInv
<1> QED
  BY TypeInit, TypeStep, <1>1, PTL DEF Spec

-----------------------------------------------------------------------------
\* The answers.

\* All payments are of one tenant.
OneTenantPays == \A x, y \in Transactions : TenantOf[x] = TenantOf[y]

\* A webhook about to answer has found its transaction booked.
AnswersReady == \A t \in Tasks : At(t, "reply") => Booked(task[t].tx)

AnswersInv == BillingInv /\ AnswersReady /\ AckedIsBooked

\* A booked transaction stays booked.
LEMMA BookedStays ==
  ASSUME BillingInv, [Next]_vars, NEW x \in Transactions, Booked(x)
  PROVE  payments'[x] > 0
<1>1. payments[x] > 0 /\ payments \in [Transactions -> Nat]
  BY DEF Booked, BillingInv, BillingType
<1>2. ASSUME NEW t \in Tasks, Commit(t)
      PROVE  payments'[x] > 0
  BY <1>1, <1>2 DEF Commit
<1>3. (\E t \in Tasks : Commit(t)) \/ UNCHANGED payments
  BY DEF Next, Request, Work, Deliver, Cancel, AdminUpdate, LoseTask, Check, Upsert, Pay, Count,
     InsertInvoice, Issue, Reply, SetCancelAt, SetActive, Dunning, DunningFind, Suspend,
     RemindFails, LoseSweep, Tick, vars, ledger
<1> QED
  BY <1>1, <1>2, <1>3

\* A unique violation of the number is one of the transaction when one tenant
\* pays: its own numbers are free.
LEMMA NumberFree ==
  ASSUME OneTenantPays, BillingInv, NEW t \in Tasks, At(t, "invoice")
  PROVE  ~Taken(task[t].number)
<1>1. /\ task[t].tx \in Transactions /\ task[t].tenant = TenantOf[task[t].tx]
      /\ Usable(task[t].tenant, task[t].number)
  BY DEF At, BillingInv, TasksFit, Fits, Webhook
<1>2. \A i \in invoices : i.tx \in Transactions
  BY DEF BillingInv, BillingType
<1> QED
  BY <1>1, <1>2 DEF OneTenantPays, Usable, Taken

\* A task that takes another state, about to answer only what is booked.
LEMMA AnswerTurn ==
  ASSUME AnswersInv, [Next]_vars, NEW t \in Tasks, NEW s, Become(t, s),
         s.pc = "reply" => s.tx \in Transactions /\ Booked(s.tx)
  PROVE  AnswersReady'
<1>1. \A u \in Tasks : task'[u] = IF u = t THEN s ELSE task[u]
  BY DEF Become, AnswersInv, BillingInv, BillingType
<1>2. \A u \in Tasks : At(u, "reply") => task[u].tx \in Transactions /\ Booked(task[u].tx)
  BY DEF AnswersInv, AnswersReady, BillingInv, TasksFit, Fits, Webhook, At
<1>3. ASSUME NEW u \in Tasks, task'[u].pc = "reply"
      PROVE  payments'[task'[u].tx] > 0
  <2>1. PICK x \in Transactions : x = task'[u].tx /\ Booked(x)
    BY <1>1, <1>2, <1>3 DEF At
  <2> QED
    BY <2>1, BookedStays DEF AnswersInv
<1> QED
  BY <1>3 DEF AnswersReady, At, Booked

\* Every webhook is about to answer only what is booked, when one tenant pays.
LEMMA ReadyStep ==
  ASSUME OneTenantPays, AnswersInv, [Next]_vars
  PROVE  AnswersReady'
<1>0. task \in [Tasks -> TaskStates] /\ BillingInv
  BY DEF AnswersInv, BillingInv, BillingType
<1>1. ASSUME UNCHANGED task
      PROVE  AnswersReady'
  <2>1. ASSUME NEW t \in Tasks, task[t].pc = "reply"
        PROVE  payments'[task[t].tx] > 0
    <3>1. task[t].tx \in Transactions /\ Booked(task[t].tx)
      BY <2>1 DEF AnswersInv, AnswersReady, BillingInv, TasksFit, Fits, Webhook, At
    <3> QED
      BY <1>0, <3>1, BookedStays
  <2> QED
    BY <1>1, <2>1 DEF AnswersReady, At, Booked
<1>2. ASSUME NEW t \in Tasks, End(t)
      PROVE  AnswersReady'
  BY <1>2, AnswerTurn DEF End, IdleTask
<1>3. ASSUME NEW t \in Tasks, NEW l \in Labels \ {"reply"}, Goto(t, l)
      PROVE  AnswersReady'
  <2>1. [task[t] EXCEPT !.pc = l].pc # "reply"
    BY <1>0 DEF TaskStates
  <2> QED
    BY <1>3, <2>1, AnswerTurn DEF Goto
<1>4. ASSUME NEW t \in Tasks, Goto(t, "reply"), task[t].tx \in Transactions, Booked(task[t].tx)
      PROVE  AnswersReady'
  <2>1. [task[t] EXCEPT !.pc = "reply"].tx = task[t].tx
    BY <1>0 DEF TaskStates
  <2> QED
    BY <1>4, <2>1, AnswerTurn DEF Goto
<1>5. ASSUME NEW t \in Tasks, NEW x \in Transactions, Deliver(t, x)
      PROVE  AnswersReady'
  <2>1. [IdleTask EXCEPT !.pc = "check", !.tx = x, !.tenant = TenantOf[x]].pc = "check"
    BY DEF IdleTask
  <2> QED
    BY <1>5, <2>1, AnswerTurn DEF Deliver
<1>6. ASSUME NEW t \in Tasks, NEW n \in Tenants, Cancel(t, n)
      PROVE  AnswersReady'
  <2>1. PICK d : Become(t, [IdleTask EXCEPT !.pc = "setCancelAt", !.tenant = n, !.date = d])
    BY <1>6 DEF Cancel
  <2>2. [IdleTask EXCEPT !.pc = "setCancelAt", !.tenant = n, !.date = d].pc = "setCancelAt"
    BY DEF IdleTask
  <2> QED
    BY <2>1, <2>2, AnswerTurn
<1>7. ASSUME NEW t \in Tasks, NEW n \in Tenants, AdminUpdate(t, n)
      PROVE  AnswersReady'
  <2>1. PICK a : Become(t, [IdleTask EXCEPT !.pc = "setActive", !.tenant = n, !.active = a,
                                            !.creates = n \notin rows])
    BY <1>7 DEF AdminUpdate
  <2>2. [IdleTask EXCEPT !.pc = "setActive", !.tenant = n, !.active = a,
                         !.creates = n \notin rows].pc = "setActive"
    BY DEF IdleTask
  <2> QED
    BY <2>1, <2>2, AnswerTurn
<1>8. \A t \in Tasks : task[t].pc \in Webhook => task[t].tx \in Transactions
  BY <1>0 DEF BillingInv, TasksFit, Fits
<1>9. ASSUME NEW t \in Tasks, Check(t)
      PROVE  AnswersReady'
  <2> DEFINE s == [task[t] EXCEPT !.pc = "upsert", !.date = now + CycleOf[task[t].tx]]
  <2>1. s.pc = "upsert"
    BY <1>0 DEF TaskStates
  <2>2. CASE Booked(task[t].tx)
    BY <1>4, <1>8, <1>9, <2>2 DEF Check, At, Webhook
  <2>3. CASE ~Booked(task[t].tx)
    BY <1>9, <2>1, <2>3, AnswerTurn DEF Check
  <2> QED
    BY <2>2, <2>3
<1>10. ASSUME NEW t \in Tasks, Pay(t)
       PROVE  AnswersReady'
  <2>1. CASE Booked(task[t].tx)
    BY <1>4, <1>8, <1>10, <2>1 DEF Pay, At, Webhook
  <2>2. CASE ~Booked(task[t].tx)
    BY <1>3, <1>10, <2>2 DEF Pay, Labels
  <2> QED
    BY <2>1, <2>2
<1>11. ASSUME NEW t \in Tasks, Count(t)
       PROVE  AnswersReady'
  <2> DEFINE s == [task[t] EXCEPT !.pc = "invoice", !.number = NextNumber(task[t].tenant)]
  <2>1. s.pc = "invoice"
    BY <1>0 DEF TaskStates
  <2> QED
    BY <1>11, <2>1, AnswerTurn DEF Count
<1>12. ASSUME NEW t \in Tasks, InsertInvoice(t)
       PROVE  AnswersReady'
  <2> DEFINE s == [task[t] EXCEPT !.pc = "commit", !.month = now]
  <2>1. s.pc = "commit"
    BY <1>0 DEF TaskStates
  <2>2. Become(t, s)
    BY <1>0, <1>12, NumberFree DEF InsertInvoice
  <2> QED
    BY <2>1, <2>2, AnswerTurn
<1>13. ASSUME NEW t \in Tasks, Issue(t)
       PROVE  AnswersReady'
  <2>1. task[t].tx \in Transactions /\ Booked(task[t].tx)
    BY <1>0, <1>8, <1>13 DEF Issue, At, BillingInv, TasksFit, Fits, Webhook
  <2> QED
    BY <1>4, <1>13, <2>1 DEF Issue
<1>14. ASSUME NEW t \in Tasks, Upsert(t) \/ Commit(t)
       PROVE  AnswersReady'
  BY <1>3, <1>14 DEF Upsert, Commit, Labels
<1>15. ASSUME NEW t \in Tasks, Reply(t) \/ SetCancelAt(t) \/ SetActive(t) \/ LoseTask(t)
       PROVE  AnswersReady'
  BY <1>2, <1>15 DEF Reply, SetCancelAt, SetActive, LoseTask
<1>16. CASE Dunning \/ RemindFails \/ LoseSweep \/ Tick \/ UNCHANGED vars
  BY <1>1, <1>16 DEF Dunning, DunningFind, Suspend, RemindFails, LoseSweep, Tick, vars
<1> QED
  BY <1>5, <1>6, <1>7, <1>9, <1>10, <1>11, <1>12, <1>13, <1>14, <1>15, <1>16
  DEF Next, Request, Work

\* Only a booked transaction is answered.
LEMMA AckedStep ==
  ASSUME TypeOK, AnswersInv, [Next]_vars
  PROVE  AckedIsBooked'
<1>1. \A x \in acked : x \in Transactions /\ Booked(x)
  BY DEF TypeOK, AnswersInv, AckedIsBooked
<1>2. ASSUME NEW t \in Tasks, Reply(t), NEW x \in acked' \ acked
      PROVE  x \in Transactions /\ Booked(x)
  BY <1>2 DEF Reply, At, AnswersInv, AnswersReady, BillingInv, TasksFit, Fits, Webhook
<1>3. (\E t \in Tasks : Reply(t)) \/ UNCHANGED acked
  BY DEF Next, Request, Work, Deliver, Cancel, AdminUpdate, LoseTask, Check, Upsert, Pay, Count,
     InsertInvoice, Commit, Issue, SetCancelAt, SetActive, Dunning, DunningFind, Suspend,
     RemindFails, LoseSweep, Tick, vars
<1>4. ASSUME NEW x \in acked'
      PROVE  payments'[x] > 0
  <2>1. x \in Transactions /\ Booked(x)
    BY <1>1, <1>2, <1>3
  <2> QED
    BY <2>1, BookedStays DEF AnswersInv
<1> QED
  BY <1>4 DEF AckedIsBooked, Booked

\* When one tenant pays, everything answered as received is booked, the unique
\* violations the handler takes for success included: the number it may collide
\* with is only another tenant's.  With several tenants this fails.
THEOREM AnswersAreBooked == ASSUME OneTenantPays PROVE Spec => []AnswersBooked
<1>1. Init => AnswersInv
  BY InitBilling DEF Init, AnswersInv, AnswersReady, AckedIsBooked, At, IdleTask
<1>2. TypeInv /\ AnswersInv /\ [Next]_vars => AnswersInv'
  BY NextBilling, ReadyStep, AckedStep DEF TypeInv, AnswersInv
<1>3. TypeInv /\ AnswersInv => AnswersBooked
  BY DEF TypeInv, AnswersInv, AnswersBooked
<1> QED
  BY TypeInit, TypeStep, <1>1, <1>2, <1>3, PTL DEF Spec
=============================================================================
