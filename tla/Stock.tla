------------------------------- MODULE Stock -------------------------------
(***************************************************************************)
(* The goods of one tenant: invoices that sell and cancel                  *)
(* (invoices.service.ts), purchases that restock (purchases.service.ts),   *)
(* manual movements, transfers between locations, audits and receipts      *)
(* (inventory.service.ts), and the entries the ledger gets with them       *)
(* (ledger.service.ts).                                                    *)
(*                                                                         *)
(* Every handler is one interactive transaction at READ COMMITTED: it      *)
(* reads, computes, and writes.  Reads take no lock and are kept in the    *)
(* task; the writes appear at the commit, increments on the value they     *)
(* find there, the others as computed from what was read.  Only invoices   *)
(* and purchases lock something before they read: the row of the tenant,   *)
(* by taking the next document number from it.                             *)
(***************************************************************************)
EXTENDS Integers, FiniteSets

CONSTANTS
    Products,       \* inventoriable products; the others are not counted
    Locations,
    Opening,        \* [Products -> Nat], the stock they were created with
    Orders,         \* the lines of an invoice or purchase, see OrderAssumption
    Quantities,     \* quantities of the requests on one product
    Invoices, Purchases, Transfers,  \* ids of the rows of these tables
    Tasks,          \* requests that may be in flight at once
    None,           \* the empty local of a task
    AllowNegativeStock,  \* Tenant.allowNegativeStock
    Requests,       \* the kinds of request, besides those on invoices
    MaxMovements,   \* bounds the quantities moved per product and kind
    MaxEntries      \* bounds the ledger entries per reference

RequestKinds == {"setInvoice", "removeInvoice", "purchase", "movement", "transfer",
                 "audit", "receipt"}

\* Of the lines of an order, the model keeps per product the quantity they sum
\* up to and the largest of them.
ASSUME OrderAssumption ==
    \A o \in Orders : /\ o \in [total : [Products -> Nat], largest : [Products -> Nat]]
                      /\ \A p \in Products : o.largest[p] <= o.total[p]
ASSUME QuantityAssumption == Opening \in [Products -> Nat] /\ Quantities \subseteq Nat \ {0}
ASSUME SettingsAssumption ==
    /\ AllowNegativeStock \in BOOLEAN /\ Requests \subseteq RequestKinds
    /\ MaxMovements \in Nat /\ MaxEntries \in Nat
ASSUME NoneAssumption ==
    None \notin Products \union Locations \union Orders \union Invoices \union Purchases
                \union Transfers

VARIABLES
    stock,      \* Product.stock
    place,      \* Product.stockByLocation
    moved,      \* the quantities of table InventoryMovement, per product and kind
    last,       \* Tenant.lastInvoiceNumber
    invoices,   \* table Invoice
    purchases,  \* Purchase.status per id
    transfers,  \* table InventoryTransfer
    entries,    \* ledger entries per reference type and document
    task        \* the tasks' open transactions

goods == <<stock, place, moved>>
documents == <<last, invoices, purchases, transfers, entries>>
vars == <<goods, documents, task>>

-----------------------------------------------------------------------------
\* State.

\* "sale" and "reversal" are the movements that refer to an invoice, "receipt"
\* those of receiveInventory, "in" and "out" all the others.
Kinds == {"sale", "reversal", "receipt", "in", "out"}

\* Statuses no handler tells apart are one: "emitted" stands for draft, emitted
\* and sent, "registered" for every status of a purchase except paid.
InvoiceStatus == {"emitted", "accepted", "cancelled"}
PurchaseStatus == {"registered", "paid"}

NoInvoice == [status |-> "none", number |-> 0, order |-> None]
NoTransfer == [status |-> "none", product |-> None, to |-> None, quantity |-> 0]

Documents == ({"invoice", "payment_in"} \X Invoices) \union
             ({"purchase", "payment_out"} \X Purchases)

Labels == {"idle", "prefetch", "sell", "buy", "reverse", "pay", "move", "dispatch", "arrive",
           "adjust", "receive"}

\* The locals of a transaction; seen holds the product rows it has read, unread
\* those it has yet to read.
IdleTask == [pc |-> "idle", order |-> None, id |-> None, product |-> None, from |-> None,
             to |-> None, quantity |-> 0, kind |-> "in", seen |-> [p \in Products |-> 0],
             unread |-> {}, at |-> [l \in Locations |-> 0]]

Moves(n) == \A p \in Products : \A k \in Kinds : n[p][k] <= MaxMovements

Init ==
    /\ stock = Opening
    /\ place = [p \in Products |-> [l \in Locations |-> 0]]
    /\ moved = [p \in Products |-> [k \in Kinds |-> 0]]
    /\ last = 0
    /\ invoices = [i \in Invoices |-> NoInvoice]
    /\ purchases = [u \in Purchases |-> "none"]
    /\ transfers = [x \in Transfers |-> NoTransfer]
    /\ entries = [d \in Documents |-> 0]
    /\ task = [t \in Tasks |-> IdleTask]

At(t, l) == task[t].pc = l
Become(t, s) == task' = [task EXCEPT ![t] = s]
End(t) == Become(t, IdleTask)

\* The row of the tenant is locked from the document number to the commit.
\* Mutant: the number is taken without a lock.
TenantLocked_Never == FALSE
TenantLocked == \E t \in Tasks : task[t].pc \in {"prefetch", "sell", "buy"}

\* A write of one product row, and of the movements that document it.
Change(p, n) == stock' = [stock EXCEPT ![p] = @ + n]
Record(p, k, n) == moved' = [moved EXCEPT ![p][k] = @ + n] /\ Moves(moved')
RecordOrder(o, k) ==
    moved' = [p \in Products |-> [moved[p] EXCEPT ![k] = @ + o.total[p]]] /\ Moves(moved')
Put(p, s) == place' = [place EXCEPT ![p] = s]
Enter(r, id) ==
    /\ entries[<<r, id>>] < MaxEntries
    /\ entries' = [entries EXCEPT ![<<r, id>>] = @ + 1]

Used(i) == invoices[i].status # "none"
Row(i) == invoices[i].status \in InvoiceStatus

-----------------------------------------------------------------------------
\* InvoicesService.

\* create: the number is taken from the tenant's row, then the products are
\* read one by one, while nobody else can create an invoice or a purchase.
Create(t, i, o) ==
    /\ At(t, "idle")
    /\ ~TenantLocked
    /\ ~Used(i)
    /\ \A u \in Tasks : task[u].id # i
    /\ Become(t, [IdleTask EXCEPT !.pc = "prefetch", !.id = i, !.order = o,
                                !.unread = Products])
    /\ UNCHANGED <<goods, documents>>

Prefetch(t, p) ==
    /\ At(t, "prefetch")
    /\ p \in task[t].unread
    /\ Become(t, [task[t] EXCEPT !.pc = IF task[t].unread = {p} THEN "sell" ELSE "prefetch",
                                 !.seen[p] = stock[p], !.unread = @ \ {p}])
    /\ UNCHANGED <<goods, documents>>

\* Each line by itself is compared with the stock read before the first of them
\* is taken.
Suffices(t) ==
    \/ AllowNegativeStock
    \/ \A p \in Products : task[t].order.largest[p] > 0 => task[t].seen[p] >= task[t].order.largest[p]

\* Mutant: the number is written back outside the transaction, also when the
\* stock does not suffice.
Sell_NumberKept(t) ==
    LET o == task[t].order
        i == task[t].id
    IN  /\ At(t, "sell")
        /\ last' = last + 1
        /\ \/ /\ Suffices(t)
              /\ stock' = [p \in Products |-> stock[p] - o.total[p]]
              /\ RecordOrder(o, "sale")
              /\ invoices' = [invoices EXCEPT ![i] = [status |-> "emitted", number |-> last + 1, order |-> o]]
              /\ Enter("invoice", i)
           \/ ~Suffices(t) /\ UNCHANGED <<stock, moved, invoices, entries>>
        /\ End(t)
        /\ UNCHANGED <<place, purchases, transfers>>
Sell(t) ==
    LET o == task[t].order
        i == task[t].id
    IN  /\ At(t, "sell")
        /\ \/ /\ Suffices(t)
              /\ stock' = [p \in Products |-> stock[p] - o.total[p]]
              /\ RecordOrder(o, "sale")
              /\ last' = last + 1
              /\ invoices' = [invoices EXCEPT ![i] = [status |-> "emitted", number |-> last + 1, order |-> o]]
              /\ Enter("invoice", i)
           \/ ~Suffices(t) /\ UNCHANGED <<stock, moved, last, invoices, entries>>
        /\ End(t)
        /\ UNCHANGED <<place, purchases, transfers>>

\* updateStatus accepts any status from any status; accepted books a payment.
SetInvoice(i, s) ==
    /\ "setInvoice" \in Requests
    /\ Row(i)
    /\ invoices' = [invoices EXCEPT ![i].status = s]
    /\ IF s = "accepted" THEN Enter("payment_in", i) ELSE UNCHANGED entries
    /\ UNCHANGED <<goods, last, purchases, transfers, task>>

\* remove: the goods stay sold and the entries stay in the ledger.
RemoveInvoice(i) ==
    /\ "removeInvoice" \in Requests
    /\ Row(i)
    /\ invoices' = [invoices EXCEPT ![i].status = "removed"]
    /\ UNCHANGED <<goods, last, purchases, transfers, entries, task>>

\* cancel: the status is read without a lock and not compared again.
Cancel(t, i) ==
    /\ At(t, "idle")
    /\ Row(i)
    /\ invoices[i].status # "cancelled"
    /\ Become(t, [IdleTask EXCEPT !.pc = "reverse", !.id = i])
    /\ UNCHANGED <<goods, documents>>

Reverse(t) ==
    LET o == invoices[task[t].id].order
    IN  /\ At(t, "reverse")
        /\ Row(task[t].id)
        /\ stock' = [p \in Products |-> stock[p] + o.total[p]]
        /\ RecordOrder(o, "reversal")
        /\ invoices' = [invoices EXCEPT ![task[t].id].status = "cancelled"]
        /\ End(t)
        /\ UNCHANGED <<place, last, purchases, transfers, entries>>

-----------------------------------------------------------------------------
\* PurchasesService.

\* create waits for the tenant's row as invoices do, but compares nothing.
Purchase(t, u, o) ==
    /\ "purchase" \in Requests
    /\ At(t, "idle")
    /\ ~TenantLocked
    /\ purchases[u] = "none"
    /\ \A v \in Tasks : task[v].id # u
    /\ Become(t, [IdleTask EXCEPT !.pc = "buy", !.id = u, !.order = o])
    /\ UNCHANGED <<goods, documents>>

Buy(t) ==
    LET o == task[t].order
        u == task[t].id
    IN  /\ At(t, "buy")
        /\ stock' = [p \in Products |-> stock[p] + o.total[p]]
        /\ RecordOrder(o, "in")
        /\ purchases' = [purchases EXCEPT ![u] = "registered"]
        /\ Enter("purchase", u)
        /\ End(t)
        /\ UNCHANGED <<place, last, invoices, transfers>>

\* updateStatus: the status, then, in a transaction of its own, the payment.
SetPurchase(t, u, s) ==
    /\ "purchase" \in Requests
    /\ At(t, "idle")
    /\ purchases[u] \in PurchaseStatus
    /\ purchases' = [purchases EXCEPT ![u] = s]
    /\ IF s = "paid" THEN Become(t, [IdleTask EXCEPT !.pc = "pay", !.id = u]) ELSE UNCHANGED task
    /\ UNCHANGED <<goods, last, invoices, transfers, entries>>

Pay(t) ==
    /\ At(t, "pay")
    /\ Enter("payment_out", task[t].id)
    /\ End(t)
    /\ UNCHANGED <<goods, last, invoices, purchases, transfers>>

RemovePurchase(u) ==
    /\ "purchase" \in Requests
    /\ purchases[u] \in PurchaseStatus
    /\ purchases' = [purchases EXCEPT ![u] = "removed"]
    /\ UNCHANGED <<goods, last, invoices, transfers, entries, task>>

-----------------------------------------------------------------------------
\* InventoryService.  A request on product p starts by reading its row and keeps
\* the locations, which it will write back.
Read(l, p, n) ==
    [IdleTask EXCEPT !.pc = l, !.product = p, !.quantity = n, !.at = place[p]]

\* createMovement: a withdrawal is compared with the stock that was read.
Movement(t, p, k, n) ==
    /\ "movement" \in Requests
    /\ At(t, "idle")
    /\ k = "out" /\ ~AllowNegativeStock => stock[p] >= n
    /\ Become(t, [IdleTask EXCEPT !.pc = "move", !.product = p, !.quantity = n, !.kind = k])
    /\ UNCHANGED <<goods, documents>>

Move(t) ==
    LET p == task[t].product
        n == task[t].quantity
    IN  /\ At(t, "move")
        /\ Change(p, IF task[t].kind = "in" THEN n ELSE -n)
        /\ Record(p, task[t].kind, n)
        /\ End(t)
        /\ UNCHANGED <<place, documents>>

\* transferStock: the locations are one JSON column, written back whole.
\* Mutant: the quantity at the origin is not compared.
Available_Any(p, l, n) == TRUE
Available(p, l, n) == place[p][l] >= n

Transfer(t, x, p, l, m, n) ==
    /\ "transfer" \in Requests
    /\ At(t, "idle")
    /\ transfers[x].status = "none"
    /\ \A u \in Tasks : task[u].id # x
    /\ Available(p, l, n)
    /\ Become(t, [Read("dispatch", p, n) EXCEPT !.id = x, !.from = l, !.to = m])
    /\ UNCHANGED <<goods, documents>>

Dispatch(t) ==
    LET p == task[t].product
        n == task[t].quantity
    IN  /\ At(t, "dispatch")
        /\ Change(p, -n)
        /\ Put(p, [task[t].at EXCEPT ![task[t].from] = @ - n])
        /\ Record(p, "out", n)
        /\ transfers' = [transfers EXCEPT ![task[t].id] =
              [status |-> "en_transito", product |-> p, to |-> task[t].to, quantity |-> n]]
        /\ End(t)
        /\ UNCHANGED <<last, invoices, purchases, entries>>

\* receiveTransfer: the status is read without a lock and not compared again.
ReceiveTransfer(t, x) ==
    /\ At(t, "idle")
    /\ transfers[x].status = "en_transito"
    /\ Become(t, [Read("arrive", transfers[x].product, transfers[x].quantity)
                     EXCEPT !.id = x, !.to = transfers[x].to])
    /\ UNCHANGED <<goods, documents>>

Arrive(t) ==
    LET p == task[t].product
        n == task[t].quantity
    IN  /\ At(t, "arrive")
        /\ Change(p, n)
        /\ Put(p, [task[t].at EXCEPT ![task[t].to] = @ + n])
        /\ Record(p, "in", n)
        /\ transfers' = [transfers EXCEPT ![task[t].id].status = "completado"]
        /\ End(t)
        /\ UNCHANGED <<last, invoices, purchases, entries>>

\* auditInventory, one adjustment: n is the physical count.  Equal counts end
\* without effect.
Audit(t, p, l, n) ==
    /\ "audit" \in Requests
    /\ At(t, "idle")
    /\ place[p][l] # n
    /\ Become(t, [Read("adjust", p, n) EXCEPT !.to = l])
    /\ UNCHANGED <<goods, documents>>

\* Mutant: the movement is always recorded as an entry.
Adjust_AlwaysIn(t) ==
    LET p == task[t].product
        diff == task[t].quantity - task[t].at[task[t].to]
    IN  /\ At(t, "adjust")
        /\ Change(p, diff)
        /\ Put(p, [task[t].at EXCEPT ![task[t].to] = task[t].quantity])
        /\ Record(p, "in", IF diff > 0 THEN diff ELSE -diff)
        /\ End(t)
        /\ UNCHANGED documents
Adjust(t) ==
    LET p == task[t].product
        diff == task[t].quantity - task[t].at[task[t].to]
    IN  /\ At(t, "adjust")
        /\ Change(p, diff)
        /\ Put(p, [task[t].at EXCEPT ![task[t].to] = task[t].quantity])
        /\ IF diff > 0 THEN Record(p, "in", diff) ELSE Record(p, "out", -diff)
        /\ End(t)
        /\ UNCHANGED documents

\* receiveInventory writes the stock it has computed, whatever it is by then.
Receipt(t, p, l, n) ==
    /\ "receipt" \in Requests
    /\ At(t, "idle")
    /\ Become(t, [Read("receive", p, n) EXCEPT !.to = l, !.seen = stock])
    /\ UNCHANGED <<goods, documents>>

Receive(t) ==
    LET p == task[t].product
        n == task[t].quantity
    IN  /\ At(t, "receive")
        /\ stock' = [stock EXCEPT ![p] = task[t].seen[p] + n]
        /\ Put(p, [task[t].at EXCEPT ![task[t].to] = @ + n])
        /\ Record(p, "receipt", n)
        /\ End(t)
        /\ UNCHANGED documents

-----------------------------------------------------------------------------
\* A transaction ends without effect: a failing statement, a deadlock the
\* database resolves, a timeout or a restart.
Abort(t) ==
    /\ ~At(t, "idle")
    /\ End(t)
    /\ UNCHANGED <<goods, documents>>

OnProduct(t, p) ==
    \E n \in Quantities :
       \/ \E k \in {"in", "out"} : Movement(t, p, k, n)
       \/ \E l \in Locations :
             \/ Audit(t, p, l, n) \/ Audit(t, p, l, 0) \/ Receipt(t, p, l, n)
             \/ \E x \in Transfers, m \in Locations : Transfer(t, x, p, l, m, n)

Request(t) ==
    \/ \E i \in Invoices : (\E o \in Orders : Create(t, i, o)) \/ Cancel(t, i)
    \/ \E u \in Purchases : \/ \E o \in Orders : Purchase(t, u, o)
                            \/ \E s \in PurchaseStatus : SetPurchase(t, u, s)
    \/ \E x \in Transfers : ReceiveTransfer(t, x)
    \/ \E p \in Products : OnProduct(t, p)

Work(t) ==
    \/ (\E p \in Products : Prefetch(t, p)) \/ Sell(t) \/ Reverse(t)
    \/ Buy(t) \/ Pay(t)
    \/ Move(t) \/ Dispatch(t) \/ Arrive(t) \/ Adjust(t) \/ Receive(t)

Next ==
    \/ \E t \in Tasks : Request(t) \/ Work(t) \/ Abort(t)
    \/ \E i \in Invoices : (\E s \in InvoiceStatus : SetInvoice(i, s)) \/ RemoveInvoice(i)
    \/ \E u \in Purchases : RemovePurchase(u)

Spec == Init /\ [][Next]_vars

-----------------------------------------------------------------------------
\* Properties.

\* Type correctness; no location ever holds less than nothing, although its
\* quantity is written back from a read without a lock.
TypeOK ==
    /\ stock \in [Products -> Int]
    /\ place \in [Products -> [Locations -> Nat]]
    /\ moved \in [Products -> [Kinds -> 0 .. MaxMovements]]
    /\ last \in Nat
    /\ \A i \in Invoices : /\ invoices[i].status \in InvoiceStatus \union {"none", "removed"}
                           /\ invoices[i].number \in 0 .. last
                           /\ Used(i) => invoices[i].order \in Orders
    /\ purchases \in [Purchases -> PurchaseStatus \union {"none", "removed"}]
    /\ \A x \in Transfers : transfers[x].status \in {"none", "en_transito", "completado"}
    /\ entries \in [Documents -> Nat]
    /\ \A t \in Tasks : task[t].pc \in Labels

\* The stock of a product is what its kardex says: its opening stock and its
\* movements, for all interleavings of the handlers; except that receiveInventory
\* overwrites what was committed since it read.
KardexAgrees ==
    \A p \in Products : moved[p]["receipt"] = 0 =>
       stock[p] = Opening[p] + moved[p]["in"] + moved[p]["reversal"]
                             - moved[p]["sale"] - moved[p]["out"]

\* Invoices never sell more than there is, as long as every order has one line
\* per product: the lock on the tenant's row orders them.  What can take the
\* stock below zero is only what was withdrawn by other requests meanwhile.
SalesCovered ==
    ~AllowNegativeStock =>
       \A p \in Products : moved[p]["receipt"] = 0 => stock[p] + moved[p]["out"] >= 0

\* Invoice numbers are consecutive, without gaps or repetitions, whatever
\* invoices fail in between; each is booked once.
NumbersBooked ==
    LET used == {i \in Invoices : Used(i)}
    IN  /\ {invoices[i].number : i \in used} = 1 .. last
        /\ Cardinality(used) = last
        /\ \A i \in Invoices : entries[<<"invoice", i>>] = IF Used(i) THEN 1 ELSE 0

-----------------------------------------------------------------------------
\* The inductive invariant behind KardexAgrees and SalesCovered.

Ids == Invoices \union Purchases \union Transfers

\* The part of the types it needs.
InvoiceRows == [status : InvoiceStatus \union {"none", "removed"}, number : Nat,
                order : Orders \union {None}]
TransferRows == [status : {"none", "en_transito", "completado"},
                 product : Products \union {None}, to : Locations \union {None}, quantity : Nat]

GoodsType ==
    /\ stock \in [Products -> Int]
    /\ place \in [Products -> [Locations -> Int]]
    /\ moved \in [Products -> [Kinds -> Nat]]
    /\ last \in Nat
    /\ invoices \in [Invoices -> InvoiceRows]
    /\ \A i \in Invoices : Used(i) => invoices[i].order \in Orders
    /\ transfers \in [Transfers -> TransferRows]
    /\ \A x \in Transfers : transfers[x].status = "en_transito" =>
          transfers[x].product \in Products /\ transfers[x].to \in Locations

TaskStates ==
    [pc : Labels, order : Orders \union {None}, id : Ids \union {None},
     product : Products \union {None}, from : Locations \union {None},
     to : Locations \union {None}, quantity : Nat, kind : {"in", "out"},
     seen : [Products -> Int], unread : SUBSET Products, at : [Locations -> Int]]

\* The locals a transaction has set where it uses them.
Ready(s) ==
    /\ s \in TaskStates
    /\ s.pc \in {"prefetch", "sell", "buy"} => s.order \in Orders
    /\ s.pc \in {"prefetch", "sell", "reverse"} => s.id \in Invoices
    /\ s.pc \in {"move", "dispatch", "arrive", "adjust", "receive"} => s.product \in Products
    /\ s.pc \in {"dispatch", "arrive", "adjust", "receive"} => s.to \in Locations
    /\ s.pc = "dispatch" => s.from \in Locations
    /\ s.pc = "receive" => s.quantity # 0
    /\ s.pc = "sell" => s.unread = {}

TasksReady == task \in [Tasks -> TaskStates] /\ \A t \in Tasks : Ready(task[t])

\* One invoice or purchase at a time.
OneSeller ==
    \A t, u \in Tasks : {task[t].pc, task[u].pc} \subseteq {"prefetch", "sell", "buy"} => t = u

\* What an invoice has read is still there, up to what was withdrawn.
SeenStays ==
    \A t \in Tasks : task[t].pc \in {"prefetch", "sell"} =>
       \A p \in Products \ task[t].unread :
          moved[p]["receipt"] = 0 => stock[p] + moved[p]["out"] >= task[t].seen[p]

GoodsInv == GoodsType /\ TasksReady /\ OneSeller /\ SeenStays /\ SalesCovered /\ KardexAgrees
=============================================================================
