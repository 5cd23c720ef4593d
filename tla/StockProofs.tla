---------------------------- MODULE StockProofs ----------------------------
(***************************************************************************)
(* Proofs about Stock, for every number of products, locations, documents  *)
(* and concurrent requests.                                                *)
(***************************************************************************)
EXTENDS Stock, FiniteSetTheorems, TLAPS

\* No order has two lines of one product.
OneLinePerProduct == \A o \in Orders : o.largest = o.total

\* What the kardex of a product says its stock is.
Kardex(p) == Opening[p] + moved[p]["in"] + moved[p]["reversal"]
                        - moved[p]["sale"] - moved[p]["out"]

\* A step is documented if the stock of every product without receipts changes
\* by what its kardex does.
Documented ==
    \A p \in Products : moved'[p]["receipt"] = 0 =>
       /\ moved[p]["receipt"] = 0
       /\ stock'[p] - Kardex(p)' = stock[p] - Kardex(p)

\* A step is covered if no such product gets less without a withdrawal.
Covered ==
    \A p \in Products : moved'[p]["receipt"] = 0 =>
       stock'[p] + moved'[p]["out"] >= stock[p] + moved[p]["out"]

-----------------------------------------------------------------------------
\* Helpers on tasks and tables.

\* A task that becomes ready leaves all tasks ready.
LEMMA BecomeReady ==
  ASSUME TasksReady, NEW t \in Tasks, NEW s, Ready(s), Become(t, s)
  PROVE  TasksReady' /\ \A u \in Tasks : task'[u] = IF u = t THEN s ELSE task[u]
<1>1. \A u \in Tasks : task'[u] = IF u = t THEN s ELSE task[u]
  BY DEF TasksReady, Become
<1>2. task' \in [Tasks -> TaskStates]
  BY DEF TasksReady, Become, Ready
<1> QED
  BY <1>1, <1>2 DEF TasksReady, Ready

\* The idle task is ready.
LEMMA IdleTyped == IdleTask \in TaskStates
  BY DEF IdleTask, TaskStates, Labels

LEMMA IdleReady == Ready(IdleTask)
  BY IdleTyped DEF Ready, IdleTask

\* The quantities of an order are natural numbers.
LEMMA OrderTotals == \A o \in Orders : /\ o.total \in [Products -> Nat]
                                       /\ o.largest \in [Products -> Nat]
  BY OrderAssumption

\* A change of one product that is recorded as a movement of its direction is
\* documented and covered.
LEMMA RecordedChange ==
  ASSUME GoodsType, NEW p \in Products, NEW n \in Nat, NEW k \in {"in", "out"}, NEW d \in Int,
         d = IF k = "in" THEN n ELSE -n, Change(p, d), Record(p, k, n)
  PROVE  /\ Documented /\ Covered
         /\ stock' \in [Products -> Int] /\ moved' \in [Products -> [Kinds -> Nat]]
<1>1. \A q \in Products : stock'[q] = IF q = p THEN stock[p] + d ELSE stock[q]
  BY DEF Change, GoodsType
<1>2. \A q \in Products, j \in Kinds :
         moved'[q][j] = IF q = p /\ j = k THEN moved[p][k] + n ELSE moved[q][j]
  BY DEF Record, GoodsType, Kinds
<1>3. \A q \in Products : /\ stock[q] \in Int /\ Opening[q] \in Nat
                          /\ \A j \in Kinds : moved[q][j] \in Nat
  BY QuantityAssumption DEF GoodsType
<1>4. stock' \in [Products -> Int]
  BY DEF Change, GoodsType
<1>5. moved' \in [Products -> [Kinds -> Nat]]
  BY DEF Record, GoodsType, Kinds
<1>6. ASSUME NEW q \in Products, moved'[q]["receipt"] = 0
      PROVE  /\ moved[q]["receipt"] = 0
             /\ stock'[q] - Kardex(q)' = stock[q] - Kardex(q)
             /\ stock'[q] + moved'[q]["out"] >= stock[q] + moved[q]["out"]
  <2>1. {"in", "out", "sale", "reversal", "receipt"} = Kinds
    BY DEF Kinds
  <2>2. /\ moved'[q]["receipt"] = moved[q]["receipt"]
        /\ moved'[q]["sale"] = moved[q]["sale"]
        /\ moved'[q]["reversal"] = moved[q]["reversal"]
    BY <1>2, <2>1
  <2>3. CASE q # p
    <3>1. /\ stock'[q] = stock[q]
          /\ moved'[q]["in"] = moved[q]["in"] /\ moved'[q]["out"] = moved[q]["out"]
      BY <1>1, <1>2, <2>1, <2>3
    <3> QED
      BY <1>3, <1>6, <2>1, <2>2, <3>1 DEF Kardex
  <2>4. CASE q = p /\ k = "in"
    <3>1. /\ stock'[q] = stock[q] + n /\ moved'[q]["in"] = moved[q]["in"] + n
          /\ moved'[q]["out"] = moved[q]["out"]
      BY <1>1, <1>2, <2>1, <2>4
    <3> QED
      BY <1>3, <1>6, <2>1, <2>2, <3>1 DEF Kardex
  <2>5. CASE q = p /\ k = "out"
    <3>1. /\ stock'[q] = stock[q] - n /\ moved'[q]["out"] = moved[q]["out"] + n
          /\ moved'[q]["in"] = moved[q]["in"]
      BY <1>1, <1>2, <1>3, <2>1, <2>5
    <3> QED
      BY <1>3, <1>6, <2>1, <2>2, <3>1 DEF Kardex
  <2> QED
    BY <2>3, <2>4, <2>5
<1> QED
  BY <1>4, <1>5, <1>6 DEF Documented, Covered

\* Goods that come in or back with all lines of an order are documented and
\* covered.
LEMMA RecordedOrder ==
  ASSUME GoodsType, NEW o \in Orders, NEW k \in {"in", "reversal"},
         stock' = [p \in Products |-> stock[p] + o.total[p]], RecordOrder(o, k)
  PROVE  /\ Documented /\ Covered
         /\ stock' \in [Products -> Int] /\ moved' \in [Products -> [Kinds -> Nat]]
<1>1. \A q \in Products : /\ stock[q] \in Int /\ Opening[q] \in Nat /\ o.total[q] \in Nat
                          /\ \A j \in Kinds : moved[q][j] \in Nat
  BY QuantityAssumption, OrderTotals DEF GoodsType
<1>2. \A q \in Products, j \in Kinds :
         moved'[q][j] = IF j = k THEN moved[q][k] + o.total[q] ELSE moved[q][j]
  BY DEF RecordOrder, GoodsType, Kinds
<1>3. stock' \in [Products -> Int]
  BY <1>1
<1>4. moved' \in [Products -> [Kinds -> Nat]]
  BY <1>1 DEF RecordOrder, GoodsType, Kinds
<1>5. ASSUME NEW q \in Products, moved'[q]["receipt"] = 0
      PROVE  /\ moved[q]["receipt"] = 0
             /\ stock'[q] - Kardex(q)' = stock[q] - Kardex(q)
             /\ stock'[q] + moved'[q]["out"] >= stock[q] + moved[q]["out"]
  <2>1. {"in", "out", "sale", "reversal", "receipt"} = Kinds
    BY DEF Kinds
  <2>2. /\ stock'[q] = stock[q] + o.total[q]
        /\ moved'[q]["receipt"] = moved[q]["receipt"] /\ moved'[q]["sale"] = moved[q]["sale"]
        /\ moved'[q]["out"] = moved[q]["out"]
    BY <1>2, <2>1
  <2>3. moved'[q]["in"] + moved'[q]["reversal"]
           = moved[q]["in"] + moved[q]["reversal"] + o.total[q]
    BY <1>1, <1>2, <2>1
  <2>4. /\ moved'[q]["in"] \in Int /\ moved'[q]["reversal"] \in Int
        /\ moved[q]["in"] \in Int /\ moved[q]["reversal"] \in Int
        /\ moved[q]["sale"] \in Int /\ moved[q]["out"] \in Int
    BY <1>1, <1>4, <2>1
  <2>5. /\ Kardex(q)' = Opening[q] + moved'[q]["in"] + moved'[q]["reversal"]
                                   - moved'[q]["sale"] - moved'[q]["out"]
        /\ Kardex(q) = Opening[q] + moved[q]["in"] + moved[q]["reversal"]
                                  - moved[q]["sale"] - moved[q]["out"]
    BY DEF Kardex
  <2>6. Kardex(q)' = Kardex(q) + o.total[q]
    BY <1>1, <2>2, <2>3, <2>4, <2>5
  <2>7. Kardex(q) \in Int
    BY <1>1, <2>1 DEF Kardex
  <2> QED
    BY <1>1, <1>5, <2>1, <2>2, <2>6, <2>7
<1> QED
  BY <1>3, <1>4, <1>5 DEF Documented, Covered

\* A step that leaves the goods alone is documented and covered.
LEMMA NoChange == ASSUME GoodsType, UNCHANGED goods
                  PROVE  /\ Documented /\ Covered
                         /\ stock' \in [Products -> Int] /\ place' \in [Products -> [Locations -> Int]]
                         /\ moved' \in [Products -> [Kinds -> Nat]]
<1>1. \A q \in Products : /\ stock[q] \in Int /\ Opening[q] \in Nat
                          /\ \A j \in Kinds : moved[q][j] \in Nat
  BY QuantityAssumption DEF GoodsType
<1>2. ASSUME NEW q \in Products
      PROVE  Kardex(q)' = Kardex(q)
  BY DEF goods, Kardex
<1> QED
  BY <1>1, <1>2 DEF goods, GoodsType, Documented, Covered, Kardex, Kinds
-----------------------------------------------------------------------------
\* The kardex.

\* The documents keep their types when they do not change.
LEMMA SameDocuments ==
  ASSUME GoodsType, UNCHANGED documents, stock' \in [Products -> Int],
         place' \in [Products -> [Locations -> Int]], moved' \in [Products -> [Kinds -> Nat]]
  PROVE  GoodsType'
  BY DEF GoodsType, documents, Used

\* What a step must do to keep the kardex.
Sound == GoodsType' /\ TasksReady' /\ Documented

\* A request that reads and waits.
LEMMA SoundRead ==
  ASSUME GoodsType, TasksReady, NEW t \in Tasks, NEW s, Ready(s), Become(t, s),
         UNCHANGED <<goods, documents>>
  PROVE  Sound /\ Covered
<1>1. TasksReady'
  BY BecomeReady
<1> QED
  BY <1>1, NoChange, SameDocuments DEF Sound

\* The locals of the requests on documents are set.
LEMMA SoundRequest ==
  ASSUME GoodsType, TasksReady, NEW t \in Tasks,
         \/ \E i \in Invoices : (\E o \in Orders : Create(t, i, o)) \/ Cancel(t, i)
         \/ \E u \in Purchases, o \in Orders : Purchase(t, u, o)
         \/ \E x \in Transfers : ReceiveTransfer(t, x)
  PROVE  Sound /\ Covered
<1>1. ASSUME NEW i \in Invoices, NEW o \in Orders, Create(t, i, o)
      PROVE  Sound /\ Covered
  <2> DEFINE s == [IdleTask EXCEPT !.pc = "prefetch", !.id = i, !.order = o,
                                   !.unread = Products]
  <2>1. s \in TaskStates
    BY IdleTyped DEF TaskStates, Labels, Ids
  <2>2. Ready(s)
    BY <2>1 DEF Ready, IdleTask
  <2> QED
    BY <1>1, <2>2, SoundRead DEF Create
<1>2. ASSUME NEW i \in Invoices, Cancel(t, i)
      PROVE  Sound /\ Covered
  <2>1. [IdleTask EXCEPT !.pc = "reverse", !.id = i] \in TaskStates
    BY IdleTyped DEF TaskStates, Labels, Ids
  <2>2. Ready([IdleTask EXCEPT !.pc = "reverse", !.id = i])
    BY <2>1 DEF Ready, IdleTask
  <2> QED
    BY <1>2, <2>2, SoundRead DEF Cancel
<1>3. ASSUME NEW u \in Purchases, NEW o \in Orders, Purchase(t, u, o)
      PROVE  Sound /\ Covered
  <2>1. [IdleTask EXCEPT !.pc = "buy", !.id = u, !.order = o] \in TaskStates
    BY IdleTyped DEF TaskStates, Labels, Ids
  <2>2. Ready([IdleTask EXCEPT !.pc = "buy", !.id = u, !.order = o])
    BY <2>1 DEF Ready, IdleTask
  <2> QED
    BY <1>3, <2>2, SoundRead DEF Purchase
<1>4. ASSUME NEW x \in Transfers, ReceiveTransfer(t, x)
      PROVE  Sound /\ Covered
  <2>1. /\ transfers[x].product \in Products /\ transfers[x].to \in Locations
        /\ transfers[x].quantity \in Nat
    BY <1>4 DEF ReceiveTransfer, GoodsType, TransferRows
  <2>2. place[transfers[x].product] \in [Locations -> Int]
    BY <2>1 DEF GoodsType
  <2> DEFINE s == [Read("arrive", transfers[x].product, transfers[x].quantity)
                     EXCEPT !.id = x, !.to = transfers[x].to]
  <2>3. s \in TaskStates
    BY IdleTyped, <2>1, <2>2 DEF Read, TaskStates, Labels, Ids
  <2>4. Ready(s)
    BY <2>1, <2>3 DEF Ready, Read, IdleTask
  <2> QED
    BY <1>4, <2>4, SoundRead DEF ReceiveTransfer
<1> QED
  BY <1>1, <1>2, <1>3, <1>4

\* The locals of the requests on a product are set.
LEMMA SoundProduct ==
  ASSUME GoodsType, TasksReady, NEW t \in Tasks, NEW p \in Products, OnProduct(t, p)
  PROVE  Sound /\ Covered
<1>1. place[p] \in [Locations -> Int] /\ stock \in [Products -> Int]
  BY DEF GoodsType
<1>2. ASSUME NEW n \in Quantities, NEW k \in {"in", "out"}, Movement(t, p, k, n)
      PROVE  Sound /\ Covered
  <2>1. [IdleTask EXCEPT !.pc = "move", !.product = p, !.quantity = n, !.kind = k] \in TaskStates
    BY IdleTyped, QuantityAssumption DEF TaskStates, Labels, Ids
  <2>2. Ready([IdleTask EXCEPT !.pc = "move", !.product = p, !.quantity = n, !.kind = k])
    BY <2>1, QuantityAssumption DEF Ready, IdleTask
  <2> QED
    BY <1>2, <2>2, SoundRead DEF Movement
<1>3. ASSUME NEW n \in Quantities \union {0}, NEW l \in Locations, Audit(t, p, l, n)
      PROVE  Sound /\ Covered
  <2>0. n \in Nat
    BY QuantityAssumption
  <2>1. [Read("adjust", p, n) EXCEPT !.to = l] \in TaskStates
    BY IdleTyped, <1>1, <2>0 DEF Read, TaskStates, Labels, Ids
  <2>2. Ready([Read("adjust", p, n) EXCEPT !.to = l])
    BY <2>1, <1>1, QuantityAssumption DEF Ready, Read, IdleTask
  <2> QED
    BY <1>3, <2>2, SoundRead DEF Audit
<1>4. ASSUME NEW n \in Quantities, NEW l \in Locations, Receipt(t, p, l, n)
      PROVE  Sound /\ Covered
  <2>1. [Read("receive", p, n) EXCEPT !.to = l, !.seen = stock] \in TaskStates
    BY IdleTyped, <1>1, QuantityAssumption DEF Read, TaskStates, Labels, Ids
  <2>2. Ready([Read("receive", p, n) EXCEPT !.to = l, !.seen = stock])
    BY <2>1, <1>1, QuantityAssumption DEF Ready, Read, IdleTask
  <2> QED
    BY <1>4, <2>2, SoundRead DEF Receipt
<1>5. ASSUME NEW n \in Quantities, NEW l \in Locations, NEW x \in Transfers,
             NEW m \in Locations, Transfer(t, x, p, l, m, n)
      PROVE  Sound /\ Covered
  <2>1. [Read("dispatch", p, n) EXCEPT !.id = x, !.from = l, !.to = m] \in TaskStates
    BY IdleTyped, <1>1, QuantityAssumption DEF Read, TaskStates, Labels, Ids
  <2>2. Ready([Read("dispatch", p, n) EXCEPT !.id = x, !.from = l, !.to = m])
    BY <2>1, <1>1, QuantityAssumption DEF Ready, Read, IdleTask
  <2> QED
    BY <1>5, <2>2, SoundRead DEF Transfer
<1> QED
  BY <1>2, <1>3, <1>4, <1>5 DEF OnProduct

\* A transaction's writes, when it ends: the goods change by what it records.
LEMMA SoundWork ==
  ASSUME GoodsType, TasksReady, NEW t \in Tasks,
         \/ (\E p \in Products : Prefetch(t, p)) \/ Reverse(t) \/ Buy(t) \/ Pay(t)
         \/ Move(t) \/ Dispatch(t) \/ Arrive(t) \/ Adjust(t) \/ Receive(t) \/ Abort(t)
  PROVE  Sound /\ Covered
<1>1. task[t] \in TaskStates /\ Ready(task[t])
  BY DEF TasksReady, Ready
<1>2. End(t) => TasksReady'
  BY IdleReady, BecomeReady DEF End
<1>3. place' = place => place' \in [Products -> [Locations -> Int]]
  BY DEF GoodsType
<1>4. ASSUME NEW p \in Products, Prefetch(t, p)
      PROVE  Sound /\ Covered
  <2> DEFINE s == [task[t] EXCEPT !.pc = IF task[t].unread = {p} THEN "sell" ELSE "prefetch",
                                  !.seen[p] = stock[p], !.unread = @ \ {p}]
  <2>1. s \in TaskStates
    BY <1>1 DEF GoodsType, TaskStates, Labels
  <2>2. s.order = task[t].order /\ s.id = task[t].id
        /\ s.pc \in {"prefetch", "sell"} /\ (s.pc = "sell" => s.unread = {})
    BY <1>1, <1>4 DEF TaskStates
  <2>3. task[t].order \in Orders /\ task[t].id \in Invoices
    BY <1>1, <1>4 DEF Ready, Prefetch, At
  <2>4. Ready(s)
    BY <2>1, <2>2, <2>3 DEF Ready
  <2> QED
    BY <1>4, <2>4, SoundRead DEF Prefetch
<1>5. CASE Abort(t) \/ Pay(t)
  <2>1. /\ UNCHANGED goods /\ invoices' = invoices /\ transfers' = transfers /\ last' = last
        /\ TasksReady'
    BY <1>2, <1>5 DEF Abort, Pay, documents
  <2> QED
    BY <2>1, NoChange DEF Sound, GoodsType, Used
<1>6. CASE Reverse(t)
  <2>1. task[t].id \in Invoices /\ invoices[task[t].id].order \in Orders
    BY <1>1, <1>6 DEF Ready, Reverse, At, Row, InvoiceStatus, GoodsType, Used
  <2>2. /\ Documented /\ Covered
        /\ stock' \in [Products -> Int] /\ moved' \in [Products -> [Kinds -> Nat]]
    BY <1>6, <2>1, RecordedOrder DEF Reverse
  <2>3. invoices' \in [Invoices -> InvoiceRows]
    BY <1>6, <2>1 DEF Reverse, GoodsType, InvoiceRows, InvoiceStatus
  <2>4. \A i \in Invoices : Used(i)' => invoices'[i].order \in Orders
    BY <1>6, <2>1, <2>3 DEF Reverse, GoodsType, InvoiceRows, Used
  <2> QED
    BY <1>2, <1>3, <1>6, <2>2, <2>3, <2>4 DEF Reverse, Sound, GoodsType
<1>7. CASE Buy(t)
  <2>1. task[t].order \in Orders
    BY <1>1, <1>7 DEF Ready, Buy, At
  <2>2. /\ Documented /\ Covered
        /\ stock' \in [Products -> Int] /\ moved' \in [Products -> [Kinds -> Nat]]
    BY <1>7, <2>1, RecordedOrder DEF Buy
  <2> QED
    BY <1>2, <1>3, <1>7, <2>2 DEF Buy, Sound, GoodsType, Used
<1>8. CASE Move(t)
  <2>1. task[t].product \in Products /\ task[t].quantity \in Nat /\ task[t].kind \in {"in", "out"}
    BY <1>1, <1>8 DEF Ready, Move, At, TaskStates
  <2>2. (IF task[t].kind = "in" THEN task[t].quantity ELSE -task[t].quantity) \in Int
    BY <2>1
  <2>3. /\ Documented /\ Covered
        /\ stock' \in [Products -> Int] /\ moved' \in [Products -> [Kinds -> Nat]]
    BY <1>8, <2>1, <2>2, RecordedChange DEF Move
  <2> QED
    BY <1>2, <1>3, <1>8, <2>3, SameDocuments DEF Move, Sound
<1>9. CASE Dispatch(t)
  <2>1. /\ task[t].product \in Products /\ task[t].to \in Locations
        /\ task[t].from \in Locations /\ task[t].quantity \in Nat
    BY <1>1, <1>9 DEF Ready, Dispatch, At, TaskStates
  <2>2. -task[t].quantity \in Int
    BY <2>1
  <2>3. /\ Documented /\ Covered
        /\ stock' \in [Products -> Int] /\ moved' \in [Products -> [Kinds -> Nat]]
    BY <1>9, <2>1, <2>2, RecordedChange DEF Dispatch
  <2>4. place' \in [Products -> [Locations -> Int]]
    BY <1>1, <1>9, <2>1 DEF Dispatch, Put, GoodsType, TaskStates
  <2>5. transfers' \in [Transfers -> TransferRows]
    BY <1>9, <2>1 DEF Dispatch, GoodsType, TransferRows
  <2>6. \A x \in Transfers : transfers'[x].status = "en_transito" =>
           transfers'[x].product \in Products /\ transfers'[x].to \in Locations
    BY <1>9, <2>1 DEF Dispatch, GoodsType, TransferRows
  <2> QED
    BY <1>2, <1>9, <2>3, <2>4, <2>5, <2>6 DEF Dispatch, Sound, GoodsType, Used
<1>10. CASE Arrive(t)
  <2>1. /\ task[t].product \in Products /\ task[t].to \in Locations /\ task[t].quantity \in Nat
    BY <1>1, <1>10 DEF Ready, Arrive, At, TaskStates
  <2>2. /\ Documented /\ Covered
        /\ stock' \in [Products -> Int] /\ moved' \in [Products -> [Kinds -> Nat]]
    BY <1>10, <2>1, RecordedChange DEF Arrive
  <2>3. place' \in [Products -> [Locations -> Int]]
    BY <1>1, <1>10, <2>1 DEF Arrive, Put, GoodsType, TaskStates
  <2>4. transfers' \in [Transfers -> TransferRows]
    <3>1. \A r \in TransferRows : [r EXCEPT !.status = "completado"] \in TransferRows
      BY DEF TransferRows
    <3>2. transfers' = [transfers EXCEPT ![task[t].id] = [@ EXCEPT !.status = "completado"]]
      BY <1>10 DEF Arrive
    <3> QED
      BY <3>1, <3>2 DEF GoodsType
  <2>5. \A x \in Transfers : transfers'[x].status = "en_transito" =>
           transfers'[x].product \in Products /\ transfers'[x].to \in Locations
    BY <1>10, <2>1 DEF Arrive, GoodsType, TransferRows
  <2> QED
    BY <1>2, <1>10, <2>2, <2>3, <2>4, <2>5 DEF Arrive, Sound, GoodsType, Used
<1>11. CASE Adjust(t)
  <2> DEFINE diff == task[t].quantity - task[t].at[task[t].to]
  <2>1. /\ task[t].product \in Products /\ task[t].to \in Locations /\ task[t].quantity \in Nat
        /\ diff \in Int
    BY <1>1, <1>11 DEF Ready, Adjust, At, TaskStates
  <2>2. Change(task[t].product, diff)
    BY <1>11 DEF Adjust
  <2>3. /\ Documented /\ Covered
        /\ stock' \in [Products -> Int] /\ moved' \in [Products -> [Kinds -> Nat]]
    <3>1. CASE diff > 0
      <4>1. Record(task[t].product, "in", diff)
        BY <1>11, <3>1 DEF Adjust
      <4>2. diff \in Nat
        BY <2>1, <3>1
      <4> HIDE DEF diff
      <4> QED
        BY <2>1, <2>2, <4>1, <4>2, RecordedChange
    <3>2. CASE ~(diff > 0)
      <4>1. Record(task[t].product, "out", -diff)
        BY <1>11, <3>2 DEF Adjust
      <4>2. -diff \in Nat /\ diff = -(-diff)
        BY <2>1, <3>2
      <4> HIDE DEF diff
      <4> QED
        BY <2>1, <2>2, <4>1, <4>2, RecordedChange
    <3> QED
      BY <3>1, <3>2
  <2>4. place' \in [Products -> [Locations -> Int]]
    BY <1>1, <1>11, <2>1 DEF Adjust, Put, GoodsType, TaskStates
  <2> QED
    BY <1>2, <1>11, <2>3, <2>4, SameDocuments DEF Adjust, Sound
<1>12. CASE Receive(t)
  <2> DEFINE p == task[t].product
  <2> DEFINE n == task[t].quantity
  <2>1. p \in Products /\ task[t].to \in Locations /\ n \in Nat \ {0} /\ task[t].seen[p] \in Int
    BY <1>1, <1>12 DEF Ready, Receive, At, TaskStates
  <2>2. \A q \in Products : q # p =>
           /\ stock'[q] = stock[q]
           /\ \A k \in Kinds : moved'[q][k] = moved[q][k]
    BY <1>12, <2>1 DEF Receive, Record, GoodsType
  <2>3. moved'[p]["receipt"] = moved[p]["receipt"] + n /\ moved[p]["receipt"] \in Nat
    BY <1>12, <2>1 DEF Receive, Record, GoodsType, Kinds
  <2>4. stock' \in [Products -> Int] /\ moved' \in [Products -> [Kinds -> Nat]]
    BY <1>12, <2>1 DEF Receive, Record, GoodsType, Kinds
  <2>5. place' \in [Products -> [Locations -> Int]]
    BY <1>1, <1>12, <2>1 DEF Receive, Put, GoodsType, TaskStates
  <2>6. ASSUME NEW q \in Products, moved'[q]["receipt"] = 0
        PROVE  /\ moved[q]["receipt"] = 0
               /\ stock'[q] - Kardex(q)' = stock[q] - Kardex(q)
               /\ stock'[q] + moved'[q]["out"] >= stock[q] + moved[q]["out"]
    <3>1. q # p
      BY <2>1, <2>3, <2>6
    <3>2. /\ stock'[q] = stock[q] /\ \A k \in Kinds : moved'[q][k] = moved[q][k]
      BY <2>2, <3>1
    <3>3. Kardex(q)' = Kardex(q)
      BY <3>2 DEF Kardex, Kinds
    <3>4. stock[q] \in Int /\ moved[q]["out"] \in Nat
      BY DEF GoodsType, Kinds
    <3> QED
      BY <2>6, <3>2, <3>3, <3>4 DEF Kinds
  <2>7. Documented /\ Covered
    BY <2>6 DEF Documented, Covered
  <2> QED
    BY <1>2, <1>12, <2>4, <2>5, <2>7, SameDocuments DEF Receive, Sound
<1> QED
  BY <1>4, <1>5, <1>6, <1>7, <1>8, <1>9, <1>10, <1>11, <1>12

\* A sale takes from the stock what it records as sold.
LEMMA SoundSell ==
  ASSUME GoodsType, TasksReady, NEW t \in Tasks, Sell(t)
  PROVE  Sound
<1> DEFINE o == task[t].order
<1>1. o \in Orders /\ task[t].id \in Invoices
  BY DEF TasksReady, Ready, Sell, At
<1>2. TasksReady'
  BY IdleReady, BecomeReady DEF Sell, End
<1>3. CASE UNCHANGED <<stock, moved, last, invoices, entries>>
  <2>1. UNCHANGED goods /\ transfers' = transfers
    BY <1>3 DEF Sell, goods
  <2> QED
    BY <1>2, <1>3, <2>1, NoChange DEF Sound, GoodsType, Used
<1>4. CASE /\ stock' = [p \in Products |-> stock[p] - o.total[p]]
           /\ RecordOrder(o, "sale")
           /\ last' = last + 1
           /\ invoices' = [invoices EXCEPT ![task[t].id] =
                             [status |-> "emitted", number |-> last + 1, order |-> o]]
  <2>1. \A q \in Products : /\ stock[q] \in Int /\ Opening[q] \in Nat /\ o.total[q] \in Nat
                            /\ \A j \in Kinds : moved[q][j] \in Nat
    BY <1>1, QuantityAssumption, OrderTotals DEF GoodsType
  <2>2. \A q \in Products, j \in Kinds :
           moved'[q][j] = IF j = "sale" THEN moved[q][j] + o.total[q] ELSE moved[q][j]
    BY <1>4 DEF RecordOrder, GoodsType, Kinds
  <2>3. stock' \in [Products -> Int]
    BY <1>4, <2>1
  <2>4. moved' \in [Products -> [Kinds -> Nat]]
    BY <1>4, <2>1 DEF RecordOrder, GoodsType, Kinds
  <2>5. ASSUME NEW q \in Products, moved'[q]["receipt"] = 0
        PROVE  moved[q]["receipt"] = 0 /\ stock'[q] - Kardex(q)' = stock[q] - Kardex(q)
    <3>1. stock'[q] = stock[q] - o.total[q]
      BY <1>4
    <3>2. Kardex(q)' = Kardex(q) - o.total[q]
      BY <2>1, <2>2 DEF Kardex, Kinds
    <3>3. Kardex(q) \in Int
      BY <2>1 DEF Kardex, Kinds
    <3> QED
      BY <2>1, <2>2, <2>5, <3>1, <3>2, <3>3 DEF Kinds
  <2>6. invoices' \in [Invoices -> InvoiceRows] /\ last' \in Nat
    BY <1>1, <1>4 DEF GoodsType, InvoiceRows, InvoiceStatus
  <2>7. \A i \in Invoices : Used(i)' => invoices'[i].order \in Orders
    BY <1>1, <1>4 DEF GoodsType, InvoiceRows, Used
  <2>8. place' = place /\ transfers' = transfers
    BY DEF Sell
  <2>9. Documented
    BY <2>5 DEF Documented
  <2> QED
    BY <1>2, <2>3, <2>4, <2>6, <2>7, <2>8, <2>9 DEF Sound, GoodsType
<1> QED
  BY <1>3, <1>4 DEF Sell

\* The status of an invoice or a purchase changes nothing else but the ledger.
LEMMA SoundStatus ==
  ASSUME GoodsType, TasksReady,
         \/ \E i \in Invoices : (\E s \in InvoiceStatus : SetInvoice(i, s)) \/ RemoveInvoice(i)
         \/ \E t \in Tasks, u \in Purchases, s \in PurchaseStatus : SetPurchase(t, u, s)
         \/ \E u \in Purchases : RemovePurchase(u)
         \/ UNCHANGED vars
  PROVE  Sound /\ Covered
<1>1. /\ UNCHANGED goods /\ transfers' = transfers /\ last' = last
      /\ \/ invoices' = invoices
         \/ \E i \in Invoices, s \in InvoiceStatus \union {"removed"} :
               Row(i) /\ invoices' = [invoices EXCEPT ![i].status = s]
  BY DEF SetInvoice, RemoveInvoice, SetPurchase, RemovePurchase, vars, documents
<1>2. invoices' \in [Invoices -> InvoiceRows]
      /\ \A i \in Invoices : Used(i)' => invoices'[i].order \in Orders
  <2>1. CASE invoices' = invoices
    BY <2>1 DEF GoodsType, Used
  <2>2. ASSUME NEW i \in Invoices, NEW s \in InvoiceStatus \union {"removed"},
               Row(i), invoices' = [invoices EXCEPT ![i].status = s]
        PROVE  /\ invoices' \in [Invoices -> InvoiceRows]
               /\ \A j \in Invoices : Used(j)' => invoices'[j].order \in Orders
    <3>1. \A r \in InvoiceRows : /\ [r EXCEPT !.status = s] \in InvoiceRows
                                 /\ [r EXCEPT !.status = s].order = r.order
      BY <2>2 DEF InvoiceRows
    <3>2. invoices' = [invoices EXCEPT ![i] = [@ EXCEPT !.status = s]]
      BY <2>2
    <3>3. Used(i)
      BY <2>2 DEF Row, InvoiceStatus, Used
    <3>4. \A j \in Invoices : /\ invoices'[j].order = invoices[j].order
                              /\ j # i => invoices'[j] = invoices[j]
      BY <2>2, <3>1, <3>2 DEF GoodsType
    <3> QED
      BY <3>1, <3>2, <3>3, <3>4 DEF GoodsType, Used
  <2> QED
    BY <1>1, <2>1, <2>2
<1>3. TasksReady'
  <2>1. CASE task' = task
    BY <2>1 DEF TasksReady, Ready
  <2>2. ASSUME NEW t \in Tasks, NEW u \in Purchases,
               Become(t, [IdleTask EXCEPT !.pc = "pay", !.id = u])
        PROVE  TasksReady'
    <3>1. [IdleTask EXCEPT !.pc = "pay", !.id = u] \in TaskStates
      BY IdleTyped DEF TaskStates, Labels, Ids
    <3>2. Ready([IdleTask EXCEPT !.pc = "pay", !.id = u])
      BY <3>1 DEF Ready, IdleTask
    <3> QED
      BY <2>2, <3>2, BecomeReady
  <2> QED
    BY <2>1, <2>2 DEF SetInvoice, RemoveInvoice, SetPurchase, RemovePurchase, vars
<1> QED
  BY <1>1, <1>2, <1>3, NoChange DEF Sound, GoodsType

\* Every step is sound, and covered unless it sells.
LEMMA SoundNext ==
  ASSUME GoodsType, TasksReady, [Next]_vars
  PROVE  Sound /\ (Covered \/ \E t \in Tasks : Sell(t))
<1>1. ASSUME NEW t \in Tasks, Request(t)
      PROVE  Sound /\ Covered
  BY <1>1, SoundRequest, SoundProduct, SoundStatus DEF Request
<1>2. ASSUME NEW t \in Tasks, Work(t) \/ Abort(t)
      PROVE  Sound /\ (Covered \/ Sell(t))
  BY <1>2, SoundWork, SoundSell DEF Work
<1>3. ASSUME \/ UNCHANGED vars
             \/ \E i \in Invoices :
                   (\E s \in InvoiceStatus : SetInvoice(i, s)) \/ RemoveInvoice(i)
             \/ \E u \in Purchases : RemovePurchase(u)
      PROVE  Sound /\ Covered
  BY <1>3, SoundStatus
<1> QED
  BY <1>1, <1>2, <1>3 DEF Next

\* The part of the inductive invariant that carries the kardex.
KardexInv == GoodsType /\ TasksReady /\ KardexAgrees

\* At first the kardex is empty.
LEMMA KardexInit == Init => KardexInv
<1> SUFFICES ASSUME Init PROVE KardexInv
  OBVIOUS
<1>1. GoodsType
  BY QuantityAssumption
  DEF Init, GoodsType, Kinds, InvoiceRows, TransferRows, NoInvoice, NoTransfer, Used
<1>2. TasksReady
  BY IdleReady, IdleTyped DEF Init, TasksReady
<1>3. KardexAgrees
  BY QuantityAssumption DEF Init, KardexAgrees, Kinds
<1> QED
  BY <1>1, <1>2, <1>3 DEF KardexInv

\* Every step keeps the kardex.
LEMMA KardexStep == KardexInv /\ [Next]_vars => KardexInv'
<1> SUFFICES ASSUME KardexInv, [Next]_vars PROVE KardexInv'
  OBVIOUS
<1>1. GoodsType /\ TasksReady /\ KardexAgrees
  BY DEF KardexInv
<1>2. GoodsType' /\ TasksReady' /\ Documented
  BY <1>1, SoundNext DEF Sound
<1>3. ASSUME NEW p \in Products, moved'[p]["receipt"] = 0
      PROVE  stock'[p] = Kardex(p)'
  <2>1. moved[p]["receipt"] = 0 /\ stock'[p] - Kardex(p)' = stock[p] - Kardex(p)
    BY <1>2, <1>3 DEF Documented
  <2>2. stock[p] = Kardex(p)
    BY <1>1, <2>1 DEF KardexAgrees, Kardex
  <2>3. stock[p] \in Int /\ stock'[p] \in Int
    BY <1>1, <1>2 DEF GoodsType
  <2>4. Opening[p] \in Nat /\ \A k \in Kinds : moved'[p][k] \in Nat
    BY <1>2, QuantityAssumption DEF GoodsType
  <2>5. Kardex(p)' \in Int
    BY <2>4 DEF Kardex, Kinds
  <2> QED
    BY <2>1, <2>2, <2>3, <2>5
<1>4. KardexAgrees'
  BY <1>3 DEF KardexAgrees, Kardex
<1> QED
  BY <1>2, <1>4 DEF KardexInv

\* The stock of a product is what its kardex says, until receiveInventory
\* overwrites it: whatever requests run at the same time, no handler changes the
\* stock without recording the same quantity as a movement.
THEOREM KardexCorrect == Spec => []KardexAgrees
<1>1. KardexInv => KardexAgrees
  BY DEF KardexInv
<1> QED
  BY KardexInit, KardexStep, <1>1, PTL DEF Spec

-----------------------------------------------------------------------------
\* Sales.

Sellers == {"prefetch", "sell", "buy"}

\* A step after which no request sells that did not sell before, and none sells
\* with another reading, keeps OneSeller and, if it is covered, SeenStays.
LEMMA SellersStay ==
  ASSUME GoodsType, GoodsType', TasksReady, OneSeller, SeenStays, Documented, Covered,
         \A t \in Tasks : task'[t].pc \in Sellers =>
            /\ task[t].pc \in Sellers
            /\ task'[t].pc # "buy" => task'[t] = task[t]
  PROVE  OneSeller' /\ SeenStays'
<1>1. OneSeller'
  BY DEF OneSeller, Sellers
<1>2. ASSUME NEW t \in Tasks, task'[t].pc \in {"prefetch", "sell"},
             NEW p \in Products \ task'[t].unread, moved'[p]["receipt"] = 0
      PROVE  stock'[p] + moved'[p]["out"] >= task'[t].seen[p]
  <2>1. task'[t] = task[t]
    BY <1>2 DEF Sellers
  <2>2. moved[p]["receipt"] = 0
        /\ stock'[p] + moved'[p]["out"] >= stock[p] + moved[p]["out"]
    BY <1>2 DEF Documented, Covered
  <2>3. stock[p] + moved[p]["out"] >= task[t].seen[p]
    BY <1>2, <2>1, <2>2 DEF SeenStays
  <2>4. /\ stock[p] \in Int /\ stock'[p] \in Int
        /\ moved[p]["out"] \in Nat /\ moved'[p]["out"] \in Nat /\ task[t].seen[p] \in Int
    BY DEF GoodsType, TasksReady, TaskStates, Kinds
  <2> QED
    BY <2>1, <2>2, <2>3, <2>4
<1> QED
  BY <1>1, <1>2 DEF SeenStays

\* A seller that has not read a product yet, or never will.
ReadsNothing(s) == s.pc = "buy" \/ s.unread = Products

\* Only the tenant's row makes a seller.
LEMMA NewSellers ==
  ASSUME TasksReady, [Next]_vars, NEW t \in Tasks, task'[t].pc \in Sellers
  PROVE  \/ task'[t] = task[t]
         \/ \E p \in Products : Prefetch(t, p)
         \/ /\ ~TenantLocked
            /\ ReadsNothing(task'[t])
            /\ task'[t].pc # "buy" => ~Used(task'[t].id)
            /\ \A u \in Tasks \ {t} : task'[u] = task[u]
<1>1. \A u \in Tasks : \A s : Become(u, s) =>
         \A v \in Tasks : task'[v] = IF v = u THEN s ELSE task[v]
  BY DEF Become, TasksReady
<1>2. \A u \in Tasks : End(u) =>
         \A v \in Tasks : task'[v] = IF v = u THEN IdleTask ELSE task[v]
  BY <1>1 DEF End
<1>3. IdleTask.pc \notin Sellers
  BY DEF IdleTask, Sellers
<1>4. ASSUME task'[t] # task[t]
      PROVE  \/ \E p \in Products : Prefetch(t, p)
             \/ /\ ~TenantLocked
                /\ ReadsNothing(task'[t])
                /\ task'[t].pc # "buy" => ~Used(task'[t].id)
                /\ \A u \in Tasks \ {t} : task'[u] = task[u]
  <2>1. ~ \E u \in Tasks : End(u)
    BY <1>2, <1>3, <1>4
  <2>2. ~ UNCHANGED task
    BY <1>4
  <2>3. PICK u \in Tasks : Request(u) \/ \E p \in Products : Prefetch(u, p)
    BY <2>1, <2>2 DEF Next, Work, vars, Sell, Reverse, Buy, Pay, Move, Dispatch, Arrive,
       Adjust, Receive, Abort, SetInvoice, RemoveInvoice, RemovePurchase
  <2>4. CASE \E p \in Products : Prefetch(u, p)
    <3>1. u = t
      BY <1>1, <1>4, <2>4 DEF Prefetch
    <3> QED
      BY <2>4, <3>1
  <2>5. ASSUME NEW s, Become(u, s), s.pc \in {"pay", "reverse", "arrive", "move", "adjust",
                                             "receive", "dispatch"}
        PROVE  FALSE
    BY <1>1, <1>4, <2>5 DEF Sellers
  <2>6. ASSUME NEW i \in Invoices, NEW o \in Orders, Create(u, i, o)
        PROVE  ~TenantLocked /\ u = t /\ ReadsNothing(task'[t]) /\ ~Used(task'[t].id)
               /\ \A v \in Tasks \ {t} : task'[v] = task[v]
    <3> DEFINE s == [IdleTask EXCEPT !.pc = "prefetch", !.id = i, !.order = o,
                                     !.unread = Products]
    <3>1. ReadsNothing(s) /\ s.id = i
      BY DEF IdleTask, ReadsNothing
    <3>2. Become(u, s) /\ ~TenantLocked /\ ~Used(i)
      BY <2>6 DEF Create
    <3> HIDE DEF s
    <3> QED
      BY <1>1, <1>4, <3>1, <3>2
  <2>7. ASSUME NEW i \in Purchases, NEW o \in Orders, Purchase(u, i, o)
        PROVE  ~TenantLocked /\ u = t /\ ReadsNothing(task'[t]) /\ task'[t].pc = "buy"
               /\ \A v \in Tasks \ {t} : task'[v] = task[v]
    <3>1. [IdleTask EXCEPT !.pc = "buy", !.id = i, !.order = o].pc = "buy"
      BY DEF IdleTask
    <3> QED
      BY <1>1, <1>4, <2>7, <3>1 DEF Purchase, ReadsNothing
  <2>8. CASE \E i \in Invoices : Cancel(u, i)
    <3>1. PICK i \in Invoices : Cancel(u, i)
      BY <2>8
    <3>2. [IdleTask EXCEPT !.pc = "reverse", !.id = i].pc = "reverse"
      BY DEF IdleTask
    <3> QED
      BY <2>5, <3>1, <3>2 DEF Cancel
  <2>9. CASE \E i \in Purchases, s \in PurchaseStatus : SetPurchase(u, i, s)
    <3>1. PICK i \in Purchases, s \in PurchaseStatus : SetPurchase(u, i, s)
      BY <2>9
    <3>2. [IdleTask EXCEPT !.pc = "pay", !.id = i].pc = "pay"
      BY DEF IdleTask
    <3> QED
      BY <2>2, <2>5, <3>1, <3>2 DEF SetPurchase
  <2>10. CASE \E x \in Transfers : ReceiveTransfer(u, x)
    <3>1. PICK x \in Transfers : ReceiveTransfer(u, x)
      BY <2>10
    <3>2. [Read("arrive", transfers[x].product, transfers[x].quantity)
              EXCEPT !.id = x, !.to = transfers[x].to].pc = "arrive"
      BY DEF Read, IdleTask
    <3> QED
      BY <2>5, <3>1, <3>2 DEF ReceiveTransfer
  <2>11. ASSUME NEW p \in Products, OnProduct(u, p)
         PROVE  FALSE
    <3>1. ASSUME NEW n, NEW k, Movement(u, p, k, n) PROVE FALSE
      <4>1. [IdleTask EXCEPT !.pc = "move", !.product = p, !.quantity = n, !.kind = k].pc = "move"
        BY DEF IdleTask
      <4> QED
        BY <2>5, <3>1, <4>1 DEF Movement
    <3>2. ASSUME NEW n, NEW l, Audit(u, p, l, n) PROVE FALSE
      <4>1. [Read("adjust", p, n) EXCEPT !.to = l].pc = "adjust"
        BY DEF Read, IdleTask
      <4> QED
        BY <2>5, <3>2, <4>1 DEF Audit
    <3>3. ASSUME NEW n, NEW l, Receipt(u, p, l, n) PROVE FALSE
      <4>1. [Read("receive", p, n) EXCEPT !.to = l, !.seen = stock].pc = "receive"
        BY DEF Read, IdleTask
      <4> QED
        BY <2>5, <3>3, <4>1 DEF Receipt
    <3>4. ASSUME NEW n, NEW l, NEW m, NEW x, Transfer(u, x, p, l, m, n) PROVE FALSE
      <4>1. [Read("dispatch", p, n) EXCEPT !.id = x, !.from = l, !.to = m].pc = "dispatch"
        BY DEF Read, IdleTask
      <4> QED
        BY <2>5, <3>4, <4>1 DEF Transfer
    <3> QED
      BY <2>11, <3>1, <3>2, <3>3, <3>4 DEF OnProduct
  <2> QED
    BY <2>3, <2>4, <2>6, <2>7, <2>8, <2>9, <2>10, <2>11 DEF Request
<1> QED
  BY <1>4

\* The inductive invariant: KardexInv for the types, OneSeller and SeenStays for
\* what the lock on the tenant's row protects.
SalesInv == KardexInv /\ OneSeller /\ SeenStays /\ SalesCovered

LEMMA SalesInit == Init => SalesInv
<1> SUFFICES ASSUME Init PROVE SalesInv
  OBVIOUS
<1>1. \A t \in Tasks : task[t].pc = "idle"
  BY DEF Init, IdleTask
<1>2. OneSeller /\ SeenStays
  BY <1>1 DEF OneSeller, SeenStays
<1>3. SalesCovered
  BY QuantityAssumption DEF Init, SalesCovered, Kinds
<1> QED
  BY <1>2, <1>3, KardexInit DEF SalesInv

\* A covered step keeps the sales covered.
LEMMA CoveredStays ==
  ASSUME GoodsType, GoodsType', SalesCovered, Documented, Covered
  PROVE  SalesCovered'
<1> SUFFICES ASSUME ~AllowNegativeStock, NEW p \in Products, moved'[p]["receipt"] = 0
             PROVE  stock'[p] + moved'[p]["out"] >= 0
  BY DEF SalesCovered
<1>1. stock[p] + moved[p]["out"] >= 0
  BY DEF Documented, SalesCovered
<1>2. stock'[p] + moved'[p]["out"] >= stock[p] + moved[p]["out"]
  BY DEF Covered
<1>3. /\ stock[p] \in Int /\ stock'[p] \in Int
      /\ moved[p]["out"] \in Nat /\ moved'[p]["out"] \in Nat
  BY DEF GoodsType, Kinds
<1> QED
  BY <1>1, <1>2, <1>3

\* A sale that was compared with what it read is covered by what is there.
LEMMA SaleCovered ==
  ASSUME OneLinePerProduct, GoodsType, GoodsType', TasksReady, SeenStays, SalesCovered,
         NEW t \in Tasks, Sell(t)
  PROVE  SalesCovered'
<1> DEFINE o == task[t].order
<1> SUFFICES ASSUME ~AllowNegativeStock, NEW p \in Products, moved'[p]["receipt"] = 0
             PROVE  stock'[p] + moved'[p]["out"] >= 0
  BY DEF SalesCovered
<1>1. o \in Orders
  BY DEF TasksReady, Ready, Sell, At
<1>2. o.total[p] \in Nat /\ o.largest[p] = o.total[p]
  BY <1>1, OrderTotals DEF OneLinePerProduct
<1>3. /\ stock[p] \in Int /\ stock'[p] \in Int /\ task[t].seen[p] \in Int
      /\ moved[p]["out"] \in Nat /\ moved'[p]["out"] \in Nat
  BY DEF GoodsType, TasksReady, TaskStates, Kinds
<1>4. task[t].pc = "sell" /\ task[t].unread = {}
  BY DEF Sell, At, TasksReady, Ready
<1>5. CASE UNCHANGED <<stock, moved>>
  BY <1>5 DEF SalesCovered
<1>6. CASE /\ Suffices(t)
           /\ stock' = [q \in Products |-> stock[q] - o.total[q]]
           /\ RecordOrder(o, "sale")
  <2>1. /\ stock'[p] = stock[p] - o.total[p]
        /\ moved'[p]["receipt"] = moved[p]["receipt"] /\ moved'[p]["out"] = moved[p]["out"]
    BY <1>6 DEF RecordOrder, GoodsType, Kinds
  <2>2. CASE o.total[p] = 0
    BY <1>3, <2>1, <2>2 DEF SalesCovered
  <2>3. CASE o.total[p] # 0
    <3>1. task[t].seen[p] >= o.total[p]
      BY <1>2, <1>6, <2>3 DEF Suffices
    <3>2. stock[p] + moved[p]["out"] >= task[t].seen[p]
      BY <1>4, <2>1 DEF SeenStays, Sell, At
    <3> QED
      BY <1>2, <1>3, <2>1, <3>1, <3>2
  <2> QED
    BY <2>2, <2>3
<1> QED
  BY <1>5, <1>6 DEF Sell

\* Every step keeps the invariant.
LEMMA SalesStep == ASSUME OneLinePerProduct PROVE SalesInv /\ [Next]_vars => SalesInv'
<1> SUFFICES ASSUME SalesInv, [Next]_vars PROVE SalesInv'
  OBVIOUS
<1>1. KardexInv'
  BY KardexStep DEF SalesInv
<1>2. /\ GoodsType /\ TasksReady /\ OneSeller /\ SeenStays /\ SalesCovered
      /\ GoodsType' /\ TasksReady'
  BY <1>1 DEF SalesInv, KardexInv
<1>3. Documented /\ (Covered \/ \E t \in Tasks : Sell(t))
  BY <1>2, SoundNext DEF Sound
<1>4. ASSUME NEW t \in Tasks, NEW p \in Products, Prefetch(t, p)
      PROVE  OneSeller' /\ SeenStays' /\ SalesCovered'
  <2> DEFINE s == [task[t] EXCEPT !.pc = IF task[t].unread = {p} THEN "sell" ELSE "prefetch",
                                  !.seen[p] = stock[p], !.unread = @ \ {p}]
  <2>1. \A u \in Tasks : task'[u] = IF u = t THEN s ELSE task[u]
    BY <1>2, <1>4 DEF Prefetch, Become, TasksReady
  <2>2. task[t] \in TaskStates /\ task[t].pc = "prefetch"
    BY <1>2, <1>4 DEF Prefetch, At, TasksReady
  <2>3. /\ s.unread = task[t].unread \ {p}
        /\ \A q \in Products : s.seen[q] = IF q = p THEN stock[p] ELSE task[t].seen[q]
    BY <2>2 DEF TaskStates
  <2>4. \A u \in Tasks : u # t => task'[u] = task[u] /\ task[u].pc \notin Sellers
    BY <1>2, <2>1, <2>2 DEF OneSeller, Sellers
  <2>5. stock' = stock /\ moved' = moved
    BY <1>4 DEF Prefetch, goods
  <2>6. \A q \in Products : stock[q] \in Int /\ moved[q]["out"] \in Nat
    BY <1>2 DEF GoodsType, Kinds
  <2>7. OneSeller'
    BY <2>4 DEF OneSeller, Sellers
  <2>8. task'[t].unread = s.unread /\ task'[t].seen = s.seen
    BY <2>1
  <2>9. ASSUME NEW q \in Products \ task'[t].unread, moved'[q]["receipt"] = 0
        PROVE  stock'[q] + moved'[q]["out"] >= task'[t].seen[q]
    <3>1. CASE q = p
      BY <2>3, <2>5, <2>6, <2>8, <3>1
    <3>2. CASE q # p
      BY <1>2, <2>2, <2>3, <2>5, <2>8, <2>9, <3>2 DEF SeenStays
    <3> QED
      BY <3>1, <3>2
  <2>10. SeenStays'
    BY <2>4, <2>9 DEF SeenStays, Sellers
  <2> QED
    BY <1>2, <2>5, <2>7, <2>10 DEF SalesCovered
<1>5. ASSUME NEW t \in Tasks, Sell(t)
      PROVE  OneSeller' /\ SeenStays' /\ SalesCovered'
  <2>1. \A u \in Tasks : task'[u] = IF u = t THEN IdleTask ELSE task[u]
    BY <1>2, <1>5 DEF Sell, End, Become, TasksReady
  <2>2. \A u \in Tasks : task'[u].pc \notin Sellers
    BY <1>2, <1>5, <2>1 DEF Sell, At, OneSeller, Sellers, IdleTask
  <2>3. OneSeller' /\ SeenStays'
    BY <2>2 DEF OneSeller, SeenStays, Sellers
  <2> QED
    BY <1>2, <1>5, <2>3, SaleCovered
<1>6. ASSUME Covered, NEW t \in Tasks, ~TenantLocked, ReadsNothing(task'[t]),
             \A u \in Tasks \ {t} : task'[u] = task[u]
      PROVE  OneSeller' /\ SeenStays'
  <2>1. \A u \in Tasks \ {t} : task'[u].pc \notin Sellers
    BY <1>6 DEF TenantLocked, Sellers
  <2> QED
    BY <1>6, <2>1 DEF OneSeller, SeenStays, Sellers, ReadsNothing
<1>7. ASSUME Covered, \A t \in Tasks : task'[t].pc \in Sellers => task'[t] = task[t]
      PROVE  OneSeller' /\ SeenStays'
  BY <1>2, <1>3, <1>7, SellersStay
<1>8. ASSUME Covered, ~ \E t \in Tasks, p \in Products : Prefetch(t, p)
      PROVE  OneSeller' /\ SeenStays' /\ SalesCovered'
  BY <1>2, <1>3, <1>6, <1>7, <1>8, NewSellers, CoveredStays
<1>9. OneSeller' /\ SeenStays' /\ SalesCovered'
  BY <1>3, <1>4, <1>5, <1>8
<1> QED
  BY <1>1, <1>9 DEF SalesInv

\* When every order has one line per product, invoices never sell what is not
\* there: however many requests run at the same time, the stock falls below zero
\* by no more than what other withdrawals took from it.
THEOREM SalesNeverOversell == ASSUME OneLinePerProduct PROVE Spec => []SalesCovered
<1>1. SalesInv => SalesCovered
  BY DEF SalesInv
<1>2. SalesInv /\ [Next]_vars => SalesInv'
  BY SalesStep
<1> QED
  BY SalesInit, <1>1, <1>2, PTL DEF Spec

-----------------------------------------------------------------------------
\* The invoice numbers.

Booked(i) == entries[<<"invoice", i>>]

\* A step that gives no invoice a number and books none.
SameNumbers ==
    /\ last' = last
    /\ \A i \in Invoices : /\ Used(i)' = Used(i)
                           /\ invoices'[i].number = invoices[i].number
                           /\ Booked(i)' = Booked(i)

\* An entry of another kind books no invoice.
LEMMA OtherEntries ==
  ASSUME entries \in [Documents -> Nat], NEW d \in Documents, d[1] # "invoice",
         entries' = [entries EXCEPT ![d] = @ + 1]
  PROVE  entries' \in [Documents -> Nat] /\ \A i \in Invoices : Booked(i)' = Booked(i)
<1>1. \A i \in Invoices : <<"invoice", i>> \in Documents /\ <<"invoice", i>> # d
  BY DEF Documents
<1>2. entries' \in [Documents -> Nat]
  OBVIOUS
<1> QED
  BY <1>1, <1>2 DEF Booked

\* Only a sale numbers an invoice.
LEMMA NumbersFrame ==
  ASSUME GoodsType, TasksReady, entries \in [Documents -> Nat], [Next]_vars,
         ~ \E t \in Tasks : Sell(t)
  PROVE  SameNumbers /\ entries' \in [Documents -> Nat]
<1>0. /\ invoices \in [Invoices -> InvoiceRows] /\ last \in Nat
      /\ \A i \in Invoices : invoices[i].status \in InvoiceStatus \union {"none", "removed"}
  BY DEF GoodsType, InvoiceRows
<1>1. ASSUME UNCHANGED <<last, invoices, entries>>
      PROVE  SameNumbers /\ entries' \in [Documents -> Nat]
  BY <1>1 DEF SameNumbers, Used, Booked
<1>2. ASSUME NEW i \in Invoices, Row(i), NEW s \in InvoiceStatus \union {"removed"},
             invoices' = [invoices EXCEPT ![i].status = s]
      PROVE  \A j \in Invoices : Used(j)' = Used(j) /\ invoices'[j].number = invoices[j].number
  <2>1. invoices[i].status # "none" /\ s # "none"
    BY <1>2 DEF Row, InvoiceStatus
  <2>2. invoices' = [invoices EXCEPT ![i] = [invoices[i] EXCEPT !.status = s]]
    BY <1>2
  <2>3. [invoices[i] EXCEPT !.status = s].status = s
        /\ [invoices[i] EXCEPT !.status = s].number = invoices[i].number
    BY <1>0 DEF InvoiceRows
  <2>4. ASSUME NEW j \in Invoices
        PROVE  (invoices'[j].status # "none") = (invoices[j].status # "none")
               /\ invoices'[j].number = invoices[j].number
    <3>1. CASE j = i
      BY <1>0, <2>1, <2>2, <2>3, <3>1
    <3>2. CASE j # i
      BY <1>0, <2>2, <3>2
    <3> QED
      BY <3>1, <3>2
  <2> QED
    BY <2>4 DEF Used
<1>3. ASSUME NEW i \in Invoices, NEW s \in InvoiceStatus, SetInvoice(i, s)
      PROVE  SameNumbers /\ entries' \in [Documents -> Nat]
  <2>1. <<"payment_in", i>> \in Documents /\ <<"payment_in", i>>[1] # "invoice"
    BY DEF Documents
  <2>2. \/ UNCHANGED entries
        \/ entries' = [entries EXCEPT ![<<"payment_in", i>>] = @ + 1]
    BY <1>3 DEF SetInvoice, Enter
  <2>3. entries' \in [Documents -> Nat] /\ \A j \in Invoices : Booked(j)' = Booked(j)
    BY <2>1, <2>2, OtherEntries DEF Booked
  <2> QED
    BY <1>2, <1>3, <2>3 DEF SetInvoice, SameNumbers
<1>4. ASSUME NEW i \in Invoices, RemoveInvoice(i)
      PROVE  SameNumbers /\ entries' \in [Documents -> Nat]
  BY <1>2, <1>4 DEF RemoveInvoice, SameNumbers, Booked
<1>5. ASSUME NEW t \in Tasks, Reverse(t)
      PROVE  SameNumbers /\ entries' \in [Documents -> Nat]
  <2>1. task[t].id \in Invoices /\ Row(task[t].id) /\ UNCHANGED <<last, entries>>
        /\ invoices' = [invoices EXCEPT ![task[t].id].status = "cancelled"]
    BY <1>5 DEF Reverse, TasksReady, Ready, At
  <2> QED
    BY <1>2, <2>1 DEF SameNumbers, Booked, InvoiceStatus
<1>6. ASSUME NEW t \in Tasks, Buy(t)
      PROVE  SameNumbers /\ entries' \in [Documents -> Nat]
  <2> DEFINE d == <<"purchase", task[t].id>>
  <2>1. UNCHANGED <<last, invoices>> /\ entries' = [entries EXCEPT ![d] = @ + 1]
    BY <1>6 DEF Buy, Enter
  <2>2. CASE d \in Documents
    BY <2>1, <2>2, OtherEntries DEF SameNumbers, Used
  <2>3. CASE d \notin Documents
    BY <2>1, <2>3 DEF SameNumbers, Used, Booked
  <2> QED
    BY <2>2, <2>3
<1>7. ASSUME NEW t \in Tasks, Pay(t)
      PROVE  SameNumbers /\ entries' \in [Documents -> Nat]
  <2> DEFINE d == <<"payment_out", task[t].id>>
  <2>1. UNCHANGED <<last, invoices>> /\ entries' = [entries EXCEPT ![d] = @ + 1]
    BY <1>7 DEF Pay, Enter
  <2>2. CASE d \in Documents
    BY <2>1, <2>2, OtherEntries DEF SameNumbers, Used
  <2>3. CASE d \notin Documents
    BY <2>1, <2>3 DEF SameNumbers, Used, Booked
  <2> QED
    BY <2>2, <2>3
<1>8. ASSUME NEW t \in Tasks, Request(t)
      PROVE  UNCHANGED <<last, invoices, entries>>
  BY <1>8 DEF Request, Create, Cancel, Purchase, SetPurchase, ReceiveTransfer, OnProduct, Movement,
     Audit, Receipt, Transfer, documents
<1>9. ASSUME NEW t \in Tasks, \/ \E p \in Products : Prefetch(t, p)
                              \/ Move(t) \/ Dispatch(t) \/ Arrive(t) \/ Adjust(t) \/ Receive(t)
                              \/ Abort(t)
      PROVE  UNCHANGED <<last, invoices, entries>>
  BY <1>9 DEF Prefetch, Move, Dispatch, Arrive, Adjust, Receive, Abort, documents
<1>10. CASE \/ \E u \in Purchases : RemovePurchase(u)
            \/ UNCHANGED vars
  BY <1>1, <1>10 DEF RemovePurchase, vars, documents
<1> QED
  BY <1>1, <1>3, <1>4, <1>5, <1>6, <1>7, <1>8, <1>9, <1>10 DEF Next, Work

UsedInvoices == {i \in Invoices : Used(i)}

\* The invoices about to be sold have no row yet, and are sold by one request each.
SellsNew ==
    \A t \in Tasks : task[t].pc \in {"prefetch", "sell"} =>
       /\ ~Used(task[t].id)
       /\ \A u \in Tasks \ {t} : task[u].pc \in {"prefetch", "sell"} => task[u].id # task[t].id

NumbersInv ==
    /\ KardexInv
    /\ entries \in [Documents -> Nat]
    /\ IsFiniteSet(UsedInvoices)
    /\ SellsNew
    /\ NumbersBooked

\* At first no invoice has a number.
LEMMA NumbersInit == Init => NumbersInv
<1> SUFFICES ASSUME Init PROVE NumbersInv
  OBVIOUS
<1>1. UsedInvoices = {} /\ \A i \in Invoices : ~Used(i)
  BY DEF Init, UsedInvoices, Used, NoInvoice
<1>2. IsFiniteSet(UsedInvoices) /\ Cardinality(UsedInvoices) = 0
  BY <1>1, FS_EmptySet
<1>3. entries \in [Documents -> Nat] /\ \A i \in Invoices : entries[<<"invoice", i>>] = 0
  BY DEF Init, Documents
<1>4. last = 0 /\ 1 .. last = {}
  BY DEF Init
<1>5. NumbersBooked
  BY <1>1, <1>2, <1>3, <1>4 DEF NumbersBooked, UsedInvoices
<1>6. SellsNew
  BY DEF Init, SellsNew, IdleTask
<1> QED
  BY <1>2, <1>3, <1>5, <1>6, KardexInit DEF NumbersInv

\* A sale that fails leaves the number to the next one.
LEMMA RefusedSale ==
  ASSUME GoodsType, entries \in [Documents -> Nat], NEW t \in Tasks, Sell(t), ~Suffices(t)
  PROVE  SameNumbers /\ entries' \in [Documents -> Nat]
  BY DEF Sell, SameNumbers, Used, Booked

\* A step that numbers nothing keeps the numbers.
LEMMA NumbersSame ==
  ASSUME NumbersInv, SameNumbers
  PROVE  NumbersBooked' /\ IsFiniteSet(UsedInvoices')
<1>1. UsedInvoices' = UsedInvoices
  BY DEF SameNumbers, UsedInvoices
<1>2. {invoices'[i].number : i \in UsedInvoices'} = {invoices[i].number : i \in UsedInvoices}
  BY <1>1 DEF SameNumbers, UsedInvoices
<1>3. \A i \in Invoices : entries'[<<"invoice", i>>] = IF Used(i)' THEN 1 ELSE 0
  BY DEF NumbersInv, NumbersBooked, SameNumbers, Booked
<1>4. last' = last
  BY DEF SameNumbers
<1>5. NumbersBooked'
  BY <1>1, <1>2, <1>3, <1>4 DEF NumbersInv, NumbersBooked, UsedInvoices
<1> QED
  BY <1>1, <1>5 DEF NumbersInv

\* A sale takes the next number and books its invoice.
LEMMA NumberedSale ==
  ASSUME NumbersInv, NEW t \in Tasks, Sell(t), Suffices(t), NEW n, n = task[t].id
  PROVE  /\ NumbersBooked' /\ IsFiniteSet(UsedInvoices') /\ entries' \in [Documents -> Nat]
         /\ \A i \in Invoices : Used(i)' => Used(i) \/ i = n
<1> DEFINE r == [status |-> "emitted", number |-> last + 1, order |-> task[t].order]
           d == <<"invoice", n>>
<1>1. n \in Invoices /\ ~Used(n) /\ last \in Nat /\ invoices \in [Invoices -> InvoiceRows]
  BY DEF Sell, At, NumbersInv, KardexInv, SellsNew, TasksReady, Ready, GoodsType
<1>2. last' = last + 1 /\ invoices' = [invoices EXCEPT ![n] = r]
      /\ entries' = [entries EXCEPT ![d] = @ + 1]
  BY DEF Sell, Enter
<1>3. /\ invoices'[n].status # "none" /\ invoices'[n].number = last + 1
      /\ \A i \in Invoices \ {n} : invoices'[i] = invoices[i]
  BY <1>1, <1>2
<1>4. Used(n)' /\ \A i \in Invoices \ {n} : Used(i)' = Used(i)
  BY <1>3 DEF Used
<1>5. d \in Documents /\ \A i \in Invoices : <<"invoice", i>> \in Documents /\ (<<"invoice", i>> = d <=> i = n)
  BY <1>1 DEF Documents
<1>6. /\ entries' \in [Documents -> Nat]
      /\ \A i \in Invoices : entries'[<<"invoice", i>>] = IF Used(i)' THEN 1 ELSE 0
  <2>1. entries \in [Documents -> Nat] /\ entries[d] = 0
    BY <1>1 DEF NumbersInv, NumbersBooked
  <2>2. ASSUME NEW i \in Invoices
        PROVE  entries'[<<"invoice", i>>] = IF Used(i)' THEN 1 ELSE 0
    <3>1. CASE i = n
      BY <1>2, <1>4, <1>5, <2>1, <3>1
    <3>2. CASE i # n
      <4>1. entries'[<<"invoice", i>>] = entries[<<"invoice", i>>]
        BY <1>2, <1>5, <2>1, <3>2
      <4>2. Used(i)' = Used(i)
        BY <1>4, <3>2
      <4> QED
        BY <4>1, <4>2 DEF NumbersInv, NumbersBooked
    <3> QED
      BY <3>1, <3>2
  <2> QED
    BY <1>2, <1>5, <2>1, <2>2
<1>7. UsedInvoices' = UsedInvoices \union {n} /\ n \notin UsedInvoices
  BY <1>1, <1>4 DEF UsedInvoices
<1>8. IsFiniteSet(UsedInvoices') /\ Cardinality(UsedInvoices') = Cardinality(UsedInvoices) + 1
  BY <1>7, FS_AddElement DEF NumbersInv
<1>9. {invoices'[i].number : i \in UsedInvoices'} = (1 .. last) \union {last + 1}
  <2>1. {invoices[i].number : i \in UsedInvoices} = 1 .. last
    BY DEF NumbersInv, NumbersBooked, UsedInvoices
  <2>2. \A i \in UsedInvoices : invoices'[i].number = invoices[i].number
    BY <1>3, <1>7 DEF UsedInvoices
  <2> QED
    BY <1>3, <1>7, <2>1, <2>2
<1>10. (1 .. last) \union {last + 1} = 1 .. last + 1
  BY <1>1
<1>11. Cardinality(UsedInvoices) = last
  BY DEF NumbersInv, NumbersBooked, UsedInvoices
<1>12. NumbersBooked'
  BY <1>2, <1>6, <1>8, <1>9, <1>10, <1>11 DEF NumbersBooked, UsedInvoices
<1> QED
  BY <1>4, <1>6, <1>8, <1>12

\* Every step keeps the numbers.
LEMMA NumbersStep == NumbersInv /\ OneSeller /\ [Next]_vars => NumbersInv'
<1> SUFFICES ASSUME NumbersInv, OneSeller, [Next]_vars PROVE NumbersInv'
  OBVIOUS
<1> DEFINE Selling == {"prefetch", "sell"}
<1>0. GoodsType /\ TasksReady /\ entries \in [Documents -> Nat] /\ SellsNew
  BY DEF NumbersInv, KardexInv
<1>1. KardexInv'
  BY KardexStep DEF NumbersInv
<1>2. ASSUME ~ \E t \in Tasks : Sell(t) /\ Suffices(t)
      PROVE  SameNumbers /\ entries' \in [Documents -> Nat]
  BY <1>0, <1>2, NumbersFrame, RefusedSale
<1>3. NumbersBooked' /\ IsFiniteSet(UsedInvoices') /\ entries' \in [Documents -> Nat]
  BY <1>2, NumbersSame, NumberedSale
<1>4. \A i \in Invoices : Used(i)' => Used(i) \/ \E t \in Tasks : Sell(t) /\ i = task[t].id
  BY <1>2, NumberedSale DEF SameNumbers
<1>5. ASSUME NEW t \in Tasks, task'[t].pc \in Selling
      PROVE  /\ invoices'[task'[t].id].status = "none"
             /\ \A u \in Tasks \ {t} : task'[u].pc \notin Selling
  <2>1. task'[t].id \in Invoices
    BY <1>1, <1>5 DEF KardexInv, TasksReady, Ready
  <2>2. CASE task'[t] = task[t]
    <3>1. task[t].pc \in Selling /\ ~Used(task[t].id)
      BY <1>0, <1>5, <2>2 DEF SellsNew
    <3>2. \A u \in Tasks \ {t} : task[u].pc \notin Sellers
      BY <3>1 DEF OneSeller, Sellers
    <3>3. \A u \in Tasks : ~Sell(u)
      <4>1. \A u \in Tasks \ {t} : ~Sell(u)
        BY <3>2 DEF Sell, At, Sellers
      <4>2. ~Sell(t)
        BY <1>0, <1>5, <2>2 DEF Sell, End, Become, TasksReady, IdleTask
      <4> QED
        BY <4>1, <4>2
    <3>4. invoices'[task'[t].id].status = "none"
      BY <1>4, <2>1, <2>2, <3>1, <3>3 DEF Used
    <3>5. ASSUME NEW u \in Tasks \ {t}, task'[u].pc \in Selling PROVE FALSE
      <4>1. TenantLocked
        BY <3>1 DEF TenantLocked
      <4>2. task'[u] # task[u] /\ \A p \in Products : ~Prefetch(u, p)
        BY <3>2, <3>5 DEF Sellers, Prefetch, At
      <4> QED
        BY <1>0, <3>5, <4>1, <4>2, NewSellers DEF Sellers
    <3> QED
      BY <3>4, <3>5
  <2>3. CASE \E p \in Products : Prefetch(t, p)
    <3>1. PICK p \in Products : Prefetch(t, p)
      BY <2>3
    <3> DEFINE s == [task[t] EXCEPT !.pc = IF task[t].unread = {p} THEN "sell" ELSE "prefetch",
                                    !.seen[p] = stock[p], !.unread = @ \ {p}]
    <3>2. s.id = task[t].id /\ Become(t, s) /\ UNCHANGED invoices /\ task[t].pc = "prefetch"
      BY <1>0, <3>1 DEF Prefetch, At, documents, TasksReady, TaskStates
    <3> HIDE DEF s
    <3>3. task'[t].id = task[t].id /\ \A u \in Tasks \ {t} : task'[u] = task[u]
      BY <1>0, <3>2 DEF Become, TasksReady
    <3>4. \A u \in Tasks \ {t} : task[u].pc \notin Sellers
      BY <3>2 DEF OneSeller, Sellers
    <3>5. ~Used(task[t].id) /\ invoices' = invoices
      BY <1>0, <3>2 DEF SellsNew
    <3>6. invoices'[task'[t].id].status = "none"
      BY <3>3, <3>5 DEF Used
    <3> QED
      BY <3>3, <3>4, <3>6 DEF Sellers
  <2>4. CASE /\ ~TenantLocked
             /\ task'[t].pc # "buy" => ~Used(task'[t].id)
             /\ \A u \in Tasks \ {t} : task'[u] = task[u]
    <3>1. \A u \in Tasks : task[u].pc \notin Sellers
      BY <2>4 DEF TenantLocked, Sellers
    <3>2. \A u \in Tasks : ~Sell(u)
      BY <3>1 DEF Sell, At, Sellers
    <3>3. invoices'[task'[t].id].status = "none"
      BY <1>4, <1>5, <2>1, <2>4, <3>2 DEF Used
    <3> QED
      BY <2>4, <3>1, <3>3 DEF Sellers
  <2> QED
    BY <1>0, <1>5, <2>2, <2>3, <2>4, NewSellers DEF Sellers
<1>6. SellsNew'
  BY <1>5 DEF SellsNew, Used
<1> QED
  BY <1>1, <1>3, <1>6 DEF NumbersInv

\* The lock on the tenant's row makes one seller.
LEMMA OneSellerStep == TasksReady /\ OneSeller /\ [Next]_vars => OneSeller'
<1> SUFFICES ASSUME TasksReady, OneSeller, [Next]_vars PROVE OneSeller'
  OBVIOUS
<1>1. ASSUME NEW t \in Tasks, NEW u \in Tasks, t # u,
             task'[t].pc \in Sellers, task'[u].pc \in Sellers, task[u].pc \notin Sellers
      PROVE  FALSE
  <2>1. task'[u] # task[u] /\ ~ \E p \in Products : Prefetch(u, p)
    BY <1>1 DEF Sellers, Prefetch, At
  <2>2. ~TenantLocked /\ task'[t] = task[t]
    BY <1>1, <2>1, NewSellers
  <2> QED
    BY <1>1, <2>2 DEF TenantLocked, Sellers
<1>2. ASSUME NEW t \in Tasks, NEW u \in Tasks, t # u,
             task'[t].pc \in Sellers, task'[u].pc \in Sellers
      PROVE  FALSE
  <2>1. task[t].pc \notin Sellers \/ task[u].pc \notin Sellers
    BY <1>2 DEF OneSeller, Sellers
  <2> QED
    BY <1>1, <1>2, <2>1
<1> QED
  BY <1>2 DEF OneSeller, Sellers

\* Invoice numbers are consecutive and without repetition, for any number of
\* requests, and each invoice is booked once: a sale that is refused, aborted or
\* loses its transaction leaves no gap.
THEOREM NumbersConsecutive == Spec => []NumbersBooked
<1>1. Init => NumbersInv /\ OneSeller
  BY NumbersInit DEF Init, OneSeller, IdleTask
<1>2. NumbersInv /\ OneSeller /\ [Next]_vars => OneSeller'
  BY OneSellerStep DEF NumbersInv, KardexInv
<1>3. NumbersInv => NumbersBooked
  BY DEF NumbersInv
<1> QED
  BY <1>1, <1>2, <1>3, NumbersStep, PTL DEF Spec

-----------------------------------------------------------------------------
\* Types, and what the locations hold.

\* What a transaction has read is not negative, and suffices for what it takes.
Held(s) ==
    /\ s.at \in [Locations -> Nat]
    /\ s.pc = "dispatch" => s.at[s.from] >= s.quantity

PlacesHold ==
    /\ place \in [Products -> [Locations -> Nat]]
    /\ \A t \in Tasks : Held(task[t])

TypeInv == KardexInv /\ TypeOK /\ PlacesHold

\* The idle task holds nothing.
LEMMA IdleHeld == Held(IdleTask)
  BY DEF Held, IdleTask

\* A task that changes alone, the places as they were.
LEMMA HeldStays ==
  ASSUME TasksReady, PlacesHold, NEW t \in Tasks, NEW s, Held(s), Become(t, s),
         place' \in [Products -> [Locations -> Nat]]
  PROVE  PlacesHold'
<1>1. \A u \in Tasks : task'[u] = IF u = t THEN s ELSE task[u]
  BY DEF TasksReady, Become
<1> QED
  BY <1>1 DEF PlacesHold, Held

\* A request keeps what it has read of the locations.
LEMMA HeldRequest ==
  ASSUME TasksReady, PlacesHold, GoodsType, NEW t \in Tasks, Request(t)
  PROVE  PlacesHold'
<1>0. place \in [Products -> [Locations -> Nat]]
  BY DEF PlacesHold
<1>1. ASSUME NEW s, Held(s), Become(t, s), UNCHANGED goods
      PROVE  PlacesHold'
  BY <1>0, <1>1, HeldStays DEF goods
<1>2. ASSUME NEW i \in Invoices, NEW o \in Orders, Create(t, i, o)
      PROVE  PlacesHold'
  <2>1. Held([IdleTask EXCEPT !.pc = "prefetch", !.id = i, !.order = o, !.unread = Products])
    BY IdleHeld DEF Held, IdleTask
  <2> QED
    BY <1>1, <1>2, <2>1 DEF Create
<1>3. ASSUME NEW i \in Invoices, Cancel(t, i)
      PROVE  PlacesHold'
  <2>1. Held([IdleTask EXCEPT !.pc = "reverse", !.id = i])
    BY DEF Held, IdleTask
  <2> QED
    BY <1>1, <1>3, <2>1 DEF Cancel
<1>4. ASSUME NEW u \in Purchases, NEW o \in Orders, Purchase(t, u, o)
      PROVE  PlacesHold'
  <2>1. Held([IdleTask EXCEPT !.pc = "buy", !.id = u, !.order = o])
    BY DEF Held, IdleTask
  <2> QED
    BY <1>1, <1>4, <2>1 DEF Purchase
<1>5. ASSUME NEW u \in Purchases, NEW s \in PurchaseStatus, SetPurchase(t, u, s)
      PROVE  PlacesHold'
  <2>1. Held([IdleTask EXCEPT !.pc = "pay", !.id = u])
    BY DEF Held, IdleTask
  <2>2. CASE s = "paid"
    BY <1>1, <1>5, <2>1, <2>2 DEF SetPurchase
  <2>3. CASE s # "paid"
    BY <1>5, <2>3 DEF SetPurchase, PlacesHold, Held, goods
  <2> QED
    BY <2>2, <2>3
<1>6. ASSUME NEW x \in Transfers, ReceiveTransfer(t, x)
      PROVE  PlacesHold'
  <2>1. transfers[x].product \in Products
    BY <1>6 DEF ReceiveTransfer, GoodsType
  <2>2. Held([Read("arrive", transfers[x].product, transfers[x].quantity)
                 EXCEPT !.id = x, !.to = transfers[x].to])
    BY <1>0, <2>1 DEF Held, Read, IdleTask
  <2> QED
    BY <1>1, <1>6, <2>2 DEF ReceiveTransfer
<1>7. ASSUME NEW p \in Products, NEW n \in Quantities, NEW k \in {"in", "out"},
             Movement(t, p, k, n)
      PROVE  PlacesHold'
  <2>1. Held([IdleTask EXCEPT !.pc = "move", !.product = p, !.quantity = n, !.kind = k])
    BY DEF Held, IdleTask
  <2> QED
    BY <1>1, <1>7, <2>1 DEF Movement
<1>8. ASSUME NEW p \in Products, NEW n, NEW l \in Locations, Audit(t, p, l, n)
      PROVE  PlacesHold'
  <2>1. Held([Read("adjust", p, n) EXCEPT !.to = l])
    BY <1>0 DEF Held, Read, IdleTask
  <2> QED
    BY <1>1, <1>8, <2>1 DEF Audit
<1>9. ASSUME NEW p \in Products, NEW n \in Quantities, NEW l \in Locations, Receipt(t, p, l, n)
      PROVE  PlacesHold'
  <2>1. Held([Read("receive", p, n) EXCEPT !.to = l, !.seen = stock])
    BY <1>0 DEF Held, Read, IdleTask
  <2> QED
    BY <1>1, <1>9, <2>1 DEF Receipt
<1>10. ASSUME NEW p \in Products, NEW n \in Quantities, NEW l \in Locations,
              NEW x \in Transfers, NEW m \in Locations, Transfer(t, x, p, l, m, n)
       PROVE  PlacesHold'
  <2>1. place[p][l] >= n
    BY <1>10 DEF Transfer, Available
  <2>2. Held([Read("dispatch", p, n) EXCEPT !.id = x, !.from = l, !.to = m])
    BY <1>0, <2>1 DEF Held, Read, IdleTask
  <2> QED
    BY <1>1, <1>10, <2>2 DEF Transfer
<1> QED
  BY <1>2, <1>3, <1>4, <1>5, <1>6, <1>7, <1>8, <1>9, <1>10 DEF Request, OnProduct

\* What is written back to the locations is not negative.
LEMMA HeldWork ==
  ASSUME TasksReady, PlacesHold, NEW t \in Tasks, Work(t) \/ Abort(t)
  PROVE  PlacesHold'
<1>0. /\ place \in [Products -> [Locations -> Nat]]
      /\ task[t] \in TaskStates /\ Ready(task[t]) /\ Held(task[t])
  BY DEF PlacesHold, TasksReady
<1>1. ASSUME End(t), place' \in [Products -> [Locations -> Nat]]
      PROVE  PlacesHold'
  BY <1>1, IdleHeld, HeldStays DEF End
<1>2. ASSUME NEW p \in Products, NEW l \in Locations, NEW n \in Nat,
             Put(p, [task[t].at EXCEPT ![l] = n])
      PROVE  place' \in [Products -> [Locations -> Nat]]
  BY <1>0, <1>2 DEF Put, Held
<1>3. ASSUME NEW p \in Products, Prefetch(t, p)
      PROVE  PlacesHold'
  <2> DEFINE s == [task[t] EXCEPT !.pc = IF task[t].unread = {p} THEN "sell" ELSE "prefetch",
                                  !.seen[p] = stock[p], !.unread = @ \ {p}]
  <2>1. s.at = task[t].at /\ s.pc # "dispatch"
    BY <1>0 DEF TaskStates
  <2>2. Become(t, s) /\ place' \in [Products -> [Locations -> Nat]]
    BY <1>0, <1>3 DEF Prefetch, goods
  <2> HIDE DEF s
  <2>3. Held(s)
    BY <1>0, <2>1 DEF Held
  <2> QED
    BY <2>2, <2>3, HeldStays
<1>4. CASE Sell(t) \/ Reverse(t) \/ Buy(t) \/ Pay(t) \/ Move(t) \/ Abort(t)
  BY <1>0, <1>1, <1>4 DEF Sell, Reverse, Buy, Pay, Move, Abort, goods
<1>5. CASE Dispatch(t)
  <2>1. /\ task[t].product \in Products /\ task[t].from \in Locations /\ task[t].quantity \in Nat
        /\ task[t].at \in [Locations -> Nat]
        /\ task[t].at[task[t].from] >= task[t].quantity
    BY <1>0, <1>5 DEF Dispatch, At, Ready, TaskStates, Held
  <2>2. task[t].at[task[t].from] - task[t].quantity \in Nat
    BY <2>1
  <2> QED
    BY <1>1, <1>2, <1>5, <2>1, <2>2 DEF Dispatch
<1>6. CASE Arrive(t) \/ Receive(t)
  <2>1. /\ task[t].product \in Products /\ task[t].to \in Locations /\ task[t].quantity \in Nat
        /\ task[t].at \in [Locations -> Nat]
    BY <1>0, <1>6 DEF Arrive, Receive, At, Ready, TaskStates, Held
  <2>2. task[t].at[task[t].to] + task[t].quantity \in Nat
    BY <2>1
  <2> QED
    BY <1>1, <1>2, <1>6, <2>1, <2>2 DEF Arrive, Receive
<1>7. CASE Adjust(t)
  <2>1. task[t].product \in Products /\ task[t].to \in Locations /\ task[t].quantity \in Nat
    BY <1>0, <1>7 DEF Adjust, At, Ready, TaskStates
  <2> QED
    BY <1>1, <1>2, <1>7, <2>1 DEF Adjust
<1> QED
  BY <1>3, <1>4, <1>5, <1>6, <1>7 DEF Work

\* No step takes from a location what it does not hold.
LEMMA HeldStep ==
  ASSUME GoodsType, TasksReady, PlacesHold, [Next]_vars
  PROVE  PlacesHold'
<1>1. CASE \/ \E i \in Invoices : (\E s \in InvoiceStatus : SetInvoice(i, s)) \/ RemoveInvoice(i)
           \/ \E u \in Purchases : RemovePurchase(u)
           \/ UNCHANGED vars
  <2>1. UNCHANGED <<place, task>>
    BY <1>1 DEF SetInvoice, RemoveInvoice, RemovePurchase, vars, goods
  <2> QED
    BY <2>1 DEF PlacesHold, Held
<1> QED
  BY <1>1, HeldRequest, HeldWork DEF Next

\* The entries stay natural numbers.
LEMMA EntriesStep ==
  ASSUME GoodsType, TasksReady, entries \in [Documents -> Nat], [Next]_vars
  PROVE  entries' \in [Documents -> Nat]
<1>1. ASSUME NEW t \in Tasks, Sell(t)
      PROVE  entries' \in [Documents -> Nat]
  BY <1>1 DEF Sell, Enter
<1> QED
  BY <1>1, NumbersFrame

\* Movements are recorded only up to the bound.
LEMMA MovesStep ==
  ASSUME GoodsType', moved \in [Products -> [Kinds -> 0 .. MaxMovements]], [Next]_vars
  PROVE  moved' \in [Products -> [Kinds -> 0 .. MaxMovements]]
<1>0. moved' \in [Products -> [Kinds -> Nat]]
  BY DEF GoodsType
<1>1. ASSUME NEW t \in Tasks, Request(t) \/ Abort(t)
      PROVE  moved' = moved
  BY <1>1 DEF Request, OnProduct, Create, Cancel, Purchase, SetPurchase, ReceiveTransfer, Movement,
     Audit, Receipt, Transfer, Abort, goods
<1>2. ASSUME NEW t \in Tasks, Work(t)
      PROVE  moved' = moved \/ Moves(moved')
  BY <1>2 DEF Work, Prefetch, Sell, Reverse, Buy, Pay, Move, Dispatch, Arrive, Adjust, Receive,
     goods, Record, RecordOrder
<1>3. ASSUME \/ \E i \in Invoices : (\E s \in InvoiceStatus : SetInvoice(i, s)) \/ RemoveInvoice(i)
             \/ \E u \in Purchases : RemovePurchase(u)
             \/ UNCHANGED vars
      PROVE  moved' = moved
  BY <1>3 DEF SetInvoice, RemoveInvoice, RemovePurchase, vars, goods
<1>4. moved' = moved \/ Moves(moved')
  BY <1>1, <1>2, <1>3 DEF Next
<1> QED
  BY <1>0, <1>4, SettingsAssumption DEF Moves

\* Purchases have one of their statuses.
LEMMA PurchasesStep ==
  ASSUME TasksReady, purchases \in [Purchases -> PurchaseStatus \union {"none", "removed"}],
         [Next]_vars
  PROVE  purchases' \in [Purchases -> PurchaseStatus \union {"none", "removed"}]
<1> DEFINE Status == PurchaseStatus \union {"none", "removed"}
<1>1. ASSUME NEW u, NEW s \in Status, purchases' = [purchases EXCEPT ![u] = s]
      PROVE  purchases' \in [Purchases -> Status]
  BY <1>1
<1>2. ASSUME NEW t \in Tasks, Request(t) \/ Abort(t)
      PROVE  UNCHANGED purchases \/ \E u \in Purchases, s \in PurchaseStatus : SetPurchase(t, u, s)
  BY <1>2 DEF Request, OnProduct, Create, Cancel, Purchase, ReceiveTransfer, Movement, Audit,
     Receipt, Transfer, Abort, documents
<1>3. ASSUME NEW t \in Tasks, Work(t)
      PROVE  UNCHANGED purchases \/ Buy(t)
  BY <1>3 DEF Work, Prefetch, Sell, Reverse, Pay, Move, Dispatch, Arrive, Adjust, Receive, documents
<1>4. CASE \/ \E i \in Invoices : (\E s \in InvoiceStatus : SetInvoice(i, s)) \/ RemoveInvoice(i)
           \/ UNCHANGED vars
  BY <1>4 DEF SetInvoice, RemoveInvoice, vars, documents
<1>5. ASSUME NEW t \in Tasks,
             Buy(t) \/ \E u \in Purchases, s \in PurchaseStatus : SetPurchase(t, u, s)
      PROVE  purchases' \in [Purchases -> Status]
  BY <1>1, <1>5 DEF SetPurchase, Buy, PurchaseStatus
<1>6. ASSUME NEW u \in Purchases, RemovePurchase(u)
      PROVE  purchases' \in [Purchases -> Status]
  BY <1>1, <1>6 DEF RemovePurchase
<1>7. ASSUME NEW t \in Tasks, Request(t) \/ Work(t) \/ Abort(t)
      PROVE  purchases' \in [Purchases -> Status]
  <2>1. CASE UNCHANGED purchases
    BY <2>1
  <2>2. CASE Buy(t) \/ \E u \in Purchases, s \in PurchaseStatus : SetPurchase(t, u, s)
    BY <1>5, <2>2
  <2> QED
    BY <1>2, <1>3, <1>7, <2>1, <2>2
<1> QED
  BY <1>4, <1>6, <1>7 DEF Next

\* No number is above the last one taken.
LEMMA LastStep ==
  ASSUME GoodsType, TasksReady, entries \in [Documents -> Nat], [Next]_vars,
         \A i \in Invoices : invoices[i].number \in 0 .. last
  PROVE  \A i \in Invoices : invoices'[i].number \in 0 .. last'
<1>1. CASE ~ \E t \in Tasks : Sell(t)
  BY <1>1, NumbersFrame DEF SameNumbers
<1>2. ASSUME NEW t \in Tasks, Sell(t)
      PROVE  \A i \in Invoices : invoices'[i].number \in 0 .. last'
  <2>1. last \in Nat /\ invoices \in [Invoices -> InvoiceRows]
    BY DEF GoodsType
  <2>2. CASE UNCHANGED <<last, invoices>>
    BY <2>2
  <2> DEFINE r == [status |-> "emitted", number |-> last + 1, order |-> task[t].order]
  <2>3. CASE last' = last + 1 /\ invoices' = [invoices EXCEPT ![task[t].id] = r]
    <3>1. r.number = last + 1
      OBVIOUS
    <3> HIDE DEF r
    <3>2. \A i \in Invoices : invoices'[i] = invoices[i] \/ invoices'[i] = r
      BY <2>1, <2>3
    <3> QED
      BY <2>1, <2>3, <3>1, <3>2
  <2> QED
    BY <1>2, <2>2, <2>3 DEF Sell
<1> QED
  BY <1>1, <1>2

\* At first nothing is stored anywhere.
LEMMA TypeInit == Init => TypeInv
<1> SUFFICES ASSUME Init PROVE TypeInv
  OBVIOUS
<1>1. KardexInv
  BY KardexInit
<1>2. PlacesHold
  BY IdleHeld DEF Init, PlacesHold
<1>3. TypeOK
  BY <1>1, <1>2, SettingsAssumption, QuantityAssumption
  DEF Init, TypeOK, PlacesHold, NoInvoice, NoTransfer, Used, IdleTask, Labels
<1> QED
  BY <1>1, <1>2, <1>3 DEF TypeInv

\* Every step keeps the types and what the locations hold.
LEMMA TypeStep == TypeInv /\ [Next]_vars => TypeInv'
<1> SUFFICES ASSUME TypeInv, [Next]_vars PROVE TypeInv'
  OBVIOUS
<1>1. GoodsType /\ TasksReady /\ KardexInv /\ PlacesHold /\ TypeOK
  BY DEF TypeInv, KardexInv
<1>2. KardexInv' /\ GoodsType' /\ TasksReady'
  BY <1>1, KardexStep DEF KardexInv
<1>3. PlacesHold'
  BY <1>1, HeldStep
<1>4. entries' \in [Documents -> Nat]
  BY <1>1, EntriesStep DEF TypeOK
<1>5. moved' \in [Products -> [Kinds -> 0 .. MaxMovements]]
  BY <1>1, <1>2, MovesStep DEF TypeOK
<1>6. purchases' \in [Purchases -> PurchaseStatus \union {"none", "removed"}]
  BY <1>1, PurchasesStep DEF TypeOK
<1>7. \A i \in Invoices : invoices'[i].number \in 0 .. last'
  BY <1>1, LastStep DEF TypeOK
<1>8. TypeOK'
  <2>1. stock' \in [Products -> Int] /\ last' \in Nat
    BY <1>2 DEF GoodsType
  <2>2. \A i \in Invoices : /\ invoices'[i].status \in InvoiceStatus \union {"none", "removed"}
                            /\ invoices'[i].status # "none" => invoices'[i].order \in Orders
    BY <1>2 DEF GoodsType, InvoiceRows, Used
  <2>3. \A x \in Transfers : transfers'[x].status \in {"none", "en_transito", "completado"}
    BY <1>2 DEF GoodsType, TransferRows
  <2>4. \A t \in Tasks : task'[t].pc \in Labels
    BY <1>2 DEF TasksReady, TaskStates
  <2>5. place' \in [Products -> [Locations -> Nat]]
    BY <1>3 DEF PlacesHold
  <2> QED
    BY <1>4, <1>5, <1>6, <1>7, <2>1, <2>2, <2>3, <2>4, <2>5 DEF TypeOK, Used
<1> QED
  BY <1>2, <1>3, <1>8 DEF TypeInv

\* The types of the goods and documents; and no location ever holds less than
\* nothing, although transfers, receipts and audits write its quantity back from a
\* read that took no lock: what is taken was there when it was read, and what was
\* read is what is written.
THEOREM LocationsNeverNegative == Spec => []TypeOK
<1>1. TypeInv => TypeOK
  BY DEF TypeInv
<1> QED
  BY TypeInit, TypeStep, <1>1, PTL DEF Spec
=============================================================================
