------------------------------ MODULE MCStock ------------------------------
(***************************************************************************)
(* Instances of Stock for TLC.                                             *)
(***************************************************************************)
EXTENDS Stock, TLC

CONSTANTS p1, p2, l1, l2, i1, i2, u1, x1, t1, t2, t3

\* One line per product and order.
Lines(n) == [total |-> n, largest |-> n]

\* One or two units of each product.
SomeOrders == {Lines([p \in Products |-> n]) : n \in 1 .. 2}

\* Two units of each product at first.
TwoEach == [p \in Products |-> 2]

VARIABLE mix  \* which requests compete in this behaviour

LabelsOf ==
    [sales |-> {"idle", "prefetch", "sell", "buy", "reverse", "pay", "move"},
     inventory |-> {"idle", "prefetch", "sell", "dispatch", "arrive", "adjust", "receive"}]

MixInit == Init /\ mix \in DOMAIN LabelsOf

\* Sales, cancellations, purchases and manual movements compete; or transfers,
\* audits, receipts and one sale do, with fewer movements of each kind.
MixNext ==
    /\ Next
    /\ UNCHANGED mix
    /\ \A t \in Tasks : task'[t].pc \in LabelsOf[mix]
    /\ mix = "inventory" =>
          /\ \A p \in Products, k \in Kinds : moved'[p][k] < MaxMovements
          /\ Cardinality({i \in Invoices : Used(i)'}) <= 1
          /\ task' # task

MixSpec == MixInit /\ [][MixNext]_<<vars, mix>>

Symmetry == Permutations(Tasks) \union Permutations(Invoices) \union Permutations(Locations)
=============================================================================
