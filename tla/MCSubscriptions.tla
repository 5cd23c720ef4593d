--------------------------- MODULE MCSubscriptions ---------------------------
(***************************************************************************)
(* Instances of Subscriptions for TLC.                                     *)
(***************************************************************************)
EXTENDS Subscriptions, TLC

CONSTANTS n1, n2, x1, x2, x3, t1, t2, t3

\* One tenant pays everything; or the first transaction is the other tenant's.
OneTenant == [x \in Transactions |-> n1]
TwoTenants == [x \in Transactions |-> IF x = x1 THEN n2 ELSE n1]

\* Monthly plans; or the first transaction buys a longer cycle.
Monthly == [x \in Transactions |-> 1]
Mixed == [x \in Transactions |-> IF x = x1 THEN 2 ELSE 1]

Symmetry == Permutations(Tasks)
=============================================================================
