------------------------------ MODULE MCDunning ------------------------------
(***************************************************************************)
(* Instances of Subscriptions in which a behaviour picks, at the start,    *)
(* what takes part in it.                                                  *)
(***************************************************************************)
EXTENDS MCSubscriptions

CONSTANT Mixes

VARIABLE mix

\* "payments": tenants without a trial pay around the end of a month.
\* "dunning":  one task works for the tenants, and the cron, over the months.
\* "all":      everything the constants allow.
ASSUME MixAssumption == Mixes \subseteq {"payments", "dunning", "all"}

TakesPart(t, x) == mix = "dunning" => t = t1 /\ x # x3

MixInit ==
    /\ Init
    /\ mix \in Mixes
    /\ mix = "payments" => rows = {}

MixNext ==
    /\ Next
    /\ UNCHANGED mix
    /\ mix = "payments" => now' <= 1
    /\ \A t \in Tasks : task'[t].pc = "idle" \/ TakesPart(t, task'[t].tx)

mixVars == <<vars, mix>>

\* The fairness of FairSpec, for what takes part; there is no liveness to ask of
\* the payments of two tenants.
Fair(A) == mix # "payments" /\ A /\ UNCHANGED mix

MixSpec ==
    /\ MixInit /\ [][MixNext]_mixVars
    /\ \A t \in Tasks : WF_mixVars(Fair(Work(t)))
    /\ \A x \in Transactions :
          SF_mixVars(Fair(x \notin acked /\ \E t \in Tasks : TakesPart(t, x) /\ Deliver(t, x)))
    /\ WF_mixVars(Fair(Dunning))
    /\ WF_mixVars(Fair(Tick))
=============================================================================
