----------------------------- MODULE MCOffice -----------------------------
(***************************************************************************)
(* Instances of the components that share no rows with one another, in one *)
(* run: a behaviour picks one of them at the start, which then takes all   *)
(* the steps.                                                              *)
(***************************************************************************)
EXTENDS Access, RateLimit, Backups, Assistant, Webhooks, ApiKeys, Offboarding,
    AfterPayment, ElectronicInvoices, Treasury, Approvals, FiniteSetsExt, TLC

CONSTANTS n1, n2, q1, k1,              \* Access
    f1, f2, h1, h2, s1,                \* Assistant
    w1, c1, c2, c3,                    \* Webhooks
    y1, y2, r1, r2, g1,                \* ApiKeys
    o1, o2, u1, u2, l1, l2,            \* Offboarding
    x1, x2, b1, b2,                    \* AfterPayment
    i1, t1, t2, m1, m2,                \* ElectronicInvoices
    d1, d2, p1, z1, j1,                \* Treasury
    v1, v2, e1, e2, a1, a2             \* Approvals

VARIABLE moving   \* the component that steps in this behaviour

\* Access: posting an entry, uploading a document, listing the users.
Route(permission, module, limit, guards) ==
    [public |-> FALSE, skipsOnboarding |-> FALSE, reads |-> FALSE, permission |-> permission,
     module |-> module, limit |-> limit, guards |-> guards]
SomeRoutes ==
    {Route("manage_accounting", NoValue, NoValue, <<"auth", "permissions">>),
     Route(NoValue, "ai", "maxOcrRunsPerMonth", <<"auth", "permissions">>),
     Route("view_users", NoValue, NoValue, <<"auth">>)}
Caps == [starter |-> [maxInvoicesPerMonth |-> 1, maxOcrRunsPerMonth |-> 1],
         pyme |-> [maxInvoicesPerMonth |-> NoValue, maxOcrRunsPerMonth |-> 2],
         enterprise |-> [maxInvoicesPerMonth |-> NoValue, maxOcrRunsPerMonth |-> NoValue]]
Required == [required : {TRUE}, enabled : BOOLEAN]
Enterprise == {[plan |-> "enterprise", active |-> TRUE, trial |-> "none"]}

\* Assistant.
SomePlan == (f1 :> "starter") @@ (f2 :> "pyme")

\* Offboarding: one person with two companies, one with one of them.
SomeMembers == {<<u1, o1>>, <<u1, o2>>, <<u2, o1>>}

\* ElectronicInvoices: kinds of request that touch the same rows, together.
SomeMixes == {
    {"send", "poll", "fault"},
    {"send", "poll", "config"},
    {"send", "cancel", "remove", "crash"},
    {"send", "poll", "byHand"}}

\* Treasury: an invoice without tax, and a purchase with a cent of it.
Totals == (d1 :> 2) @@ (d2 :> 4)
Subtotals == (d1 :> 1) @@ (d2 :> 3)
Taxes == (d1 :> 0) @@ (d2 :> 1)

\* Adding units adds up.
ASSUME SumsAddUp ==
    \A f \in [1 .. 4 -> -2 .. 2] : \A S \in SUBSET (1 .. 4) :
        SumOf(f, S) = MapThenSumSet(LAMBDA x : f[x], S)

\* Approvals: a file with a good row and a bad one.
SomeFiles == {<<[nit |-> v1, kind |-> "client"], [nit |-> NoId, kind |-> "client"]>>}

Components == {"access", "rate", "backups", "assistant", "webhooks", "keys", "offboarding", "payments",
    "invoicing", "treasury", "approvals"}

OfficeInit ==
    /\ moving \in Components
    /\ AccessInit
    /\ RateInit
    /\ BackupInit
    /\ AssistantInit
    /\ WebhookInit
    /\ ApiKeyInit
    /\ OffboardingInit
    /\ AfterPaymentInit
    /\ InvoicingInit
    /\ TreasuryInit
    /\ ApprovalInit

\* All but the one that steps stand still.
Rest ==
    /\ UNCHANGED moving
    /\ IF moving = "access" THEN TRUE ELSE UNCHANGED accessVars
    /\ IF moving = "rate" THEN TRUE ELSE UNCHANGED rateVars
    /\ IF moving = "backups" THEN TRUE ELSE UNCHANGED backupVars
    /\ IF moving = "assistant" THEN TRUE ELSE UNCHANGED assistantVars
    /\ IF moving = "webhooks" THEN TRUE ELSE UNCHANGED webhookVars
    /\ IF moving = "keys" THEN TRUE ELSE UNCHANGED apiKeyVars
    /\ IF moving = "offboarding" THEN TRUE ELSE UNCHANGED offboardingVars
    /\ IF moving = "payments" THEN TRUE ELSE UNCHANGED afterPaymentVars
    /\ IF moving = "invoicing" THEN TRUE ELSE UNCHANGED invoicingVars
    /\ IF moving = "treasury" THEN TRUE ELSE UNCHANGED treasuryVars
    /\ IF moving = "approvals" THEN TRUE ELSE UNCHANGED approvalVars

OfficeNext ==
    \/ moving = "access" /\ AccessNext /\ Rest
    \/ moving = "rate" /\ RateNext /\ Rest
    \/ moving = "backups" /\ BackupNext /\ Rest
    \/ moving = "assistant" /\ AssistantNext /\ Rest
    \/ moving = "webhooks" /\ WebhookNext /\ Rest
    \/ moving = "keys" /\ ApiKeyNext /\ Rest
    \/ moving = "offboarding" /\ OffboardingNext /\ Rest
    \/ moving = "payments" /\ AfterPaymentNext /\ Rest
    \/ moving = "invoicing" /\ InvoicingNext /\ Rest
    \/ moving = "treasury" /\ TreasuryNext /\ Rest
    \/ moving = "approvals" /\ ApprovalNext /\ Rest

OfficeSpec == OfficeInit /\ [][OfficeNext]_<<moving, accessVars, rateVars, backupVars, assistantVars,
    webhookVars, apiKeyVars, offboardingVars, afterPaymentVars, invoicingVars, treasuryVars, approvalVars>>

\* Which of the sends a webhook has does not matter, only how many are how far.
Chains == [v \in {sends[c] : c \in Sends} |-> Cardinality({c \in Sends : sends[c] = v})]

\* Nor does it matter which of the chats, of the requests or of the approvals it is
\* that got so far: two of each are told apart only by what they hold.
EachChat == {<<chat[c], counted[c], c \in outbox, {w.tenant : w \in {v \in touched : v.by = c}}>> : c \in Chats}
EachTask == {task[t] : t \in Tasks}
EachApproval == {<<approval[a], {[p EXCEPT !.by = {}] : p \in {q \in purchases : q.by = a}},
                   a \in expenses, a \in erased, a \in raced>> : a \in Approvals}

\* There is one token: a request that brings it twice is one that brings it once.
\* The plans, the second factor and the onboarding change, and tell no states apart:
\* the guards that read them come before AuthGuard on these routes, see no user,
\* and answer without them.
Shown == [q \in Requests |-> [request[q] EXCEPT !.tokens = {@[n] : n \in DOMAIN @}]]

\* Which accounts an entry by hand moves does not matter within one report.
Booked == [r \in DOMAIN entries |->
    IF r \in Manual THEN {<<as, SumOf(entries[r], as)>> : as \in {OnSheet, OnStatement, Accounts}}
                    ELSE entries[r]]

\* The components that stand still do not tell states apart, nor do the lines an
\* accountant has marked, but for whether there are any: no other step reads them.
Moving == <<moving,
    CASE moving = "access" ->
               <<role, isOwner, signed, expired, Shown, held>>
      [] moving = "rate" -> rateVars
      [] moving = "backups" -> backupVars
      [] moving = "assistant" -> <<products, contacts, EachChat>>
      [] moving = "webhooks" -> <<hooks, replaying, failures, carried, Chains>>
      [] moving = "keys" -> apiKeyVars
      [] moving = "offboarding" -> offboardingVars
      [] moving = "payments" -> afterPaymentVars
      [] moving = "invoicing" ->
               <<config, invoice, timeline, docs, mailed, EachTask, faults, mix, overlap, lost, byHand, cancels>>
      [] moving = "treasury" -> <<present, removed, transactions, Booked, pending, reconciled # {}>>
      [] moving = "approvals" -> <<parties, ocrRuns, EachApproval, usage, import, ids, made, dropped>>>>
=============================================================================
