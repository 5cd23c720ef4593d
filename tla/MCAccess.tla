----------------------------- MODULE MCAccess -----------------------------
(***************************************************************************)
(* An instance of Access for TLC: one request of two companies, both on    *)
(* the plan that includes everything.                                      *)
(***************************************************************************)
EXTENDS Access

CONSTANTS n1, n2, q1, k1

Route(permission, module, limit, guards) ==
    [public |-> FALSE, skipsOnboarding |-> FALSE, reads |-> FALSE, permission |-> permission,
     module |-> module, limit |-> limit, guards |-> guards]

\* Posting an entry, uploading a document, listing the users.
SomeRoutes ==
    {Route("manage_accounting", NoValue, NoValue, <<"auth", "permissions">>),
     Route(NoValue, "ai", "maxOcrRunsPerMonth", <<"auth", "permissions">>),
     Route("view_users", NoValue, NoValue, <<"auth">>)}

Caps == [starter |-> [maxInvoicesPerMonth |-> 1, maxOcrRunsPerMonth |-> 1],
         pyme |-> [maxInvoicesPerMonth |-> NoValue, maxOcrRunsPerMonth |-> 2],
         enterprise |-> [maxInvoicesPerMonth |-> NoValue, maxOcrRunsPerMonth |-> NoValue]]

Required == [required : {TRUE}, enabled : BOOLEAN]
Enterprise == {[plan |-> "enterprise", active |-> TRUE, trial |-> "none"]}
=============================================================================
