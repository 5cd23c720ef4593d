----------------------------- MODULE MCPeople -----------------------------
(***************************************************************************)
(* An instance of Accounts, one account served by concurrent requests, and *)
(* an instance of Tenancy, companies and their people, in one run: a       *)
(* behaviour picks one of the two at the start, which then takes all the   *)
(* steps.                                                                  *)
(***************************************************************************)
EXTENDS People, TLC

CONSTANTS t1, t2, n1, d1, x1, p1, p2, p3,        \* Accounts
    c1, c2, c3, u1, q1, q2, e1, e2, e3, f1       \* Tenancy

VARIABLE moving   \* the component that steps in this behaviour

\* Accounts: kinds of request that touch the same columns, together.
SomeMixes == {
    {"login", "refresh", "reset", "time"},
    {"login", "change", "reset", "temp"},
    {"login", "guess", "reset"},
    {"login", "oauth", "refresh", "change", "consent", "erase", "toggleStatus"},
    {"login", "change", "totp", "toggle2fa", "admin"},
    {"login", "change", "refresh", "mail", "logout", "revoke", "trust"}}

\* Tenancy: a member, and two demo requests that ask for the prefix
\* a company may be created with.
StaffEmail == (u1 :> e1)
DemoEmails == (q1 :> e2) @@ (q2 :> e1)
DemoPrefixes == (q1 :> f1) @@ (q2 :> f1)

\* Kinds of request that touch the same rows, together.
SomeCallMixes == {
    {"demo", "status", "erase"},
    {"demo", "company", "delete", "remove"},
    {"company", "delete", "join"},
    {"user", "company", "delete", "erase"},
    {"demo", "onboarding", "delete", "user"},
    {"review", "user", "toggle", "remove"},
    {"review", "toggle", "session", "remove"},
    {"review", "toggle", "session", "delete"},
    {"review", "user", "session", "delete"},
    {"review", "user", "erase", "session"}}

PeopleInit == moving \in {"account", "tenancy"} /\ AccountInit /\ TenancyInit

\* Calls are alike until they start, so they may as well start in this order.
Order == <<c1, c2, c3>>
InOrder == \A i \in {1, 2} : AtCall(Order[i], "idle") => AtCall(Order[i + 1], "idle")

PeopleNext ==
    /\ UNCHANGED moving
    /\ \/ moving = "account" /\ AccountNext /\ UNCHANGED tenancyVars
       \/ moving = "tenancy" /\ TenancyNext /\ InOrder' /\ UNCHANGED accountVars

PeopleSpec == PeopleInit /\ [][PeopleNext]_<<moving, accountVars, tenancyVars>>

\* The component that stands still does not tell states apart.
Moving == IF moving = "account" THEN <<moving, accountVars>> ELSE <<moving, tenancyVars>>

Symmetry == Permutations(Tasks) \union Permutations(Passwords)
=============================================================================
