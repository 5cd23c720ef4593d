------------------------------- MODULE Access -------------------------------
(***************************************************************************)
(* How a request of one user gets to its handler: the guards of            *)
(* src/src/modules/auth, subscriptions and onboarding in the order Nest    *)
(* runs them, those of src/src/app.module.ts first and then those of the   *)
(* controller, while the user's roles and the companies' plans change.     *)
(*                                                                         *)
(* A guard awaits the database, so anything may happen between two guards. *)
(* Only AuthGuard sets authUser on the request.  The rate limit, which is  *)
(* the first of the global guards, is in RateLimit.                        *)
(***************************************************************************)
EXTENDS Naturals, Sequences, FiniteSets, TLC

CONSTANTS
    Tenants,
    Requests,
    Tokens,         \* ids of the access tokens signed in a behaviour
    Roles,          \* values of Membership.role
    Routes,         \* [public, permission, module, limit, reads, guards]
    Subscriptions,  \* values of a row: [plan, active, trial]
    Cap,            \* [Plans -> [Limits -> Nat \union {NoValue}]], as in PLANS
    MaxUsed,        \* bound on what a company uses
    Profiles,       \* values of [required, enabled] for two factors
    NoValue

ASSUME AccessAssumption ==
    /\ NoValue \notin Tenants /\ NoValue \notin Roles /\ NoValue # "served" /\ MaxUsed \in Nat
    /\ Profiles \subseteq [required : BOOLEAN, enabled : BOOLEAN]
    /\ \A s \in Subscriptions : s # NoValue /\ s.trial \in {"none", "running", "over"}

VARIABLES
    role,          \* the user's row of Membership in each company, if any
    subscription,  \* row of table Subscription, if any
    used,          \* what the company has used this month, or has, of each limit
    isOwner,       \* User.isSystemOwner
    profile,       \* UserSecurityProfile
    onboarded,     \* companies with onboardingCompletedAt
    signed,        \* claims of the tokens
    expired,       \* tokens past their eight hours
    request,
    held           \* history: roles held since the request came in

accessVars == <<role, subscription, used, isOwner, profile, onboarded, signed, expired, request, held>>
-----------------------------------------------------------------------------
\* ROLE_DEFINITIONS.  Some routes require permissions no role has.
Keeper == {"view_dashboard", "export_dashboard", "view_billing", "create_billing",
           "manage_billing", "view_inventory", "manage_inventory", "view_third_parties",
           "manage_third_parties", "view_accounting", "manage_accounting", "run_ocr"}
Manager == Keeper \union {"manage_dashboard", "manage_users"}
Viewer == {"view_dashboard", "export_dashboard", "view_billing", "export_billing",
           "view_inventory", "export_inventory", "view_accounting", "export_accounting",
           "view_third_parties"}
ROLE_DEFINITIONS ==
    ("owner" :> Manager \union {"manage_settings"}) @@ ("Administrador" :> Manager)
    @@ ("Contador" :> Keeper) @@ ("Gerencia" :> Viewer) @@ ("Visor" :> Viewer)
    @@ ("Auxiliar contable" :> {"view_dashboard", "view_billing", "create_billing",
            "view_accounting", "create_accounting", "view_third_parties",
            "manage_third_parties", "run_ocr"})
    @@ ("Operador" :> {"view_dashboard", "view_billing", "create_billing",
            "view_inventory", "manage_inventory", "view_third_parties"})

\* PLANS: the modules of each plan; whatever else a row says counts as starter.
Starter == {"dashboard", "billing", "quotes", "third-parties", "subscription"}
PlanModules ==
    [starter |-> Starter,
     pyme |-> Starter \union {"purchases", "inventory", "treasury", "reports", "users", "ai"},
     enterprise |-> {"*"}]
PlanOf(s) ==
    IF s # NoValue /\ s.plan \in DOMAIN PlanModules THEN s.plan ELSE "starter"
Includes(s, module) == {"*", module} \cap PlanModules[PlanOf(s)] # {}
UsedUp(x, limit) ==
    LET cap == Cap[PlanOf(subscription[x])][limit]
    IN  cap # NoValue /\ used[x][limit] >= cap
-----------------------------------------------------------------------------
\* The company the guards check, and the one the handler works for (TenantId):
\* each takes it from the request by itself.
CheckedTenant_Token(r) == r.authUser.tenant   \* Mutant: the header is not looked at.
CheckedTenant(r) == IF r.header # NoValue THEN r.header ELSE r.authUser.tenant
TenantId(r) == IF r.header # NoValue THEN r.header ELSE r.authUser.tenant

MayEnter(claims, header) == header # NoValue => claims.isOwner \/ header \in claims.tenants

\* PermissionsGuard: the role is read again, whatever the token says.
Grants(x, permission) ==
    role[x] \in DOMAIN ROLE_DEFINITIONS /\ permission \in ROLE_DEFINITIONS[role[x]]

TwoFactorPasses(r) ==
    LET s == subscription[CheckedTenant(r)]
    IN  (s # NoValue /\ s.plan = "enterprise" /\ profile.required) => profile.enabled

OnboardingPasses(r) ==
    isOwner \/ \E x \in Tenants : role[x] # NoValue /\ x \in onboarded

SubscriptionPasses(r) ==
    LET s == subscription[CheckedTenant(r)]
    IN  s # NoValue /\ ~s.active => s.trial # "none" /\ (s.trial = "over" => r.route.reads)

PlanPasses(r) ==
    LET x == CheckedTenant(r)
        s == subscription[x]
        enough == /\ r.route.module # NoValue => Includes(s, r.route.module)
                  /\ r.route.limit # NoValue => ~UsedUp(x, r.route.limit)
    IN  enough \/ (r.route.module # NoValue /\ "*" \in PlanModules[PlanOf(s)])

\* What each guard does without a user, and with one who is not the owner.
Passes(guard, r) ==
    CASE guard \in {"twoFactor", "onboarding", "subscription"} /\ r.authUser = NoValue -> TRUE
      [] guard = "permissions" ->
           r.route.public \/ r.route.permission = NoValue \/
           (r.authUser # NoValue /\ (r.authUser.isOwner \/ Grants(CheckedTenant(r), r.route.permission)))
      [] guard = "plan" ->
           r.route.public \/ {r.route.module, r.route.limit} = {NoValue} \/
           (r.authUser # NoValue /\ (r.authUser.isOwner \/ PlanPasses(r)))
      [] guard = "onboarding" -> r.route.skipsOnboarding \/ OnboardingPasses(r)
      [] guard = "twoFactor" -> r.authUser.isOwner \/ TwoFactorPasses(r)
      [] guard = "subscription" -> r.authUser.isOwner \/ SubscriptionPasses(r)

GlobalGuards == <<"twoFactor", "onboarding", "subscription", "plan">>
GuardsOf(route) == GlobalGuards \o route.guards

\* The lists of @UseGuards, of the class and then of the method: wherever one has
\* PermissionsGuard, AuthGuard comes before it, and once.
ASSUME GuardOrder == \A route \in Routes :
    LET guards == GuardsOf(route) IN
    /\ guards \in Seq(STRING)
    /\ \A i \in DOMAIN guards : guards[i] = "permissions" => \E j \in 1 .. i - 1 : guards[j] = "auth"
    /\ \A i, j \in DOMAIN guards : guards[i] = "auth" /\ guards[j] = "auth" => i = j

\* A route may name a permission in @Permissions without the guard that looks at
\* it (src/src/modules/users/users.controller.ts:26).
Guarded(route) == "permissions" \in {GuardsOf(route)[i] : i \in DOMAIN GuardsOf(route)}
-----------------------------------------------------------------------------
NoRequest == [step |-> 0, route |-> NoValue, header |-> NoValue, tokens |-> <<>>,
              authUser |-> NoValue, answer |-> NoValue]

AccessInit ==
    /\ role \in [Tenants -> Roles \union {NoValue}] /\ isOwner \in BOOLEAN
    /\ subscription = [x \in Tenants |-> NoValue]
    /\ used = [x \in Tenants |-> [l \in DOMAIN Cap["starter"] |-> 0]]
    /\ profile \in Profiles /\ onboarded = {}
    /\ signed = [t \in {} |-> NoValue] /\ expired = {}
    /\ request = [q \in Requests |-> NoRequest] /\ held = [q \in Requests |-> {}]

\* AuthService.issueAuthResponse: what the token says of the companies stays
\* as it was for the life of the token.
\* The token of a forced password change (auth.service.ts:139) is signed with the
\* same secret and names no company; requests with it are left out.
SignIn(t) ==
    /\ t \notin DOMAIN signed
    /\ \E x \in Tenants :
         LET claims == [isOwner |-> isOwner, tenant |-> x, tenants |-> {y \in Tenants : role[y] # NoValue}]
         IN  /\ role[x] # NoValue \/ isOwner
             /\ signed' = [s \in DOMAIN signed \union {t} |-> IF s = t THEN claims ELSE signed[s]]
    /\ UNCHANGED <<role, subscription, used, isOwner, profile, onboarded, expired, request, held>>

Expire(t) ==
    /\ t \in DOMAIN signed
    /\ expired' = expired \union {t}
    /\ UNCHANGED <<role, subscription, used, isOwner, profile, onboarded, signed, request, held>>

\* UsersService.upsertMembership of a row that is there, and removeMembership.
ChangeRole(x) ==
    /\ role[x] # NoValue
    /\ \E r \in Roles \union {NoValue} : role' = [role EXCEPT ![x] = r]
    /\ held' = [q \in Requests |-> IF request[q].answer # NoValue THEN held[q]
                                     ELSE held[q] \union {<<x, role'[x]>>}]
    /\ UNCHANGED <<subscription, used, isOwner, profile, onboarded, signed, expired, request>>

\* Payments and the administrator.
ChangeSubscription(x) ==
    /\ \E s \in Subscriptions : subscription' = [subscription EXCEPT ![x] = s]
    /\ UNCHANGED <<role, used, isOwner, profile, onboarded, signed, expired, request, held>>

\* The services that count usage, and new members and months.
Use(x) ==
    /\ \E l \in DOMAIN used[x], n \in 0 .. MaxUsed : used' = [used EXCEPT ![x][l] = n]
    /\ UNCHANGED <<role, subscription, isOwner, profile, onboarded, signed, expired, request, held>>

ChangeProfile ==
    /\ profile' \in Profiles
    /\ UNCHANGED <<role, subscription, used, isOwner, onboarded, signed, expired, request, held>>

Onboard(x) ==
    /\ onboarded' = onboarded \union {x}
    /\ UNCHANGED <<role, subscription, used, isOwner, profile, signed, expired, request, held>>

\* With the token of the cookie, of the Authorization header, or both.
Arrive(q) ==
    /\ request[q].step = 0
    /\ \E route \in Routes, header \in Tenants \union {NoValue},
          tokens \in UNION {[1 .. n -> DOMAIN signed] : n \in 0 .. 2} :
         request' = [request EXCEPT ![q] =
                       [step |-> 1, route |-> route, header |-> header, tokens |-> tokens,
                        authUser |-> NoValue, answer |-> NoValue]]
    /\ held' = [held EXCEPT ![q] = {<<x, role[x]>> : x \in Tenants}]
    /\ UNCHANGED <<role, subscription, used, isOwner, profile, onboarded, signed, expired>>

Answer(q, answer) == request' = [request EXCEPT ![q].answer = answer]
Proceed(q) == request' = [request EXCEPT ![q].step = @ + 1]

At(q, guard) ==
    LET r == request[q] IN
    /\ r.step > 0 /\ r.answer = NoValue /\ r.step <= Len(GuardsOf(r.route))
    /\ GuardsOf(r.route)[r.step] = guard

\* AuthGuard: the first token that is not expired decides.
Authenticate(q) ==
    LET r == request[q]
        valid == {i \in DOMAIN r.tokens : r.tokens[i] \notin expired}
        claims == signed[r.tokens[CHOOSE i \in valid : \A j \in valid : i <= j]]
    IN  /\ At(q, "auth")
        /\ IF r.route.public THEN Proceed(q)
           ELSE IF valid = {} \/ ~MayEnter(claims, r.header) THEN Answer(q, "auth")
           ELSE request' = [request EXCEPT ![q].authUser = claims, ![q].step = @ + 1]
        /\ UNCHANGED <<role, subscription, used, isOwner, profile, onboarded, signed, expired, held>>

Check(q, guard) ==
    /\ At(q, guard)
    /\ IF Passes(guard, request[q]) THEN Proceed(q) ELSE Answer(q, guard)
    /\ UNCHANGED <<role, subscription, used, isOwner, profile, onboarded, signed, expired, held>>

Serve(q) ==
    LET r == request[q] IN
    /\ r.step > Len(GlobalGuards) /\ r.step = Len(GuardsOf(r.route)) + 1 /\ r.answer = NoValue
    /\ Answer(q, "served")
    /\ UNCHANGED <<role, subscription, used, isOwner, profile, onboarded, signed, expired, held>>

AccessNext ==
    \/ \E t \in Tokens : SignIn(t) \/ Expire(t)
    \/ \E x \in Tenants : ChangeRole(x) \/ ChangeSubscription(x) \/ Use(x) \/ Onboard(x)
    \/ ChangeProfile
    \/ \E q \in Requests :
         \/ Arrive(q) \/ Authenticate(q) \/ Serve(q)
         \/ \E guard \in {"twoFactor", "onboarding", "subscription", "plan", "permissions"} :
              Check(q, guard)

AccessSpec == AccessInit /\ [][AccessNext]_accessVars
-----------------------------------------------------------------------------
\* Who is served by a route behind PermissionsGuard held, at some moment of the request, a role
\* with its permission in the very company the handler works for, which the
\* token names: however roles change while the request is on its way, and
\* whatever roles the user had when the token was signed.
RoleHeld ==
    \A q \in Requests :
        LET r == request[q] IN
        r.answer = "served" /\ Guarded(r.route) /\ ~r.route.public /\ r.route.permission # NoValue
            /\ ~r.authUser.isOwner =>
          /\ TenantId(r) \in r.authUser.tenants
          /\ \E h \in held[q] : /\ h[1] = TenantId(r) /\ h[2] \in DOMAIN ROLE_DEFINITIONS
                                /\ r.route.permission \in ROLE_DEFINITIONS[h[2]]

\* A member's request is turned away for its plan only if the plan of the company
\* lacks the module or is used up (src/src/modules/ocr/ocr.controller.ts:31).
PlanAdmits ==
    [][\A q \in Requests :
         LET r == request[q]
             member == \E i \in DOMAIN r.tokens : /\ r.tokens[i] \notin expired
                                                  /\ r.header \in signed[r.tokens[i]].tenants
         IN  r.answer = NoValue /\ request'[q].answer = "plan" /\ member =>
               \/ r.route.module # NoValue /\ ~Includes(subscription[r.header], r.route.module)
               \/ r.route.limit # NoValue /\ UsedUp(r.header, r.route.limit)]_accessVars

-----------------------------------------------------------------------------
\* Why RoleHeld holds: an invariant that is inductive.
ClaimRows == [isOwner : BOOLEAN, tenant : Tenants, tenants : SUBSET Tenants]
Guards == {"auth", "twoFactor", "onboarding", "subscription", "plan", "permissions"}
RequestRows ==
    [step : Nat, route : Routes \union {NoValue}, header : Tenants \union {NoValue},
     tokens : Seq(DOMAIN signed),
     authUser : ClaimRows \union {NoValue}, answer : Guards \union {"served", NoValue}]

AccessTypeOK ==
    /\ role \in [Tenants -> Roles \union {NoValue}] /\ isOwner \in BOOLEAN
    /\ expired \subseteq DOMAIN signed /\ DOMAIN signed \subseteq Tokens
    /\ request \in [Requests -> RequestRows]
    /\ held \in [Requests -> SUBSET (Tenants \X (Roles \union {NoValue}))]
    /\ \A q \in Requests : Len(request[q].tokens) <= 2
    /\ \A q \in Requests : request[q].step > 0 => request[q].route \in Routes

\* The company a token is for is among those it names, but for the owner.
ClaimsHold == \A t \in DOMAIN signed :
    signed[t] \in ClaimRows /\ (signed[t].isOwner \/ signed[t].tenant \in signed[t].tenants)

\* As long as a request is on its way, the history has the roles of the moment.
HeldNow == \A q \in Requests :
    request[q].step > 0 /\ request[q].answer = NoValue =>
        \A x \in Tenants : <<x, role[x]>> \in held[q]

Passed(r, guard) ==
    /\ r.step > 0
    /\ \E i \in DOMAIN GuardsOf(r.route) : i < r.step /\ GuardsOf(r.route)[i] = guard

\* What a request that has passed AuthGuard carries.
Carries(r) ==
    Passed(r, "auth") /\ ~r.route.public =>
        /\ r.authUser \in ClaimRows
        /\ r.authUser.isOwner \/ r.authUser.tenant \in r.authUser.tenants
        /\ MayEnter(r.authUser, r.header)
Authenticated == \A q \in Requests : Carries(request[q])

\* What the history of a request that has passed PermissionsGuard holds.
Allows(roles, r) ==
    \E h \in roles : /\ h[1] = CheckedTenant(r) /\ h[2] \in DOMAIN ROLE_DEFINITIONS
                     /\ r.route.permission \in ROLE_DEFINITIONS[h[2]]
IsPermitted(r, roles) ==
    Passed(r, "permissions") /\ ~r.route.public /\ r.route.permission # NoValue =>
        r.authUser.isOwner \/ Allows(roles, r)
Permitted == \A q \in Requests : IsPermitted(request[q], held[q])

\* Who is served has passed all guards.
ServedLast == \A q \in Requests :
    request[q].answer = "served" =>
        request[q].route \in Routes /\ request[q].step = Len(GuardsOf(request[q].route)) + 1

AccessInv == AccessTypeOK /\ ClaimsHold /\ HeldNow /\ Authenticated /\ Permitted /\ ServedLast
=============================================================================
