------------------------------ MODULE Tenancy ------------------------------
(***************************************************************************)
(* Companies and their people: how a demo request becomes a customer       *)
(* (src/src/modules/demo/demo.service.ts), how the system owner creates    *)
(* and deletes companies and reviews accesses                              *)
(* (src/src/modules/admin/admin.service.ts), how users are created and     *)
(* removed (src/src/modules/users/users.service.ts), and the onboarding    *)
(* (src/src/modules/onboarding/onboarding.service.ts).                     *)
(*                                                                         *)
(* A request is one call; the company and the user it creates, if any,     *)
(* have the call as their id, so ids are never used again.  Unique indexes *)
(* and foreign keys make a statement fail; a failing statement ends its    *)
(* request, and undoes its transaction if it is in one.                    *)
(***************************************************************************)
EXTENDS Naturals, Functions

CONSTANTS
    Calls,          \* requests, each made once
    CallMixes,      \* the sets of kinds of request an instance explores
    Home, Staff,        \* a company that exists already, and its users
    EmailOf,            \* [Staff -> Emails], their emails
    Demos,              \* demo requests
    DemoEmail, DemoPrefix,  \* what is made of the data of a demo request
    Emails, TenantPrefixes,
    Nobody

ASSUME TenancyAssumption ==
    /\ EmailOf \in [Staff -> Emails] /\ IsInjective(EmailOf)
    /\ DemoEmail \in [Demos -> Emails] /\ DemoPrefix \in [Demos -> TenantPrefixes]
    /\ Home \notin Calls /\ Staff \cap Calls = {} /\ Nobody \notin Demos \union Calls
    \* An id is not a pair of ids.
    /\ (Staff \union Calls) \cap [user : Staff \union Calls, tenant : Calls \union {Home}] = {}

VARIABLES
    tenants,     \* table Tenant, per id
    subscribed,  \* tenants with a row in Subscription
    users,       \* table User, per id
    members,     \* table Membership
    profiles,    \* users with a row in UserSecurityProfile
    openSessions, \* open rows of UserSession
    estado,      \* DemoRequest.estado, Nobody before it is made
    call,
    review,      \* the access review under way, or the last one
    callMix,      \* the kinds of request made in this behaviour
    \* history, read by properties only
    excused,    \* users left without a company by something else than one deletion
    joined,     \* users that were added to a company after a deletion had counted them out
    persistent   \* problems there all the time since the review began

database == <<tenants, subscribed, users, members, profiles, openSessions, estado>>
tenancyVars == <<database, call, review, callMix, excused, joined, persistent>>
-----------------------------------------------------------------------------
EstadoValues == {"nuevo", "contactado", "demo_agendada", "aprobado", "convertido",
                 "cliente", "rechazado"}

\* The row of an erased user gets an email made from a hash of the old one.
Erased(email) == <<"erased", email>>

\* A table with one more row.
Inserted(table, id, row) == [k \in DOMAIN table \union {id} |-> IF k = id THEN row ELSE table[k]]

IdleCall == [pc |-> "idle", arg |-> Nobody, left |-> {}, exclusive |-> {}, kept |-> {}]
DoneTask == [IdleCall EXCEPT !.pc = "done"]

AtCall(t, pc) == call[t].pc = pc
StartCall(t, kind, pc, arg) ==
    /\ kind \in callMix /\ AtCall(t, "idle")
    /\ call' = [call EXCEPT ![t] = [IdleCall EXCEPT !.pc = pc, !.arg = arg]]
GotoCall(t, pc) == call' = [call EXCEPT ![t].pc = pc]
EndCall(t) == call' = [call EXCEPT ![t] = DoneTask]

TenantsOf(u) == {m.tenant : m \in {n \in members : n.user = u}}
UsersOf(x) == {m.user : m \in {n \in members : n.tenant = x}}
PrefixFree_Suffixed(p) == TRUE   \* Mutant: a suffix makes every prefix unique.
PrefixFree(p) == \A x \in DOMAIN tenants : tenants[x].prefix # p
EmailFree(e) == \A u \in DOMAIN users : users[u].email # e

\* Inactive users that keep a membership, and open sessions of inactive users.
InactiveWithAccess == {u \in DOMAIN users : ~users[u].active /\ TenantsOf(u) # {}}
InactiveWithSession == {s \in openSessions : ~users[s.user].active}

TenancyInit ==
    /\ tenants = [x \in {Home} |-> [prefix |-> Nobody, demo |-> Nobody, onboarded |-> FALSE]]
    /\ subscribed = {Home}
    /\ users = [u \in Staff |-> [email |-> EmailOf[u], active |-> TRUE]]
    /\ members = [user : Staff, tenant : {Home}]
    /\ profiles = Staff /\ openSessions = {}
    /\ estado = [d \in Demos |-> Nobody]
    /\ call = [t \in Calls |-> IdleCall] /\ callMix \in CallMixes
    /\ review = [pc |-> "none"]
    /\ excused = {} /\ joined = {} /\ persistent = {}

\* A user with its profile and, in a company, its membership.
AddUser(u, email, tenant) ==
    /\ users' = Inserted(users, u, [email |-> email, active |-> TRUE])
    /\ profiles' = profiles \union {u}
    /\ members' = members \union [user : {u}, tenant : {tenant} \ {Nobody}]

\* A user gets a company; a deletion may have found before that it has no other.
Joins(u) ==
    joined' = IF \E c \in Calls : AtCall(c, "count") /\ u \in call[c].exclusive
              THEN joined \union {u} ELSE joined
-----------------------------------------------------------------------------
\* DemoService.

CreateDemoRequest(d) ==
    /\ "demo" \in callMix /\ estado[d] = Nobody
    /\ estado' = [estado EXCEPT ![d] = "nuevo"]
    /\ UNCHANGED <<tenants, subscribed, users, members, profiles, openSessions, call, review, excused, joined>>

\* Any value, at any time; all but convertido mean the same to the code.
UpdateDemoRequestStatus(d) ==
    /\ "status" \in callMix /\ estado[d] # Nobody
    /\ \E e \in {"contactado", "convertido"} : estado' = [estado EXCEPT ![d] = e]
    /\ UNCHANGED <<tenants, subscribed, users, members, profiles, openSessions, call, review, excused, joined>>

ConvertRead(t) ==
    /\ \E d \in Demos : /\ estado[d] \notin {Nobody, "convertido"}
                        /\ StartCall(t, "demo", "convert", d)
    /\ UNCHANGED <<database, review, excused, joined>>

\* One transaction.  The status is not looked at again: what keeps a request
\* from being converted twice is that its prefix and its email are unique.
Convert(t) ==
    LET d == call[t].arg IN
    /\ AtCall(t, "convert")
    /\ PrefixFree(DemoPrefix[d]) /\ EmailFree(DemoEmail[d])
    /\ tenants' = Inserted(tenants, t, [prefix |-> DemoPrefix[d], demo |-> d, onboarded |-> FALSE])
    /\ AddUser(t, DemoEmail[d], t)
    /\ subscribed' = subscribed \union {t}
    /\ estado' = [estado EXCEPT ![d] = "convertido"]
    /\ EndCall(t)
    /\ UNCHANGED <<openSessions, review, excused, joined>>
-----------------------------------------------------------------------------
\* AdminService.createCompany: five statements of their own.  What is there
\* when one fails stays.

CompanyTenant(t) ==
    /\ \E p \in TenantPrefixes, e \in Emails, plan \in BOOLEAN :
         /\ PrefixFree(p)
         /\ StartCall(t, "company", "user", [email |-> e, plan |-> plan])
         /\ tenants' = Inserted(tenants, t, [prefix |-> p, demo |-> Nobody, onboarded |-> FALSE])
    /\ UNCHANGED <<subscribed, users, members, profiles, openSessions, estado, review, excused, joined>>

CompanyUser(t) ==
    /\ AtCall(t, "user") /\ EmailFree(call[t].arg.email)
    /\ users' = Inserted(users, t, [email |-> call[t].arg.email, active |-> TRUE])
    /\ GotoCall(t, "member")
    /\ UNCHANGED <<tenants, subscribed, members, profiles, openSessions, estado, review, excused, joined>>

CompanyMember(t) ==
    /\ AtCall(t, "member") /\ t \in DOMAIN tenants \cap DOMAIN users
    /\ members' = members \union {[user |-> t, tenant |-> t]}
    /\ Joins(t)
    /\ GotoCall(t, "profile")
    /\ UNCHANGED <<tenants, subscribed, users, profiles, openSessions, estado, review, excused>>

CompanyProfile(t) ==
    /\ AtCall(t, "profile") /\ t \in DOMAIN users
    /\ profiles' = profiles \union {t}
    /\ IF call[t].arg.plan THEN GotoCall(t, "plan") ELSE EndCall(t)
    /\ UNCHANGED <<tenants, subscribed, users, members, openSessions, estado, review, excused, joined>>

CompanyPlan(t) ==
    /\ AtCall(t, "plan") /\ t \in DOMAIN tenants \ subscribed
    /\ subscribed' = subscribed \union {t}
    /\ EndCall(t)
    /\ UNCHANGED <<tenants, users, members, profiles, openSessions, estado, review, excused, joined>>

\* A statement fails, by a constraint or otherwise, or the process restarts.
AbortCall(t) ==
    /\ call[t].pc \notin {"idle", "done"}
    /\ excused' = IF AtCall(t, "member") THEN excused \union {t} ELSE excused
    /\ EndCall(t)
    /\ UNCHANGED <<database, review, joined>>

\* AdminService.updateSubscription of a company without one.
Subscribe(x) ==
    /\ "company" \in callMix /\ x \in DOMAIN tenants \ subscribed
    /\ subscribed' = subscribed \union {x}
    /\ UNCHANGED <<tenants, users, members, profiles, openSessions, estado, call, review, excused, joined>>
-----------------------------------------------------------------------------
\* AdminService.deleteTenant, after the password of the owner was confirmed:
\* the members are listed, then looked at one by one, then deleted with their
\* company unless they belong to another one.

DeleteRead(t) ==
    /\ "delete" \in callMix /\ AtCall(t, "idle")
    /\ \E x \in DOMAIN tenants :
         call' = [call EXCEPT ![t] = [pc |-> "count", arg |-> x, left |-> UsersOf(x),
                                      exclusive |-> {}, kept |-> {}]]
    /\ UNCHANGED <<database, review, excused, joined>>

Exclusive_Never(u, x) == TenantsOf(u) = {}   \* Mutant: the company itself is counted.
Exclusive_Always(u, x) == TRUE               \* Mutant: nobody is looked up.
Exclusive(u, x) == TenantsOf(u) \ {x} = {}

DeleteCount(t) ==
    /\ AtCall(t, "count")
    /\ \E u \in call[t].left :
         call' = [call EXCEPT ![t].left = @ \ {u},
                    ![t].exclusive = IF Exclusive(u, call[t].arg) THEN @ \union {u} ELSE @,
                    ![t].kept = IF Exclusive(u, call[t].arg) THEN @ ELSE @ \union {u}]
    /\ UNCHANGED <<database, review, excused, joined>>

\* What the foreign keys delete with users `gone' and company `x'.
Without_Kept(rows, gone, x) == {r \in rows : r.user \notin gone}   \* Mutant.
Without(rows, gone, x) == {r \in rows : r.user \notin gone /\ r.tenant # x}

\* Whom a deletion may leave without a company: those added to this one since
\* its members were listed, and those of another one that is being deleted too.
AddedSince(t) == {u \in UsersOf(call[t].arg) \ call[t].kept : TenantsOf(u) = {call[t].arg}}
DeletedTwice(t) ==
    {u \in UsersOf(call[t].arg) : \E c \in Calls :
        AtCall(c, "count") /\ call[c].arg # call[t].arg /\ u \in UsersOf(call[c].arg)}

DeleteCommit(t) ==
    LET x == call[t].arg
        gone == call[t].exclusive
    IN  /\ AtCall(t, "count") /\ call[t].left = {}
        /\ x \in DOMAIN tenants
        /\ tenants' = Restrict(tenants, DOMAIN tenants \ {x})
        /\ subscribed' = subscribed \ {x}
        /\ users' = Restrict(users, DOMAIN users \ gone)
        /\ members' = Without(members, gone, x)
        /\ openSessions' = Without(openSessions, gone, x)
        /\ profiles' = profiles \ gone
        /\ excused' = excused \union ((AddedSince(t) \union DeletedTwice(t)) \ gone)
        /\ EndCall(t)
        /\ UNCHANGED <<estado, review, joined>>
-----------------------------------------------------------------------------
\* UsersService, OnboardingService and sign-ins.

CreateUser(t) ==
    /\ "user" \in callMix /\ AtCall(t, "idle")
    /\ \E e \in Emails, x \in DOMAIN tenants \union {Nobody} :
         /\ EmailFree(e)
         /\ AddUser(t, e, x)
         /\ excused' = IF x = Nobody THEN excused \union {t} ELSE excused
    /\ EndCall(t)
    /\ UNCHANGED <<tenants, subscribed, openSessions, estado, review, joined>>

\* upsertMembership of a user and a company that has none of it.  The statement
\* is given actorUserId too, which is no column, so that Prisma's validation may
\* refuse it: the step is what it is written to do.
UpsertMembership(u, x) ==
    /\ "join" \in callMix /\ [user |-> u, tenant |-> x] \notin members
    /\ members' = members \union {[user |-> u, tenant |-> x]}
    /\ Joins(u)
    /\ UNCHANGED <<tenants, subscribed, users, profiles, openSessions, estado, call, review, excused>>

RemoveMember(m) ==
    /\ "remove" \in callMix /\ m \in members
    /\ members' = members \ {m}
    /\ excused' = excused \union {m.user}
    /\ UNCHANGED <<tenants, subscribed, users, profiles, openSessions, estado, call, review, joined>>

ToggleStatus(u) ==
    /\ "toggle" \in callMix
    /\ users' = [users EXCEPT ![u].active = ~@]
    /\ UNCHANGED <<tenants, subscribed, members, profiles, openSessions, estado, call, review, excused, joined>>

\* A sign-in and a sign-out (bound: one session for each user).
SignIn(m) ==
    /\ "session" \in callMix /\ users[m.user].active
    /\ \A s \in openSessions : s.user # m.user
    /\ openSessions' = openSessions \union {m}
    /\ UNCHANGED <<tenants, subscribed, users, members, profiles, estado, call, review, excused, joined>>

SignOut(s) ==
    /\ "session" \in callMix
    /\ openSessions' = openSessions \ {s}
    /\ UNCHANGED <<tenants, subscribed, users, members, profiles, estado, call, review, excused, joined>>

\* AdminService.eraseUserData (bound: of a user not erased before).  The new
\* email must be free too, and is not if a former holder of it was erased.
EraseUserData(u) ==
    /\ "erase" \in callMix /\ users[u].email \in Emails
    /\ EmailFree(Erased(users[u].email))
    /\ users' = [users EXCEPT ![u] = [email |-> Erased(@.email), active |-> FALSE]]
    /\ openSessions' = {s \in openSessions : s.user # u}
    /\ UNCHANGED <<tenants, subscribed, members, profiles, estado, call, review, excused, joined>>

CompleteRead(t) ==
    /\ \E m \in members : /\ ~tenants[m.tenant].onboarded
                          /\ StartCall(t, "onboarding", "complete", m)
    /\ UNCHANGED <<database, review, excused, joined>>

\* With the consents of the user, whose rows fail (Abort) if the user is gone.
CompleteWrite(t) ==
    LET m == call[t].arg IN
    /\ AtCall(t, "complete") /\ m.tenant \in DOMAIN tenants
    /\ tenants' = [tenants EXCEPT ![m.tenant].onboarded = TRUE]
    /\ EndCall(t)
    /\ UNCHANGED <<subscribed, users, members, profiles, openSessions, estado, review, excused, joined>>
-----------------------------------------------------------------------------
\* AdminService.runAccessReview: the tables are read at the same time over
\* different connections, the memberships after the users they belong to.

ReviewStart ==
    /\ "review" \in callMix /\ review.pc \in {"none"}
    /\ review' = [pc |-> "reading", users |-> Nobody, members |-> Nobody, sessions |-> Nobody]
    /\ persistent' = InactiveWithAccess \union InactiveWithSession
    /\ UNCHANGED <<database, call, callMix, excused, joined>>

ReviewUsers ==
    /\ review.pc = "reading" /\ review.users = Nobody
    /\ review' = [review EXCEPT !.users = users]

ReviewMembers ==
    /\ review.pc = "reading" /\ review.users # Nobody /\ review.members = Nobody
    /\ review' = [review EXCEPT !.members = members]

ReviewSessions ==
    /\ review.pc = "reading" /\ review.sessions = Nobody
    /\ review' = [review EXCEPT !.sessions = openSessions]

\* totals.inactiveUsersWithAccess and totals.activeSessionsOnInactiveUsers.
\* Mutant: an inactive user counts when a session shows that it is in use.
WithAccess_InUse(r) ==
    {u \in DOMAIN r.users : ~r.users[u].active /\ \E m \in r.members : m.user = u
                                               /\ \E s \in r.sessions : s.user = u}
WithAccess(r) == {u \in DOMAIN r.users : ~r.users[u].active /\ \E m \in r.members : m.user = u}
WithSession(r) == {s \in r.sessions : s.user \in DOMAIN r.users /\ ~r.users[s.user].active}

\* The findings, recorded in the audit log.
ReviewRecord ==
    /\ review.pc = "reading" /\ Nobody \notin {review.users, review.members, review.sessions}
    /\ review' = [pc |-> "recorded", access |-> WithAccess(review), session |-> WithSession(review)]
-----------------------------------------------------------------------------
CallNext ==
    \/ \E d \in Demos : CreateDemoRequest(d) \/ UpdateDemoRequestStatus(d)
    \/ \E t \in Calls :
         \/ ConvertRead(t) \/ Convert(t) \/ AbortCall(t)
         \/ CompanyTenant(t) \/ CompanyUser(t) \/ CompanyMember(t)
         \/ CompanyProfile(t) \/ CompanyPlan(t)
         \/ DeleteRead(t) \/ DeleteCount(t) \/ DeleteCommit(t)
         \/ CreateUser(t) \/ CompleteRead(t) \/ CompleteWrite(t)
    \/ \E x \in DOMAIN tenants : Subscribe(x)
    \/ \E m \in members : RemoveMember(m) \/ SignIn(m)
    \/ \E s \in openSessions : SignOut(s)
    \/ \E u \in DOMAIN users :
         \/ ToggleStatus(u) \/ EraseUserData(u)
         \/ \E x \in DOMAIN tenants : UpsertMembership(u, x)

\* Reading changes nothing, so the problems stay what they were.
Review ==
    /\ ReviewUsers \/ ReviewMembers \/ ReviewSessions \/ ReviewRecord
    /\ UNCHANGED <<database, call, callMix, excused, joined, persistent>>

TenancyNext ==
    \/ CallNext /\ callMix' = callMix
               /\ persistent' = persistent \cap (InactiveWithAccess \union InactiveWithSession)'
    \/ ReviewStart
    \/ Review

TenancySpec == TenancyInit /\ [][TenancyNext]_tenancyVars
-----------------------------------------------------------------------------
TenantRows == [prefix : TenantPrefixes \union {Nobody}, demo : Demos \union {Nobody}, onboarded : BOOLEAN]
UserRows == [email : Emails \union {Erased(e) : e \in Emails}, active : BOOLEAN]

\* Rows have their types, and refer to rows that exist: a company that is
\* deleted takes its memberships, subscription and sessions with it.
TenancyTypeOK ==
    /\ \A x \in DOMAIN tenants : tenants[x] \in TenantRows
    /\ subscribed \subseteq DOMAIN tenants /\ DOMAIN tenants \subseteq Calls \union {Home}
    /\ \A u \in DOMAIN users : users[u] \in UserRows
    /\ members \union openSessions \subseteq [user : DOMAIN users, tenant : DOMAIN tenants]
    /\ profiles \subseteq DOMAIN users
    /\ estado \in [Demos -> EstadoValues \union {Nobody}]

\* A demo request becomes one company at most, although its status is read
\* before the transaction, and may be set back (convertToCustomer).
OneCompanyPerDemo ==
    \A x, y \in DOMAIN tenants :
        tenants[x].demo = tenants[y].demo /\ tenants[x].demo # Nobody => x = y

\* Deleting a company leaves no account without a company, whose email nobody
\* could use again: the users of no other company go with it (deleteTenant).  It
\* may leave those added to it after its members were listed, and those of two
\* companies that are deleted at once: each deletion counts the other company.
NoOrphans ==
    \A u \in DOMAIN users :
        TenantsOf(u) # {} \/ u \in excused \/ (u \in Calls /\ AtCall(u, "member"))

\* Nor does it take an account away from another company: who is deleted had no
\* company that stays, unless they joined one after they were counted.
SharedStay ==
    [][\A u \in DOMAIN users \ DOMAIN users' :
          u \in joined \/ \A x \in TenantsOf(u) : x \notin DOMAIN tenants']_tenancyVars

\* An inactive user that kept a membership or a session all through the access
\* review is in its findings, in whatever order its tables were read.
ReviewFindsThem ==
    review.pc = "recorded" => persistent \subseteq review.access \union review.session

-----------------------------------------------------------------------------
\* Why OneCompanyPerDemo, NoOrphans, SharedStay and ReviewFindsThem hold: an invariant that
\* is inductive.
Ids == Staff \union Calls
TenantIds == Calls \union {Home}
CallTyped(c) ==
    /\ c = [pc |-> c.pc, arg |-> c.arg, left |-> c.left, exclusive |-> c.exclusive, kept |-> c.kept]
    /\ c.pc \in {"idle", "done", "convert", "user", "member", "profile", "plan", "count", "complete"}
    /\ c.pc = "convert" => c.arg \in Demos
    /\ c.pc \in {"user", "member", "profile", "plan"} => c.arg \in [email : Emails, plan : BOOLEAN]
    /\ c.pc = "complete" => c.arg \in [user : Ids, tenant : TenantIds]
    /\ c.pc = "count" => c.arg \in TenantIds /\ c.left \union c.exclusive \union c.kept \subseteq Ids
TablesTyped == TenancyTypeOK /\ DOMAIN users \subseteq Ids
CallsTyped == DOMAIN call = Calls /\ \A t \in Calls : CallTyped(call[t])

\* No two companies share a prefix, and who stems from a demo request has its.
PrefixOwned ==
    /\ \A x, y \in DOMAIN tenants : tenants[x].prefix = tenants[y].prefix => x = y
    /\ \A x \in DOMAIN tenants :
         tenants[x].demo # Nobody => tenants[x].prefix = DemoPrefix[tenants[x].demo]

\* Ids are new: a call that has not created its company or its user is in no
\* table, and on the list of no deletion.
BeforeTenant == {"idle", "convert"}
BeforeUser == {"idle", "convert", "user"}
IdsNew == \A t \in Calls :
    /\ call[t].pc \in BeforeTenant =>
         /\ t \notin DOMAIN tenants
         /\ \A c \in Calls : AtCall(c, "count") => call[c].arg # t
    /\ call[t].pc \in BeforeUser =>
         /\ t \notin DOMAIN users
         /\ \A c \in Calls : AtCall(c, "count") => t \notin call[c].left \union call[c].exclusive \union call[c].kept

\* What a deletion knows of the users it listed: they are in the company, those
\* it keeps in another one too, and those it will delete in no other one.
ListsSound == \A c \in Calls : AtCall(c, "count") /\ call[c].arg \in DOMAIN tenants =>
    /\ \A u \in DOMAIN users \cap (call[c].left \union call[c].kept) :
         u \in excused \/ call[c].arg \in TenantsOf(u)
    /\ \A u \in DOMAIN users \cap call[c].kept :
         u \in excused \/ TenantsOf(u) \ {call[c].arg} # {}
    /\ \A u \in call[c].exclusive : u \in joined \/ TenantsOf(u) \subseteq {call[c].arg}

\* What the review has read has the problems that were there all the time.
ReviewSound ==
    /\ review.pc \in {"none", "reading", "recorded"}
    /\ review.pc = "none" => persistent = {}
    /\ review.pc = "reading" =>
         /\ review = [pc |-> "reading", users |-> review.users, members |-> review.members,
                      sessions |-> review.sessions]
         /\ persistent \subseteq InactiveWithAccess \union InactiveWithSession
         /\ review.users # Nobody => \A e \in persistent :
              IF e \in Ids THEN e \in DOMAIN review.users /\ ~review.users[e].active
              ELSE e.user \in DOMAIN review.users /\ ~review.users[e.user].active
         /\ review.members # Nobody => \A e \in persistent \cap Ids : \E m \in review.members : m.user = e
         /\ review.sessions # Nobody => persistent \ Ids \subseteq review.sessions
    /\ ReviewFindsThem

DataInv == TablesTyped /\ CallsTyped /\ PrefixOwned /\ IdsNew /\ ListsSound /\ NoOrphans
TenancyInv == DataInv /\ ReviewSound
=============================================================================
