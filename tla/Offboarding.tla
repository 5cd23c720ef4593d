----------------------------- MODULE Offboarding -----------------------------
(***************************************************************************)
(* How companies and their data leave: the export and the self-service     *)
(* deletion of SubscriptionsController                                     *)
(* (src/src/modules/subscriptions/subscriptions.controller.ts), and the    *)
(* retention job and the deletion on request of DataRetentionService       *)
(* (src/src/modules/privacy/data-retention.service.ts; its scheduler is    *)
(* registered in no module, and nothing calls the deletion on request).    *)
(*                                                                         *)
(* Rows of a company are gone with it (onDelete: Cascade), but for the     *)
(* audit events, whose tenantId becomes null.                              *)
(***************************************************************************)
EXTENDS Naturals, FiniteSets

CONSTANTS
    Companies,
    People,
    Owners,       \* the people with isSystemOwner
    FirstMembers, \* the memberships of the initial state
    Demands,
    Marks,        \* what makes a company active: updatedAt, userSessions, transactions
    NoCompany

ASSUME OffboardingAssumption ==
    Owners \subseteq People /\ NoCompany \notin Companies /\ FirstMembers \subseteq People \X Companies

VARIABLES
    company,   \* the rows of Tenant
    member,    \* the rows of Membership, as <<person, company>>
    token,     \* the people with a refresh token that is not revoked
    audit,     \* the rows of AuditEvent: [by, company, what]
    recent,    \* what of a company is younger than the cut-off
    demand,   \* the calls: [pc, who, company]
    doomed     \* the companies the running retention job has found

offboardingVars == <<company, member, token, audit, recent, demand, doomed>>
-----------------------------------------------------------------------------
IdleDemand == [pc |-> "idle", who |-> NoCompany, company |-> NoCompany]

OffboardingInit ==
    /\ company = Companies /\ member = FirstMembers
    /\ token = {m[1] : m \in FirstMembers}
    /\ audit = {} /\ doomed = {}
    /\ recent = [c \in Companies |-> Marks]
    /\ demand = [r \in Demands |-> IdleDemand]

CompaniesOf(u) == {c \in Companies : <<u, c>> \in member}
MembersOf(c) == {u \in People : <<u, c>> \in member}

Advance(r, pc) == demand' = [demand EXCEPT ![r].pc = pc]

\* The event fails with its foreign key if the company is gone.
Record(r, c, what) ==
    /\ c \in company
    /\ audit' = audit \union {[by |-> r, company |-> c, what |-> what]}

\* What is left after the companies cs are deleted.
Cascade(cs) ==
    /\ company' = company \ cs
    /\ member' = {m \in member : m[2] \notin cs}
    /\ audit' = {IF e.company \in cs THEN [e EXCEPT !.company = NoCompany] ELSE e : e \in audit}
-----------------------------------------------------------------------------
\* Members come (UsersService, AdminService) and sign in, and what they do makes
\* a company recent; time makes it old.
Join(u, c) ==
    /\ c \in company
    /\ member' = member \union {<<u, c>>}
    /\ UNCHANGED <<company, token, audit, recent, demand, doomed>>

GetToken(u) ==
    /\ token' = token \union {u}
    /\ UNCHANGED <<company, member, audit, recent, demand, doomed>>

Work(c, mark) ==
    /\ c \in company
    /\ recent' = [recent EXCEPT ![c] = @ \union {mark}]
    /\ UNCHANGED <<company, member, token, audit, demand, doomed>>

Age(c, mark) ==
    /\ recent' = [recent EXCEPT ![c] = @ \ {mark}]
    /\ UNCHANGED <<company, member, token, audit, demand, doomed>>
-----------------------------------------------------------------------------
\* A member, or a system owner, asks for the data or for the end of a company.
CheckMembership(r, u, c, what) ==
    /\ demand[r].pc = "idle"
    /\ <<u, c>> \in member \/ u \in Owners
    /\ demand' = [demand EXCEPT ![r] = [pc |-> what, who |-> u, company |-> c]]
    /\ UNCHANGED <<company, member, token, audit, recent, doomed>>

ExportData(r) ==
    /\ demand[r].pc = "export"
    /\ Record(r, demand[r].company, "exported")
    /\ Advance(r, "exported")
    /\ UNCHANGED <<company, member, token, recent, doomed>>

CountOthers(r) ==
    /\ demand[r].pc = "delete"
    /\ IF demand[r].who \in Owners \/ CompaniesOf(demand[r].who) \ {demand[r].company} # {}
       THEN Advance(r, "counted") ELSE Advance(r, "refused")
    /\ UNCHANGED <<company, member, token, audit, recent, doomed>>

\* One transaction: the members are cut off, but only the caller's refresh
\* tokens are revoked; the sessions go with the company.
CutOff(r) ==
    LET c == demand[r].company IN
    /\ demand[r].pc = "counted"
    /\ Record(r, c, "deleted")
    /\ member' = {m \in member : m[2] # c}
    /\ token' = token \ {demand[r].who}
    /\ Advance(r, "cut")
    /\ UNCHANGED <<company, recent, doomed>>

Removable_Many(c) == TRUE   \* Mutant: deleteMany instead of delete.
Removable(c) == c \in company

DeleteCompany(r) ==
    LET c == demand[r].company IN
    /\ demand[r].pc = "cut" /\ Removable(c)
    /\ Cascade({c})
    /\ Advance(r, "closed")
    /\ UNCHANGED <<token, recent, doomed>>

\* A statement fails, or the process restarts: a company that was cut off stays,
\* with no member who could delete it.
FailDemand(r) ==
    /\ demand[r].pc \in {"export", "delete", "counted", "cut", "erase", "erased"}
    /\ Advance(r, "failed")
    /\ UNCHANGED <<company, member, token, audit, recent, doomed>>
-----------------------------------------------------------------------------
\* deleteTenantData: everything, and the refresh tokens of all its members, in
\* other companies too; the events of the company are deleted, not kept.
FindErased(r, u, c) ==
    /\ demand[r].pc = "idle" /\ c \in company
    /\ demand' = [demand EXCEPT ![r] = [pc |-> "erase", who |-> u, company |-> c]]
    /\ UNCHANGED <<company, member, token, audit, recent, doomed>>

EraseCompany(r) ==
    LET c == demand[r].company IN
    /\ demand[r].pc = "erase" /\ c \in company
    /\ company' = company \ {c}
    /\ member' = {m \in member : m[2] # c}
    /\ token' = token \ MembersOf(c)
    /\ audit' = {e \in audit : e.company # c}
    /\ Advance(r, "erased")
    /\ UNCHANGED <<recent, doomed>>

\* The event of the deletion names the company "system", which is none: the
\* insert fails, and with it a call whose deletion is committed.
RecordErased(r) ==
    /\ demand[r].pc = "erased"
    /\ Advance(r, "failed")
    /\ UNCHANGED <<company, member, token, audit, recent, doomed>>

\* deleteInactiveTenants: one mark that is old is enough, and none is looked at
\* again before the deletion.
Inactive(c) == recent[c] # Marks

FindInactive ==
    /\ doomed = {}
    /\ doomed' = {c \in company : Inactive(c)}
    /\ UNCHANGED <<company, member, token, audit, recent, demand>>

\* A batch of fifty in one transaction, which fails if one of them is gone.
DeleteInactive ==
    /\ doomed # {} /\ doomed' = {}
    /\ IF doomed \subseteq company THEN Cascade(doomed) ELSE UNCHANGED <<company, member, audit>>
    /\ UNCHANGED <<token, recent, demand>>

OffboardingNext ==
    \/ \E u \in People : GetToken(u) \/ \E c \in Companies : Join(u, c)
    \/ \E c \in Companies, mark \in Marks : Work(c, mark) \/ Age(c, mark)
    \/ \E r \in Demands :
         \/ \E u \in People, c \in Companies :
              \/ FindErased(r, u, c)
              \/ \E what \in {"export", "delete"} : CheckMembership(r, u, c, what)
         \/ ExportData(r) \/ CountOthers(r) \/ CutOff(r) \/ DeleteCompany(r) \/ FailDemand(r)
         \/ EraseCompany(r) \/ RecordErased(r)
    \/ FindInactive \/ DeleteInactive

OffboardingSpec == OffboardingInit /\ [][OffboardingNext]_offboardingVars
-----------------------------------------------------------------------------
\* However many of its members delete a company at once, and whatever the other
\* jobs delete meanwhile, one call at most reports that it did; and the log keeps
\* the event of that call when the company is gone.
ClosedOnce == \A c \in Companies :
    LET closers == {r \in Demands : demand[r].pc = "closed" /\ demand[r].company = c} IN
    /\ Cardinality(closers) <= 1
    /\ \A r \in closers : c \notin company /\ [by |-> r, company |-> NoCompany, what |-> "deleted"] \in audit

-----------------------------------------------------------------------------
\* Why ClosedOnce holds: an invariant that is inductive.
DemandSteps == {"idle", "export", "exported", "delete", "counted", "refused", "cut", "closed",
                "erase", "erased", "failed"}

OffboardingTypeOK ==
    /\ company \subseteq Companies
    /\ member \subseteq People \X Companies
    /\ token \subseteq People
    /\ audit \subseteq [by : Demands, company : Companies \union {NoCompany}, what : {"exported", "deleted"}]
    /\ recent \in [Companies -> SUBSET Marks]
    /\ demand \in [Demands -> [pc : DemandSteps, who : People \union {NoCompany},
                               company : Companies \union {NoCompany}]]
    /\ doomed \subseteq Companies

\* A call has named a company.
Named == \A r \in Demands : demand[r].pc # "idle" => demand[r].company \in Companies

\* As long as the company is there, the log holds the event of the call that cut
\* its members off.
CutIsLogged == \A r \in Demands :
    demand[r].pc = "cut" /\ demand[r].company \in company =>
        [by |-> r, company |-> demand[r].company, what |-> "deleted"] \in audit

\* ClosedOnce, with the companies that are gone told apart by who closed them.
ClosedIsLogged == \A r \in Demands :
    demand[r].pc = "closed" =>
        /\ demand[r].company \notin company
        /\ [by |-> r, company |-> NoCompany, what |-> "deleted"] \in audit
OneCloser == \A r, s \in Demands :
    demand[r].pc = "closed" /\ demand[s].pc = "closed" /\ demand[r].company = demand[s].company => r = s

OffboardingInv == OffboardingTypeOK /\ Named /\ CutIsLogged /\ ClosedIsLogged /\ OneCloser
=============================================================================
