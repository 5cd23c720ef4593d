------------------------------ MODULE Approvals ------------------------------
(***************************************************************************)
(* The OCR runs of AnalyticsService (simulateOcrRun, approveOcrRun and     *)
(* deleteOcrRun in src/src/modules/analytics/analytics.service.ts) and the *)
(* third parties they share with ThirdPartiesService and the assistant's   *)
(* tool create_third_party, for one company, with the removal of purchases *)
(* (PurchasesService.remove).                                              *)
(*                                                                         *)
(* No handler here opens a transaction: each statement commits by itself,  *)
(* and a handler may end between any two.                                  *)
(***************************************************************************)
EXTENDS Naturals, Sequences, FiniteSets

CONSTANTS
    Nits,
    DefaultNit,  \* the number taken for a run whose fields have none
    PartyIds,
    Runs,
    Approvals,   \* calls of approveOcrRun
    Kinds,       \* kinds of third party an instance uses
    Imports,     \* files of importCsv: sequences of [nit, kind]
    NoId

ThirdPartyKind == {"client", "provider", "employee"}

ASSUME ApprovalAssumption ==
    /\ NoId \notin PartyIds /\ DefaultNit \in Nits /\ Kinds \subseteq ThirdPartyKind
    /\ Imports \subseteq Seq([nit : Nits \union {NoId}, kind : STRING])

VARIABLES
    parties,    \* rows of ThirdParty: [id, nit, kind]
    ocrRuns,    \* rows of OcrRun: [run, nit], NoId where the fields have no number
    purchases,  \* rows of Purchase: [by, run, provider]
    expenses,   \* calls whose Transaction is there
    usage,      \* UsageRecords of "ocr_run", per run
    approval,
    import,     \* the import that is running, and its result so far
    ids,        \* history: ids given to third parties
    made,       \* history: runs that were created
    dropped,    \* history: runs deleted by deleteOcrRun
    erased,     \* history: calls whose purchase a user removed
    raced       \* history: calls that read a run another call was at, or had left with an error

approvalVars == <<parties, ocrRuns, purchases, expenses, usage, approval, import, ids, made, dropped, erased, raced>>
-----------------------------------------------------------------------------
IdleApproval == [pc |-> "idle", run |-> NoId, nit |-> NoId, provider |-> NoId]
IdleImport == [rows |-> <<>>, imported |-> 0, errors |-> 0]

ApprovalInit ==
    /\ parties = {} /\ ocrRuns = {} /\ purchases = {} /\ expenses = {}
    /\ usage = [r \in Runs |-> 0]
    /\ approval = [a \in Approvals |-> IdleApproval] /\ import = IdleImport
    /\ ids = {} /\ made = {} /\ dropped = {} /\ erased = {} /\ raced = {}

TakenBy(nit) == {p \in parties : p.nit = nit}

\* recordUsage is not awaited and logs its errors: the record may be missing.
RecordUsage(r) == usage' \in {usage, [usage EXCEPT ![r] = @ + 1]}

Insert(nit, kind) ==
    \E id \in PartyIds \ ids :
        /\ ids' = ids \union {id}
        /\ parties' = parties \union {[id |-> id, nit |-> nit, kind |-> kind]}
-----------------------------------------------------------------------------
\* AnalyticsService.

\* A run of OcrService: the fields its job writes are called otherwise
\* (vendorNit), so that no number is found here.
UploadRun(r) ==
    /\ r \notin made
    /\ ocrRuns' = ocrRuns \union {[run |-> r, nit |-> NoId]}
    /\ made' = made \union {r}
    /\ UNCHANGED <<parties, purchases, expenses, usage, approval, import, ids, dropped, erased, raced>>

SimulateOcrRun(r) ==
    /\ r \notin made
    /\ \E nit \in Nits : ocrRuns' = ocrRuns \union {[run |-> r, nit |-> nit]}
    /\ made' = made \union {r}
    /\ RecordUsage(r)
    /\ UNCHANGED <<parties, purchases, expenses, approval, import, ids, dropped, erased, raced>>

DeleteOcrRun(r) ==
    /\ r \in {o.run : o \in ocrRuns}
    /\ ocrRuns' = {o \in ocrRuns : o.run # r}
    /\ dropped' = dropped \union {r}
    /\ UNCHANGED <<parties, purchases, expenses, usage, approval, import, ids, made, erased, raced>>

\* approveOcrRun, statement by statement; the status of the run is not looked
\* at, and nothing marks it as taken.
\* Mutant: the run is deleted before the expense is written.
After_DeleteFirst == [purchase |-> "delete", delete |-> "expense", expense |-> "approved"]
After == [purchase |-> "expense", expense |-> "delete", delete |-> "approved"]

Goto(a, pc) == approval' = [approval EXCEPT ![a].pc = pc]

\* The calls on a run that have not answered with its purchase.
Unfinished(r) == {a \in Approvals : approval[a].run = r /\ approval[a].pc \notin {"idle", "approved"}}

ReadOcrRun(a) ==
    /\ approval[a].pc = "idle"
    /\ \E o \in ocrRuns :
        /\ approval' = [approval EXCEPT ![a] =
              [pc |-> "find", run |-> o.run, provider |-> NoId,
               nit |-> IF o.nit = NoId THEN DefaultNit ELSE o.nit]]
        /\ raced' = IF Unfinished(o.run) = {} THEN raced ELSE raced \union {a}
    /\ UNCHANGED <<parties, ocrRuns, purchases, expenses, usage, import, ids, made, dropped, erased>>

FindProvider(a) ==
    LET found == {p \in TakenBy(approval[a].nit) : p.kind = "provider"} IN
    /\ approval[a].pc = "find"
    /\ IF found = {} THEN Goto(a, "provider")
       ELSE \E p \in found : approval' = [approval EXCEPT ![a].pc = "purchase", ![a].provider = p.id]
    /\ UNCHANGED <<parties, ocrRuns, purchases, expenses, usage, import, ids, made, dropped, erased, raced>>

\* Fails if a client, or a provider created meanwhile, has the number.
CreateProvider(a) ==
    /\ approval[a].pc = "provider"
    /\ TakenBy(approval[a].nit) = {}
    /\ Insert(approval[a].nit, "provider")
    /\ approval' = [approval EXCEPT ![a].pc = "purchase",
                                    ![a].provider = CHOOSE id \in ids' \ ids : TRUE]
    /\ UNCHANGED <<ocrRuns, purchases, expenses, usage, import, made, dropped, erased, raced>>

\* Fails if the provider was removed meanwhile.
CreatePurchase(a) ==
    /\ approval[a].pc = "purchase"
    /\ approval[a].provider \in {p.id : p \in parties}
    /\ purchases' = purchases \union
          {[by |-> a, run |-> approval[a].run, provider |-> approval[a].provider]}
    /\ Goto(a, After["purchase"])
    /\ UNCHANGED <<parties, ocrRuns, expenses, usage, import, ids, made, dropped, erased, raced>>

CreateExpense(a) ==
    /\ approval[a].pc = "expense"
    /\ expenses' = expenses \union {a}
    /\ Goto(a, After["expense"])
    /\ UNCHANGED <<parties, ocrRuns, purchases, usage, import, ids, made, dropped, erased, raced>>

\* The delete by id fails if the run is gone: a second approval ends there.
\* Mutant: a deleteMany, which does not.
Deletable_Many(r) == TRUE
Deletable(r) == r \in {o.run : o \in ocrRuns}

DeleteApproved(a) ==
    /\ approval[a].pc = "delete"
    /\ Deletable(approval[a].run)
    /\ ocrRuns' = {o \in ocrRuns : o.run # approval[a].run}
    /\ RecordUsage(approval[a].run)
    /\ Goto(a, After["delete"])
    /\ UNCHANGED <<parties, purchases, expenses, import, ids, made, dropped, erased, raced>>

\* A statement fails, or the process restarts.
FailApproval(a) ==
    /\ approval[a].pc \notin {"idle", "approved", "failed"}
    /\ Goto(a, "failed")
    /\ UNCHANGED <<parties, ocrRuns, purchases, expenses, usage, import, ids, made, dropped, erased, raced>>
-----------------------------------------------------------------------------
\* ThirdPartiesService: (tenantId, nit) is unique.

CreateParty(nit, kind) ==
    /\ TakenBy(nit) = {}
    /\ Insert(nit, kind)
    /\ UNCHANGED <<ocrRuns, purchases, expenses, usage, approval, import, made, dropped, erased, raced>>

\* By id; the read before it only makes the error another one.
UpdateParty(p, nit, kind) ==
    /\ p \in parties /\ TakenBy(nit) \subseteq {p}
    /\ parties' = (parties \ {p}) \union {[p EXCEPT !.nit = nit, !.kind = kind]}
    /\ UNCHANGED <<ocrRuns, purchases, expenses, usage, approval, import, ids, made, dropped, erased, raced>>

\* What the party's purchases refer to becomes null.
RemoveParty(p) ==
    /\ p \in parties
    /\ parties' = parties \ {p}
    /\ purchases' = {IF b.provider = p.id THEN [b EXCEPT !.provider = NoId] ELSE b : b \in purchases}
    /\ UNCHANGED <<ocrRuns, expenses, usage, approval, import, ids, made, dropped, erased, raced>>

\* The assistant's upsert changes the name and the address of a party that is
\* there, never its kind, and inserts one that is not.
UpsertParty(nit, kind) ==
    IF TakenBy(nit) = {} THEN CreateParty(nit, kind) ELSE UNCHANGED approvalVars

\* PurchasesService.remove: the expense that refers to the purchase stays.
RemovePurchase(b) ==
    /\ b \in purchases
    /\ purchases' = purchases \ {b}
    /\ erased' = erased \union {b.by}
    /\ UNCHANGED <<parties, ocrRuns, expenses, usage, approval, import, ids, made, dropped, raced>>

StartImport ==
    /\ import.rows = <<>>
    /\ \E rows \in Imports : import' = [IdleImport EXCEPT !.rows = rows]
    /\ UNCHANGED <<parties, ocrRuns, purchases, expenses, usage, approval, ids, made, dropped, erased, raced>>

\* A row without a number, of another kind or with a number that is taken is
\* reported, and the next one follows.
ImportRow ==
    LET row == Head(import.rows)
        valid == row.nit # NoId /\ row.kind \in ThirdPartyKind
    IN  /\ import.rows # <<>>
        /\ IF valid /\ TakenBy(row.nit) = {}
           THEN /\ Insert(row.nit, row.kind)
                /\ import' = [import EXCEPT !.rows = Tail(@), !.imported = @ + 1]
           ELSE /\ import' = [import EXCEPT !.rows = Tail(@), !.errors = @ + 1]
                /\ UNCHANGED <<parties, ids>>
        /\ UNCHANGED <<ocrRuns, purchases, expenses, usage, approval, made, dropped, erased, raced>>

ApprovalNext ==
    \/ \E r \in Runs : UploadRun(r) \/ SimulateOcrRun(r) \/ DeleteOcrRun(r)
    \/ \E a \in Approvals :
         \/ ReadOcrRun(a) \/ FindProvider(a) \/ CreateProvider(a) \/ CreatePurchase(a)
         \/ CreateExpense(a) \/ DeleteApproved(a) \/ FailApproval(a)
    \/ \E nit \in Nits, kind \in Kinds :
         \/ CreateParty(nit, kind) \/ UpsertParty(nit, kind)
         \/ \E p \in parties : UpdateParty(p, nit, kind)
    \/ \E p \in parties : RemoveParty(p)
    \/ \E b \in purchases : RemovePurchase(b)
    \/ StartImport \/ ImportRow

ApprovalSpec == ApprovalInit /\ [][ApprovalNext]_approvalVars
-----------------------------------------------------------------------------
\* However many calls approve a run at once, one of them at most reports a
\* purchase: the delete decides between them, and the others end with an error.
ApprovedOnce ==
    \A r \in Runs :
        Cardinality({a \in Approvals : approval[a].pc = "approved" /\ approval[a].run = r}) <= 1

\* Two calls can write a purchase and an expense for one run. They do so only if
\* one of them read the run while the other was at it, or after the other had
\* ended with an error: a run that was reported as booked is not booked again.
BookedAgainInRace ==
    \A a, b \in expenses :
        a # b /\ approval[a].run = approval[b].run => a \in raced \/ b \in raced

\* A run that nobody deleted is gone only if one call wrote both its purchase
\* and its expense: whatever statement fails and wherever the process stops, the
\* document is still on the list or in the books. The purchase may have been
\* removed since, by a user.
DocumentBooked ==
    \A r \in made \ dropped :
        \/ r \in {o.run : o \in ocrRuns}
        \/ \E a \in expenses : approval[a].run = r /\ a \in erased \union {b.by : b \in purchases}

\* A run counts once for being simulated and once for being approved, however
\* many calls approve it.
CountedPerBooking ==
    \A r \in Runs :
        usage[r] <= IF \E a \in Approvals : approval[a].pc = "approved" /\ approval[a].run = r THEN 2 ELSE 1

\* Approving a document: one call reports it, a second booking needs a race or a
\* failure, what leaves the list is in the books, and it is counted once.
ApprovalSound == ApprovedOnce /\ BookedAgainInRace /\ DocumentBooked /\ CountedPerBooking

-----------------------------------------------------------------------------
\* Why ApprovalSound holds: an invariant that is inductive.
ApprovalSteps == {"idle", "find", "provider", "purchase", "expense", "delete", "approved", "failed"}
Listed == {o.run : o \in ocrRuns}

PartyRows == [id : PartyIds, nit : Nits, kind : ThirdPartyKind]
PurchaseRows == [by : Approvals, run : Runs, provider : PartyIds \union {NoId}]
ApprovalRows == [pc : ApprovalSteps, run : Runs \union {NoId}, nit : Nits \union {NoId},
                 provider : PartyIds \union {NoId}]

ApprovalTypeOK ==
    /\ parties \subseteq PartyRows
    /\ ocrRuns \subseteq [run : Runs, nit : Nits \union {NoId}]
    /\ purchases \subseteq PurchaseRows
    /\ expenses \subseteq Approvals
    /\ usage \in [Runs -> Nat]
    /\ import \in [rows : Seq([nit : Nits \union {NoId}, kind : STRING]), imported : Nat, errors : Nat]
    /\ approval \in [Approvals -> ApprovalRows]
    /\ ids \subseteq PartyIds /\ made \subseteq Runs /\ dropped \subseteq Runs
    /\ erased \subseteq Approvals /\ raced \subseteq Approvals

\* Only runs that were made are on the list, or approved; for a number.
RunsMade ==
    /\ Listed \subseteq made
    /\ \A a \in Approvals : approval[a].pc # "idle" => approval[a].run \in made /\ approval[a].nit \in Nits

\* What a call has written by the time it gets to a step.
WrittenBefore == \A a \in Approvals :
    /\ approval[a].pc \in {"expense", "delete", "approved"} => a \in erased \union {b.by : b \in purchases}
    /\ approval[a].pc \in {"delete", "approved"} => a \in expenses

\* A run that a call has approved is off the list, where no other call can take
\* it from.
ApprovedOffList == \A a \in Approvals :
    approval[a].pc = "approved" =>
        /\ approval[a].run \notin Listed
        /\ \A b \in Approvals : approval[b].pc = "approved" /\ approval[b].run = approval[a].run => a = b

\* Of two calls on one run, the later has raced with the earlier: one that comes
\* after an approval does not find the run.
LaterRaced == \A a, b \in Approvals :
    a # b /\ approval[a].pc # "idle" /\ approval[b].pc # "idle" /\ approval[a].run = approval[b].run =>
        a \in raced \/ b \in raced

\* Only a call that took a run has written an expense.
WrittenByCalls == \A a \in expenses : approval[a].pc # "idle"

\* A run that is not there yet has not been counted.
CountedSince == CountedPerBooking /\ \A r \in Runs \ made : usage[r] = 0

ApprovalInv ==
    /\ ApprovalTypeOK /\ RunsMade /\ WrittenBefore /\ ApprovedOffList /\ DocumentBooked
    /\ LaterRaced /\ WrittenByCalls /\ CountedSince
=============================================================================
