------------------------------ MODULE OcrJobs ------------------------------
(***************************************************************************)
(* The OCR document pipeline of one tenant: the HTTP handlers that upload, *)
(* retry and delete a document (ocr.service.ts), the background job they   *)
(* start (ocr.processor.ts), the usage records the quota is computed from  *)
(* (usage.service.ts), all their writers, and the legacy endpoints that    *)
(* touch the same rows (analytics.service.ts, purchases.service.ts).       *)
(*                                                                         *)
(* A task is one HTTP request together with the fire-and-forget work it    *)
(* leaves behind.  The code runs on one event loop, so a task is preempted *)
(* exactly at its awaits: every action below is the code between two of    *)
(* them.  The database executes each statement atomically (READ            *)
(* COMMITTED); the only interactive transaction, in executeJobCore, is     *)
(* modelled as its read (Find) and its commit (Commit).                    *)
(***************************************************************************)
EXTENDS Naturals, FiniteSets

CONSTANTS
    Runs,              \* ids of the rows of table OcrRun
    NoRun,             \* the run of a task that serves no request
    Tasks,             \* requests that may be in flight at once
    DraftIds,          \* ids a draft can get: bounds the drafts of one run
    Numbers,           \* purchase numbers
    PurchaseNumber,    \* [Runs -> Numbers], the number derived from the row's id
    Limit,             \* the plan's maxOcrRunsPerMonth
    MaxRetries,        \* MAX_RETRIES of the processor
    MaxManualRetries,  \* the 5 of OcrService.retry
    MaxChats,          \* bounds the chats with an attachment
    Requests,          \* the kinds of request the environment makes
    Faults             \* the kinds of fault the environment commits

RequestKinds ==
    {"upload", "retry", "delete",
     "simulate", "approve", "legacyDelete",    \* AnalyticsController
     "removePurchase", "chat"}

\* "model":   Gemini, the download of the file or the parsing of the answer fails.
\* "db":      a statement or transaction is refused and nothing is written.
\* "ack":     a statement or transaction commits, but its caller gets an error.
\* "storage": the object store refuses a write or a delete.
FaultKinds == {"model", "db", "ack", "storage"}

ASSUME NoRunAssumption == NoRun \notin Runs
ASSUME NumberAssumption == PurchaseNumber \in [Runs -> Numbers]
ASSUME BoundsAssumption ==
    /\ Limit \in Nat
    /\ MaxRetries \in Nat \ {0}
    /\ MaxManualRetries \in Nat \ {0}
    /\ MaxChats \in Nat
ASSUME KindsAssumption == Requests \subseteq RequestKinds /\ Faults \subseteq FaultKinds

VARIABLES
    status,      \* OcrRun.status; "none" before the row exists, "deleted" after
    retryCount,  \* OcrRun.retryCount
    purchaseId,  \* OcrRun.purchaseId: {} for null, else {the purchase}
    purchases,   \* the drafts in table Purchase
    files,       \* runs whose document is in the object store
    deleting,    \* runs whose document has a storage delete in flight
    usage,       \* UsageRecords of feature ocr_run, by writer and run
    task         \* the tasks' control state and locals

vars == <<status, retryCount, purchaseId, purchases, files, deleting, usage, task>>

-----------------------------------------------------------------------------
\* State.

\* "simulated" stands for a processed row with an example in place of a document.
Open == {"pending", "processing"}
Stored == {"pending", "processing", "processed", "failed", "simulated"}
Statuses == Stored \union {"none", "deleted"}

\* A draft, with the run it was created for.
Purchases == [run : Runs, id : DraftIds]

NumberOf(p) == PurchaseNumber[p.run]

\* Where a task stands: at each label it is about to run that step.
Labels ==
    {"idle",
     "store", "create",                                 \* initiateUpload
     "quota", "cas",                                    \* retry
     "erase",                                           \* delete
     "simulated",                                       \* simulateOcrRun
     "approve", "approved",                             \* approveOcrRun
     "acquire",                                         \* acquireLock
     "core", "find", "commit", "usage",                 \* executeJobCore
     "count", "delay", "mark"}                          \* the catch branches

\* The labels at which a task believes it holds the run's lock.
Executing == {"core", "find", "commit", "count", "delay", "mark"}

TaskStates ==
    [pc : Labels,
     run : Runs \union {NoRun},
     seen : Statuses,               \* the status retry() read
     inline : BOOLEAN,              \* inside processSync
     attempt : 0 .. MaxRetries - 1,
     draft : SUBSET Purchases,      \* the existing draft it will link
     creates : BOOLEAN]             \* whether it inserts a new draft to link

IdleTask ==
    [pc |-> "idle", run |-> NoRun, seen |-> "none", inline |-> FALSE,
     attempt |-> 0, draft |-> {}, creates |-> FALSE]

Exists(r) == status[r] \in Stored
Uploaded(r) == Exists(r) /\ status[r] # "simulated"

\* Who writes records: a job once its run is extracted; approveOcrRun and
\* simulateOcrRun, for their run; and a chat that read an attachment, for no run.
Writers == {"job", "approval", "simulation", "chat"}

\* UsageService.recordUsage appends a record, of quantity 1; checkLimit sums the
\* quantities, whoever wrote them.  Only an upload and a retry ask it: the other
\* writers' records are unchecked.
Charge(w, r) == usage' = [usage EXCEPT ![w][r] = @ + 1]

RecordsOf(w) == UNION {{<<w, r, n>> : n \in 1 .. usage[w][r]} : r \in Runs \union {NoRun}}
UsageRecords == RecordsOf("job")
UncheckedRecords == RecordsOf("approval") \union RecordsOf("simulation") \union RecordsOf("chat")
UsedQuota == Cardinality(UsageRecords) + Cardinality(UncheckedRecords)

\* Mutant: the comparison with the limit off by one.
QuotaAllows_AtLimit == UsedQuota <= Limit
QuotaAllows == UsedQuota < Limit

Init ==
    /\ status = [r \in Runs |-> "none"]
    /\ retryCount = [r \in Runs |-> 0]
    /\ purchaseId = [r \in Runs |-> {}]
    /\ purchases = {}
    /\ files = {}
    /\ deleting = {}
    /\ usage = [w \in Writers |-> [r \in Runs \union {NoRun} |-> 0]]
    /\ task = [t \in Tasks |-> IdleTask]

-----------------------------------------------------------------------------
\* Control helpers.

At(t, l) == task[t].pc = l
Become(t, s) == task' = [task EXCEPT ![t] = s]
Goto(t, l) == Become(t, [task[t] EXCEPT !.pc = l])
End(t) == Become(t, IdleTask)
Begin(t, r, l) == Become(t, [IdleTask EXCEPT !.pc = l, !.run = r])

rest == <<status, retryCount, purchaseId, purchases, files, deleting, usage>>

\* The catch branch around executeJobCore: processSync goes to markFailed,
\* processWithRetry first counts the attempt.
Catch(t) == Goto(t, IF task[t].inline THEN "mark" ELSE "count")

-----------------------------------------------------------------------------
\* POST /ocr/upload.

\* A document id nothing in the database, the bucket or a request refers to.
FreshRun(r) ==
    /\ status[r] = "none"
    /\ r \notin files \union deleting
    /\ \A t \in Tasks : task[t].run # r

\* The guards on size and type reject without effect; the quota gate admits.
Upload(t, r) ==
    /\ "upload" \in Requests
    /\ At(t, "idle")
    /\ FreshRun(r)
    /\ QuotaAllows
    /\ Begin(t, r, "store")
    /\ UNCHANGED rest

StoreFile(t) ==
    /\ At(t, "store")
    /\ \/ /\ files' = files \union {task[t].run}
          /\ Goto(t, "create")
       \/ /\ "storage" \in Faults
          /\ End(t)
          /\ UNCHANGED files
    /\ UNCHANGED <<status, retryCount, purchaseId, purchases, deleting, usage>>

\* The row is created; a document of at most SYNC_THRESHOLD_BYTES is processed
\* inside the request, a larger one in the background.  If the insert fails the
\* document is removed again, without waiting for it.
CreateRun(t) ==
    LET r == task[t].run
        Insert == status' = [status EXCEPT ![r] = "pending"]
    IN  /\ At(t, "create")
        /\ \/ /\ Insert
              /\ \E small \in BOOLEAN :
                   Become(t, [task[t] EXCEPT !.pc = "acquire", !.inline = small])
              /\ UNCHANGED deleting
           \/ /\ \/ "db" \in Faults /\ UNCHANGED status
                 \/ "ack" \in Faults /\ Insert
              /\ deleting' = deleting \union {r}
              /\ End(t)
        /\ UNCHANGED <<retryCount, purchaseId, purchases, files, usage>>

-----------------------------------------------------------------------------
\* OcrProcessor: the compare-and-swap lock.

\* Mutants: the lock can be taken from its holder; it cannot be taken from the
\* state an upload or a retry leaves the row in.
Claimable_Held(r) == status[r] \in {"pending", "failed", "processing"}
Claimable(r) == status[r] \in {"pending", "failed"}

Lock(r) == status' = [status EXCEPT ![r] = "processing"]

\* acquireLock() from processSync (inline) or from attempt 0 of
\* processWithRetry.  A processSync that throws before its try block falls back
\* to the background job; a background job that cannot lock ends.
NotLocked(t) ==
    IF task[t].inline
    THEN Become(t, [task[t] EXCEPT !.inline = FALSE])
    ELSE End(t)

Acquire(t) ==
    LET r == task[t].run
    IN  /\ At(t, "acquire")
        /\ \/ Claimable(r) /\ Lock(r) /\ Goto(t, "core")
           \/ ~Claimable(r) /\ NotLocked(t) /\ UNCHANGED status
           \/ "db" \in Faults /\ NotLocked(t) /\ UNCHANGED status
           \/ "ack" \in Faults /\ Claimable(r) /\ Lock(r) /\ NotLocked(t)
        /\ UNCHANGED <<retryCount, purchaseId, purchases, files, deleting, usage>>

-----------------------------------------------------------------------------
\* OcrProcessor.executeJobCore.

\* The document is at hand inside the request; a background job downloads it.
HasDocument(t) == task[t].inline \/ task[t].run \in files

\* Steps 1-4: plan, document, Gemini, parsing.
Extract(t) ==
    /\ At(t, "core")
    /\ \/ HasDocument(t) /\ Goto(t, "find")
       \/ ~HasDocument(t) /\ Catch(t)
       \/ Faults \intersect {"model", "db"} # {} /\ Catch(t)
    /\ UNCHANGED rest

\* The drafts createPurchaseDraftInTx may reuse for run r.
\* Mutant: the idempotency check is dropped.
Reusable_None(r) == {}
Reusable(r) == {p \in purchases : NumberOf(p) = PurchaseNumber[r]}

\* The transaction's read.  No draft is wanted unless the request asked for one
\* and the extracted total is positive.
Find(t) ==
    LET r == task[t].run
        Link(d, new) == Become(t, [task[t] EXCEPT !.pc = "commit",
                                                !.draft = d, !.creates = new])
    IN  /\ At(t, "find")
        /\ \/ Link({}, FALSE)
           \/ \E p \in Reusable(r) : Link({p}, FALSE)
           \/ Reusable(r) = {} /\ Link({}, TRUE)
           \/ "db" \in Faults /\ Catch(t)
        /\ UNCHANGED rest

\* Whether PostgreSQL accepts the transaction's writes: the row is there, a
\* reused draft is still there, and no other row holds it (purchaseId is unique).
CanCommit(t) ==
    LET r == task[t].run
    IN  /\ Exists(r)
        /\ task[t].draft \subseteq purchases
        /\ \A q \in Runs \ {r} : purchaseId[q] \intersect task[t].draft = {}

\* The transaction's writes: insert the draft, then update the row by id.
CommitWrites(t) ==
    LET r == task[t].run
        Save(d) == /\ status' = [status EXCEPT ![r] = "processed"]
                   /\ purchaseId' = [purchaseId EXCEPT ![r] = d]
    IN  \/ ~task[t].creates /\ Save(task[t].draft) /\ UNCHANGED purchases
        \/ /\ task[t].creates
           /\ \E p \in [run : {r}, id : DraftIds] \ purchases :
                 purchases' = purchases \union {p} /\ Save({p})

\* The catch branch leaves the transaction's locals behind.
CatchCommit(t) ==
    Become(t, [task[t] EXCEPT !.pc = IF task[t].inline THEN "mark" ELSE "count",
                              !.draft = {}, !.creates = FALSE])

Commit(t) ==
    /\ At(t, "commit")
    /\ \/ CanCommit(t) /\ CommitWrites(t) /\ Goto(t, "usage")
       \/ /\ ~CanCommit(t) \/ "db" \in Faults
          /\ CatchCommit(t)
          /\ UNCHANGED <<status, purchaseId, purchases>>
       \/ "ack" \in Faults /\ CanCommit(t) /\ CommitWrites(t) /\ CatchCommit(t)
    /\ UNCHANGED <<retryCount, files, deleting, usage>>

\* recordUsage runs after the commit and swallows its errors.
RecordUsage(t) ==
    /\ At(t, "usage")
    /\ \/ Charge("job", task[t].run)
       \/ "db" \in Faults /\ UNCHANGED usage
    /\ End(t)
    /\ UNCHANGED <<status, retryCount, purchaseId, purchases, files, deleting>>

-----------------------------------------------------------------------------
\* The catch branches of processWithRetry and processSync.

WillRetry(t) == task[t].attempt + 1 < MaxRetries

\* The failed attempt is counted on the row.  When that update fails (the row
\* is gone, or the database refuses it) the job's promise rejects and the row
\* is left as it is.
CountFailure(t) ==
    LET r == task[t].run
        Increment == retryCount' = [retryCount EXCEPT ![r] = @ + 1]
    IN  /\ At(t, "count")
        /\ \/ Exists(r) /\ Increment /\ Goto(t, IF WillRetry(t) THEN "delay" ELSE "mark")
           \/ ~Exists(r) /\ End(t) /\ UNCHANGED retryCount
           \/ "db" \in Faults /\ End(t) /\ UNCHANGED retryCount
           \/ "ack" \in Faults /\ Exists(r) /\ Increment /\ End(t)
        /\ UNCHANGED <<status, purchaseId, purchases, files, deleting, usage>>

\* After RETRY_DELAYS_MS the next attempt starts without locking again.
NextAttempt(t) ==
    /\ At(t, "delay")
    /\ Become(t, [task[t] EXCEPT !.pc = "core", !.attempt = @ + 1])
    /\ UNCHANGED rest

\* After markFailed, processSync rethrows into initiateUpload, which falls back
\* to the background job; processWithRetry returns.
AfterMark(t) ==
    IF task[t].inline
    THEN Become(t, [task[t] EXCEPT !.pc = "acquire", !.inline = FALSE])
    ELSE End(t)

\* markFailed() updates by id and swallows its errors.
MarkFailed(t) ==
    LET r == task[t].run
    IN  /\ At(t, "mark")
        /\ \/ Exists(r) /\ status' = [status EXCEPT ![r] = "failed"]
           \/ (~Exists(r) \/ "db" \in Faults) /\ UNCHANGED status
        /\ AfterMark(t)
        /\ UNCHANGED <<retryCount, purchaseId, purchases, files, deleting, usage>>

-----------------------------------------------------------------------------
\* POST /ocr/:id/retry.

\* Mutants: a processed document may be retried; the attempts are not compared.
Retryable_Processed(r) ==
    /\ status[r] \in {"pending", "failed", "processed"}
    /\ retryCount[r] < MaxManualRetries
Retryable_Always(r) == status[r] \in {"pending", "failed"}
Retryable(r) ==
    /\ status[r] \in {"pending", "failed"}
    /\ retryCount[r] < MaxManualRetries

\* findFirst and the business rules.
Retry(t, r) ==
    /\ "retry" \in Requests
    /\ At(t, "idle")
    /\ Retryable(r)
    /\ Become(t, [IdleTask EXCEPT !.pc = "quota", !.run = r, !.seen = status[r]])
    /\ UNCHANGED rest

CheckQuota(t) ==
    /\ At(t, "quota")
    /\ IF QuotaAllows THEN Goto(t, "cas") ELSE End(t)
    /\ UNCHANGED rest

\* The optimistic lock compares the status alone.
\* Mutant: an update by id.
Reopenable_ById(t) == Exists(task[t].run)
Reopenable(t) == status[task[t].run] = task[t].seen

Reopen(t) ==
    LET r == task[t].run
        Pend == status' = [status EXCEPT ![r] = "pending"]
    IN  /\ At(t, "cas")
        /\ \/ /\ Reopenable(t) /\ Pend
              /\ Become(t, [task[t] EXCEPT !.pc = "acquire", !.seen = "none"])
           \/ (~Reopenable(t) \/ "db" \in Faults) /\ End(t) /\ UNCHANGED status
           \/ "ack" \in Faults /\ Reopenable(t) /\ Pend /\ End(t)
        /\ UNCHANGED <<retryCount, purchaseId, purchases, files, deleting, usage>>

-----------------------------------------------------------------------------
\* DELETE /ocr/:id and the object store.

Deletable(r) == Exists(r) /\ status[r] # "processing"

\* findFirst, the status check and the fire-and-forget storage.delete.
Delete(t, r) ==
    /\ "delete" \in Requests
    /\ At(t, "idle")
    /\ Deletable(r)
    /\ deleting' = deleting \union {r}
    /\ Begin(t, r, "erase")
    /\ UNCHANGED <<status, retryCount, purchaseId, purchases, files, usage>>

DropRow(r) ==
    /\ status' = [status EXCEPT ![r] = "deleted"]
    /\ purchaseId' = [purchaseId EXCEPT ![r] = {}]

\* ocrRun.delete by id.
\* Mutant: the status is checked again, after the storage delete was sent.
Erasable_Rechecked(r) == Exists(r) /\ status[r] # "processing"
Erasable(r) == Exists(r)

Erase(t) ==
    LET r == task[t].run
    IN  /\ At(t, "erase")
        /\ \/ Erasable(r) /\ DropRow(r)
           \/ (~Erasable(r) \/ "db" \in Faults) /\ UNCHANGED <<status, purchaseId>>
        /\ End(t)
        /\ UNCHANGED <<retryCount, purchases, files, deleting, usage>>

StorageDelete(r) ==
    /\ r \in deleting
    /\ deleting' = deleting \ {r}
    /\ \/ files' = files \ {r}
       \/ "storage" \in Faults /\ UNCHANGED files
    /\ UNCHANGED <<status, retryCount, purchaseId, purchases, usage, task>>

-----------------------------------------------------------------------------
\* The legacy endpoints of AnalyticsService: no status check, and the document
\* stays in the bucket.  deleteOcrRun is one statement.
LegacyDelete(r) ==
    /\ "legacyDelete" \in Requests
    /\ Exists(r)
    /\ DropRow(r)
    /\ UNCHANGED <<retryCount, purchases, files, deleting, usage, task>>

\* simulateOcrRun: a processed row with an example, and its record, for which
\* the plan is not asked.
Simulate(t, r) ==
    /\ "simulate" \in Requests
    /\ At(t, "idle")
    /\ FreshRun(r)
    /\ status' = [status EXCEPT ![r] = "simulated"]
    /\ \/ Begin(t, r, "simulated")
       \/ "ack" \in Faults /\ UNCHANGED task
    /\ UNCHANGED <<retryCount, purchaseId, purchases, files, deleting, usage>>

\* approveOcrRun: findUnique, whatever the status.
Approve(t, r) ==
    /\ "approve" \in Requests
    /\ At(t, "idle")
    /\ Exists(r)
    /\ Begin(t, r, "approve")
    /\ UNCHANGED rest

\* The provider, purchase and expense it writes (module Approvals: they are none
\* of the drafts here), any of which may fail; then ocrRun.delete by id.
\* Mutant: the request goes on, and charges, when the row is gone.
Remove_Again(t) ==
    LET r == task[t].run
    IN  /\ At(t, "approve")
        /\ \/ Exists(r) /\ DropRow(r) /\ Goto(t, "approved")
           \/ ~Exists(r) /\ Goto(t, "approved") /\ UNCHANGED <<status, purchaseId>>
           \/ End(t) /\ UNCHANGED <<status, purchaseId>>
        /\ UNCHANGED <<retryCount, purchases, files, deleting, usage>>
Remove(t) ==
    LET r == task[t].run
    IN  /\ At(t, "approve")
        /\ \/ Exists(r) /\ DropRow(r) /\ Goto(t, "approved")
           \/ "ack" \in Faults /\ Exists(r) /\ DropRow(r) /\ End(t)
           \/ End(t) /\ UNCHANGED <<status, purchaseId>>
        /\ UNCHANGED <<retryCount, purchases, files, deleting, usage>>

\* recordUsage after either, also for a run its job has charged before.
RecordLegacyUsage(t) ==
    /\ \/ At(t, "simulated") /\ Charge("simulation", task[t].run)
       \/ At(t, "approved") /\ Charge("approval", task[t].run)
       \/ "db" \in Faults /\ task[t].pc \in {"simulated", "approved"} /\ UNCHANGED usage
    /\ End(t)
    /\ UNCHANGED <<status, retryCount, purchaseId, purchases, files, deleting>>

\* AiService.processChat counts the attachment it read (module Assistant).
ChatCounted ==
    /\ "chat" \in Requests
    /\ usage["chat"][NoRun] < MaxChats
    /\ Charge("chat", NoRun)
    /\ UNCHANGED <<status, retryCount, purchaseId, purchases, files, deleting, task>>

\* PurchasesService.remove: the foreign key of OcrRun is set to null.
RemovePurchase(p) ==
    /\ "removePurchase" \in Requests
    /\ purchases' = purchases \ {p}
    /\ purchaseId' = [r \in Runs |-> purchaseId[r] \ {p}]
    /\ UNCHANGED <<status, retryCount, files, deleting, usage, task>>

-----------------------------------------------------------------------------
\* The environment's requests, and the steps of the work in progress.

Request(t) ==
    \E r \in Runs :
       Upload(t, r) \/ Retry(t, r) \/ Delete(t, r) \/ Simulate(t, r) \/ Approve(t, r)

Work(t) ==
    \/ StoreFile(t) \/ CreateRun(t)
    \/ CheckQuota(t) \/ Reopen(t)
    \/ Erase(t)
    \/ Remove(t) \/ RecordLegacyUsage(t)
    \/ Acquire(t)
    \/ Extract(t) \/ Find(t) \/ Commit(t) \/ RecordUsage(t)
    \/ CountFailure(t) \/ NextAttempt(t) \/ MarkFailed(t)

Next ==
    \/ \E t \in Tasks : Request(t) \/ Work(t)
    \/ \E r \in Runs : StorageDelete(r) \/ LegacyDelete(r)
    \/ \E p \in purchases : RemovePurchase(p)
    \/ ChatCounted

Spec == Init /\ [][Next]_vars

\* Every await has a timeout or an answer, so work in progress goes on.
Fairness == \A t \in Tasks : WF_vars(Work(t))

FairSpec == Spec /\ Fairness
-----------------------------------------------------------------------------
\* Properties.

\* Type correctness of the rows, the side stores and the tasks.
TypeOK ==
    /\ status \in [Runs -> Statuses]
    /\ retryCount \in [Runs -> Nat]
    /\ purchaseId \in [Runs -> SUBSET Purchases]
    /\ purchases \subseteq Purchases
    /\ files \subseteq Runs
    /\ deleting \subseteq Runs
    /\ usage \in [Writers -> [Runs \union {NoRun} -> Nat]]
    /\ task \in [Tasks -> TaskStates]

Holds(t, r) == task[t].run = r /\ task[t].pc \in Executing

\* At most one task executes a run's job, however many uploads, retries and
\* falls back from processSync to processWithRetry race for it: the promise of
\* the compare-and-swap in acquireLock, which is taken once and kept over the
\* delayed attempts although the row is rewritten by id.
Exclusive == \A r \in Runs : \A t, u \in Tasks : Holds(t, r) /\ Holds(u, r) => t = u

\* A run never has two drafts in table Purchase, although the check for an
\* existing draft and the insert are separate statements under READ COMMITTED,
\* the number has no unique index, and a commit whose answer was lost is redone.
OneDraftPerRun == \A p, q \in purchases : p.run = q.run => p = q

\* A job charges its document at most once, and only when it was extracted; also
\* when attempts are repeated after a commit that was reported as failed.  The
\* legacy approval charges it a second time, but not a third: of the approvals
\* that overlap, and the deletes, one finds the row.
ChargedOnce ==
    \A r \in Runs :
       /\ usage["job"][r] <= 1
       /\ usage["job"][r] = 1 => status[r] \in {"processed", "deleted"}
       /\ usage["approval"][r] <= 1
       /\ usage["approval"][r] = 1 => status[r] = "deleted"
       /\ usage["simulation"][r] <= 1
       /\ usage["simulation"][r] = 1 => usage["job"][r] = 0

\* A row that can still be processed has its document in the bucket, unless a
\* DELETE that has passed its checks is about to drop the row: the storage
\* delete is sent before, and not ordered with, the delete of the row.
DocumentKept ==
    \A r \in Runs :
       Uploaded(r) => r \in files \/ \E t \in Tasks : At(t, "erase") /\ task[t].run = r

\* checkLimit reads the records of finished runs, so requests admitted together
\* overrun the plan; by less than the number of requests in flight, plus what
\* was written without asking.
QuotaOverrun == UsedQuota < Limit + Cardinality(Tasks) + Cardinality(UncheckedRecords)

\* retry() reads retryCount in one statement and compares only the status in the
\* next, so a request that waited while others ran the job still passes (status
\* went failed, pending, processing and back to failed).  Each task in flight
\* adds at most one job of MaxRetries attempts above the manual limit.
RetryOverrun ==
    \A r \in Runs : retryCount[r] < MaxManualRetries + MaxRetries * Cardinality(Tasks)

\* A document that waits for its job or is being processed is eventually
\* processed, failed or deleted.
Settles ==
    \A r \in Runs : status[r] \in Open ~> status[r] \in {"processed", "failed", "deleted"}

-----------------------------------------------------------------------------
\* The inductive invariant behind Exclusive, OneDraftPerRun and ChargedOnce.

\* A task in progress serves a run, and waits only for an attempt it has left.
ServesRun ==
    \A t \in Tasks :
       /\ task[t].pc # "idle" => task[t].run \in Runs
       /\ task[t].pc = "delay" => WillRetry(t)

\* While a job runs nobody else can lock its row: the row is processing, or was
\* deleted, or is processed by a commit the job does not know of.
LockHeld ==
    \A t \in Tasks : task[t].pc \in Executing =>
       status[task[t].run] \in {"processing", "processed", "deleted"}

\* retry() goes on only from the states it may leave.
SeenRetryable ==
    \A t \in Tasks : task[t].pc \in {"quota", "cas"} => task[t].seen \in {"pending", "failed"}

\* Until its row exists, an upload is alone with its run.
UploadAlone ==
    \A t \in Tasks : task[t].pc \in {"store", "create"} =>
       /\ status[task[t].run] = "none"
       /\ \A u \in Tasks \ {t} : task[u].run # task[t].run

LockInv == LockHeld /\ SeenRetryable /\ UploadAlone /\ Exclusive

\* A transaction about to insert a draft has seen that there is none, and no
\* other task can have inserted one since.
InsertsFirstDraft ==
    \A t \in Tasks : At(t, "commit") /\ task[t].creates =>
       \A p \in purchases : p.run # task[t].run

\* A task about to charge a run is the only one, and the run's jobs are over;
\* they are over as well once the run was charged.
Finishing(t, r) == task[t].run = r /\ task[t].pc \in Executing \union {"usage"}

ChargeInv ==
    /\ \A t \in Tasks : At(t, "usage") =>
          /\ status[task[t].run] \in {"processed", "deleted"}
          /\ usage["job"][task[t].run] = 0
          /\ \A u \in Tasks \ {t} : ~Finishing(u, task[t].run)
    /\ \A r \in Runs : usage["job"][r] # 0 => \A t \in Tasks : ~Finishing(t, r)

\* A task about to charge for an approval has removed the row, alone; one about
\* to charge for a simulation is the only one of its row.
LegacyAlone(l, w) ==
    /\ \A t \in Tasks : At(t, l) =>
          /\ usage[w][task[t].run] = 0
          /\ \A u \in Tasks \ {t} : ~(At(u, l) /\ task[u].run = task[t].run)
    /\ \A r \in Runs : usage[w][r] # 0 => \A t \in Tasks : ~(At(t, l) /\ task[t].run = r)

\* A run is simulated or has jobs, never both.
JobLabels == Executing \union {"quota", "cas", "acquire", "usage"}

LegacyInv ==
    /\ LegacyAlone("approved", "approval") /\ LegacyAlone("simulated", "simulation")
    /\ \A t \in Tasks : At(t, "approved") => status[task[t].run] = "deleted"
    /\ \A t \in Tasks : At(t, "simulated") =>
          /\ status[task[t].run] \in {"simulated", "deleted"}
          /\ usage["job"][task[t].run] = 0
          /\ \A u \in Tasks : task[u].run = task[t].run => task[u].pc \notin JobLabels
    /\ \A r \in Runs : usage["simulation"][r] # 0 =>
          /\ status[r] \in {"simulated", "deleted"}
          /\ \A u \in Tasks : task[u].run = r => task[u].pc \notin JobLabels
    /\ \A r \in Runs : status[r] = "simulated" =>
          /\ usage["job"][r] = 0
          /\ \A u \in Tasks : task[u].run = r => task[u].pc \notin JobLabels

\* The whole invariant.
JobInv ==
    /\ TypeOK /\ ServesRun
    /\ LockInv
    /\ InsertsFirstDraft /\ OneDraftPerRun
    /\ ChargeInv /\ LegacyInv /\ ChargedOnce

-----------------------------------------------------------------------------
\* The inductive invariants behind DocumentKept, QuotaOverrun and RetryOverrun.

\* Nothing deletes the document of a row but the DELETE that drops the row: as
\* long as no statement of the database fails.
DocumentInv ==
    /\ \A r \in Runs : Uploaded(r) =>
          \/ r \in files \ deleting
          \/ \E t \in Tasks : At(t, "erase") /\ task[t].run = r
    /\ \A t \in Tasks : task[t].pc \in {"store", "create"} => task[t].run \notin deleting
    /\ \A t \in Tasks : At(t, "create") => task[t].run \in files

\* The requests the quota gate has admitted, each good for one record.
Admitted ==
    {t \in Tasks : task[t].pc \notin {"idle", "quota", "erase", "simulated", "approve", "approved"}}

\* The plan has room for the records of all admitted requests but the ones that
\* were admitted together.
QuotaInv ==
    /\ IsFiniteSet(UsageRecords) /\ IsFiniteSet(UncheckedRecords)
    /\ Cardinality(UsageRecords) + Cardinality(Admitted) < Limit + Cardinality(Tasks)

\* The attempts the task may still count on a row: all of a job that has not
\* begun, or begins again in the background.
AttemptsLeft(t) ==
    CASE task[t].pc \in {"store", "create", "quota", "cas", "acquire"} -> MaxRetries
      [] task[t].pc \in {"core", "find", "commit", "mark"} /\ task[t].inline -> MaxRetries
      [] task[t].pc \in {"core", "find", "commit", "count"} /\ ~task[t].inline -> MaxRetries - task[t].attempt
      [] task[t].pc = "delay" -> MaxRetries - (task[t].attempt + 1)
      [] OTHER -> 0
AttemptsAhead(r) ==
    {a \in Tasks \X (1 .. MaxRetries) : task[a[1]].run = r /\ a[2] <= AttemptsLeft(a[1])}

\* What a row has seen and what is ahead of it stay within the bound; a row that
\* does not exist has seen nothing.
RetryInv ==
    /\ \A t \in Tasks : task[t].pc \in {"count", "delay"} => ~task[t].inline
    /\ \A r \in Runs :
          /\ status[r] = "none" => retryCount[r] = 0
          /\ retryCount[r] + Cardinality(AttemptsAhead(r))
                < MaxManualRetries + MaxRetries * Cardinality(Tasks)

\* When no statement is reported as failed after it was applied, a run is not
\* over while its job runs, and has a draft only when it is over.
OverInv ==
    /\ \A t \in Tasks : task[t].pc \in Executing => status[task[t].run] \in {"processing", "deleted"}
    /\ \A p \in purchases : status[p.run] \in {"processed", "deleted"}

-----------------------------------------------------------------------------
\* What the documentation says and the code does not keep.

\* The draft found under the run's number was created by "a previous attempt" of
\* the same run (ocr.processor.ts).
LinksOwnDraft == \A r \in Runs : \A p \in purchaseId[r] : p.run = r
=============================================================================
