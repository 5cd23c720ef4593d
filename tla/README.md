# contex360.backend in TLA+

A verification project for the backend of contex360, a multi-tenant accounting
service for Colombian businesses (NestJS, Prisma, PostgreSQL). The modules here
translate the service's handlers, background jobs and cron sweeps into TLA+, TLC
checks them on small instances, and TLAPS proves the central invariants for
every value of the constants. Paths are relative to the repository
(`src/src/modules/...`); `PROJECT.json` maps every definition to the lines it
stands for.

## 1. The system

One Node.js process serves HTTP requests, runs background work it starts itself
(unawaited promises, timers) and a dozen cron jobs. All state that outlives a
request is in PostgreSQL, documents are in an S3-like store, and Wompi (payments),
DIAN (tax authority), Gemini (document extraction) and a mail server are remote.
Three facts decide what can go wrong:

- JavaScript runs on one event loop, so a request is preempted exactly at its
  `await`s. In the models an action is the code between two of them.
- PostgreSQL runs at READ COMMITTED. A statement is atomic; the reads of an
  interactive transaction (`prisma.$transaction(async tx => ...)`) take no lock;
  its writes become visible at the commit; an `update` locks its row until then.
- A restart loses promises, timers and sweeps in progress, and rolls open
  transactions back.

### Components

| Component | State | Operations | What is hard |
|---|---|---|---|
| OCR pipeline (`ocr/`) | `OcrRun` rows (status, retryCount, purchaseId), documents in the store, purchase drafts, usage records | upload, retry, delete, file, list; `processSync`, `processWithRetry` | requests and background jobs race for one row; attempts repeated with delays; faults of Gemini, store and database; commit whose answer is lost |
| OCR recovery cron (`ocr.scheduler.ts`) | the same rows | `recoverStuckJobs` every five minutes | works by id from a snapshot; restarts |
| Legacy OCR (`analytics/`) | the same rows | approve, delete, simulate | no status checks |
| Usage (`usage/`) | `UsageRecord` rows | `checkLimit`, `recordUsage` | checked before, charged after, and by some not checked at all |
| Subscriptions (`subscriptions/`) | `Subscription`, `Payment`, `SubscriptionInvoice` | Wompi webhook, cancel, dunning cron | repeated and concurrent deliveries; invoice numbers by counting; mail in the middle of a sweep |
| Administration (`admin/`) | the same subscriptions, tenants, backups | `updateSubscription`, approvals | read, then write back |
| Invoices (`invoices/`) | `Invoice`, `Product.stock`, `InventoryMovement`, `JournalEntry`, the tenant's counter | create, updateStatus, cancel, remove | stock compared before it is taken; consecutive numbers |
| Purchases (`purchases/`) | `Purchase`, stock, movements, entries, the tenant's counter | create, updateStatus, remove | status and payment in separate transactions |
| Inventory (`inventory/`) | stock, stock by location (one JSON column), movements, transfers | movement, transfer, receive, audit, receipt | a column read, changed and written back whole |
| Ledger (`ledger/`) | journal entries | entries of documents, manual entries, reconciliation, reports | one entry per document; rounding; accounts no report lists |
| Treasury (`treasury/`) | `Transaction` rows and their entries | payments, balance | payment and entry are separate statements |
| Quotes (`quotes/`) | quotes | create, convert | `COUNT(*) ... FOR UPDATE` |
| DIAN (`dian/`) | status and `timeline` (a JSON column) of an invoice, configuration | send, poll | late, lost and concurrent answers; a column written back whole |
| Webhooks, API keys (`api/`) | hooks, keys; timers in memory | dispatch, retry timers, daily retry, replay; create, validate, expire | chains of sends share a row; a key expires while it is used |
| Authentication (`auth/`, `users/`) | `User`, `UserSecurityProfile`, sessions, refresh tokens | login, OAuth, refresh, 2FA, change, reset, erase, revoke | every handler reads, awaits, and writes back what it read |
| Companies and people (`admin/`, `demo/`, `onboarding/`, `users/`) | `Tenant`, `User`, `Membership`, `DemoRequest` | conversion, creation, deletion, erasure, access review | several statements or reads outside the transaction |
| Guards, rate limit | claims, roles, plans; a window per key | every request | order of the guards; roles change on the way; the window's edge |
| Leaving (`subscriptions/`, `privacy/`) | tenants, memberships, audit events | export, deletion by a member, retention | deletions meet each other |
| Backups (`admin/`, `scripts/`) | files, the target database | backup, verification, restore | files written, cleaned and read at once |
| Legacy OCR, third parties, CSV import | `OcrRun`, `ThirdParty`, `Purchase` | simulate, approve, import | statements without a transaction |
| AI assistant (`ai/`) | usage, rows its tools write | chat, tools | a failure at any step decides what is counted |
| Mail, PDF, currency, Gmail, help, legal, support, audit, health, products, taxes | little | calls, rendering, reads, single statements | none of their own; their failures are outcomes elsewhere |

### How they interact

- **Shared rows.** Uploads, retries, deletes, the cron and the legacy endpoints
  all write `OcrRun`; a job of the pipeline inserts into `Purchase`, and deleting
  a purchase sets the run's foreign key to null. The webhook, the dunning cron,
  `cancel` and the administrator write `Subscription`. Invoices, purchases and
  inventory write `Product`.
- **People.** Authentication, user administration, deletion of companies and erasure
  write the same `User`, `Membership` and session rows; guards read them for every
  request.
- **After a payment** the webhook hands the invoice to mail and DIAN, outside its
  transaction.
- **Calls.** Upload calls the job (inside the request for small documents, in
  the background for others or after a failure); invoices and purchases call
  the ledger inside their transaction or after it.
- **Retries from outside.** Wompi delivers again until it is answered; users
  retry failed documents; crons repeat.

### What makes each modelled component correct

- OCR: a document's job runs once at a time; it yields at most one draft and at most one charge,
  and its approval at most one more; an open document settles; its file stays while it may still
  be processed; the retry limit is overrun only by requests in flight, the quota only by those
  and by what is recorded without asking it.
- Subscriptions: a payment is booked once, with one invoice, sent to DIAN once;
  what is answered as received is booked; approved payments are booked in the
  end; an overdue subscription does not stay active.
- Stock: the stock equals its kardex; invoices do not sell what is not there;
  numbers are consecutive; an invoice is booked once.
- Accounts: tokens only after consent; an account is locked only for its failed
  sign-ins; a reset or erasure cuts earlier sessions off; a password is not reused.
- Companies: one per demo request; deleting one leaves no account that nobody can use and takes
  none away from another company; the access review finds what was wrong all through it.
- Electronic invoices: no status without a document of DIAN behind it; answers
  are on record.
- Books: payments, cash accounts and reports agree but for what the code keeps out of one of
  them. Guards: who is served held the permission in that company. Rate limit: no more and no
  less than promised.
- Backups: a restore loads a backup into an empty database. Approvals: a document is in the
  books or still on the list, and is booked twice only by calls that overlap or fail. Assistant:
  usage is counted once, for the right company. Webhooks: switched off only for enough failures
  since they last worked. Keys: alive when used. Leaving: one deletion reports success.
  Payments: each effect at most once.

`PROJECT.json` lists, under "hazards", each place where one of these can break.

## 2. The modules

| Module | What it is |
|---|---|
| `OcrJobs` | the OCR pipeline of one tenant: handlers, jobs, store, all writers of its usage, legacy endpoints |
| `OcrRecovery` | EXTENDS `OcrJobs` with restarts and the recovery cron |
| `OcrContract` | what a client is promised about its documents |
| `OcrRefinement` | `OcrJobs` under the mapping into `OcrContract` |
| `OcrProofs` | theorems about `OcrJobs`, `OcrRecovery` and `OcrRefinement` |
| `Subscriptions` | Wompi webhook, dunning, cancel, administrator's update |
| `SubscriptionProofs` | theorems about `Subscriptions` |
| `Stock` | invoices, purchases, inventory, and the ledger entries they make |
| `StockProofs` | theorems about `Stock` |
| `Accounts` | one account: sign-in, tokens, passwords, 2FA, sessions |
| `Tenancy` | companies, users, memberships, demo requests, access review |
| `Access` | the guards in the order Nest runs them |
| `RateLimit` | the windows of the rate limit |
| `ElectronicInvoices` | invoices between users and DIAN |
| `Treasury` | documents, payments, ledger entries and the reports over them |
| `Approvals` | OCR runs simulated, approved and deleted; third parties; import |
| `Assistant` | a chat, its tools and its usage |
| `Webhooks`, `ApiKeys` | the two halves of `api/` |
| `Offboarding` | export, deletion and retention |
| `AfterPayment` | what follows a payment, booked or declined |
| `Backups` | backup, verification and restore on one directory |
| `People` | `Accounts` and `Tenancy` side by side |
| `PeopleProofs` | theorems about `Accounts`, `Tenancy` and `People` |
| `RequestProofs` | theorems about `Access`, `Assistant` and `RateLimit` |
| `DocumentProofs` | theorems about `AfterPayment`, `Approvals`, `ElectronicInvoices` and `Treasury` |
| `ApiProofs` | theorems about `Webhooks` and `ApiKeys` |
| `RetentionProofs` | theorems about `Offboarding` and `Backups` |
| `MCOcrJobs`, `MCOcrRecovery`, `MCSubscriptions`, `MCStock`, `MCAccess` | instances for TLC |
| `MCDunning` | instances of `Subscriptions` whose behaviours are about payments, about dunning or about all of it (`Mixes`) |
| `MCPeople` | an instance of `Accounts` and one of `Tenancy` in one run |
| `MCOffice` | instances of the eleven modules from `Access` to `Backups` in one run |

Definitions named `Name_Variant` after "Mutant:" are wrong variants of `Name`: a
plausible slip in the code. Each property of a passing run has one under which
TLC finds it violated; no specification uses them.

### OcrJobs

`status`, `retryCount`, `purchaseId` are columns of `OcrRun`; `purchases` the
drafts; `files` and `deleting` the object store and the unawaited deletes on
their way to it; `usage` the `ocr_run` records, by who wrote them and for which run:
a job, an approval, a simulation, or a chat that read an attachment. Only an upload and a
retry ask the plan, so `UncheckedRecords` counts the others apart. `task` holds, per
request in flight, its program counter and locals: the fire-and-forget work a
request leaves behind is still its task. Labels follow the `await`s:

    upload: store -> create -> acquire -> core -> find -> commit -> usage
    retry:  quota -> cas -> acquire -> ...        delete: erase
    simulate: simulated                           approve: approve -> approved
    a failed attempt: count -> delay -> core, or mark

`acquire` is the compare-and-swap of `acquireLock` and is done once, before the first attempt:
later attempts (`NextAttempt`) do not look at the row again. The approval's purchase and expense
are in `Approvals` and `Treasury`; here it takes the row away, whatever the row's status, and
records its usage, also for a run its job has charged. `ChatCounted` is the assistant's part, in
one step. `Find` and `Commit` are the read and the commit of the one transaction. Inside the
request (`inline`) a failure marks the row failed and falls back to the background job, which
locks the failed row again.

Faults are a constant: "model" (Gemini, download, parsing), "db" (a statement is
refused), "ack" (it commits, but its caller gets an error), "storage".

The extracted data is abstracted to whether a draft is wanted; the draft's number
to the number derived from the first characters of the run's id, which two runs
may share (`PurchaseNumber`).

### OcrRecovery

`stale` is the set of open rows not written for the threshold of ten minutes, the
only thing the cron asks about time. `Age` may put a row there only when no job is
working on it: the waits of a living job (15 s of delay, 30 s of download, 90 s
of Gemini, the transaction's timeout) sum up to less. `sweep` is the cron's
snapshot, written back row by row and by id.

### OcrContract and OcrRefinement

A document is absent, open, done, failed or gone, has a draft or not, is charged
or not. `ImplementsContract` says that every step of the detailed model is one of
its steps or invisible. It is checked without "ack" faults: a commit reported as
failed makes the job mark a completed document as failed, so the contract does
not hold with them; the invariants of `OcrJobs` do, and are checked and proved
with them.

### Subscriptions

The webhook is one transaction in six labels (check, upsert, pay, count, invoice, commit). Two
of its effects are visible to others before the commit: the row of the subscription is locked
from the upsert on (`Locked`), and the insertion of an invoice number makes others wait for it
(`InsertInvoice`). `Count` reads on another connection, as `generateInvoiceNumber` does. The
clock counts months: the part of an invoice number that is not the sequence, and the unit of a
cycle. The dunning cron's snapshot is `overdue`; a failing mail throws out of its loop, and one
that fails before it, a reminder or the notice of an expired trial (`RemindFails`), ends the
sweep before it has a snapshot. Trials come from approved demo requests (Init). Declined
payments, deletion of an account and checkout sessions are left out.

### Stock

Each handler is a request that reads, keeps what it read in its task, and commits
later; increments act on the value found at the commit, the locations and the
receipt's stock are written back as computed. Invoices and purchases take their
number from the tenant's row first and so hold its lock until they end
(`TenantLocked`); a sale then reads the products one by one (`Prefetch`) and compares
each line by itself with that reading (`Suffices`): hence an order keeps its
total and its largest line per product. `moved` sums the movements by kind: the
kardex. Products, quantities and locations are abstract; prices, taxes, the
average cost, payment terms and usage records are left out. Products are created
with a stock and no locations (`Opening`); products whose CSV row gives a negative
stock, or that the assistant creates with a stock at a location, are not modelled.

### Accounts

One account, since accounts share no row. A request reads it, awaits (a hash, a
mail, another statement) and writes what it computed from the copy in `task`;
`$transaction([...])` is one action. Labels follow `issueAuthResponse` from session
to profile, trusted device and token. `links` are the reset links still valid by
their time of issue, `forced` the token that lets a user change an expired password.
Time is in ticks; hashes, cookies and wording are left out, a password is its value.
`fails`, `cutoffs`, `raced` and `setBy` are history for the properties.

### Tenancy

A request is one call of a handler, at the granularity of its statements and
transactions; what it creates has the call as its id. A unique index or foreign key
that refuses a statement ends the call (`AbortCall` also stands for a restart), and
rolls back only what is in a transaction: `createCompany` has none. `Review` reads
its tables one after the other in any order, since `Promise.all` starts the queries
together. `UpsertMembership` gives a user a second company. It is modelled as it is
written to work: `users.service.ts:237` passes the whole payload to Prisma, `actorUserId`
included, which is no column of `Membership`, so that Prisma's validation may refuse the
statement; then no user ever has a second company by this way, and the properties hold
with fewer behaviours. `joined` and `excused` are history.

### Access and RateLimit

A request passes `GuardsOf` its route, one action per guard, each with the rows as they are
then. Only `Authenticate` sets `authUser`; so the global guards act without a user, as they do
in the application (section 5). Roles are three of the code's table with the permissions of the
routes modelled. A route lists its guards and, apart from them, the permission its decorator
names: `users.controller.ts:26` and `:32` name `view_users` without `PermissionsGuard`, and
nobody looks at it. `RoleHeld` is therefore about guarded routes, and the instance has a route
of either kind. The token of a forced password change (`auth.service.ts:139`) passes `AuthGuard`
too, naming no company; requests with it are left out. `RateLimit` counts per header value in
fixed windows; its timer drops what is over. `admitted` is history: the sequence of requests let
through per key, each with its moment, its window's end and its place in the window, which the
bound on a span is stated and proved over.

### ElectronicInvoices

`docs` is what DIAN received, which may be more than what it answered for. A task
sends or polls; the timeline is read by one action and written back by another, and a
write from a stale copy is noted in `overlap`. The CUFE keeps what it depends on
(number and pin of the configuration), so that a changed pin changes it. Faults of the
transport and of statements are bounded by `MaxFaults`.

### Treasury

Amounts are in cents, an entry is what it does to each account, those of the code and one
for all others. All writers of the two tables are here. `Make` books a new invoice or
purchase and `Settle` the money of one set to accepted or paid, again each time its status
is set: entries without a transaction. `Draft` is a purchase of the OCR pipeline or an
approval, without an entry, and `Expense` the transaction of an approval, without an entry
either. `Pay` and `Book` are the two statements of the treasury's `create`, of which a
payment may name an invoice and a purchase; one whose entry failed stays in `pending`.
`BookByHand` accepts entries that balance within a cent, as the code does.
`RemoveDocument` leaves the entries and clears the reference of the payments. The
reports are operators over the entries (`TotalOf`, `NetProfit`, `Balance`), and
`BooksAgree` says by what exactly they differ. A sum is the number of units above zero less
the number below (`SumOf`), cardinalities of two sets and not a recursive fold: additivity
is then a theorem about finite sets. `MCOffice` assumes (`SumsAddUp`), for TLC to
evaluate, that it is the sum of the community modules' fold, for all functions from four
elements to -2 .. 2.

### Approvals, Assistant

No handler of either opens a transaction: every statement is an action, and a call may fail
between any two. Two calls of approveOcrRun on one run may thus both write a purchase and an
expense; the delete, which fails for the second, decides only who reports success. `raced` holds
the calls that read a run while another was at it or after it had ended with an error, `erased`
those whose purchase a user has removed since. The assistant's models are external: what they
answer, whether they do, and which tool they call is chosen. A chat ends "done" or "failed", and
the usage is counted at the place the code counts it.

### Webhooks, ApiKeys

A send is a chain with its own count of attempts; all chains of a hook write the
count to its row. `Restart` loses the chains. `ReplayFailed` is read and write apart, and
takes a hook that was switched off after "fetch failed" for one that was given up. The
bodies of POST and PATCH are written as they come, so `CreateWebhook` and `UpdateWebhook`
give any value to any column (`Columns`). `failures` counts a hook's failed sends since it
last worked or was set back, `carried` the counts that were on their way at that time.
Keys are looked up by one action and let through by a later one; days pass between.

### Offboarding, AfterPayment, Backups

`Offboarding` has deletion by a member (checks, transaction, deletion as in the code), the
retention job and the deletion on request. `AfterPayment` abstracts the booking to
one step (`Subscriptions` has its statements) and models each delivery's way
through the mails and the transmission, with `RestartAll`. `Backups` steps between the external
commands; a file is its day and whether it is whole. The clean-up compares the age of a
file with a moment, which is half a century larger (`Kept`): it removes nothing (section 5).
Of the restore's target the model keeps whose rows are in it: psql runs without
ON_ERROR_STOP, so that a success may be a partial load.

### One run for several components

`MCPeople` and `MCOffice` put components side by side that share no rows, so
that one run asks their questions: `moving` names the component that
takes all the steps of a behaviour, the others stand still, and `VIEW Moving` keeps
them from telling states apart. The behaviours of each component are the ones of its
own specification. Some modules have a `mix` (`callMix`): the kinds of request a
behaviour makes, chosen at the start from the sets an instance names. It keeps
kinds that touch the same rows together and leaves out the product of all.

Handlers behind a plan requirement are modelled as called, although the guard
refuses their routes today (section 5): the models are of the handlers.

## 3. The runs

| Run | Question | Instance |
|---|---|---|
| ocr_one_document | exclusive execution, one draft, one charge by job and by approval, bounded overrun of the retry limit | 1 row, 3 requests, all faults, all requests, a chat, MAX_RETRIES 3, 5 manual retries |
| ocr_documents | does the pipeline implement the contract, how far can the quota be overrun, and is the file kept? | 3 rows with one number, 2 requests, limit 1 |
| recovery | the contract and settling, across a restart and the cron | 2 rows, 2 requests (uploads and deletes), 1 restart or aborted sweep |
| recovery_exclusive | (violated) exclusive execution with the cron | 1 row, 2 requests |
| ocr_shared_number | (violated) a run is linked to its own draft | 2 rows with one number |
| billing_tenants | booked once, sent once, own numbers free; overdue is suspended | 2 tenants, 3 payments and 2 requests around the end of a month; or 2 payments over 4 months with failing mails; a loss or failing reminder |
| billing_tenant | answered means booked; payments arrive | 1 tenant, 2 payments, 2 requests of all kinds, 2 months, a loss |
| billing_shared_numbers | (violated) answered means booked, for two tenants | 2 tenants, 2 payments |
| stock | no oversale, consecutive numbers, stock equals kardex, no location below zero | 1 product, 2 locations, 2 requests; documents by mix |
| people | `Accounts`: consent, history, cut-off, lock. `Tenancy`: one company per demo, no orphans, shared users stay, the review | 1 account, 2 requests, 3 passwords, threshold 2; 3 calls, 2 demo requests, 1 member, 3 emails |
| office | one question per component, section 2 | see below |
| plan_admits | (violated) a plan that includes a module admits its members | 1 request, 2 companies |

**Bounds, and why they are enough.** One row suffices for the properties of one run: other rows
share with it only the numbers (ocr_documents, ocr_shared_number) and the quota (ocr_documents).
Three requests let a third one act while two race. Where the two retry limits matter they have
the code's values; elsewhere they are smaller, which only shortens runs of equal attempts.
`DraftIds` has one more id than a run should ever use, so that a second draft can appear (in
`recovery` OneDraftPerRun is not the question and one id suffices). In Subscriptions two
payments of one tenant and one of another are the smallest case with both kinds of competition
for a number, and the month may end once between them; the other half of billing_tenants (`mix`)
has months enough for two payments of different months, which therefore do not compete, to be
overdue together, so that the mail about one tenant can keep the sweep from the other. In
billing_tenant payments meet cancellations and the administrator. In Stock two requests race
over one product: two products share nothing but their documents, and the theorems cover any
number; the quantities are small enough that every comparison with the stock both succeeds and
fails; `MaxMovements` bounds the sum of movements of a kind and `MaxEntries` those of one
document.

In people, two requests on one account are the least that overlap; two passwords besides the
first make a history of one meaningful; a tick is enough for a password to expire and a link to
be older than a change. Three calls let a deletion meet two creations, or two deletions meet
over a user of both companies ({"company", "delete", "join"}). Calls are alike until they start,
so they start in a fixed order (`InOrder`). In office: one request with one token and one role
over two companies; a window of two ticks and two requests, long enough for three windows; three
days of backups and restores; two chats of two companies with one key; one hook, three sends at
once and two retries; two keys with one name, two creators; two companies, two people and two
demands; two transactions with two deliveries; one invoice with two requests and four events of
its timeline, which lets a request begin while another is under way, and one fault; an invoice
without tax and a purchase with a cent of it, each of which may be settled once, a payment, an
approval's expense and an entry by hand; two approvals of one run, a third party and an import
of two rows. Each is the smallest instance in which its mutant is found and every action fires,
and where two actors of the same kind matter there are two.

**Symmetry and views.** Symmetry is used for invariants and step properties only, over
sets whose members the instance does not tell apart; liveness runs use none. The
view of people and office (`Moving`) drops what stands still; in office it also drops
which of the free sends a webhook took (`Chains`), which of two chats, requests or approvals
got how far (`EachChat`, `EachTask`, `EachApproval`), that a request brought its one
token twice (`Shown`), which accounts of one report an entry by hand moves (`Booked`), and which
entries are reconciled, but for whether any is, none of which a later step or a property looks
at. It drops plans, second factor and onboarding too: they change while the request is on its
way, but the guards that read them run before `AuthGuard`, see no user and answer without them
(section 5).

**Deadlock** is not checked: the bounds of documents, movements and time let every
model stop.

**Fairness.** `Settles` (OcrRecovery): weak fairness of each request's next step.
Every `await` there has a timeout or a driver that answers or fails, and the event
loop is fair to ready callbacks. And of time passing and
of the cron, which fires every five minutes; a restart is never assumed, and
neither that users retry. `PaymentsArrive`: strong fairness of the delivery of
each unanswered transaction, since Wompi repeats it (an idle task is a bound of the
model, so a delivery is not continuously enabled), and weak fairness of the steps
of a request. `OverdueSuspended`: weak fairness of the sweep and of the clock. It
holds although each mail of the loop may fail on every day, since a subscription is suspended
before its mail and is then out of the next sweep. The mails before the loop are another
matter: a reminder that failed every day would keep the sweep from its second half
for ever. They fail on `MaxLosses` days at most, which is an assumption about the mail server. No
fault is fair, and the faults that could recur forever are bounded.

## 4. What is proved

TLAPS checks each theorem for every value of the constants that satisfies the named
assumptions: any number of rows, requests, retries, tenants, days, and however long
the clock runs. Every safety property of a passing run is the statement of a theorem;
liveness is not (below). The layout is the same everywhere: an inductive invariant
whose parts are named and commented, a lemma for the initial states, a lemma per
action (and per part, where an action disturbs several), a lemma for [Next]_vars, and a
theorem that draws the property from the invariant. The invariants were checked by
TLC, on the instances of section 3, before they were proved; most attempts to do so
strengthened one.

### OCR (`OcrProofs`)

| Theorem | States | Hypothesis |
|---|---|---|
| `TypeCorrect`, `JobsCorrect` | []TypeOK, []JobInv | |
| `ExclusiveExecution` | []Exclusive | |
| `NoDuplicateDraft`, `NoDoubleCharge` | []OneDraftPerRun, []ChargedOnce | |
| `DocumentsKept` | []DocumentKept | no statement fails |
| `QuotaOverrunBounded` | []QuotaOverrun | finitely many requests, at least one |
| `RetryOverrunBounded` | []RetryOverrun | finitely many requests |
| `PipelineImplements` | Spec => ImplementsContract | no "ack" faults |
| `RecoveryImplements` | the same with restarts and cron | nor manual retries |
| `RecoveryExecutesOnce` | []Exclusive, []OneDraftPerRun, []ChargedOnce with restarts and cron | the same two |
| `RecoveryQuotaBounded` | []QuotaOverrun with restarts and cron | finitely many requests, at least one |

`Exclusive` needs to know that while a job runs nobody can lock its row (`LockHeld`: the row is
processing, deleted, or processed by a commit the job does not know of), that a retry leaves
only the states it may leave (`SeenRetryable`), and that an upload is alone with its row until
it exists (`UploadAlone`); together `LockInv`. `OneDraftPerRun` needs that a transaction about
to insert a draft has seen none and cannot have been overtaken (`InsertsFirstDraft`), which
follows from `Exclusive` and not from the database. `ChargedOnce` needs that a task about to
charge is the last one of its run (`ChargeInv`), that of the approvals of a run the one about to
charge has taken the row away, and that a simulated run has no job (`LegacyInv`). `JobInv` is
their conjunction with the types.

`DocumentInv` says where the document of a row may be: in the store and not marked for
deletion, or in a DELETE between its two deletes. When the statement that creates the
row, or the one that drops it, fails, the document and the row part, hence the hypothesis.

Both overruns count sets. `QuotaInv`: records plus admitted requests stay below the limit plus
the number of tasks; the record a job writes is paid for by its leaving the admitted ones, the
unchecked records stand on both sides. `RetryInv`: attempts counted plus the attempts the tasks
may still count (`AttemptsAhead`, a set of pairs, so that its size is a sum) stay within the
bound. A request that passes the gate late adds at most one job to a row below the limit.

The refinement is step by step: `OverInv` (a run is not over while its job runs, and has
a draft only when it is over) makes each step of the pipeline one of the contract, or
invisible. With an "ack" fault a commit is reported as failed and the job marks a completed
document as failed: `OverInv` and the contract are both broken, as the hypothesis
says. With the cron (`SweepInv`: only a DELETE is at work on a row that is
stale or in the snapshot) the contract and exclusive execution hold as long as nobody retries by
hand: a restart drops tasks only, and the cron touches rows no job is at. That a
retry breaks it is the run recovery_exclusive. The quota alone does not mind: `QuotaInv` is
kept by every step of `RecoverySpec`, with all faults and all requests, since a
restart admits nobody and the cron writes no record.

### Stock (`StockProofs`)

- `KardexCorrect`: []KardexAgrees.
- `SalesNeverOversell`: []SalesCovered, for orders with one line per product
  (`OneLinePerProduct`; two lines do oversell, section 5).
- `NumbersConsecutive`: []NumbersBooked.
- `LocationsNeverNegative`: []TypeOK, with it the types of the tables.

The argument is by two facts about a step. It is *documented*: the stock of a product
changes by what its kardex does (`Documented`). Every handler's step is, for
products without receipts, whatever it read before, because
stock and movement are written in one transaction and the stock is written as an
increment; hence `KardexInv` (types, the locals of each transaction, and
`KardexAgrees`) is inductive. And it is *covered*: stock plus withdrawals do not
decrease (`Covered`), unless the step is a sale. A sale compares with what it
read, so it needs that this is still there (`SeenStays`), which holds since nobody else
can sell meanwhile (`OneSeller`, the lock on the tenant's row). The same lock keeps
numbers consecutive: `NumbersInv` adds that the number a sale holds is nobody else's
and not used yet (`SellsNew`), and is the next after a finite set of used ones. For the
locations, which are written back from copies, what matters is that each copy was
non-negative and the transfer checked against the copy it writes (`Held`): they may
be wrong, but never negative.

### Subscriptions (`SubscriptionProofs`)

- `BillingTyped`: []TypeOK. `PaymentsBookedOnce`: []BookedOnce.
  `InvoicesIssuedOnce`: []IssuedOnce. `OwnNumbersFree`: []OwnNumberFree.
- `AnswersAreBooked`: []AnswersBooked, if all transactions are of one tenant
  (`OneTenantPays`; billing_shared_numbers violates it with two).

All rest on one fact about the row lock: of the tasks that have written the
row of a tenant, there is one (`Fits`, established by `Upsert`). Therefore the
transaction found unbooked by `Pay` stays unbooked until its commit, and the number
counted stays the next one of its tenant (`Usable`) although it is counted outside
the transaction. For the latter the numbers of the month have to be no larger than
the count of the month's invoices, whenever the month ends between count and insert
(`Dated`). A task about to send an invoice is the only one, of a booked transaction
not sent yet. `BillingInv` conjoins these with the types. For the answers, `AnswersInv`
adds that a webhook about to answer has found its transaction booked: a unique
violation, which the code takes for "someone else booked it", can with one tenant
only come from a booking of the same transaction, since its own numbers are free.

### People (`PeopleProofs`)

Accounts: `AccountTyped`, `TokensNeedConsent` ([]ConsentFirst), `CutOffHolds`
([]CutOffIsFinal), `LocksAreEarned` ([]LockEarned), `PasswordsKeptApart`
([]HistoryKeepsApart). A request holds a copy of the account that others overwrite, so
the invariant says of each copy how it stands to the row (`TasksSound`): the count it
read is at most the failures there were, the row has the consent it found, the
sign-in goes back to the last cut-off unless one came in between, the new password is
none of the history it read. `SessionsSound` says the same of the sessions a request leaves
behind. The proof of each action shows that the account moves on only (`Onward`), and
that copies stay sound under it.

Tenancy: `TablesConsistent`, `DemosConvertedOnce` ([]OneCompanyPerDemo), `NobodyOrphaned`
([]NoOrphans), `ReviewFinds` ([]ReviewFindsThem). One company per demo follows from the unique
prefix (`PrefixOwned`), not from the status that is read before. `NoOrphans` and `SharedStay`
(`SharedUsersStay`) need what a deletion knows of the users it listed (`ListsSound`): those left
to look at and those it keeps are in the company, those it keeps are in another one as well, and
those it will delete in no other one unless they joined one since (`joined`); and that ids are
new (`IdsNew`), so that no list has a user yet to come. What `NoOrphans` excuses is named in
`excused`: among others users added after the members were listed, and users of two companies
that are deleted at once, each deletion counting the other company. The review's snapshots are
of different moments; `ReviewSound` relates each of them to the users that were inactive, with
access, all along. `PeopleTyped` puts the types of both together ([]PeopleTypeOK).

### Requests (`RequestProofs`)

- `ServedWithARole`: []RoleHeld. Each guard reads at a moment of its own, so `AccessInv`
  carries from guard to guard what was true when it passed: the token's claims
  (`ClaimsHold`), the roles held since the request came (`HeldNow`), who was
  authenticated for which company (`Authenticated`, `Permitted`). `GuardOrder` assumes
  that a route with the permissions guard has the authentication guard before it, and
  only once.
- `ChatsAccounted`: []ChatAccounted. What a chat wrote is of a chat that has begun, whose
  caller no longer changes (`TouchedByStarted`); the count goes up on the way to an end.
- `LimiterFair`: []RateFair. The windows of a key do not overlap (`WindowsCount`: the
  entry in the store counts the places of its window), so a span as long as a window meets
  at most two, and the places in a window are different and at most `Limit`
  (`PlacesDiffer`). That maps the requests of the span injectively into
  two windows times `Limit` places.

### Documents (`DocumentProofs`)

- `EffectsHappenOnce`: []EffectsOnce. Of the deliveries of a transaction one at most goes on
  after its booking (`OneGoesOn`), and what is ahead of it has not happened (`AheadOpen`).
- `ApprovalsSound`: []ApprovalSound. A call writes purchase, expense, and removes the run, in
  this order (`WrittenBefore`); of two that overlap, one finds the run gone
  (`ApprovedOffList`), and of two on one run the later one is among `raced`
  (`LaterRaced`), since after an approval there is no run to find.
- `StatusesBacked` and `RecordsComplete`: []StatusIsBacked, []RecordComplete. The timeline is
  read by one action and written by another, so the invariant says of each copy that it is
  the timeline unless a write came in between (`TasksSound`), of each event that it goes
  back to a document of its invoice (`TimelinesSound`), and of each answer given where it
  is: in the timeline, on its way in a task, or among the excused (`AnswersKept`).
- `BooksAgreed`: []BooksAgree. A payment has its entry or is pending, its entry moves the signed
  amount over cash and banks, and a settlement's the total of its document (`EntriesFollow`);
  with additivity this gives the first equation. The sum over all accounts is, in absolute
  value, at most the number of entries that are rounded (`AccountsCancel`), kept by every new
  entry since it nets to its debit less its credit, at most a cent; the statements and the
  accounts they leave out are all of them. The lemmas about `SumOf` (only values matter, one
  more element adds its value, disjoint sums add) come first. That a finite set has finitely
  many units is by a least counterexample in size, which the library's well-foundedness of the
  naturals provides without an operator as parameter.

### API (`ApiProofs`)

- `HooksGivenUpForCause`: GivenUpForCause, a property of steps. A hook is given up by a chain
  whose own count has reached `MaxRetries`, while the row has a count all chains, the daily
  job, the replays and the users write. Neither count runs ahead (`CountsBehind`,
  `ChainsBehind`) of the failures since the hook last worked or was set back, and one of
  the counts that were there at that time (`Behind`), wherever a chain starts: the
  daily job starts one at the count of the row.
- `KeysAlive`: []KeyAlive. A revoked key is off and stays off (`RevokedOff`); the expiry
  a request has read is that of the row, and a key that was revoked before it was read
  was read as off (`ReadsHold`).

### Retention (`RetentionProofs`)

- `CompaniesClosedOnce`: []ClosedOnce. While a company is there the log has the event of
  the call that cut its members off (`CutIsLogged`), so who removes it leaves the event behind
  (`ClosedIsLogged`); the row can be removed once (`OneCloser`).
- `RestoresReplace`: []RestoreReplaces. When the file is about to be loaded the target is empty
  (`TargetSound`), which rests on createdb refusing a database that is there, not on the drop,
  whose error is swallowed.

### Assumptions

All are named in the modules and evaluated by TLC on the instances. Most say that a null
value is not an id and a bound a number. Those with content: `MaxRetries` and
`MaxManualRetries` are at least 1 and `RETENTION_DAYS` is smaller than `FirstDay` (the
days since 1970), as in the code; `GuardOrder`, above; in `TenancyAssumption` emails
of staff differ (a unique index) and a call's id is not a user's; `ApprovalAssumption`
says that an import is a list of rows. The theorems with a hypothesis have it in the tables and
lists above; where the hypothesis fails, a run or section 5 shows what happens.

### Only model-checked

`Settles`, `PaymentsArrive` and `OverdueSuspended` are liveness under fairness, which is beyond
this prover: it has neither ENABLED nor the rules for WF and SF. The contract's own fairness is
not stated, so the theorems about it are about safety. The four violations of section 5 are
runs, not theorems. `OcrContract` with "ack" faults or manual retries and the cron together does
not hold and is not claimed.

## 5. Where code and documentation disagree

Four runs end in a violation, each of something the repository states:

- **ocr_shared_number.** The draft number keeps eight characters of a cuid, which
  two runs created within about 36 ms of each other share. The second takes the draft of the first
  for one of its own "previous partial attempt" (`ocr.processor.ts:345`).
- **recovery_exclusive.** The cron resets a row by id from its snapshot, although
  a retry has locked it since: two jobs execute one run, against "exactly-once
  execution per OcrRun" (`ocr.processor.ts:51`).
- **billing_shared_numbers.** Invoice numbers are counted per tenant but unique over all
  of them. The second tenant to pay in a month is rolled back, and the unique
  violation is taken for a concurrent delivery and answered as received
  (`subscriptions.controller.ts:296`): its payment is never booked.
- **plan_admits.** `PlanGuard` is global, `AuthGuard` belongs to the controllers, and Nest runs
  global guards first: `PlanGuard` finds no `authUser` and answers 403 to every route with a
  plan requirement (`plan.guard.ts:43`, `app.module.ts:106`), whatever the plan, against
  "Enterprise: Unlimited" (`ocr.controller.ts:34`).

More were met while modelling. The models contain the behaviour unless marked (*):

- OCR: the manual retry limit is overrun (`ocr.service.ts:307`), and so is the plan's quota
  (`ocr.service.ts:72`); the passing runs bound by how much. A run being processed can be
  deleted (`ocr.service.ts:361`, against `ocr.controller.ts:158`), and the cron resets rows that
  are no longer open (`ocr.scheduler.ts:68`), by which it can also bring forth a second draft.
  An approval charges a second time for a document its job has charged
  (`analytics.service.ts:434`); it, simulations and chats with an attachment never ask the plan
  (`:366`, `ai.service.ts:561`).
- Billing: a subscription paid for during the sweep is suspended (`dunning.scheduler.ts:106`), a
  reminder that cannot be mailed ends the sweep before the overdue ones are looked for
  (`dunning.scheduler.ts:45`, `:79`), a cancellation takes effect only through it
  (`subscriptions.service.ts:132`), the administrator's update writes back the active flag it
  read (`admin.service.ts:397`), and a payment before the end of a cycle loses the rest of it
  (`subscriptions.controller.ts:199`). The mail with the invoice goes out before DIAN is asked,
  so it never has a CUFE, and a restart after the commit loses mails and transmission for good
  (`subscriptions.controller.ts:274`).
- Stock: two cancellations of an invoice return its goods twice
  (`invoices.service.ts:250`); two lines of one product sell more than there is
  (`invoices.service.ts:146`); a transfer is received twice (`inventory.service.ts:143`); a
  receipt overwrites sales (`inventory.service.ts:235`); an invoice set to accepted
  twice is booked as paid twice (`invoices.service.ts:214`); a purchase's status and its
  payment are separate (`purchases.service.ts:205`); the usage of an invoice that is rolled
  back stays (`invoices.service.ts:179`) (*).
- Guards: for the same reason as in plan_admits, the two-factor, onboarding and subscription
  guards always pass, although the README (`README.md:30`) announces the enforcement of 2FA. The
  rate limit is per value of a header that nobody has checked, and lets 200 requests through in
  a minute across two windows.
- Accounts: `logout` and `revokeUserSessions` leave refresh tokens usable; `resetPassword`
  neither checks nor extends the history, and its link stays usable; overlapping failed sign-ins
  overwrite each other's counts (`auth.service.ts:562`); an OAuth sign-in without consent
  creates a session without tokens.
- Companies: `createCompany` that fails midway leaves a company without an administrator
  (`admin.service.ts:462`); a user created while its company is deleted, or whose two companies
  are deleted at once, stays without one (`admin.service.ts:449`); erasure hashes the email
  alone, so a second holder of an address can never be erased (`admin.service.ts:919`).
- Electronic invoices: an answer sets `sent` over a cancellation (`dian.service.ts:947`); only
  the last event's tracking id is asked for (`dian.service.ts:789`).
- Treasury: each payment is compared with the total of its document, not with what is left
  of it; the balance sheet lists neither banks nor suppliers nor the tax on purchases. Accepted
  invoices and paid purchases move cash without a transaction (`invoices.service.ts:214`,
  `purchases.service.ts:203`), approvals write a transaction without an entry
  (`analytics.service.ts:419`), so the balance and the cash accounts drift apart by these.
- Approvals: two calls at once, or one after another that failed, both create a purchase and an
  expense, and one reports an error; a run that already has a draft gets a second purchase; the
  third party's unique number can make a provider's creation fail for ever.
- Assistant: a failed follow-up reports an error although the tool has written or
  mailed, so a repeated chat does it twice; a stock of 0 becomes 10 (`ai.service.ts:779`).
- Webhooks: deleting a hook with a pending send makes the catch throw, which ends the process
  (`webhook.service.ts:105`); a body may set the retry count and the status of a hook
  (`webhook.controller.ts:23`); a replay switches on hooks their users had switched off
  (`webhook.service.ts:126`). Keys: two calls create two keys of one name.
- Leaving: `deleteInactiveTenants` joins with OR what its comment joins with AND
  (`data-retention.service.ts:22`); `deleteTenantData` reports failure after its committed
  deletion; two deletions can leave a person without a company.
- Backups: the clean-up compares the age of a file with the moment seven days ago, counted from
  1970 (`backup-db.ts:129`), so that no backup is ever removed, against "Daily backups: kept for
  7 days" (`BACKUP_RECOVERY_GUIDE.md:19`); the verification asks for a table `tenant`, which
  does not exist, and so always fails; a restore drops its target before it reads the file, and
  reports success after statements that failed (`backup-restore.service.ts:192`).

## 6. What is not modelled

Formatting, layout and reports: XML, signatures, PDF, mails, the parsing of a model's answer.
Remote services beyond the outcomes their callers see. Dashboards (reads only). Quotes, since
`COUNT(*) ... FOR UPDATE` is refused by PostgreSQL and no quote can be created. The trial guard,
which nothing registers. Modules of single statements (products, taxes, legal, support, help,
audit). Checkout sessions, SaaS invoices made by hand, settings and metrics of the
administrator. Requests with the token of a forced password change. `PROJECT.json` names the
reason for each component; those marked "partly" say what is left out.

## 7. Plan

Done: models of the components that keep state, the runs, and a theorem for every
safety property a passing run checks. What is left to prove is about relations the runs
do not ask about yet:

- the bound `RetryOverrun` in the presence of restarts and the cron, which gives rows further
  attempts up to `MaxAutoRetries`;
- the action properties behind some invariants, as theorems of their own: a booked
  transaction stays booked (`BookedStays`), a kardex only grows, an answer recorded in
  a timeline stays there but for an overlap;
- `AfterPayment` as an abstraction of `Subscriptions`: its one step of booking against the six
  labels of the webhook.
