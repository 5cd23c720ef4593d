------------------------------ MODULE Treasury ------------------------------
(***************************************************************************)
(* Payments and books of one tenant.  TreasuryService                      *)
(* (src/src/modules/treasury/treasury.service.ts) writes a transaction and *)
(* then, in a statement of its own, the ledger entry that goes with it.    *)
(* Invoices and purchases book themselves, and move cash without a         *)
(* transaction when they are set to accepted or paid; the approval of an   *)
(* OCR run writes a transaction without an entry.  LedgerService           *)
(* (src/src/modules/ledger/ledger.service.ts) takes entries by hand too,   *)
(* reconciles them, and adds the books up.                                 *)
(*                                                                         *)
(* Amounts are in cents, as the columns keep them.  An entry is kept as    *)
(* what it does to each account, debit minus credit.                       *)
(***************************************************************************)
EXTENDS Integers, FiniteSets

CONSTANTS
    Sales,       \* invoices
    Bought,      \* purchases
    Total,       \* total, subtotal and tax of each, rounded one by one
    Subtotal,
    Tax,
    Times,       \* tells the settlements of one document apart
    Amounts,     \* the amounts users type
    Payments,    \* ids of the transactions TreasuryService writes
    Expensed,    \* ids of the transactions approveOcrRun writes
    Manual       \* ids of the entries made by hand

Documents == Sales \union Bought

\* Entries of documents: one when it is made, and one each time it is settled.
Postings == [document : Documents, what : {"made"}]
            \union [document : Documents, what : {"settled"}, time : Times]

Abs(n) == IF n < 0 THEN -n ELSE n

ASSUME TreasuryAssumption ==
    /\ Sales \cap Bought = {}
    /\ Total \in [Documents -> Nat] /\ Subtotal \in [Documents -> Nat] /\ Tax \in [Documents -> Nat]
    /\ \A d \in Documents : Abs(Total[d] - Subtotal[d] - Tax[d]) <= 1
    /\ Amounts \subseteq Nat
    /\ Payments \cap Expensed = {}
    /\ (Payments \union Manual) \cap Postings = {} /\ Payments \cap Manual = {}

VARIABLES
    present,       \* rows of Invoice and Purchase
    removed,       \* deleted ones
    transactions,  \* table Transaction, per id
    entries,       \* tables LedgerEntry and LedgerLine, per reference
    pending,       \* payments whose entry is being or was to be written
    reconciled     \* entries marked by an accountant

treasuryVars == <<present, removed, transactions, entries, pending, reconciled>>
-----------------------------------------------------------------------------
\* The accounts the code names, and one for all others an entry by hand may name.
Cash == "110505"
Banks == "110510"
Clients == "130505"
Suppliers == "220500"
TaxDue == "240805"
TaxPaid == "240810"
Income == "413595"
Purchasing == "510000"
Accounts == {Cash, Banks, Clients, Suppliers, TaxDue, TaxPaid, Income, Purchasing,
             "310505", "613505", "510505", "other"}

Zero == [a \in Accounts |-> 0]
Entry(debited, credited, debit, credit) ==
    [Zero EXCEPT ![debited] = @ + debit, ![credited] = @ - credit]

TreasuryInit ==
    /\ present = {} /\ removed = {}
    /\ transactions = [p \in {} |-> 0]
    /\ entries = [r \in {} |-> Zero]
    /\ pending = {}
    /\ reconciled = {}

Put(r, e) ==
    entries' = [s \in DOMAIN entries \union {r} |-> IF s = r THEN e ELSE entries[s]]

Register(p, x) ==
    transactions' = [q \in DOMAIN transactions \union {p} |-> IF q = p THEN x ELSE transactions[q]]

Transfer(type, category, amount, documents) ==
    [type |-> type, category |-> category, amount |-> amount, documents |-> documents]
-----------------------------------------------------------------------------
\* InvoicesService.create and PurchasesService.create book the document in their
\* transaction; the lines are rounded to cents after they were compared.
MadeEntry(d) ==
    IF d \in Sales
    THEN [Zero EXCEPT ![Clients] = Total[d], ![Income] = -Subtotal[d], ![TaxDue] = -Tax[d]]
    ELSE [Zero EXCEPT ![Purchasing] = Subtotal[d], ![TaxPaid] = Tax[d], ![Suppliers] = -Total[d]]

Made(d) == [document |-> d, what |-> "made"]

Make(d) ==
    /\ d \notin present \union removed
    /\ present' = present \union {d}
    /\ Put(Made(d), MadeEntry(d))
    /\ UNCHANGED <<removed, transactions, pending, reconciled>>

\* The purchases of the OCR pipeline and of its approvals have no entry.
Draft(d) ==
    /\ d \in Bought
    /\ d \notin present \union removed
    /\ present' = present \union {d}
    /\ UNCHANGED <<removed, transactions, entries, pending, reconciled>>

\* An invoice set to accepted, a purchase set to paid: an entry on the cash
\* account whatever the status was, and no transaction.
SettledEntry(d) ==
    IF d \in Sales THEN Entry(Cash, Clients, Total[d], Total[d])
                   ELSE Entry(Suppliers, Cash, Total[d], Total[d])

\* The status of a purchase is a statement of its own: by the time of the entry
\* the purchase may be gone.
Settle(d, n) ==
    LET e == [document |-> d, what |-> "settled", time |-> n]
    IN  /\ d \in present \union (removed \cap Bought)
        /\ e \notin DOMAIN entries
        /\ Put(e, SettledEntry(d))
        /\ UNCHANGED <<present, removed, transactions, pending, reconciled>>

-----------------------------------------------------------------------------
\* create: a payment may name an invoice and a purchase, and then has the total
\* of each, give or take a cent.  That they were paid before is not looked at.
MayPay(ds, amount) ==
    /\ ds \subseteq present
    /\ \A c, d \in ds : c # d => {c, d} \cap Sales # {} /\ {c, d} \cap Bought # {}
    /\ \A d \in ds : Abs(amount - Total[d]) <= 1

Pay(p) ==
    /\ p \notin DOMAIN transactions
    /\ \E ds \in SUBSET Documents, type \in {"INCOME", "EXPENSE"},
          category \in {"CAJA", "BANCO"}, amount \in Amounts :
         /\ MayPay(ds, amount)
         /\ Register(p, Transfer(type, category, amount, ds))
    /\ pending' = pending \union {p}
    /\ UNCHANGED <<present, removed, entries, reconciled>>

\* Mutant: what goes out is debited to the cash account as well.
PaymentEntry_Swapped(x) ==
    Entry(IF x.category = "BANCO" THEN Banks ELSE Cash,
          IF x.type = "INCOME" THEN Clients ELSE Suppliers, x.amount, x.amount)
PaymentEntry(x) ==
    LET cashAccount == IF x.category = "BANCO" THEN Banks ELSE Cash
    IN  IF x.type = "INCOME" THEN Entry(cashAccount, Clients, x.amount, x.amount)
                             ELSE Entry(Suppliers, cashAccount, x.amount, x.amount)

\* ledger.create for it.  If it fails the caller is told that all failed, and
\* the transaction stays: `pending' for ever.
Book(p) ==
    /\ p \in pending
    /\ Put(p, PaymentEntry(transactions[p]))
    /\ pending' = pending \ {p}
    /\ UNCHANGED <<present, removed, transactions, reconciled>>

\* AnalyticsService.approveOcrRun: an expense from the cash account, no entry.
Expense(p) ==
    /\ p \notin DOMAIN transactions
    /\ \E amount \in Amounts : Register(p, Transfer("EXPENSE", "CAJA", amount, {}))
    /\ UNCHANGED <<present, removed, entries, pending, reconciled>>

Balances(debit, credit) == Abs(debit - credit) <= 1

\* LedgerController.create: an entry (here: of two lines) that balances to the cent.
BookByHand(r) ==
    /\ r \notin DOMAIN entries
    /\ \E a, b \in Accounts, debit, credit \in Amounts :
         /\ a # b /\ Balances(debit, credit)
         /\ Put(r, Entry(a, b, debit, credit))
    /\ UNCHANGED <<present, removed, transactions, pending, reconciled>>

\* A deleted document leaves its entries behind, and its payments, without it
\* (SetNull).
RemoveDocument(d) ==
    /\ d \in present
    /\ present' = present \ {d}
    /\ removed' = removed \union {d}
    /\ transactions' = [p \in DOMAIN transactions |->
         [transactions[p] EXCEPT !.documents = @ \ {d}]]
    /\ UNCHANGED <<entries, pending, reconciled>>

\* reconcileEntry: the books go on counting it.
Reconcile(r) ==
    /\ r \in DOMAIN entries
    /\ reconciled' = reconciled \union {r}
    /\ UNCHANGED <<present, removed, transactions, entries, pending>>

TreasuryNext ==
    \/ \E p \in Payments : Pay(p) \/ Book(p)
    \/ \E p \in Expensed : Expense(p)
    \/ \E r \in Manual : BookByHand(r)
    \/ \E r \in Payments \union Manual \union Postings : Reconcile(r)
    \/ \E d \in Documents : Make(d) \/ Draft(d) \/ RemoveDocument(d)
    \/ \E d \in Documents, n \in Times : Settle(d, n)

TreasurySpec == TreasuryInit /\ [][TreasuryNext]_treasuryVars
-----------------------------------------------------------------------------
\* What the services add up.

\* The sum of f[x] for x in S, as the number of units above zero less the number
\* of those below.
Units(f, S) == UNION {{x} \X (1 .. f[x]) : x \in S}
SumOf(f, S) == Cardinality(Units(f, S)) - Cardinality(Units([x \in S |-> -f[x]], S))

Signed(x) == IF x.type = "INCOME" THEN x.amount ELSE -x.amount

\* TreasuryService.getBalance.
Balance(ps) == SumOf([p \in ps |-> Signed(transactions[p])], ps)

Sum(a) == SumOf([r \in DOMAIN entries |-> entries[r][a]], DOMAIN entries)

\* What the entries rs do to the two accounts that hold money.
OnCash(rs) == SumOf([r \in rs |-> entries[r][Cash] + entries[r][Banks]], rs)

\* What documents settled by their status collected, less what they paid.
Settlements == {e \in DOMAIN entries \cap Postings : e.what = "settled"}
Settled ==
    SumOf([e \in Settlements |-> IF e.document \in Sales THEN Total[e.document]
                                                         ELSE -Total[e.document]], Settlements)

\* LedgerService.getBalanceSheet and getProfitAndLoss.
Assets == {Cash, Clients}
Liabilities == {TaxDue}
Equity == {"310505"}
TotalOf(as) == SumOf([a \in as |-> Sum(a)], as)
Revenue == -Sum(Income)
Costs == Sum("613505")
Expenses == Sum("510505") + Sum(Purchasing)

NetProfit == Revenue - Costs - Expenses

OnSheet == Assets \union Liabilities \union Equity
OnStatement == {Income, "613505", "510505", Purchasing}

-----------------------------------------------------------------------------
\* However payments, documents and entries interleave, or entries fail: but for
\* entries made by hand, the cash and bank accounts differ from what getBalance
\* shows by the documents settled by their status, which no transaction tells of,
\* and by the transactions without an entry, which are those of approvals and
\* those whose entry failed.
CashFollowsPayments ==
    OnCash(DOMAIN entries \ Manual) + Balance(pending \union (DOMAIN transactions \cap Expensed))
      = Balance(DOMAIN transactions) + Settled

\* The balance sheet and the profit and loss statement differ by what stands on
\* the accounts neither lists (banks, suppliers, the tax on purchases, others),
\* and by at most a cent for each entry made by hand or by a new document, whose
\* lines are rounded one by one.
Inexact == DOMAIN entries \cap (Manual \union {Made(d) : d \in Documents})
SheetGapExplained ==
    LET gap == TotalOf(OnSheet) - NetProfit
        neither == Accounts \ (OnSheet \union OnStatement)
    IN  Abs(gap + TotalOf(neither)) <= Cardinality(Inexact)

\* The three reports of the books agree up to what the code leaves out of them.
BooksAgree == CashFollowsPayments /\ SheetGapExplained
-----------------------------------------------------------------------------
\* The inductive invariant of the proof of BooksAgree.

TreasuryTypeOK ==
    /\ present \subseteq Documents /\ removed \subseteq Documents
    /\ DOMAIN transactions \subseteq Payments \union Expensed
    /\ transactions \in [DOMAIN transactions ->
         [type : {"INCOME", "EXPENSE"}, category : {"CAJA", "BANCO"}, amount : Amounts,
          documents : SUBSET Documents]]
    /\ DOMAIN entries \subseteq Payments \union Manual \union Postings
    /\ entries \in [DOMAIN entries -> [Accounts -> Int]]
    /\ pending \subseteq DOMAIN transactions \cap Payments
    /\ reconciled \subseteq DOMAIN entries

\* A payment has its entry or is pending, and the entry moves its amount; the
\* entry of a settled document moves its total, that of a new one no money.
EntriesFollow ==
    /\ DOMAIN entries \cap Payments = (DOMAIN transactions \cap Payments) \ pending
    /\ \A p \in DOMAIN entries \cap Payments :
         entries[p][Cash] + entries[p][Banks] = Signed(transactions[p])
    /\ \A e \in DOMAIN entries \cap Postings :
         entries[e] = IF e.what = "made" THEN MadeEntry(e.document) ELSE SettledEntry(e.document)

\* A new document is booked once: a row that is not there yet has no entry.
MadeOnce == \A d \in Documents : Made(d) \in DOMAIN entries => d \in present \union removed

\* The accounts cancel out, but for a cent per entry made by hand or of a document.
OverAccounts(f) ==
    f[Cash] + f[Banks] + f[Clients] + f[Suppliers] + f[TaxDue] + f[TaxPaid] + f[Income]
      + f[Purchasing] + f["310505"] + f["613505"] + f["510505"] + f["other"]
AllAccounts == OverAccounts([a \in Accounts |-> Sum(a)])
AccountsCancel == Abs(AllAccounts) <= Cardinality(Inexact)

TreasuryInv ==
    /\ TreasuryTypeOK /\ IsFiniteSet(DOMAIN transactions) /\ IsFiniteSet(DOMAIN entries)
    /\ EntriesFollow /\ MadeOnce /\ AccountsCancel
=============================================================================
