# Rechvix in TLA+

Rechvix is an accounting and inventory system: one PostgreSQL database, an HTTP
server (`apps/server`), background workers (`apps/worker`), desktop installs that
keep a copy of the database, and web and mobile clients. Its Go code is a set of
modules (`internal/modules`) over a small platform (`internal/platform`), and
most of what can go wrong between two requests goes wrong in one place: READ
COMMITTED transactions that read rows, decide in Go and write them back.

These modules model that: each read and each commit of a request is a step, and the
steps of requests, worker loops and failures interleave. TLC checks the models on
small instances; TLAPS proves what matters most for every value of the constants.

| modules | model | code (`internal/` unless said) |
|---|---|---|
| `DurableJobs`, `Outbox`, `MCOutbox` (theorems in `AutomationProofs`) | the transactional outbox and its pollers | `platform/outbox`, `migrations/0023` |
| `StockLedger`, `StockLedgerProofs`, `MCStockLedger` | balances, movements, reservations, lots; the theorems about `Purchases` too | `modules/inventory`, `migrations/0012`, `0036` |
| `SalesDocuments`, `SalesAndSyncProofs`, `MCSalesDocuments` | life, numbers, stock and journals of sales documents | `modules/sales`, `platform/numbering`, `migrations/0018`, `0019`, `0053` |
| `Books`, `Ageing`, `Collections`, `BooksProofs`, `MCBooks` | accounts, journals, receipts, payments, periods; payment links; direct debits | `modules/accounting`, `onlinepay`, `sepa` |
| `EInvoice`, `Webhooks`, `FilingProofs`, `MCFilings` | IRN generation and the webhooks that tell of it; the theorems about all filings | `modules/einvoice`, `webhooks` |
| `VerifactuChain`, `MCRegister` | the Spanish register of invoices and its submission | `modules/verifactu` |
| `Purchases`, `EWayBill`, `MCBackOffice` | supplier documents with cost and selling price; e-way bills | `modules/purchases`, `inventory/domain/costing.go`, `pricerules`, `ewaybill` |
| `Recurring`, `Shop`, `FieldService`, `Reminders`, `AutomationProofs`, `MCAutomation` | recurring invoices, shop orders, maintenance, payment reminders | `modules/recurring`, `shop`, `fieldservice`, `reminders`, `notifications` |
| `DataSync`, `MCSyncAndReturns` (theorems in `SalesAndSyncProofs`) | installs kept alike over a change log | `modules/datasync`, `migrations/0062` |
| `TaxEngine`, `Taxation`, `Reports`, `TaxationProofs`, `TaxPackage`, `MCTaxReturns` | tax of a document, its snapshot and journal, reports and returns | `modules/gstindia`, `taxregimes`, `taxation`, `reporting` |
| `Catalogue`, `LegacyImport`, `Leads`, `DocumentMarks`, `Backups`, `MastersProofs`, `MCMasters` | products and their import, parties and balances brought over, leads, signatures and labels, backups | `modules/catalogue`, `pricing`, `contacts`, `legacyimport`, `crm`, `esign`, `docstatus`, `backup`, `platform/pgtools` |
| `Sums`, `SumsProofs` | the sum of a function over its domain, and its facts | used by `StockLedger`, `Books`, `Shop` and the taxes |

`tlc -config X.cfg M` checks a run, `tlapm M.tla` a proof module.

## 1. Inventory of the system

### 1.1 The transaction everything uses (`platform/database`)

`Pool.RunScoped(ctx, organisation, fn)` opens one READ COMMITTED transaction,
sets the organisation for row level security, runs `fn`, and commits, or rolls
back if `fn` returns an error. Two facts shape every model here:

- Repositories take the transaction from the context. A service method that calls
  `RunScoped` itself, called from inside another `RunScoped`, does **not** join the
  caller's transaction: it opens a second one that commits by itself. The methods
  whose names end in `Tx` or `ForOtherModule` join.
- Nothing locks unless the SQL says so. The rows that are locked are balance rows
  (`FOR UPDATE`), counter rows (`INSERT ... ON CONFLICT DO UPDATE`), cost lots
  while they are drawn, outbox rows (`FOR UPDATE SKIP LOCKED`), due maintenance plans
  and the head of the Spanish invoice chain. Documents, receipts and e-invoice
  records are locked only by the `UPDATE` that changes them.

### 1.2 Components

State, operations, and what makes each correct. "Hard" is what a test hardly
reaches; PROJECT.json lists every such hazard at its line.

**platform/outbox.** State: `outbox_events` (status, attempts, next attempt).
Operations: `Enqueue` in the caller's transaction; `ClaimNext`, the handler,
`MarkDone`/`MarkFailed` by a poller. Hard: several workers, a crash between the
claim's commit and the handler's, two callers with one idempotency key, handlers
that enqueue. Correct if: a row exists exactly when its caller committed; one worker
at a time; writes of a handler are applied once; outcomes are final; no committed
event is forgotten.

**modules/inventory.** State: `stock_movements` (append only), `stock_balances`
(their projection, with average cost), `stock_cost_lots`, `stock_reservations`,
`stock_policies`. Operations: opening stock, adjustment, transfer, movements for
documents of other modules, reserve, release, set policy. Hard: read, compute in Go,
write the whole row back; rows that do not exist lock nothing; movements write back a
reserved quantity they did not compute; transfers that lock in opposite orders.
Correct if: balances equal movements; nothing is oversold; reservations are the sum of
the active ones; lots never exceed stock.

**modules/sales, platform/numbering.** State: documents, lines, the challans an
invoice bills, number counters. Operations: create, add/update/delete line, finalise,
cancel, convert, convert delivery notes. They call inventory, accounting, taxation,
numbering, the outbox and, for Spain, verifactu, in the same transaction, except that a
conversion is one transaction per step. Hard: documents are never locked; conversions
that stop half way; the order of finalising and cancelling an invoice and its challans.
Correct if: stock and ledger follow the document; issued documents do not change; numbers
have no gaps.

**modules/accounting.** State: accounts, journals and entries, receipts, payments,
periods, bank accounts. Operations: `PostTx`, `ReverseJournalForSourceTx` (joined by sales
and purchases), `RecordReceipt` and `RecordPayment`, `ReverseReceipt`, manual journals,
period locks, ageing. Hard: a retried receipt racing the first; a reversal racing another;
callers that believe `RecordReceipt` joins their transaction. Correct if: every journal
balances; a client reference makes one receipt; a receipt is reversed once.

**modules/onlinepay, sepa.** State: payment links; mandates, batches, collections. They
turn a provider's message or a bank's answer into a receipt. Hard: repeated webhooks, a
receipt that commits though the link's update does not. Correct if: one payment, one
receipt, or a note that it was not booked.

**modules/einvoice, ewaybill.** State: one record per document with a status. Handlers of
outbox events, or users, that call or prepare files for a government portal. Hard: the
handler and a user's retry at once; a provider that answered before a crash; a snapshot
read before another request's patch. Correct if: an IRN once given is kept; a prepared
bill is complete and keeps its first capture.

**modules/verifactu.** State: settings, a chain of hashed records per company with one
head row, submission states. Operations: record issued, record cancelled, submit pending.
Hard: what is read before the head is locked; two submitters; the agency's waiting time.
Correct if: the chain has no gaps or forks, an invoice is in it once, every record is
sent in order and, in effect, once.

**modules/webhooks, notifications, reminders.** State: endpoints, deliveries, share links,
reminder log. Handlers and loops over the outbox; two hops for a webhook. Hard: endpoints
deactivated meanwhile, at-least-once deliveries, a limit of attempts, a mail queued and
its log lost.

**modules/purchases, pricerules.** As sales, mirrored: receipts of stock at a cost,
payables, returns. Hard: the same unlocked status, the average cost under returns and
cancellations, prices passed on to the catalogue. Correct if: goods and payables follow
the document, and the average cost lies between the costs paid.

**modules/recurring, shop, fieldservice.** State: schedules with a next date and a count;
orders with an invoice; maintenance plans. Each strings several transactions together and
then records that it did. Hard: a crash or refusal in between, users who act meanwhile.
Correct if: one period or order gives one invoice, one due date one incident.

**modules/datasync.** State: a change log with a sequence, cursors, several databases.
Operations: push, pull, apply, last write wins. Hard: sequence numbers that commit out of
order, deletes, lost answers, rounds that overlap. Correct if: installs that are caught up
are alike, and no committed change is skipped.

**modules/gstindia, taxregimes, taxation, reporting.** State: tax rates by date, the snapshot
a document is finalised with. Operations: compute, snapshot, reports and returns of any
period. Hard: roundings that must add up to what was posted, a rate that changes while
documents are drafts, one document counted by several queries. Correct if: snapshot,
journal, reports and the accountant's package agree.

**modules/catalogue, pricing, contacts, legacyimport, crm.** Rows edited by single guarded
statements, and runs of transactions: deletion of products, imports with their hooks,
opening balances, a lead made a customer. Hard: stopping half way and running again, two at
once. Correct if: what was imported is there once and as reported.

**modules/esign, docstatus, backup.** Signature requests that freeze a fingerprint; labels;
backup files and their pruning. Hard: an edit, a revocation or an expiry between reading
and signing; the worker stopping anywhere. Correct if: a signature is on what was printed;
a file with a backup's name is whole.

**apps/mobile.** State: local sales with progress markers, payments, stock estimates.
Operations: the sync engine's saga (create draft, add lines, finalise, receipt), posting
and reversing payments, cancelling locally. Hard: every response can be lost, the user
acts while the engine runs. Not modelled (section 6).

**Without concurrency of their own.** organisation, reference, staff, logistics, identity:
rows edited by single guarded statements. stockprojection, ai: queries. The rest of the
platform, the clients' screens and the installers are infrastructure. `modules/audit`,
`integrations`, `locations`, `payments`, `returns` and `platform/auth`, `cache`, `files`,
`jobs`, `validation` are empty directories.

### 1.3 How they interact

```
 server requests, recurring, shop                   onlinepay, sepa
        |  CreateDocument ... CancelDocument                |
        v                                                   v
      sales --- numbering (counter row, same tx)       accounting
        |  \--- accounting.PostTx / Reverse...Tx (same tx) ---^  (RecordReceipt: own tx)
        |  \--- inventory.RecordMovement...     (same tx)  <--- purchases --- pricerules
        |  \--- taxation snapshot               (same tx)  ---> reporting, taxpack
        |  \--- verifactu.RecordIssued/Cancelled (same tx)
        v
   outbox.Enqueue (same tx) --> worker: einvoice, webhooks, notifications, verifactu submit
   worker's loops: recurring, reminders, fieldservice, scheduled backups
```

## 2. The models and the code

The specifications share one reading of a request: it is a sequence of steps, each one
SQL read (or one locking read) and each commit, with all its writes; a request may be
refused, fail or lose its process before any step (`Rollback`, `LoseTransaction`, `Abort`,
`End`, `StopRequest`, `CutOff`, ...). Writes by the same transaction between two of its
reads are shown with the commit when no other transaction can see or wait for them;
where another can wait (a lock), taking the lock is a step.

Definitions whose comment begins `Variant:` are deliberate faults: each stands before the
definition it would replace. No action uses them. Variables marked *history* in a module
(`contended`, `shared`, `excused`, `raced`, ...) record what happened; no guard of an
action that the code performs depends on them. They are what an exception in a property
refers to (section 4.3).

**Outbox.** `status`, `attempts`, `wait` are the columns of `outbox_events`; `phase`,
`staged`, `asked` the callers' open transactions; `pc`, `holds`, `verdict` the pollers.
`Enqueue` is `PGStore.Enqueue` with its `ON CONFLICT DO NOTHING`: it waits for another
transaction that has inserted the same key. `Claim` is `outbox_claim_next`, a statement
and commit of its own. `Enter`, `Return`, `Settle` are the handler's transaction in
`Poller.ProcessOnce`: `Settle` marks the row and commits what the handler wrote, **also**
when the handler returned an error, as the code does. `DurableJobs` is the abstract
specification: a job submitted by a committed transaction is open until it is finished
once, with one outcome. `Outbox` implements it under the mapping `JobOf`.

**StockLedger.** A cell is a (warehouse, variant). `row` is the committed balance with
the signed sum of its movements and the remaining quantity of its lots; `work` the same
row as its lock holder has changed it; `lock` the row lock, or the uncommitted insert of a
missing row; `res`/`rlock` the reservations and who has changed one without committing.
`Read` is `GetForUpdate`: it takes the row lock if the row exists, and **locks nothing if
it does not**. `WriteMovement` is the rest of `recordMovement`, `WriteReserved` recomputes
the reserved sum, `MarkReleased` is the reservation's own update, which precedes the
balance lock in a release and follows it in a reserve. `ReleaseReservation` takes a reservation
*and* a cell, as the code takes them from the request (`service.go:601-618`; the one caller is the
HTTP handler): a release in the name of another cell recomputes that one and leaves the
reservation's own sum as it was, which `astray` records.

**SalesDocuments.** `doc`, `line`, `link`, `counter` are the tables; `locked` is who holds
a counter row; `out` and `booked` the net stock and ledger effect of a line; `journal`
what the latest journal of a document was computed from; `queued` the e-invoice event;
`work` each request with everything it has read. `CreateDocument` ...
`ConvertDeliveryNotes` open a request; `ReadLines`, `ReadSources` are the reads before a
finalisation or cancellation; `TakeNumber` takes the counter's lock and `InsertDocument`
commits; `CopyLine`/`InsertLine` are a conversion's line loop, one transaction each;
`ChangeLine`, `CommitFinalize`, `CommitCancel` are the commits of the rest.

**Books, Collections, Ageing.** A journal or receipt is its place in the commit order. A
receipt with a client reference looks the reference up first, in its own transaction, and
again after losing the race for it. `Collections` adds payment links and direct debits:
`markPaid` and `Result` hold one transaction open while `RecordReceipt` commits in another.
`Result` reads the collection without a lock and books without a reference
(`sepa/service.go:524-549`), so two requests that answer one debit at once book it twice;
`doubled` records such debits. A receipt's date is today's in the model; the code accepts any
`received_at`, which no property looks at.
`Ageing` has one ledger, a row posted at a time, and `GetAgeing` as a function of it, next to
a definition by totals; its open amounts are kept row by row, with zero for a credit, where the code keeps a slice of the
debits and passes over those that are closed.

**EInvoice, Webhooks.** `irn` is `einvoice_records`, locked from its first `UPDATE` to the
commit; `registered` is what the portal knows. `Webhooks` extends it: einvoice's events fan
out to the endpoints that subscribe, one delivery job each, over the states of an outbox
row. `FilingNext` composes the two.

**VerifactuChain.** `chain`, `head`, `sub`, `event` are the records, the locked head row,
submission states and outbox events. A clerk (a finalising or cancelling request) reads the
invoice, locks the head, takes the time and the predecessor, and appends; a sender (the
poller, or `SendNow`) reads `Due`, marks, sends and commits the answers: one for each record
(`AgencyAnswers`), none (`CallFails`), or one that leaves records out (`AnswerIsShort`), which
become errors though the agency may have kept them.

**Purchases, EWayBill.** As sales, with the weighted average as an exact fraction, the
payable and the price rule inside the finalising transaction. A warehouse has a balance row once
something moved there (`shelved`). A request that looks before that finds nothing to lock
(`FindNoRow`, `inventory/pg/pg.go:121`) and later writes its own result over whatever came up
since; so may a sale. `blotted` records the balances written over. Prices entered by hand
(`pricing`) are not in this module: `RaiseOnlyRaises` is about purchases only.

An e-way bill is a record with its snapshot: the seller's data, taken once, and the details that
are `filled` in, of which a capture has those the invoice brings along (`AtHand`). A trip reads and
writes the snapshot whole; a patch sends each detail as it likes, a blank or a zero included
(`service.go:272-273`), so it can take out what was there, and the record is judged again. An
exporter that fails rolls a single preparation back and leaves a batch's record in need of
information (`service.go:382-387`, `424-455`).

**Recurring, Shop, FieldService, Reminders.** The worker's loops and the shop, each loop as
the sequence of transactions it is, with users who pause, cancel, pay and change settings
in between. `RaiseDue`, `ReadOverdue` and `Load` take the plans, invoices and schedules in any
order the SQL's `ORDER BY` allows (`InOrderOfDue`, `OldestFirst`, `Listings`). A shop's order is
also an ordinary draft of the sales module, where the team may edit, finalise, cancel or convert
it (`EditSalesOrder`, `FinalizeInSales`, `CancelInSales`, `ConvertInSales`); a conversion there makes
an invoice the order never learns of, which `billed` records, and edits there are recorded by
`edited`. Maintenance has two clocks: what is due is asked of the database (`date`,
`fieldservice.go:608`), how far a plan moves on is counted in UTC (`utc`, `:632`); either may be
a day ahead of the other. While the database's is, a plan may stay due after it raised its
incident; the incidents raised then are `ahead`.

**DataSync.** `table` and `log` are each site's rows and change log, `links` each device's link
with its cursors. A number is taken before its transaction commits, so a reader of the log can
see a later one first. `round` is push then pull, page by page (`PageOf`, `Changes`); a batch is
applied in order (`InOrder`), then once more for what missed a parent or had a child
(`ApplyBatch`); `lost` counts answers that never arrived. `apart` collects the rows the design
lets differ: a change that commits behind a cursor, a refused one, one that meets a delete, and
one that keeps its `updated_at`: archiving a product (`SetStatus`, `catalogue/pg/pg.go:264`) is
logged and sent, and dropped by the other site as old (`datasync.go:197`).

**TaxEngine, Taxation, Reports, TaxPackage.** Pure operators of a document's facts (rate by
date, split, rounding half up per component, inclusive prices) for India, VAT countries
and the United States; the documents with their snapshots and journals; each report as an
operator of the state and a period, written as the SQL computes it; the accountant's
package with its checks and boxes. Finalising and cancelling read the status without a lock
(`ReadDraft`, `ReadFinalized`), so a document can have two snapshots, and
`ReverseJournalForSourceTx`, which does not ask for an earlier reversal, can reverse one journal
twice (`Reversals`).

**Catalogue, LegacyImport, Leads, DocumentMarks, Backups.** Rows in the order they were
made; a request is what it has read and the rows it has left. A row of a report carries, as
history, what the row left behind (`left`), so that "error" and "duplicate" can be held against
the books as "committed" can. `Backups` has one worker, and what it wrote survives it: a
loss of the machine's page cache is not modelled (the code does not `fsync`). `Leads` extends
`LegacyImport`, for the customers that leads become.

`Outbox`'s events, `SalesDocuments`' stock legs and `Books`' sales are one step of the module
that uses them: a queued e-invoice is a key of `Outbox`, a leg is a request of
`StockLedger`. They are not composed into one state space, which would hide the races
behind states that do not differ in them.

## 3. What is checked

Twelve runs, ten that pass and two that find the violation they expect. Modules that share
no state are checked in one run, one at a time: a variable `part` chooses in the initial
state which instance the behaviour is about.

| run | instance | shows |
|---|---|---|
| `outbox` | 2 keys, 2 callers, 2 workers, 2 attempts, 1 loss; fair | `QueuedIffCommitted`, `OneWorkerPerEvent`, `AppliedOnce`, `AttemptsCoverRuns`; `ImplementsDurableJobs`; `EventuallySettled` |
| `stock` | 2 existing cells with one unit, 3 requests, 2 reservations | `SeededBalanceIsLedger`, `NeverOversold`, `ReservationsAndLots` |
| `sales` | 2 documents, 2 lines, 2 requests; challans and invoices of one unit, or one invoice or return edited between two quantities | `StockFollowsDocument`, `LedgerFollowsDocument`, `NumbersGapFree`, `EInvoiceQueuedIffIssued`, `IssuedIsImmutable` |
| `sales_twice` | 1 invoice, 2 requests | violation of `BookedOnce` |
| `books` | 2 calls, 1 invoice, 1 reference, 2 days, 3 journals; 1 link; 2 batches; every ledger of up to 4 rows | `ReceiptsAreSound`, `CollectedOnce`, `AgeingIsOldestFirst` |
| `filings` | 1 invoice, 1 worker, 1 user, 1 endpoint, 1 failure, 1 loss; fair | `IrnIsKept`, `ToldAsItIs`, `EventuallyTold` |
| `register` | 2 invoices; 3 records by two clerks and a clock, or 2 records sent by both senders one by one; fair | `RegisterIsSound`, `EventuallySent` |
| `backoffice` | 2 purchase documents, 2 requests, one warehouse with sales or two with the price rule; one invoice's e-way bills, 3 details, 2 requests | `LedgersFollowPurchases`, `BillsAreComplete`; steps: `RaiseOnlyRaises`, `CapturedForGood` |
| `automation` | 1 schedule, 1 worker and users, 4 calendar days, or 2 workers, 3 days; 2 visitors, 2 clerks, the sales module; 1 plan, 2 workers, 3 days by two clocks; 2 invoices, 1 loop, 3 days; fair | `InvoicedAsScheduled`, `OrdersInvoicedOnce`, `ServicedOnce`, `RemindedRightly`, `EventuallyDone` |
| `sync_and_returns` | 2 devices and a server, 2 rows, one round each, or one device with two rounds; or 2 documents of a company in IN, ES, GB or US | `InstallsAgree`, `RoundAdvances`; `ReportsAgree`, `PackageIsSound` |
| `trial_balance` | the documents of `sync_and_returns` | violation of `TrialBalanceAsOf` |
| `masters` | 2 managers, 2 names; 2 callers; 2 requests on 3 leads; 2 signers, 2 users, 1 label; 4 seconds of backups | `CatalogueIsSound`, `BroughtOver`, `LeadsAreSound`, `MarksHold`, `BackupsAreKept` |

Type invariants are conjuncts of these or are proved (section 4). Deadlock is not checked: a
system whose users have nothing left to ask, and whose ids are used up, stops.

### 3.1 Bounds, and why they are enough

- *Ids* are finite sets that are used up: two documents give a conversion and its source,
  two invoices a chain with a predecessor, three leads a duplicate of a duplicate.
- *Actors.* Two requests give every race of a pair. `stock` has three, for a waiter to
  overtake a waiter and a reservation to race a sale and a release.
- *Failures.* One crash, lost answer or refused transaction (`MaxLost`, `MaxCut`, `MaxCuts`,
  `MaxFaults`, `MaxFailures`, `MaxLosses`, `MaxStops`, `MaxBreaks`, `MaxHitches`, `MaxTroubles`) can
  fall anywhere; what a retry leaves is then seen. The proofs are for any number.
- *Quantities and amounts* enter by sums and comparisons: one unit is raced for, and amounts
  of one and two tell a total from its parts. Tax amounts are odd, so that roundings differ.
- *Days.* Two to four days put a rate change, a due date, an interval and a short month in
  between; `MCCalendar` has the 31st and a February.
- `register` has no certificate in "chain", so nothing is sent there, and two records once
  requests raced, as in "submit", where the question is who sends what and when and a failure
  does not meet a record sent twice; `automation` checks two carts, one of
  them of one piece, and orders of one line and product apart, maintenance with one incident by
  hand and one change while the clocks differ on the first days, and reminders of one invoice
  with changed settings or a failure, and of two invoices with one payment or one failure;
  `masters` bounds by `Handwork` and `Begun` how many single
  statements and how many runs of statements are begun in a part, and three of both with
  leads; of two requests in `books` one at most is a payment or an entry by hand, and one at
  most changes a lock, nobody begins anything when the journals are used up, and once a debit
  was booked twice requests come one after the other.
- *Parts with `Within` or a smaller alphabet* (`backoffice`, `sync_and_returns`) leave out of one
  part what another has: rival rows and two installs, parents and linking again, a lost
  answer or an undated change and a third link, rate changes and the countries without a rate table.

### 3.2 Fairness

`Poller.Run` and the loops run until the process ends, and the network calls have timeouts
(webhooks 10 s, e-invoice 30 s, mail 60 s, tax agency 90 s), so a worker's steps are weakly
fair; where several wait for one row, or an event in backoff is overtaken by others, strong
fairness says that an `UPDATE` that waits is served and that no delivery is passed over for
ever (`EInvoiceFairness`, `WebhooksFairness`). Users, the clock and failures owe nothing, and
failures are bounded: an event whose worker stops after its claim stays `PROCESSING` for
ever, so `EventuallySettled` excepts the events whose claim was lost, and `EventuallyTold` and
`EventuallySent` likewise. A provider that fails for ever is retried for ever, by design.

## 4. What is proved

TLAPS checks these for all values of the constants under the named assumptions of the
modules (4.2): any number of documents, requests, workers, days and failures.

| theorem | property | |
|---|---|---|
| `AutomationProofs!OutboxTypes` | `TypeOK` | |
| `AutomationProofs!NothingLostOrInvented` | `QueuedIffCommitted` | |
| `AutomationProofs!ExclusiveClaims` | `OneWorkerPerEvent` | |
| `AutomationProofs!EffectsOnce` | `AppliedOnce` | |
| `AutomationProofs!StartsAreCounted` | `AttemptsCoverRuns` | |
| `AutomationProofs!FinalOutcomes` | `OutcomeIsFinal` | action property |
| `AutomationProofs!OutboxRefinement` | `ImplementsDurableJobs` | `Outbox` implements `DurableJobs` |
| `StockLedgerProofs!BalancesFollowMovements` | `SeededBalanceIsLedger` | |
| `StockLedgerProofs!LotsFollowStock` | `LotsWithinStock` | |
| `StockLedgerProofs!LastUnitSoldOnce` | `NeverOversold` | |
| `StockLedgerProofs!ReservationsHold` | `ReservationsAndLots` | a sum over a set |
| `StockLedgerProofs!PurchasesAreFollowed` | `LedgersFollowPurchases` | shelf, payable and average cost |
| `StockLedgerProofs!RaisesStay` | `RaiseOnlyRaises` | action property |
| `SalesAndSyncProofs!TypeCorrect` | `TypeOK` | |
| `SalesAndSyncProofs!NumberSeriesHaveNoGaps` | `NumbersGapFree` | |
| `SalesAndSyncProofs!EInvoicesAreQueued` | `EInvoiceQueuedIffIssued` | |
| `SalesAndSyncProofs!PostingsFollowDocument` | `StockFollowsDocument` | and the ledger |
| `SalesAndSyncProofs!LedgerFollows` | `LedgerFollowsDocument` | |
| `SalesAndSyncProofs!IssuedDocumentsAreImmutable` | `IssuedIsImmutable` | action property |
| `SalesAndSyncProofs!SyncInvHolds` | | what lies behind every cursor |
| `SalesAndSyncProofs!InstallsAgreeHolds` | `InstallsAgree` | any number of devices and rounds |
| `SalesAndSyncProofs!RoundAdvancesHolds` | `RoundAdvances` | action property |
| `FilingProofs!IrnsAreKept` | `IrnIsKept` | action property |
| `FilingProofs!OutcomesAreTold` | `ToldAsItIs` | two modules composed |
| `FilingProofs!RegisterStaysSound` | `RegisterIsSound` | |
| `FilingProofs!BillsStayComplete` | `BillsAreComplete` | |
| `FilingProofs!BillsCapturedForGood` | `CapturedForGood` | action property |
| `BooksProofs!ReceiptsStaySound` | | types, receipts with their journals, one per reference |
| `BooksProofs!LedgerFollowsAlways` | `ReceiptsAreSound` | with the customer's balance, sums of sums |
| `BooksProofs!LedgerFollowsCollections` | `ReceiptsAreSound` | the same, `Collections` beside the books |
| `BooksProofs!CollectedOnceAlways` | `CollectedOnce` | |
| `BooksProofs!AgeingHolds` | `AgeingIsOldestFirst` | every ledger, two nested recursions |
| `AutomationProofs!InvoicesStay` | `InvoicedAsScheduled` | any number of workers |
| `AutomationProofs!OrdersStay` | `OrdersInvoicedOnce` | with an order's total, a sum |
| `AutomationProofs!ServicingStays` | `ServicedOnce` | |
| `AutomationProofs!RemindersStay` | `RemindedRightly` | |
| `TaxationProofs!ReportsStay` | `ReportsAgree` | sums of sums, rounding |
| `MastersProofs!MarksStay` | `MarksHold` | |
| `MastersProofs!PipelineStays` | `LeadsAreSound` | |
| `MastersProofs!BackupsStay` | `BackupsAreKept` | |
| `MastersProofs!CatalogueStays` | `CatalogueIsSound` | with what an import makes of a file |
| `MastersProofs!BroughtOverAlways` | `BroughtOver` | with what an import makes of a file |

### 4.1 The arguments

Every proof has the same outline: an inductive invariant that implies the property, one
lemma per kind of step that preserves it, and a theorem that puts them together. What makes
the invariants longer than the properties is what the requests remember.

**Outbox.** That a claimed event is `PROCESSING` needs the claim to exclude open inserts,
and the mark after a handler needs the row to be there still. `OutboxInv` adds `Buffers` (an
uncommitted row belongs to one transaction, and what a transaction enqueued without
inserting has a committed row), `WaitsWhenFailed` and `Holding`. The refinement maps `Commit`
and `Settle` to `Submit` and `Finish`, and every other step to a stutter, using `OutboxInv`.
`AttemptsCoverRuns` is inductive beside it once it also says that a worker which has claimed
and not yet started has a count to spare.

**StockLedger.** `Sound(c, bal)` says that a balance agrees with its movements and covers its
lots. `Inv` states it of the committed row and of the copy a lock holder works on, and
`ReadIsCurrent` says that a request between its read and its write holds the lock and has
read what the row holds: without it the write could be anything. For the reserved
quantity, `ReservedInv` adds that who holds a row has recomputed its sum from the holds *it*
can see (`CountedBy`: the committed ones and its own changes), or is releasing and will; a
commit then makes its own view everybody's. Cells where a release in another's name changed a
reservation are left out from the moment it is marked. That needs to know how a sum changes when one
summand does, which is `SumsProofs`.

**Purchases.** What stands on a shelf is the sum of what the standing documents received, less
what was sold; the payable is the sum of what they are owed. A commit writes one document, so
it changes each sum by the difference that document makes (`OnePaper`, from `SumChange`), and
that is what it adds to the balance, because until two requests meet over a document
(`met`) what a request read of it still holds (`ReadStands`) and the journal a cancellation
reverses is the one of what is owed (`JournalStands`). That is so of a shelf until somebody writes
over it from nothing; who has found a row there holds it locked. The average cost lies between the least
and the greatest price: receiving a line takes a weighted average of two numbers between
them, and `Receive`, a recursion over the lines, is shown to exist as a function of the
number of lines done (`AfterLinesIs`). The holder of the balance row knows the price
(`LocksKept`), so it raises what is there.

**Sums.** `MapThenSumSet` is a recursive definition in the community modules, and the
provers cannot instantiate an induction principle with an operator. `SumsProofs` goes round
that: the recursion is shown to be a function on the subsets of the domain (`IterExists`,
by taking a least natural number or a subset of least cardinality at which a statement fails,
`LeastNat`, `LeastSet`), and from its equation follow `SumWithout`, `SumChange`, `SumGrow` and
`SumOfPositive`. So facts about this one recursion are proved for every finite domain. A
recursion over the rows of a list is a function in the same way (`RecursionHasSolution`), which
the ageing of a ledger, the import of a file and a batch of the synchronisation rest on.

**SalesDocuments.** `IInv` has one conjunct per part of the state: which documents and lines
exist (`DocsInv`, `LinesInv`, `JournalInv`), that whoever is about to insert a document holds
the counter row it read (`CreatesInv`), that two requests at one document are noticed
(`AloneInv`), and `Fits`: what each request remembers at each statement, in particular that
everything read of a document it works on alone is still so (`Current`). `PostedInv` says
that the journal a cancellation will reverse is the one of the lines as they are.

**Books.** `SoundCall` says what a request remembers: who is about to post has the lines of
its receipt, of its payment, or of the receipt it reverses, dated no later than today, and
who has an answer has the receipt it asked for. `Grown` says that a step only adds journals
and receipts, so that what was read stays. `LedgerInv` carries the balance: for each customer
the sum of his rows is his invoice, plus the rows entered by hand, less the receipts that
stand. A journal more changes the first sum by its effect (`RowAdded`), a receipt more or
reversed the last (`StandingGrows`, `StandingShrinks`), and the effect of two lines and of
two exchanged lines is what they should be (`EffectOfDebit`, `EffectOfCredit`,
`EffectOfSwapped`): the steps balance (`LedgerMoves`).

**Collections.** `LinkCall` and `HeldWhilePending`: a link is in the hands of at most one call,
about that link, and only while it is `PENDING`. `CountedOnce` counts the receipts of a link:
as many as calls that died after theirs, and one more when the link is spent (`Spent`). The
receipts of a debit are counted the same way while one call at a time collects it.
`BatchesSound` says that a debit is answered only in a batch that was sent and not discarded,
`OneOpen` that an invoice stands in one open debit; the re-check in the committing `INSERT`
is what keeps it.

**Ageing.** The state is one ledger, any sequence of rows; the matter is two loops, one inside
the other, as recursive functions on the rows'
numbers; that they exist is one lemma (`RecursionHasSolution`). What is open of a row is its
share (`Shares`): what the bills up to it exceed the credits by, less what the bills before it
do. A credit keeps that (`LeftByTotals`, `SettleShares`), and so does a bill, because the
customer was never ahead (`OpenIsShared`). Each row falls into one band, so the bands add up
to the whole (`ClassesAddUp`), which is the balance.

**DataSync.** A device and the server agree because of what lies behind a cursor: each committed
change there is taken in at the other site (`TakenIn`: it has had the row, and holds that
write, a newer one, or none any more), or its row went apart. `LinksSound` says so of the
stored cursors and `RoundsSound` of a round's, which may lag behind the stored ones or run ahead
of them; of a batch on its way, that what is before its end is taken in or in the batch
(`BatchFits`). Applying keeps it change by change (`InOrder` and `Changes` are shown to be
functions of the number of changes done), a change applied twice is stale or finds its row gone,
and what commits behind a cursor, or with the time it had, goes apart. Conversely whatever a table holds is in a log
(`TablesSound`), so that if two sites that have caught up held different writes of a row, each
would have taken in the other's and be at least as new. `TimesSound` (one time, one author) and
`OpenSound` (a transaction underway has its row for itself) are what `LoggedOnce` needs.

**EInvoice, Webhooks.** `IrnInv`: a process with an IRN in hand has a registered document
(`CallsAreSound`), and a final status has been announced (`StatusTold`). `HookInv` counts: the
good and bad rows of a delivery's log are its claims, but for the one in flight or lost
(`AttemptsAreLogged`), and the receiver was reached once per claim at most
(`PostsAreClaimed`). `IrnIsKept` is a property of steps and follows from the `COALESCE` in
`UpdateStatus` alone once types are known.

**VerifactuChain.** `HeadIsLocked` carries the order of time: whoever holds the head's lock has
taken a time that no record exceeds. `ReadIsCurrent` says that what a request read of an
invoice that nobody else works on is still so when it appends; `RacesAreSeen` that the
exception is recorded. `SendersAreSound` ties what is being sent to what is unsent, and that
a batch is a prefix of the unsent (`DueIsPrefix`, by cardinality) makes the sending follow
the chain; an answer that leaves records out makes them errors and keeps that (`AnswerInv`).
A final `UnsentIsQueued` needs the poller's event to be there while it sends.

**EWayBill.** `OneByOne`: while no two requests met over an invoice it has at most one record,
and a request that has read has read the record there is; whatever a patch then takes out of it,
the status is judged on what is written, and a file is prepared of what was judged.

**Recurring.** That a failed or cut-short run spoils no other period needs that the dates of a
schedule are distinct (`NthDates`). Months are counted from the anchor, so that is
arithmetic; weeks go through `Carry`, a recursion over month lengths, which is shown to
exist (`CarryIs`) and to send later days to later dates (`CarryLater`). `ScheduleOK` says of a
schedule that every period before the next one has its invoice and its record (`MadeUpTo`)
and, unless a worker has it in hand, that no later one has an invoice (`Untouched`); `RowOK`
says of a row in a worker's hand that it was read of this schedule and that what it promises
still holds. Until a second worker loads a schedule it is in one worker's hand at most;
from then on it is `doubled`, and what is kept is what the steps of two workers cannot spoil:
a step takes nothing back that another worker relies on (`Smooth`), except the count of a
schedule that is doubled.

**Shop.** `CartFollowed` ties the steps of `PlaceOrder` to the cart (the sales order has the
lines added so far), `OneLooks` says that what a visitor found under an address holds while
nobody else looks for it, `OneInvoices` that on an order with one request at work `made` is
what the order and that request's place say. The total of an order is shown to be the sum of
its lines, whose being a natural number is itself a fact about sums. What the sales module does
to the document changes its lines or its status, never the cart or the count of invoices,
except by a conversion.

**FieldService.** No two incidents for a due date are had from `PlansAhead`: a plan's next
date is after the due date and the day of everything it raised that is not `ahead`, because
`NextDue` counts past today in UTC (`CountsPast`: division by the interval), and what is not
`ahead` was raised on a database's date that UTC had reached. The row locks are `HeldIsDue`: the plans a
worker holds are its own and still due.

**Reminders.** The limit and the interval are judged on the log, and mails are what
customers get; `Pace` relates them for one invoice at a time: one run has it in hand
(`OnceInHand`), what it still has to mail is below the limit and far enough from every
earlier mail (`MayMail`), and each mail has its log but for the one about to be logged
(`Accounted`). Settings may change between a read and a mail, so the bound is the loosest of
the settings so far (`LoosestYet`).

**DocumentMarks.** `StillTheSame`: a signer who has compared the fingerprints has a document
that prints what the request froze, unless it was edited in between, which `torn` records.
`NobodyIsLate` and `AnsweredOnce` follow from the `WHERE status = 'PENDING'` of each update.

**Leads.** `OneMaker` is the heart: of a lead that one request at a time makes a customer
of, the customers made are none, or the one the request has in hand, or the one the lead
names. `ImportsSee` says that an import has seen the keys of every lead that was there when
it began and of those it made; `LeadsApart`, that imported leads share no key, follows.

**LegacyImport.** `BooksSound` is the property of the tables, `CallSound` what an import
remembers: what it has read is still there, and while imports of its kind do not overlap it
is all there is, so a name or number it does not find is nobody's. What a file comes to is a
recursion over its rows, shown to exist as a function of the number of rows done
(`AfterPartiesIs`, `AfterInvoicesIs`), and `PartiesFine` and `InvoicesFine` hold of what is
done so far, by induction on it. Reports stay true (`Told`) because nothing is taken back: what a
row said to be in has left is still there, and what an error left can only be a journal whose
commit was not heard of.

**TaxEngine, Taxation, Reports.** `TaxInv` has the types of what a document was finalised with: every
snapshot's lines are those the engine makes for its country (`SnapsOK`), taxed in India by a row
in force on its day (`IndiaLines`), and every journal balances (`JournalsOK`). The reports are
sums over documents of sums over lines of sums over components, in different orders of grouping:
that a double sum may be taken either way (`SumSwap`), and that a sum splits over the classes of
a partition (`SumOfClasses`, `SumOfGroups`), are proved once from `SumsProofs` and used for every
report. The half minor unit of each rounded half is integer division (`HalvesWithinOne`).

**Catalogue.** `Whole` relates products, prices and requests. A product that lost its price has a
request on the brink of removing it (`PricesKept`); nothing refers to a deleted one
(`Referred`), because the removal asks again. What an import has made is followed hook by
hook: for each product its price and its opening stock are there, still to come, or noted
(`MadeAsSaid`), and no two opening stocks of one product are to come (`HooksFine`), so the
stock is nothing or what the row says. While requests do not overlap an import knows every
imported name (`OneByOneSheets`). What the rows of a file make is again shown row by row
(`SheetRowsAre`, `RowsFine`): new names only, with the hooks each row asks for.

**Backups.** `LastOnesStay`: the k-th last file is there, is not doomed, and at most k - 1
are newer, so what `pruneBackups` takes from the old end never reaches it. It rests on the
clock (`n <= second`), and is excepted when the clock was set back. `FewAreKept` counts
files: cardinalities of a set and of what pruning leaves of it.

### 4.2 Assumptions

They are `ASSUME`s of the modules, checked by TLC on the runs' values: the "none" values
are outside the sets they complete (in `Books` also outside the requests, which hold links);
bounds are natural numbers; documents, lines, plans and
invoices are finite sets where something is counted; quantities, prices, intervals
(`every_days`, `repeat_every_days`, `max_reminders`: validated to be at least one by
`CreatePlan` and `Save`) and `BACKUP_RETENTION_COUNT` are positive; there is at least one
visitor, address, asset and agent (an initial value is chosen from each); the first stage of
a pipeline is an open one; the files are
sequences of rows, and products, parties, rows of balances and invoices are of the kinds their
readers accept (`ImportProducts`, `ImportParties`, `ImportOpeningBalances`,
`ImportHistoricalInvoices`); schedules are finitely many, with rhythms the table accepts (an interval of 1 to 24),
first dates and a calendar that exist; a line of a ledger
has one side (`validateBalanced`); purchase documents are finitely many, prices paid finitely many and
not none, and "nobody" is neither a request nor a purchase document. No theorem assumes a bound on the
number of actors, failures or steps beyond the constants that stand in the guards.

### 4.3 What the exceptions mean

Nothing locks a document, so several properties are stated of what requests worked on one at
a time; a history variable collects the others: `contended` (sales), `astray`
(reservations), `met` and `blotted` (purchases), `doubled` and `cuts` (collections), `raced`
and `unchained` (verifactu), `shared`, `together`, `billed` and `edited` (shop), `ahead`
(maintenance), `cut`, `late` and `doubled` (recurring), `excused` (reminders, catalogue),
`contested` and `relinked` (leads), `torn` (signatures), `mixed` and `unsure` (balances brought
over), `crossed` (e-way bills), `apart` (synchronised rows), `setBack` and `halved` (backups). What two requests can do to one
document is not hidden: it is `sales_twice` and section 5. `NumbersGapFree`,
`EInvoiceQueuedIffIssued`, `ToldAsItIs` and `IrnIsKept` have no such exception;
`SeededBalanceIsLedger` and `NeverOversold` are stated of balances whose row exists.

### 4.4 Only model-checked

- *Liveness* (`EventuallySettled`, `EventuallyTold`, `EventuallySent`, `EventuallyDone`): TLAPS
  has no rules for fairness here.
- *The accountant's package* (`PackageIsSound`): the regroupings of `TaxationProofs` for the tables
  and boxes of four countries, each with its own errors that block it.

## 5. Where the code and its documents disagree

Two runs find a violation, with the quoted text under "findings" in PROJECT.json.

1. `sales_twice`: two requests that read one draft both finalise it; stock and journal are
   posted twice. (The e-invoice event is queued once, by its key.)
2. `trial_balance`: the trial balance "as of" a day sums every journal line, of later days too:
   the date stands in a `LEFT JOIN`.

Others were met while modelling and are described by the exceptions of section 4.3 and
here, without a run of their own:

- *Outbox.* An event whose worker stops after the claim stays `PROCESSING`; no query looks for
  it again (`migrations/0023_outbox.up.sql:77` claims only pending and failed rows).
- *Stock.* Two first movements of a product both read a missing row as zero, and the second
  commit overwrites the first's balance (`inventory/pg/pg.go:121`). A sale is checked
  against what is on hand, not what is available, and takes reserved stock. A release may name a
  cell that is not the reservation's, whose reserved quantity then stays.
- *Sales.* A second conversion of a challan is refused at its last step; the draft it has made
  by then has no link, can be finalised, and bills again (`sales/app/service.go:910`).
  Cancelling a challan does not ask whether an invoice bills it. A second branch's counter
  starts at a number the organisation's unique index already has. After deleting a line that
  is not the last, the next line number is in use.
- *Books.* Ageing loses an advance: a credit before any debit is dropped. A receipt can be
  posted in a period that was locked after the request read it. A payment link's receipt
  commits on its own, and a call that dies after it books twice (`onlinepay/service.go:334`). Two requests
  that answer one direct debit at once book it twice (`sepa/service.go:524-549`).
- *Filings.* An e-way bill whose snapshot lacks the seller's data can never be repaired, and
  two requests can file a bill that was judged complete on another reading.
- *Purchases.* The first receipts of a product, finalised at once, overwrite each other's balance. A price rule that only raises can lower a price when two warehouses finalise at
  once. Returns are compared with their purchase, not with one another.
- *Automation.* Recurring invoices and reminders have no lock against a second worker, which
  makes a period's invoice again and can take a schedule back to it; advance
  writes back a row read earlier and undoes a pause; two requests of the team invoice one
  shop order twice, one that crashed after the conversion invoices it again, and a
  cancellation in between is not noticed; converted in the sales module, the order's document
  is invoiced once more. While the database's date is ahead of UTC, a maintenance plan can raise
  a second incident.
- *Taxes and reports.* A document cancelled by two requests at once has its journal reversed
  twice, which no check of the package flags. A document finalised twice and then cancelled leaves a journal the
  accountant's package does not flag. GSTR-3B's ITC counts purchase returns positive. UTGST
  is in neither GSTR-1 nor GSTR-3B. Sales snapshots are always made as B2C, so 3.1(b) never
  arises. The rate summary counts one half of CGST/SGST and mixes sales with purchases; the
  HSN summary counts both snapshots of a document finalised twice; sales summary and
  dashboard count quotations. Reports multiply by the unrounded rate where the ledger rounds
  per part.
- *Synchronisation.* Linking again keeps the cursors and, after `Unlink`, brings deleted rows
  back; two rounds can move a stored cursor backwards. Archiving a product does not reach the
  other installs.
- *Master data.* `shop_products` references `product_variants` (`migrations/0060:23`) but
  `HasTransactionHistory` (`catalogue/pg/pg.go:301-321`) does not ask it, so a deletion can
  take a product's prices and then fail. An import that crashes between its commit and its
  hooks leaves products without price, and its repetition reports duplicates. Two first calls
  make two default price lists. Imports of opening balances that overlap double a balance.
  `MakeCustomer` cut short leaves a party no lead names, and with a phone number its retry is
  refused for ever. A signature can be printed though an edit committed between the
  fingerprint and the update; `Assign` may assign a label switched off meanwhile. A clock set
  back makes the newest backup the one that is pruned, `.partial` files are never removed,
  and a restore is not one transaction.

## 6. Not modelled

- **apps/mobile**: the device's queue, saga and payments. Read in the source and worth a model:
  a crash between a sale's insert and its payments; the engine's list of due sales, held in
  memory, sending a payload the user has edited or cancelled since; a payment whose answer
  was lost and that was reversed before the retry; a line added late by a request thought
  lost.
- **modules/identity**: users, sessions, MFA and keys are a matter of secrets, which this
  project does not study.
- **organisation, reference, staff, logistics, ai, stockprojection**: independent rows or
  queries.
- **platform** without outbox, numbering, pgtools and transactions: infrastructure;
  authorisation is granted before a model's request begins.
- Within the modelled parts: batches and serial numbers, unit conversion, printing, listing
  and search, texts, provider protocols, signatures and certificates, dimensions of reports
  other than the document and the product. "components" in PROJECT.json says it per part.

## 7. Plan

1. The mobile saga against `SalesDocuments` and `Books`: one local sale becomes one document
   with one receipt.
