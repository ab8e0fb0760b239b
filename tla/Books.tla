-------------------------------- MODULE Books --------------------------------
(***************************************************************************)
(* The accounting module: internal/modules/accounting (app/service.go,     *)
(* pg/pg.go) over migrations 0020 and 0065.                                *)
(*                                                                         *)
(* A request is one READ COMMITTED transaction, except RecordReceipt with  *)
(* a client reference, which looks the reference up in a transaction of    *)
(* its own first and again after losing a race.  What a transaction writes *)
(* is seen by nobody before its commit, so its inserts are one step with   *)
(* the commit; what it READ before that (the period's lock, the receipt's  *)
(* row, the reference) may be stale by then.  An insert that waits for     *)
(* another transaction's uncommitted reference is the step taken after the *)
(* other has ended.                                                        *)
(*                                                                         *)
(* Abstractions: a journal or a receipt is its place in the commit order;  *)
(* a day is a number; every invoice has a customer of its own and posts    *)
(* its sale in one step (SalesDocuments has the steps); of the permissions *)
(* there is the one asked in mid-course, the override of a locked period;  *)
(* texts, methods of payment and the audit log are left out.               *)
(***************************************************************************)
EXTENDS Integers, SequencesExt, Sums

CONSTANTS
    Calls,      \* requests served at a time, of users, webhooks and devices
    Docs,       \* invoices
    Total,      \* the grand total of an invoice
    Amounts,    \* amounts typed into the receipt and payment forms
    Refs,       \* client references, chosen by the callers
    BankKinds,  \* the kinds of bank account opened, "BANK" or "CASH"
    Days,       \* calendar days
    Periods,    \* fiscal periods an accountant may set up
    Covers,     \* the days of a period; nothing forbids that two overlap
    MaxJournals,\* a bound on the journals posted
    SetUp,      \* whether the chart of accounts is there from the start: the cases tried
    Entries,    \* lines of the journals entered by hand
    None        \* no reference, invoice, bank account, period or result

ASSUME DocsAssumption == Total \in [Docs -> Nat \ {0}]
ASSUME BoundAssumption == SetUp \in SUBSET BOOLEAN /\ MaxJournals \in Nat /\ BankKinds \subseteq {"BANK", "CASH"}
ASSUME AmountsAssumption == Amounts \subseteq Nat \ {0}
ASSUME DaysAssumption == Days \subseteq Nat /\ Days # {} /\ Covers \in [Periods -> SUBSET Days]
ASSUME NoneAssumption == None \notin Docs \cup Refs \cup Periods \cup Calls \cup {"BANK", "CASH"}

VARIABLES
    chart,      \* the organisation's accounts exist
    issued,     \* invoices finalised, their sale posted
    banks,      \* bank_accounts rows, by the account they post to
    locked,     \* fiscal_periods: absent, open or locked
    today,      \* the server's clock
    journals,   \* journals with their lines, in the order of their commits
    receipts,   \* receipts rows
    payments,   \* payments rows
    call        \* each request: what it asked, how far it is, what it read

booksRest == <<chart, issued, banks, locked, today, journals, receipts, payments>>
booksVars == <<booksRest, call>>

Accounts == {"cash", "bank", "receivable", "payable", "sales", "expense"}
Line == [account : Accounts, party : Docs \cup {None}, debit : Nat, credit : Nat]
Sources == {"sales_document", "receipt", "receipt_reversal", "payment", "manual"}
Journal == [source : Sources, day : Days, lines : Seq(Line), reverses : Nat]
Receipt == [doc : Docs, amount : Nat, ref : Refs \cup {None}, journal : Nat, reversal : Nat]
Payment == [amount : Nat, journal : Nat]

ASSUME EntriesAssumption == Entries \subseteq Seq(Line)

\* What a request remembers.  "item" is what a caller of RecordReceipt works on.
Call == [op : {"none", "chart", "receipt", "reverse", "payment", "manual", "lock", "unlock",
               "link", "capture", "debit"},
         pc : {"idle", "asked", "counted", "posting", "duplicate", "booked", "refused",
               "read", "claim", "capture", "reject"},
         doc : Docs \cup {None}, amount : Nat, ref : Refs \cup {None},
         bank : {None, "BANK", "CASH"}, period : Periods \cup {None}, day : Days, override : BOOLEAN,
         lines : Seq(Line), found : Nat, item : Nat]

Idle == [op |-> "none", pc |-> "idle", doc |-> None, amount |-> 0, ref |-> None, bank |-> None,
         period |-> None, day |-> CHOOSE d \in Days : TRUE, override |-> FALSE, lines |-> <<>>, found |-> 0,
         item |-> 0]

Debit(account, party, amount) ==
    [account |-> account, party |-> party, debit |-> amount, credit |-> 0]
Credit(account, party, amount) ==
    [account |-> account, party |-> party, debit |-> 0, credit |-> amount]

\* The journal an invoice posts (sales app/service.go, FinalizeDocument).
SaleLines(d) == <<Debit("receivable", d, Total[d]), Credit("sales", None, Total[d])>>

BooksTypeOK ==
    /\ chart \in BOOLEAN
    /\ issued \in SUBSET Docs
    /\ banks \in SUBSET {"BANK", "CASH"}
    /\ locked \in [Periods -> {"none", "open", "locked"}]
    /\ today \in Days
    /\ journals \in Seq(Journal)
    /\ receipts \in Seq(Receipt)
    /\ payments \in Seq(Payment)
    /\ call \in [Calls -> Call]

BooksInit ==
    /\ chart \in SetUp
    /\ issued = {}
    /\ banks = {}
    /\ locked = [p \in Periods |-> "none"]
    /\ today \in Days
    /\ journals = <<>>
    /\ receipts = <<>>
    /\ payments = <<>>
    /\ call = [c \in Calls |-> Idle]

-----------------------------------------------------------------------------
(* Posting *)

Becomes(c, record) == call' = [call EXCEPT ![c] = record]
Goes(c, pc) == call' = [call EXCEPT ![c].pc = pc]
Ends(c) == Becomes(c, Idle)

Debits(lines) == FoldLeft(LAMBDA n, l : n + l.debit, 0, lines)
Credits(lines) == FoldLeft(LAMBDA n, l : n + l.credit, 0, lines)

\* Every line is a debit or a credit, and they come to the same.
Balanced(lines) ==
    /\ \A i \in 1 .. Len(lines) : (lines[i].debit > 0) # (lines[i].credit > 0)
    /\ Debits(lines) = Credits(lines)

\* FindContaining reads one row of those that cover the day, in no order.
FindContaining(day) ==
    LET covering == {p \in Periods : locked[p] # "none" /\ day \in Covers[p]} IN
    IF covering = {} THEN {None} ELSE covering

\* doPost goes on: the lines are sound, the accounts exist, and the period it
\* found is not locked or the user may override the lock.
Posts(lines, day, override) ==
    /\ Len(lines) >= 2
    /\ Balanced(lines)
    /\ chart
    /\ Len(journals) < MaxJournals
    /\ \E p \in FindContaining(day) :
          p # None => (locked[p] # "locked" \/ override)

\* doPost refuses.
Refuses(lines, day, override) ==
    \/ Len(lines) < 2
    \/ ~Balanced(lines)
    \/ ~chart
    \/ \E p \in FindContaining(day) : p # None /\ locked[p] = "locked" /\ ~override

Entry(source, day, lines, reverses) ==
    [source |-> source, day |-> day, lines |-> lines, reverses |-> reverses]

\* Variant: the lines as they were.
NotSwapped(lines) == lines

\* The same lines, debit and credit exchanged.
Swapped(lines) ==
    [i \in 1 .. Len(lines) |->
        [lines[i] EXCEPT !.debit = lines[i].credit, !.credit = lines[i].debit]]

\* A request that is refused ends; markPaid, which called, still notes it.
Refuse(c) == IF call[c].op = "link" THEN Goes(c, "refused") ELSE Ends(c)

\* PostTx, or its refusal, as the call's next step.
TryPost(c, r) ==
    \/ Posts(r.lines, r.day, r.override) /\ Becomes(c, [r EXCEPT !.pc = "posting"])
    \/ Refuses(r.lines, r.day, r.override) /\ Refuse(c)

\* A transaction that dies before its commit leaves nothing; the caller is told.
Fail(c) ==
    /\ call[c].pc \in {"asked", "counted", "read", "posting"}
    /\ Refuse(c)
    /\ UNCHANGED booksRest

-----------------------------------------------------------------------------
(* Accounts, bank accounts, fiscal periods *)

\* Two set-ups that both counted zero: the second meets the first one's codes.
CountAccounts(c) ==
    /\ call[c].pc = "idle"
    /\ IF chart THEN Ends(c) ELSE Becomes(c, [Idle EXCEPT !.op = "chart", !.pc = "counted"])
    /\ UNCHANGED booksRest

SeedAccounts(c) ==
    /\ call[c].op = "chart" /\ call[c].pc = "counted"
    /\ Ends(c)
    /\ chart' = TRUE
    /\ UNCHANGED <<issued, banks, locked, today, journals, receipts, payments>>

CreateBankAccount(kind) ==
    /\ chart
    /\ banks' = banks \cup {kind}
    /\ UNCHANGED <<chart, issued, locked, today, journals, receipts, payments, call>>

CreateFiscalPeriod(p) ==
    /\ locked[p] = "none"
    /\ locked' = [locked EXCEPT ![p] = "open"]
    /\ UNCHANGED <<chart, issued, banks, today, journals, receipts, payments, call>>

\* Reading the period, which decides whether the override is asked, and writing
\* its lock are two statements.
ReadPeriodLock(c) ==
    \E p \in Periods, lock, override \in BOOLEAN :
        /\ call[c].pc = "idle"
        /\ locked[p] # "none"
        /\ IF ~lock /\ locked[p] = "locked" /\ ~override
             THEN Ends(c)
             ELSE Becomes(c, [Idle EXCEPT !.op = IF lock THEN "lock" ELSE "unlock",
                                          !.period = p, !.pc = "read"])
        /\ UNCHANGED booksRest

SetPeriodLock(c) ==
    /\ call[c].op \in {"lock", "unlock"} /\ call[c].pc = "read"
    /\ locked' = [locked EXCEPT ![call[c].period] =
                     IF call[c].op = "lock" THEN "locked" ELSE "open"]
    /\ Ends(c)
    /\ UNCHANGED <<chart, issued, banks, today, journals, receipts, payments>>

NextDay ==
    /\ today + 1 \in Days
    /\ today' = today + 1
    /\ UNCHANGED <<chart, issued, banks, locked, journals, receipts, payments, call>>

-----------------------------------------------------------------------------
(* Receipts *)

\* The account a receipt or a payment goes through.
Through(bank) == IF bank = "BANK" THEN "bank" ELSE "cash"

ReceiptLines(r) ==
    <<Debit(Through(r.bank), None, r.amount), Credit("receivable", r.doc, r.amount)>>
PaymentLines(r) ==
    <<Debit("payable", None, r.amount), Credit(Through(r.bank), None, r.amount)>>

\* The receipts row of a client reference.
ByClientRef(ref) == {i \in 1 .. Len(receipts) : ref # None /\ receipts[i].ref = ref}

\* existingByClientRef: the same receipt is the answer, another one an error.
Answers(c, r, i) ==
    IF receipts[i].doc = r.doc /\ receipts[i].amount = r.amount
      THEN Becomes(c, [r EXCEPT !.pc = "booked", !.found = i])
      ELSE Refuse(c)

\* RecordReceipt up to its transaction, whoever calls it.
Ask(c, r) ==
    /\ \/ \E i \in ByClientRef(r.ref) : Answers(c, r, i)
       \/ ByClientRef(r.ref) = {} /\ Becomes(c, [r EXCEPT !.pc = "asked"])
    /\ UNCHANGED booksRest

\* POST /receipts, from the browser or again from the device that got no answer.
RecordReceipt(c) ==
    \E d \in issued, n \in Amounts, ref \in Refs \cup {None}, bank \in banks \cup {None},
       day \in {e \in Days : e <= today}, override \in BOOLEAN :
        /\ call[c].pc = "idle"
        /\ Ask(c, [Idle EXCEPT !.op = "receipt", !.doc = d, !.amount = n, !.ref = ref,
                               !.bank = bank, !.day = day, !.override = override])

\* Inside the transaction: the bank account's ledger account, and PostTx.
PostReceipt(c) ==
    /\ call[c].pc = "asked"
    /\ TryPost(c, [call[c] EXCEPT !.lines = ReceiptLines(call[c])])
    /\ UNCHANGED booksRest

\* Variant: the insert does not look for the reference.
BookReceiptTwice(c) ==
    LET r == call[c] IN
    /\ r.pc = "posting" /\ r.op \notin {"reverse", "payment", "manual"}
    /\ journals' = Append(journals, Entry("receipt", r.day, r.lines, 0))
    /\ receipts' = Append(receipts, [doc |-> r.doc, amount |-> r.amount, ref |-> r.ref,
                                     journal |-> Len(journals) + 1, reversal |-> 0])
    /\ Becomes(c, [r EXCEPT !.pc = "booked", !.found = Len(receipts) + 1])
    /\ UNCHANGED <<chart, issued, banks, locked, today, payments>>

\* The receipt's insert and the commit, unless the reference is taken by now:
\* then the journal goes with the rest of the transaction.
BookReceipt(c) ==
    LET r == call[c] IN
    /\ r.pc = "posting" /\ r.op \notin {"reverse", "payment", "manual"}
    /\ IF ByClientRef(r.ref) # {}
         THEN /\ Goes(c, "duplicate")
              /\ UNCHANGED <<journals, receipts>>
         ELSE /\ journals' = Append(journals, Entry("receipt", r.day, r.lines, 0))
              /\ receipts' = Append(receipts, [doc |-> r.doc, amount |-> r.amount, ref |-> r.ref,
                                              journal |-> Len(journals) + 1, reversal |-> 0])
              /\ Becomes(c, [r EXCEPT !.pc = "booked", !.found = Len(receipts) + 1])
    /\ UNCHANGED <<chart, issued, banks, locked, today, payments>>

\* The loser of the race reads the winner's receipt.
ReadWinner(c) ==
    /\ call[c].pc = "duplicate"
    /\ \E i \in ByClientRef(call[c].ref) : Answers(c, call[c], i)
    /\ UNCHANGED booksRest

\* ReverseReceipt reads the receipt and its journal's lines and posts them
\* exchanged, dated now.
ReverseReceipt(c) ==
    \E i \in 1 .. Len(receipts), override \in BOOLEAN :
        LET lines == Swapped(journals[receipts[i].journal].lines)
            r == [Idle EXCEPT !.op = "reverse", !.found = i, !.day = today,
                              !.override = override, !.lines = lines] IN
        /\ call[c].pc = "idle"
        /\ IF receipts[i].reversal # 0
             THEN Refuse(c)
             ELSE TryPost(c, r)
        /\ UNCHANGED booksRest

\* Variant: the update does not ask whether the receipt is reversed already.
MarkReversedAgain(c) ==
    LET r == call[c] IN
    /\ r.op = "reverse" /\ r.pc = "posting"
    /\ journals' = Append(journals, Entry("receipt_reversal", r.day, r.lines,
                                          receipts[r.found].journal))
    /\ receipts' = [receipts EXCEPT ![r.found].reversal = Len(journals) + 1]
    /\ Ends(c)
    /\ UNCHANGED <<chart, issued, banks, locked, today, payments>>

\* MarkReversed changes the row only while it is not reversed, and the request
\* fails, its journal with it, when another reversal came first.
MarkReversed(c) ==
    LET r == call[c] IN
    /\ r.op = "reverse" /\ r.pc = "posting"
    /\ IF receipts[r.found].reversal # 0
         THEN Refuse(c) /\ UNCHANGED <<journals, receipts>>
         ELSE /\ journals' = Append(journals, Entry("receipt_reversal", r.day, r.lines,
                                                    receipts[r.found].journal))
              /\ receipts' = [receipts EXCEPT ![r.found].reversal = Len(journals) + 1]
              /\ Ends(c)
    /\ UNCHANGED <<chart, issued, banks, locked, today, payments>>

-----------------------------------------------------------------------------
(* Payments, journals entered by hand, and the invoices' own *)

RecordPayment(c) ==
    \E n \in Amounts, bank \in banks \cup {None}, day \in {e \in Days : e <= today},
       override \in BOOLEAN :
        LET r == [Idle EXCEPT !.op = "payment", !.amount = n, !.bank = bank, !.day = day,
                              !.override = override] IN
        /\ call[c].pc = "idle"
        /\ TryPost(c, [r EXCEPT !.lines = PaymentLines(r)])
        /\ UNCHANGED booksRest

BookPayment(c) ==
    LET r == call[c] IN
    /\ r.op = "payment" /\ r.pc = "posting"
    /\ journals' = Append(journals, Entry("payment", r.day, r.lines, 0))
    /\ payments' = Append(payments, [amount |-> r.amount, journal |-> Len(journals) + 1])
    /\ Ends(c)
    /\ UNCHANGED <<chart, issued, banks, locked, today, receipts>>

Post(c) ==
    \E lines \in Entries, day \in {e \in Days : e <= today}, override \in BOOLEAN :
        /\ call[c].pc = "idle"
        /\ TryPost(c, [Idle EXCEPT !.op = "manual", !.lines = lines, !.day = day,
                                   !.override = override])
        /\ UNCHANGED booksRest

BookEntry(c) ==
    LET r == call[c] IN
    /\ r.op = "manual" /\ r.pc = "posting"
    /\ journals' = Append(journals, Entry("manual", r.day, r.lines, 0))
    /\ Ends(c)
    /\ UNCHANGED <<chart, issued, banks, locked, today, receipts, payments>>

\* An invoice's sale, posted by FinalizeDocument in its own transaction.
PostSale(d) ==
    \E override \in BOOLEAN :
        /\ d \notin issued
        /\ Posts(SaleLines(d), today, override)
        /\ issued' = issued \cup {d}
        /\ journals' = Append(journals, Entry("sales_document", today, SaleLines(d), 0))
        /\ UNCHANGED <<chart, banks, locked, today, receipts, payments, call>>

-----------------------------------------------------------------------------
(* The customer's ledger *)

\* What the lines of a journal do to what a customer owes: each of his is a row.
Effect(lines, d) ==
    SumOver([i \in DOMAIN lines |-> IF lines[i].party = d THEN lines[i].debit - lines[i].credit ELSE 0])

\* ListByPartyUpTo: the customer's rows up to a day, by journal.
LedgerRows(d, asOf) ==
    [j \in DOMAIN journals |-> IF journals[j].day <= asOf THEN Effect(journals[j].lines, d) ELSE 0]

\* GetPartyLedger's running balance after the last row, whatever their order.
PartyBalance(d, asOf) == SumOver(LedgerRows(d, asOf))

\* The answer reaches the caller, or nobody.
Answered(c) ==
    /\ call[c].op = "receipt" /\ call[c].pc = "booked"
    /\ Ends(c)
    /\ UNCHANGED booksRest

BooksSteps(c) ==
    \/ CountAccounts(c) \/ SeedAccounts(c)
    \/ ReadPeriodLock(c) \/ SetPeriodLock(c)
    \/ RecordReceipt(c) \/ PostReceipt(c) \/ BookReceipt(c) \/ ReadWinner(c) \/ Answered(c)
    \/ ReverseReceipt(c) \/ MarkReversed(c)
    \/ RecordPayment(c) \/ BookPayment(c)
    \/ Post(c) \/ BookEntry(c)
    \/ Fail(c)

BooksEvents ==
    \/ \E kind \in BankKinds : CreateBankAccount(kind)
    \/ \E p \in Periods : CreateFiscalPeriod(p)
    \/ \E d \in Docs : PostSale(d)
    \/ NextDay

BooksNext == BooksEvents \/ \E c \in Calls : BooksSteps(c)

BooksSpec == BooksInit /\ [][BooksNext]_booksVars

-----------------------------------------------------------------------------
(* Properties *)

\* Receipts and journals go together (service.go:603-757): every receipt has the
\* journal of its amount, one of its own, and a reversed one exactly one journal
\* with the same lines exchanged; no journal of a losing or failed request stays.
ReceiptsMatchJournals ==
    /\ \A i \in 1 .. Len(receipts) :
        LET r == receipts[i] IN
        /\ r.journal \in 1 .. Len(journals)
        /\ journals[r.journal].source = "receipt"
        /\ journals[r.journal].lines[2] = Credit("receivable", r.doc, r.amount)
        /\ r.reversal # 0 =>
             /\ r.reversal \in 1 .. Len(journals)
             /\ journals[r.reversal].source = "receipt_reversal"
             /\ journals[r.reversal].reverses = r.journal
             /\ journals[r.reversal].lines = Swapped(journals[r.journal].lines)
    /\ \A j \in 1 .. Len(journals) :
        /\ journals[j].source = "receipt" => \E i \in 1 .. Len(receipts) : receipts[i].journal = j
        /\ journals[j].source = "receipt_reversal" =>
             \E i \in 1 .. Len(receipts) : receipts[i].reversal = j

\* A retried or raced request with a reference never books the money twice, and
\* whoever is answered under that reference is answered with that one receipt
\* (0065_receipt_reversal.up.sql: "instead of booking the money twice").
BookedOncePerReference ==
    /\ \A i, k \in 1 .. Len(receipts) :
        receipts[i].ref # None /\ receipts[i].ref = receipts[k].ref => i = k
    /\ \A c \in Calls :
        call[c].op = "receipt" /\ call[c].pc = "booked" =>
            /\ receipts[call[c].found].doc = call[c].doc
            /\ receipts[call[c].found].amount = call[c].amount
            /\ receipts[call[c].found].ref = call[c].ref

\* What the customer owes by the ledger is the invoice less the receipts that
\* stand, and what was entered by hand (service.go:704-706: the receivable goes back
\* up on a reversal), through races of reversals and retries.
Received(d) ==
    SumOver([i \in DOMAIN receipts |->
               IF receipts[i].doc = d /\ receipts[i].reversal = 0 THEN receipts[i].amount ELSE 0])
ByHand(d) ==
    SumOver([j \in DOMAIN journals |->
               IF journals[j].source = "manual" THEN Effect(journals[j].lines, d) ELSE 0])
ReceivableFollowsReceipts ==
    \A d \in Docs :
        PartyBalance(d, today) = (IF d \in issued THEN Total[d] ELSE 0) + ByHand(d) - Received(d)

\* Receipts, their journals and what the customer owes go together.
LedgerFollowsReceipts == ReceiptsMatchJournals /\ ReceivableFollowsReceipts

\* Every receipt is booked once, in the ledger and under its reference, and undone
\* at most once.
ReceiptsAreSound == LedgerFollowsReceipts /\ BookedOncePerReference
=============================================================================
