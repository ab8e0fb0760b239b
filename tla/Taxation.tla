------------------------------ MODULE Taxation ------------------------------
(***************************************************************************)
(* Documents, the tax snapshot each is finalised with and the journal it   *)
(* posts: internal/modules/taxation, with gstindia's rate table and what   *)
(* sales and purchases do about tax in FinalizeDocument.                   *)
(*                                                                         *)
(* A snapshot is a tax_documents row with its lines and components.  As in *)
(* SalesDocuments and Purchases a request may finalise a document another  *)
(* has finalised since it was read, or cancel one another has cancelled.   *)
(*                                                                         *)
(* Abstractions: what can be entered is one of Sheets; a document has a    *)
(* number of its own; amounts as in TaxEngine, exchange rates in hundredths*)
(* and only for sales; stock, parties and numbering are left to the modules*)
(* that are about them.                                                    *)
(***************************************************************************)
EXTENDS TaxEngine

CONSTANTS
    Docs,       \* documents
    Companies,  \* the companies a run may be about
    Sheets,     \* what may be entered on a document
    RateRows,   \* rows the rate table starts with
    RateOffers, \* rows that may be added to it
    MaxDay,     \* days, a bound
    MaxReads    \* a bound on requests at a time

Days == 1 .. MaxDay

RevenueTypes == {"TAX_INVOICE", "POS_INVOICE", "CREDIT_NOTE", "DEBIT_NOTE", "SALES_RETURN", "RECURRING_INVOICE"}
PayableTypes == {"PURCHASE_INVOICE", "PURCHASE_RETURN", "DEBIT_NOTE"}

\* What may be entered: a line's code says what its rate is looked up by.
AnyLine == [code : [kind : STRING, rate : Nat], amount : Nat]
AnySheet == [dir : {"OUTPUT", "INPUT"}, type : STRING, date : Days, place : STRING, customer : STRING,
             region : STRING, country : STRING, registered : BOOLEAN, exempt : BOOLEAN,
             surcharge : BOOLEAN, inclusive : BOOLEAN, fx : Nat \ {0}, lines : Seq(AnyLine) \ {<<>>}]

\* A row of the rate table: integrated tax, cess and class from a day to another.
AnyRow == [code : STRING, gst : Nat, cess : Nat, from : Nat, to : Nat, class : {"TAXABLE", "EXEMPT", "NIL_RATED", "ZERO_RATED"}]

ASSUME TaxationAssumption ==
    /\ MaxDay \in Nat \ {0} /\ MaxReads \in Nat
    /\ IsFiniteSet(Docs) /\ Sheets \subseteq AnySheet
    /\ Companies \subseteq [country : STRING, state : STRING, collects : SUBSET STRING]
    /\ IsFiniteSet(RateRows) /\ IsFiniteSet(RateOffers)
    /\ RateRows \cup RateOffers \subseteq {r \in AnyRow : r.gst % 2 = 0}

VARIABLES
    company,    \* legal_entities: country, state, where it collects sales tax
    rates,      \* tax_rate_master
    today,
    docs,       \* sales_documents and purchase_documents
    snaps,      \* tax_documents, in the order they were made
    journals,   \* journals, in order
    reads,      \* requests that read a document as a draft
    cancels     \* requests that read it as finalised, to cancel it

taxVars == <<company, rates, today, docs, snaps, journals, reads, cancels>>

NoSheet == [dir |-> Unset, type |-> Unset, date |-> 0, place |-> Unset, customer |-> Unset, region |-> Unset, country |-> Unset,
            registered |-> FALSE, exempt |-> FALSE, surcharge |-> FALSE, inclusive |-> FALSE, fx |-> 100, lines |-> <<>>]
Blank == [sheet |-> NoSheet, status |-> "NONE", tax |-> 0]

TaxationTypeOK ==
    /\ company \in Companies /\ today \in Days
    /\ rates \subseteq RateRows \cup RateOffers
    /\ \A d \in Docs :
          /\ docs[d].sheet \in Sheets \cup {NoSheet} /\ docs[d].tax \in 0 .. Len(snaps)
          /\ docs[d].status \in {"NONE", "DRAFT", "FINALIZED", "CANCELLED"}
          /\ docs[d].tax > 0 => snaps[docs[d].tax].doc = d
          /\ {reads[d], cancels[d]} \subseteq 0 .. MaxReads
    /\ \A i \in DOMAIN snaps : Len(snaps[i].lines) = Len(docs[snaps[i].doc].sheet.lines)
    /\ \A i \in DOMAIN journals :
          SumOver([k \in DOMAIN journals[i].lines |-> journals[i].lines[k].debit - journals[i].lines[k].credit]) = 0

TaxationInit ==
    /\ company \in Companies /\ rates = RateRows /\ today = 1
    /\ docs = [d \in Docs |-> Blank]
    /\ snaps = <<>> /\ journals = <<>>
    /\ reads = [d \in Docs |-> 0] /\ cancels = [d \in Docs |-> 0]

-----------------------------------------------------------------------------
(* The rate table *)

\* A rate may be added with any window, over another's too.
CreateRate(row) ==
    /\ row \notin rates
    /\ rates' = rates \cup {row}
    /\ UNCHANGED <<company, today, docs, snaps, journals, reads, cancels>>

\* A spreadsheet's row becomes a taxable rate without cess, from today on.
ImportTaxRate(row) ==
    /\ row.class = "TAXABLE" /\ row.cess = 0 /\ row.from = today /\ row.to = Forever
    /\ CreateRate(row)

NextDay ==
    /\ today < MaxDay
    /\ today' = today + 1
    /\ UNCHANGED <<company, rates, docs, snaps, journals, reads, cancels>>

-----------------------------------------------------------------------------
(* Finalising a document *)

Draft(d, sheet) ==
    /\ docs[d].status = "NONE"
    /\ sheet.country = company.country
    /\ docs' = [docs EXCEPT ![d] = [sheet |-> sheet, status |-> "DRAFT", tax |-> 0]]
    /\ UNCHANGED <<company, rates, today, snaps, journals, reads, cancels>>

ReadDraft(d) ==
    /\ docs[d].status = "DRAFT" /\ SumOver(reads) + SumOver(cancels) < MaxReads
    /\ reads' = [reads EXCEPT ![d] = @ + 1]
    /\ UNCHANGED <<company, rates, today, docs, snaps, journals, cancels>>

\* The supply as the engine is told of it: sold from the company's state to the
\* document's place, bought from the supplier's state for the company's.
Supply(s) ==
    LET sold == s.dir = "OUTPUT" IN
    [lines |-> s.lines, date |-> s.date, country |-> company.country, reverse |-> FALSE,
     supplierState |-> IF sold THEN company.state ELSE s.place,
     place |-> IF sold THEN s.place ELSE company.state,
     customer |-> IF sold THEN s.customer ELSE company.country,
     region |-> IF sold THEN s.region ELSE Unset, collects |-> IF sold THEN company.collects ELSE {},
     registered |-> sold /\ s.registered, exempt |-> sold /\ s.exempt,
     surcharge |-> sold /\ s.surcharge, inclusive |-> sold /\ s.inclusive]

\* A purchase is taxed when it is owed for and the supplier's state (India) or
\* the country's VAT is known; a supplier registered abroad is refused.
IsTaxed(s) ==
    \/ s.dir = "OUTPUT"
    \/ /\ s.type \in PayableTypes
       /\ (company.country = "IN" /\ s.place # Unset) \/ company.country \in DOMAIN VATTable
IsForeignSupplier(s) ==
    s.dir = "INPUT" /\ s.type \in PayableTypes /\ company.country \in DOMAIN VATTable
        /\ s.registered /\ s.customer \notin {Unset, company.country}

\* Each part of the journal is converted and rounded once; what is owed is their sum.
Base(amount, fx) == Rounded(amount * fx, 100)
Entry(account, debit, credit) == [account |-> account, debit |-> debit, credit |-> credit]
Swapped(lines) == [i \in DOMAIN lines |-> Entry(lines[i].account, lines[i].credit, lines[i].debit)]

Reduces(s) ==
    \/ s.dir = "OUTPUT" /\ s.type \in {"CREDIT_NOTE", "SALES_RETURN"}
    \/ s.dir = "INPUT" /\ s.type \in {"PURCHASE_RETURN", "DEBIT_NOTE"}

\* Variant: the tax has no entry of its own.
PostingWithoutTax(s, net, tax) ==
    <<Entry("RECEIVABLE", net + tax, 0), Entry("SALES", 0, net)>>

\* The tax goes to an account of its own.
Posting(s, net, tax) ==
    LET sale == s.dir = "OUTPUT"
        lines == <<Entry(IF sale THEN "RECEIVABLE" ELSE "PAYABLE", IF sale THEN net + tax ELSE 0, IF sale THEN 0 ELSE net + tax),
                   Entry(IF sale THEN "SALES" ELSE "PURCHASES", IF sale THEN 0 ELSE net, IF sale THEN net ELSE 0)>>
                 \o (IF tax > 0 THEN <<Entry(IF sale THEN "OUTPUT_TAX" ELSE "INPUT_TAX", IF sale THEN 0 ELSE tax, IF sale THEN tax ELSE 0)>> ELSE <<>>) IN
    IF Reduces(s) THEN Swapped(lines) ELSE lines

Journal(date, source, d, lines) == [date |-> date, source |-> source, doc |-> d, lines |-> lines]
IsOwedFor(s) == s.type \in IF s.dir = "OUTPUT" THEN RevenueTypes ELSE PayableTypes
Entered(s) == SumOver([i \in DOMAIN s.lines |-> s.lines[i].amount])

\* The whole of FinalizeDocument after the read, or its refusal.
Finalize(d) ==
    LET s == docs[d].sheet
        lines == IF IsTaxed(s) THEN Calculate(rates, Supply(s)) ELSE Refused
        net == IF IsTaxed(s) THEN Base(Taxable(lines), s.fx) ELSE Entered(s)
        tax == IF IsTaxed(s) THEN Base(Tax(lines), s.fx) ELSE 0
        refused == \/ IsTaxed(s) /\ lines = Refused
                   \/ IsForeignSupplier(s)
                   \/ s.dir = "OUTPUT" /\ s.type \in RevenueTypes /\ Taxable(lines) + Tax(lines) <= 0
        snap == [doc |-> d, date |-> s.date, fx |-> s.fx, region |-> IF s.dir = "OUTPUT" THEN s.region ELSE Unset,
                 supply |-> IF s.dir = "OUTPUT" THEN "B2C" ELSE "B2B", place |-> Supply(s).place, lines |-> lines] IN
    /\ reads[d] > 0
    /\ reads' = [reads EXCEPT ![d] = @ - 1]
    /\ \/ refused /\ UNCHANGED <<docs, snaps, journals>>
       \/ /\ ~refused
          /\ snaps' = IF IsTaxed(s) THEN Append(snaps, snap) ELSE snaps
          /\ journals' = IF IsOwedFor(s) /\ net + tax > 0 THEN Append(journals, Journal(s.date, s.dir, d, Posting(s, net, tax))) ELSE journals
          /\ docs' = [docs EXCEPT ![d].status = "FINALIZED", ![d].tax = IF IsTaxed(s) THEN Len(snaps') ELSE @]
    /\ UNCHANGED <<company, rates, today, cancels>>

\* The status is read without a lock: two requests may both go on.
ReadFinalized(d) ==
    /\ docs[d].status = "FINALIZED" /\ SumOver(reads) + SumOver(cancels) < MaxReads
    /\ cancels' = [cancels EXCEPT ![d] = @ + 1]
    /\ UNCHANGED <<company, rates, today, docs, snaps, journals, reads>>

\* The latest journal of the document is reversed, today and under another source,
\* whether or not it was reversed before.
Cancel(d) ==
    LET posted == {i \in DOMAIN journals : journals[i].doc = d /\ journals[i].source = docs[d].sheet.dir} IN
    /\ cancels[d] > 0
    /\ cancels' = [cancels EXCEPT ![d] = @ - 1]
    /\ docs' = [docs EXCEPT ![d].status = "CANCELLED"]
    /\ journals' = IF posted = {} THEN journals
                   ELSE Append(journals, Journal(today, "CANCELLATION", d, Swapped(journals[Max(posted)].lines)))
    /\ UNCHANGED <<company, rates, today, snaps, reads>>

TaxationNext ==
    \/ \E row \in RateOffers : CreateRate(row) \/ ImportTaxRate(row)
    \/ NextDay
    \/ \E d \in Docs :
          \/ \E sheet \in Sheets : Draft(d, sheet)
          \/ ReadDraft(d) \/ Finalize(d) \/ ReadFinalized(d) \/ Cancel(d)

TaxationSpec == TaxationInit /\ [][TaxationNext]_taxVars

-----------------------------------------------------------------------------
(* What the engine promises *)

\* A line is taxed at a rate in force on its document's day, and whether its two
\* halves were rounded by themselves or the one figure of an inter-state supply,
\* the tax is what any other place of supply would give, up to one minor unit
\* (gstindia, Calculate's comment).
SplitWithinOne ==
    \A i \in DOMAIN snaps : company.country = "IN" =>
        LET s == docs[snaps[i].doc].sheet
            Elsewhere(k, row, state) ==
                ComputeLine(s.lines[k], s.dir = "OUTPUT" /\ s.inclusive, IndiaComponents(row, Unset, state), row.class).tax IN
        \A k \in DOMAIN snaps[i].lines :
            \E row \in InForce(rates, s.lines[k].code, s.date) :
                \A state \in KnownStates : Elsewhere(k, row, state) - snaps[i].lines[k].tax \in {-1, 0, 1}
=============================================================================
