------------------------------- MODULE Reports -------------------------------
(***************************************************************************)
(* The reports over finalised documents and journals:                      *)
(* internal/modules/reporting, as the SQL of pg/pg.go computes them.       *)
(*                                                                         *)
(* A report is an operator of the state and of a period, a set of days.    *)
(* Amounts in the ledger's currency are in hundredths of its minor unit:   *)
(* the reports multiply by the rate and do not round.                      *)
(*                                                                         *)
(* Abstractions: one company, whose documents a caller may all see; of the *)
(* dimensions of a summary the document and the product; stock and receipt *)
(* reports are left out.                                                   *)
(***************************************************************************)
EXTENDS Taxation

Periods == {a .. b : a, b \in Days} \ {{}}

Sum(F(_), S) == SumOver([x \in S |-> F(x)])

\* A WHERE over lines: those at some of the positions.
At(lines, places) == [k \in places |-> lines[k]]
With(lines, code) == At(lines, {k \in DOMAIN lines : lines[k].code = code})

\* What lines hold of one component.
Borne(line, type) ==
    SumOver([c \in DOMAIN line.comps |-> IF line.comps[c].type = type THEN line.comps[c].amount ELSE 0])
Component(lines, type) == SumOver([i \in DOMAIN lines |-> Borne(lines[i], type)])

Lines(d) == snaps[docs[d].tax].lines
Fx(d) == snaps[docs[d].tax].fx

Sign(s) == IF Reduces(s) THEN -1 ELSE 1

Final(d, dir, period) == docs[d].status = "FINALIZED" /\ docs[d].sheet.dir = dir /\ docs[d].sheet.date \in period
Outward(period) == {d \in Docs : Final(d, "OUTPUT", period) /\ docs[d].tax > 0 /\ docs[d].sheet.type \in RevenueTypes}
Inward(period) == {d \in Docs : Final(d, "INPUT", period) /\ docs[d].tax > 0}

\* What a document adds to a total of an amount of its lines.
SignedAmount(d, amount) == Sign(docs[d].sheet) * Fx(d) * amount
SignedComponent(d, type) == Sign(docs[d].sheet) * Fx(d) * Component(Lines(d), type)

-----------------------------------------------------------------------------
(* Tax reports *)

\* GSTR-1 has a row per document, with four of the five components.
GSTR1Components == {"CGST", "SGST", "IGST", "CESS"}
GSTR1(period) == [d \in Outward(period) |->
    [taxable |-> SignedAmount(d, Taxable(Lines(d))), tax |-> [t \in GSTR1Components |-> SignedComponent(d, t)]]]

\* GSTR-3B: 3.1(a), 3.1(b) and 4(A)(5).  Purchases count positive, returns too.
ZeroRated(d) == snaps[docs[d].tax].supply \in {"EXPORT", "SEZ"}
GSTR3BOutward(period, zero) ==
    LET which == {d \in Outward(period) : ZeroRated(d) = zero} IN
    [taxable |-> Sum(LAMBDA d : SignedAmount(d, Taxable(Lines(d))), which),
     tax |-> [t \in GSTR1Components |-> IF zero /\ t # "IGST" THEN 0 ELSE Sum(LAMBDA d : SignedComponent(d, t), which)]]
GSTR3BITC(period) ==
    [taxable |-> Sum(LAMBDA d : Fx(d) * Taxable(Lines(d)), Inward(period)),
     tax |-> [t \in GSTR1Components |-> Sum(LAMBDA d : Fx(d) * Component(Lines(d), t), Inward(period))]]

\* TaxSummary: a row per direction and name; a line without components under its class.
Directed(dir, period) == IF dir = "OUTPUT" THEN Outward(period) ELSE {d \in Inward(period) : docs[d].sheet.type \in PayableTypes}
NamesOf(line) == IF line.comps = <<>> THEN {line.class} ELSE {line.comps[c].type : c \in DOMAIN line.comps}
TaxNames(lines) == UNION {NamesOf(lines[i]) : i \in DOMAIN lines}
Bearing(lines, name) == At(lines, {k \in DOMAIN lines : name \in NamesOf(lines[k])})
TaxSummary(dir, period) ==
    LET which == Directed(dir, period) IN
    [name \in UNION {TaxNames(Lines(d)) : d \in which} |->
        [taxable |-> Sum(LAMBDA d : Sign(docs[d].sheet) * Fx(d) * Taxable(Bearing(Lines(d), name)), which),
         tax |-> Sum(LAMBDA d : SignedComponent(d, name), which)]]

\* HSNSummary and TaxRateSummary go over the snapshots, each of a reportable
\* document, whichever direction; only sales documents count negative.
Reportable(i, period) ==
    LET doc == docs[snaps[i].doc] IN
    /\ doc.status = "FINALIZED" /\ snaps[i].date \in period
    /\ doc.sheet.dir = "OUTPUT" => doc.sheet.type \in RevenueTypes

\* Variant: a credit note counts like an invoice.
WeightUnsigned(i) == snaps[i].fx

Weight(i) == snaps[i].fx * (IF docs[snaps[i].doc].sheet.dir = "OUTPUT" THEN Sign(docs[snaps[i].doc].sheet) ELSE 1)
HSNSummary(period) ==
    LET which == {i \in DOMAIN snaps : Reportable(i, period)} IN
    [code \in UNION {{snaps[i].lines[k].code : k \in DOMAIN snaps[i].lines} : i \in which} |->
        [taxable |-> Sum(LAMBDA i : Weight(i) * Taxable(With(snaps[i].lines, code)), which),
         tax |-> Sum(LAMBDA i : Weight(i) * Tax(With(snaps[i].lines, code)), which)]]

\* One row per rate of a CGST or IGST component: its own half of the tax.
HalfRates(line) == {line.comps[c].rate : c \in {c \in DOMAIN line.comps : line.comps[c].type \in {"CGST", "IGST"}}}
Rated(lines, rate) == At(lines, {k \in DOMAIN lines : rate \in HalfRates(lines[k])})
TaxRateSummary(period) ==
    LET which == {i \in DOMAIN snaps : Reportable(i, period)}
        Half(lines) == Component(lines, "CGST") + Component(lines, "IGST") IN
    [rate \in UNION {UNION {HalfRates(snaps[i].lines[k]) : k \in DOMAIN snaps[i].lines} : i \in which} |->
        [taxable |-> Sum(LAMBDA i : Weight(i) * Taxable(Rated(snaps[i].lines, rate)), which),
         tax |-> Sum(LAMBDA i : Weight(i) * Half(Rated(snaps[i].lines, rate)), which)]]

-----------------------------------------------------------------------------
(* Sales and the ledger *)

\* SalesSummary takes every finalised sales document, quotations too; grouped
\* by document it reads the snapshot's totals, by product its lines.
Sold(period) == {d \in Docs : Final(d, "OUTPUT", period)}
SalesByDocument(period) == [d \in Sold(period) |-> [taxable |-> SignedAmount(d, Taxable(Lines(d))), tax |-> SignedAmount(d, Tax(Lines(d)))]]

\* Variant: by product a credit note counts like an invoice.
SalesByProductUnsigned(period) ==
    [code \in UNION {{Lines(d)[k].code : k \in DOMAIN Lines(d)} : d \in Sold(period)} |->
        [taxable |-> Sum(LAMBDA d : Fx(d) * Taxable(With(Lines(d), code)), Sold(period)),
         tax |-> Sum(LAMBDA d : Fx(d) * Tax(With(Lines(d), code)), Sold(period))]]

SalesByProduct(period) ==
    [code \in UNION {{Lines(d)[k].code : k \in DOMAIN Lines(d)} : d \in Sold(period)} |->
        [taxable |-> Sum(LAMBDA d : Sign(docs[d].sheet) * Fx(d) * Taxable(With(Lines(d), code)), Sold(period)),
         tax |-> Sum(LAMBDA d : Sign(docs[d].sheet) * Fx(d) * Tax(With(Lines(d), code)), Sold(period))]]

Accounts == {"RECEIVABLE", "SALES", "OUTPUT_TAX", "PAYABLE", "PURCHASES", "INPUT_TAX"}
Debits(i, account) == SumOver([k \in DOMAIN journals[i].lines |-> IF journals[i].lines[k].account = account THEN journals[i].lines[k].debit ELSE 0])
Credits(i, account) == SumOver([k \in DOMAIN journals[i].lines |-> IF journals[i].lines[k].account = account THEN journals[i].lines[k].credit ELSE 0])

\* The date joins the journals, not their lines: every line is summed.
TrialBalance(asOf) == [a \in Accounts |->
    [debit |-> Sum(LAMBDA i : Debits(i, a), DOMAIN journals), credit |-> Sum(LAMBDA i : Credits(i, a), DOMAIN journals)]]

\* An account's rows by date and age, each with the balance so far.
AccountLedger(account, period) ==
    LET rows == SelectSeq([i \in DOMAIN journals |-> i], LAMBDA i : journals[i].date \in period)
        order == SortSeq(rows, LAMBDA i, j : \/ journals[i].date < journals[j].date
                                              \/ (journals[i].date = journals[j].date /\ i < j))
        Balance(n) == SumOver([k \in 1 .. n |-> Debits(order[k], account) - Credits(order[k], account)]) IN
    [n \in DOMAIN order |-> [date |-> journals[order[n]].date, balance |-> Balance(n)]]

-----------------------------------------------------------------------------
(* What the reports promise *)

Of(F, field) == Sum(LAMBDA x : F[x][field], DOMAIN F)

\* Finalised by two requests: it has two snapshots and two journals.
Twice(d) == Cardinality({i \in DOMAIN snaps : snaps[i].doc = d}) > 1

\* GSTR-1, GSTR-3B, the tax summary and the HSN summary give one period one
\* outward taxable value and one tax, and the summary by rate has the CGST and
\* IGST of it; but UTGST is in the tax summary alone, and a document finalised
\* twice is in the summaries by HSN code and by rate twice (pg.go).
ReturnsAgree ==
    company.country = "IN" => \A period \in Periods :
        LET rows == GSTR1(period)
            a == GSTR3BOutward(period, FALSE)
            b == GSTR3BOutward(period, TRUE)
            summary == TaxSummary("OUTPUT", period)
            Named(name) == IF name \in DOMAIN summary THEN summary[name].tax ELSE 0
            purchases == GSTR3BITC(period) IN
        /\ Of(rows, "taxable") = a.taxable + b.taxable
        /\ \A t \in GSTR1Components :
              /\ Sum(LAMBDA d : rows[d].tax[t], DOMAIN rows) = a.tax[t] + b.tax[t]
              /\ Named(t) = a.tax[t] + b.tax[t]
        /\ (\A d \in Docs : ~Twice(d)) =>
              /\ Of(HSNSummary(period), "taxable") = a.taxable + b.taxable + purchases.taxable
              /\ Inward(period) = {} => Of(TaxRateSummary(period), "tax") = Named("CGST") + Named("IGST")

\* The sales of a period are the same by document and by product, and those
\* that are revenue carry the tax of the summary (SalesSummary, TaxSummary).
GroupingsAgree ==
    \A period \in Periods :
        LET byDocument == SalesByDocument(period)
            byProduct == SalesByProduct(period)
            summary == TaxSummary("OUTPUT", period)
            Row(d) == byDocument[d].tax IN
        /\ Of(byDocument, "taxable") = Of(byProduct, "taxable") /\ Of(byDocument, "tax") = Of(byProduct, "tax")
        /\ Sum(Row, Outward(period)) = Of(summary, "tax")

\* The trial balance is as of its date: an account's row is where its ledger up
\* to that date ends.
TrialBalanceAsOf ==
    \A day \in Days : \A a \in Accounts :
        LET ledger == AccountLedger(a, 1 .. day) IN
        TrialBalance(day)[a].debit - TrialBalance(day)[a].credit = IF ledger = <<>> THEN 0 ELSE Last(ledger).balance

\* The reports of one period tell one story.
ReportsAgree == TaxationTypeOK /\ SplitWithinOne /\ ReturnsAgree /\ GroupingsAgree
=============================================================================
