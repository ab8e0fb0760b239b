---- MODULE MCTaxReturns ----
EXTENDS TaxPackage, TLC

MCSymmetry == Permutations(Docs)

\* A request to cancel overlaps with others of its document only, and one document
\* is cancelled by two requests where there is no other.
MCOverlaps ==
    /\ \A x, y \in Docs : cancels'[x] > 0 /\ reads'[y] + cancels'[y] > 0 => x = y
    /\ (\E x \in Docs : cancels'[x] + Cardinality(Reversals(x)') > 1) => \E x \in Docs : docs'[x].status = "NONE"

\* One company of each regime.
MCCompanies == {[country |-> c, state |-> "27", collects |-> {"US-CA"}] : c \in {"IN", "ES", "GB", "US"}}

Code(kind) == [kind |-> kind, rate |-> 0]
Item(kind, amount) == [code |-> Code(kind), amount |-> amount]
AtRateOf(rate, amount) == [code |-> [kind |-> "RATE", rate |-> rate], amount |-> amount]

Sheet(country, dir, type, lines) ==
    [NoSheet EXCEPT !.country = country, !.dir = dir, !.type = type, !.date = 1, !.lines = lines, !.place = "27"]

\* Odd amounts and two lines of one rate, so that rounding matters; notes of a
\* registered and an unregistered buyer; a purchase without the supplier's state.
MCSheetsIN ==
    LET sold == Sheet("IN", "OUTPUT", "TAX_INVOICE", <<Item("GOODS", 13), Item("GOODS", 11), Item("BOOK", 7)>>) IN
    {sold, [sold EXCEPT !.place = "35", !.inclusive = TRUE, !.date = 2],
     [sold EXCEPT !.type = "CREDIT_NOTE", !.registered = TRUE, !.place = "29"],
     [sold EXCEPT !.type = "CREDIT_NOTE"],
     [sold EXCEPT !.registered = TRUE, !.fx = 150],
     [sold EXCEPT !.type = "QUOTATION"],
     Sheet("IN", "INPUT", "PURCHASE_INVOICE", <<Item("GOODS", 13)>>),
     [Sheet("IN", "INPUT", "PURCHASE_RETURN", <<Item("GOODS", 11)>>) EXCEPT !.place = Unset]}
MCSheetsES ==
    LET sold == Sheet("ES", "OUTPUT", "TAX_INVOICE", <<Item("STANDARD", 13), AtRateOf(1000, 25)>>) IN
    {[sold EXCEPT !.surcharge = TRUE, !.fx = 150], [sold EXCEPT !.type = "CREDIT_NOTE", !.surcharge = TRUE],
     [sold EXCEPT !.customer = "FR", !.registered = TRUE],
     Sheet("ES", "INPUT", "PURCHASE_INVOICE", <<Item("STANDARD", 13)>>),
     [Sheet("ES", "INPUT", "DEBIT_NOTE", <<Item("STANDARD", 13)>>) EXCEPT !.customer = "FR", !.registered = TRUE]}
MCSheetsGB ==
    LET sold == Sheet("GB", "OUTPUT", "TAX_INVOICE", <<Item("STANDARD", 13), Item("REDUCED", 33), Item("ZERO", 5)>>) IN
    {[sold EXCEPT !.inclusive = TRUE], [sold EXCEPT !.fx = 130],
     [sold EXCEPT !.type = "CREDIT_NOTE"],
     Sheet("GB", "INPUT", "PURCHASE_INVOICE", <<Item("STANDARD", 13)>>)}
MCSheetsUS ==
    LET sold == [Sheet("US", "OUTPUT", "TAX_INVOICE", <<Item(Unset, 13), Item("EXEMPT", 7)>>) EXCEPT !.region = "US-CA"] IN
    {sold, [sold EXCEPT !.region = "US-NY"], [sold EXCEPT !.region = "US-OR", !.type = "CREDIT_NOTE"],
     [sold EXCEPT !.type = "SALES_RETURN"],
     [Sheet("US", "INPUT", "PURCHASE_INVOICE", <<Item(Unset, 13)>>) EXCEPT !.date = 2]}
MCSheets == MCSheetsIN \cup MCSheetsES \cup MCSheetsGB \cup MCSheetsUS

Row(code, gst, cess, from, to, class) == [code |-> code, gst |-> gst, cess |-> cess, from |-> from, to |-> to, class |-> class]
MCRateRows == {Row("GOODS", 1800, 2800, 1, 9, "TAXABLE"), Row("BOOK", 0, 0, 1, 9, "EXEMPT")}
MCRateOffers == {Row("GOODS", 500, 0, 2, Forever, "TAXABLE")}
====
