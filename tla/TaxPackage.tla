------------------------------ MODULE TaxPackage ------------------------------
(***************************************************************************)
(* The accountant's package of a period: what AccountantData selects       *)
(* (internal/modules/reporting/pg/accountant.go) and the checks and return *)
(* boxes reporting/taxpack builds from it for India, the United Kingdom,   *)
(* Spain and the United States.                                            *)
(*                                                                         *)
(* Boxes are in the units of Reports.  Only findings of severity ERROR are *)
(* kept: they alone block the package, and only an unblocked one has       *)
(* import files.                                                           *)
(*                                                                         *)
(* Abstractions: the company has a tax registration and the currency its   *)
(* country requires, numbers, HSN codes and units are well formed, numbers *)
(* are unique, and the period is one the utilities take.                   *)
(***************************************************************************)
EXTENDS Reports

CONSTANT LargeInvoice   \* above this an unregistered buyer's invoice is listed

ASSUME LargeInvoiceAssumption == LargeInvoice \in Nat

\* Documents of a type that is returned; their lines come from the snapshot
\* the document points at.
Registered(period) ==
    {d \in Docs : /\ docs[d].status = "FINALIZED" /\ docs[d].sheet.date \in period
                  /\ docs[d].sheet.type \in IF docs[d].sheet.dir = "OUTPUT" THEN RevenueTypes ELSE PayableTypes}
Snapped(dir, period) == {d \in Registered(period) : docs[d].tax > 0 /\ docs[d].sheet.dir = dir}

Amounts(d, F(_)) == IF docs[d].tax = 0 THEN 0 ELSE F(Lines(d))
SignedTax(d) == IF docs[d].tax = 0 THEN 0 ELSE Sign(docs[d].sheet) * Base(Tax(Lines(d)), Fx(d))

\* The journals a document posted itself: not what its cancellation posted.
OwnJournals(d) == {i \in DOMAIN journals : journals[i].doc = d /\ journals[i].source = docs[d].sheet.dir}
LedgerTax(d) ==
    IF docs[d].sheet.dir = "OUTPUT"
    THEN Sum(LAMBDA i : Credits(i, "OUTPUT_TAX") - Debits(i, "OUTPUT_TAX"), OwnJournals(d))
    ELSE Sum(LAMBDA i : Debits(i, "INPUT_TAX") - Credits(i, "INPUT_TAX"), OwnJournals(d))

\* Variant: the posted tax is not compared.
LedgerNotCompared(period) == {e \in {<<"NO_TAX_SNAPSHOT", d>> : d \in Registered(period)} : docs[e[2]].tax = 0}

\* The checks made for every country.  A document in journals always balances.
LedgerAgrees(d) == docs[d].tax > 0 => SignedTax(d) = LedgerTax(d)
CommonErrors(period) ==
    {<<"NO_TAX_SNAPSHOT", d>> : d \in {d \in Registered(period) : docs[d].tax = 0}}
    \cup {<<"LEDGER_TAX_MISMATCH", d>> : d \in {d \in Registered(period) : ~LedgerAgrees(d)}}
    \cup {<<"JOURNAL_RECONCILIATION", d>> : d \in {d \in Registered(period) : OwnJournals(d) = {}}}

-----------------------------------------------------------------------------
(* India: GSTR-1 tables and GSTR-3B sections.  Rates are not applied: a    *)
(* document in a foreign currency blocks.                                  *)

GSTRate(l) == SumOver([c \in DOMAIN l.comps |-> IF l.comps[c].type = "CESS" THEN 0 ELSE l.comps[c].rate])
Note(d) == docs[d].sheet.type \in {"CREDIT_NOTE", "DEBIT_NOTE", "SALES_RETURN"}
Total(d) == Taxable(Lines(d)) + Tax(Lines(d))
Where(lines, Holds(_)) == At(lines, {k \in DOMAIN lines : Holds(lines[k])})
ForSection(lines, section) ==
    Where(lines, LAMBDA l : (l.class \in {"EXEMPT", "NIL_RATED"}) = (section = "3.1(c)"))
Ordinary(lines) == Where(lines, LAMBDA l : l.class = "TAXABLE")

SectionBase(period, section) ==
    Sum(LAMBDA d : Sign(docs[d].sheet) * Taxable(ForSection(Lines(d), section)), Snapped("OUTPUT", period))
SectionTax(period, section, type) ==
    Sum(LAMBDA d : Sign(docs[d].sheet) * Component(ForSection(Lines(d), section), type), Snapped("OUTPUT", period))
ITCCandidate(period, type) ==
    Sum(LAMBDA d : Sign(docs[d].sheet) * Component(Lines(d), type), Snapped("INPUT", period))

\* Where a document's ordinary lines are listed.
TableOf(d) ==
    CASE Note(d) /\ docs[d].sheet.registered       -> "cdnr"
      [] Note(d) /\ ~docs[d].sheet.registered      -> Unset
      [] ~Note(d) /\ docs[d].sheet.registered      -> "b2b"
      [] ~Note(d) /\ ~docs[d].sheet.registered     ->
            IF docs[d].sheet.place # company.state /\ Total(d) > LargeInvoice THEN "b2cl" ELSE "b2cs"

\* PackageRows of a table: per document and rate (collapseGST), in b2cs per place and
\* rate.  The amount of a note is not negative: its row says which kind it is.
RatesOf(lines) == {GSTRate(lines[i]) : i \in DOMAIN lines}
AtRate(lines, rate) == Where(lines, LAMBDA l : GSTRate(l) = rate)
PackageRows(period, table) ==
    LET which == {d \in Snapped("OUTPUT", period) : TableOf(d) = table}
        Key(d, rate) == IF table = "b2cs" THEN <<docs[d].sheet.place, rate>> ELSE <<d, rate>> IN
    [key \in UNION {{Key(d, rate) : rate \in RatesOf(Ordinary(Lines(d)))} : d \in which} |->
        Sum(LAMBDA d : IF Key(d, key[2]) = key THEN Taxable(AtRate(Ordinary(Lines(d)), key[2])) ELSE 0, which)]
RowSum(rows) == Sum(LAMBDA key : rows[key], DOMAIN rows)
KindC(d) == Sign(docs[d].sheet) < 0

\* The HSN tables: by code, rate and whether the buyer is registered.
HSNRows(period) ==
    LET which == Snapped("OUTPUT", period)
        Under(d, key) == IF docs[d].sheet.registered # key[3] THEN <<>>
                        ELSE Where(Lines(d), LAMBDA l : l.code = key[1] /\ GSTRate(l) = key[2]) IN
    [key \in UNION {{<<Lines(d)[k].code, GSTRate(Lines(d)[k]), docs[d].sheet.registered>> : k \in DOMAIN Lines(d)} : d \in which} |->
        Sum(LAMBDA d : Sign(docs[d].sheet) * Taxable(Under(d, key)), which)]

\* Variant: a note to an unregistered buyer is passed over.
IndiaErrorsOfCurrency(period) == {<<"GST_FOREIGN_CURRENCY", d>> : d \in {d \in Registered(period) : docs[d].sheet.fx # 100}}

IndiaErrors(period) ==
    {<<"GST_FOREIGN_CURRENCY", d>> : d \in {d \in Registered(period) : docs[d].sheet.fx # 100}}
    \cup {<<"GST_UNREGISTERED_NOTE", d>> : d \in {d \in Snapped("OUTPUT", period) : TableOf(d) = Unset /\ DOMAIN Ordinary(Lines(d)) # {}}}

-----------------------------------------------------------------------------
(* United Kingdom *)

Booked(d, Amount(_)) == Sign(docs[d].sheet) * Fx(d) * Amount(Lines(d))
UKBoxes(period) ==
    [box \in {"1", "4", "6", "7"} |->
        LET which == Snapped(IF box \in {"1", "6"} THEN "OUTPUT" ELSE "INPUT", period) IN
        IF box \in {"1", "4"} THEN Sum(LAMBDA d : Sign(docs[d].sheet) * Fx(d) * Component(Lines(d), "VAT"), which)
                              ELSE Sum(LAMBDA d : Booked(d, Taxable), which)]

-----------------------------------------------------------------------------
(* Spain, Modelo 303.  Notes of every kind go to the rectification boxes.  *)

BaseBox == [rate \in {400, 1000, 2100} |-> CASE rate = 400 -> "01" [] rate = 1000 -> "04" [] rate = 2100 -> "07"]
TaxBox == [rate \in {400, 1000, 2100} |-> CASE rate = 400 -> "03" [] rate = 1000 -> "06" [] rate = 2100 -> "09"]
SurchargeBaseBox == [rate \in {50, 140, 520} |-> CASE rate = 50 -> "168" [] rate = 140 -> "19" [] rate = 520 -> "22"]
SurchargeTaxBox == [rate \in {50, 140, 520} |-> CASE rate = 50 -> "170" [] rate = 140 -> "21" [] rate = 520 -> "24"]
ClassBox == [class \in {"INTRA_EU_B2B", "EXPORT", "REVERSE_CHARGE"} |->
                CASE class = "INTRA_EU_B2B" -> "59" [] class = "EXPORT" -> "60" [] class = "REVERSE_CHARGE" -> "122"]

\* What a line of a sale adds: boxes with amounts, the base once per component.
LineBoxes(d, l) ==
    {<<ClassBox[l.class], l.taxable>> : c \in {c \in DOMAIN ClassBox : c = l.class}}
    \cup (IF l.comps = <<>> /\ l.class = "ZERO_RATED" /\ ~Note(d) THEN {<<"150", l.taxable>>} ELSE {})
    \cup UNION {LET c == l.comps[i] IN
                CASE c.type = "IVA" -> IF Note(d) THEN {<<"14", l.taxable>>, <<"15", c.amount>>}
                                       ELSE {<<BaseBox[c.rate], l.taxable>>, <<TaxBox[c.rate], c.amount>>}
                  [] c.type = "RE"  -> IF Note(d) THEN {<<"25", l.taxable>>, <<"26", c.amount>>}
                                       ELSE {<<SurchargeBaseBox[c.rate], l.taxable>>, <<SurchargeTaxBox[c.rate], c.amount>>}
                : i \in DOMAIN l.comps}
InBox(d, box) ==
    SumOver([k \in DOMAIN Lines(d) |-> Sum(LAMBDA b : IF b[1] = box THEN b[2] ELSE 0, LineBoxes(d, Lines(d)[k]))])
SpainBox(period, box) == Sum(LAMBDA d : Sign(docs[d].sheet) * Fx(d) * InBox(d, box), Snapped("OUTPUT", period))

\* Variant: the surcharge of a note is left out.
BoxesWithoutSurcharge == {"03", "06", "09", "170", "21", "24", "15"}

OutputTaxBoxes == {"03", "06", "09", "170", "21", "24", "15", "26"}
OutputTaxRecorded(period) == Sum(LAMBDA box : SpainBox(period, box), OutputTaxBoxes)
InputTaxCandidate(period) == Sum(LAMBDA d : Booked(d, Tax), Snapped("INPUT", period))

-----------------------------------------------------------------------------
(* United States: one schedule per state; the package is always blocked *)

USSchedule(period, region) ==
    LET which == {d \in Snapped("OUTPUT", period) : docs[d].sheet.region = region}
        Part(d, classes) == Taxable(Where(Lines(d), LAMBDA l : l.class \in classes))
        exempt == {"EXEMPT_CERTIFICATE", "EXEMPT"} IN
    [gross |-> Sum(LAMBDA d : Booked(d, Taxable), which),
     exempt |-> Sum(LAMBDA d : Sign(docs[d].sheet) * Fx(d) * Part(d, exempt), which),
     notcollected |-> Sum(LAMBDA d : Sign(docs[d].sheet) * Fx(d) * Part(d, {"NOT_COLLECTED"}), which),
     tax |-> Sum(LAMBDA d : Booked(d, Tax), which)]

Errors(period) ==
    CommonErrors(period)
    \cup CASE company.country = "IN" -> IndiaErrors(period)
           [] company.country = "US" -> {<<"US_LOCAL_NEXUS", Unset>>}
                \cup {<<"US_STATE_MISSING", d>> : d \in {d \in Snapped("OUTPUT", period) : docs[d].sheet.region = Unset}}
           [] OTHER -> {}
Blocked(period) == Errors(period) # {}

-----------------------------------------------------------------------------
(* What an unblocked package promises *)

\* Unblocked, India's import tables add up to the ordinary outward supplies of
\* the return and the HSN tables to all of them: no supply is in none of the
\* tables and none is in two (taxpack/india.go, india).
TablesAddUp ==
    company.country = "IN" => \A period \in Periods : ~Blocked(period) =>
        LET notes == PackageRows(period, "cdnr")
            taxable == Sum(LAMBDA d : Sign(docs[d].sheet) * Taxable(Ordinary(Lines(d))), Snapped("OUTPUT", period)) IN
        /\ RowSum(PackageRows(period, "b2b")) + RowSum(PackageRows(period, "b2cl")) + RowSum(PackageRows(period, "b2cs"))
              + Sum(LAMBDA key : IF KindC(key[1]) THEN -notes[key] ELSE notes[key], DOMAIN notes) = taxable
        /\ RowSum(HSNRows(period)) = SectionBase(period, "3.1(a)") + SectionBase(period, "3.1(c)")

\* A document whose first journal already charged tax and which was finalised
\* again is never in an unblocked package (taxpack/package.go, Build).
TwiceTaxedIsBlocked ==
    \A period \in Periods : \A d \in Registered(period) :
        (\E i, j \in OwnJournals(d) : i < j /\ Len(journals[i].lines) = 3) => Blocked(period)

\* Cancelled by two requests: a journal of it was reversed twice.
Reversals(d) == {i \in DOMAIN journals : journals[i].doc = d /\ journals[i].source = "CANCELLATION"}

\* The boxes of an unblocked package are the ledger's tax accounts, up to half a
\* minor unit per document: documents cancelled after one finalisation cancel
\* out.  So do the schedules of the United States, always blocked, unless a
\* document was finalised twice.  A document reversed more often than it was
\* posted, cancelled by two requests at once, leaves the ledger short and nothing
\* blocks the package (taxpack/countries.go uk, spain, us; india.go; accounting,
\* ReverseJournalForSourceTx).
Close(box, ledger, n) == 2 * box - 200 * ledger \in -100 * n .. 100 * n
BoxesAreTheLedger ==
    /\ company.country = "US" \/ ~Blocked(Days)
    /\ \A d \in Docs :
          /\ docs[d].status = "CANCELLED" \/ company.country = "US" => Cardinality(OwnJournals(d)) <= 1
          /\ Cardinality(Reversals(d)) <= Cardinality(OwnJournals(d))
    =>
        LET output == Sum(LAMBDA i : Credits(i, "OUTPUT_TAX") - Debits(i, "OUTPUT_TAX"), DOMAIN journals)
            input == Sum(LAMBDA i : Debits(i, "INPUT_TAX") - Credits(i, "INPUT_TAX"), DOMAIN journals)
            GST == {"IGST", "CGST", "SGST", "UTGST", "CESS"}
            n == Cardinality(Registered(Days)) IN
        CASE company.country = "IN" ->
                /\ 100 * Sum(LAMBDA t : SectionTax(Days, "3.1(a)", t), GST) = 100 * output
                /\ Sum(LAMBDA t : ITCCandidate(Days, t), GST) = input
          [] company.country = "GB" ->
                Close(UKBoxes(Days)["1"], output, n) /\ Close(UKBoxes(Days)["4"], input, n)
          [] company.country = "ES" ->
                Close(OutputTaxRecorded(Days), output, n) /\ Close(InputTaxCandidate(Days), input, n)
          [] company.country = "US" ->
                LET regions == {docs[d].sheet.region : d \in Snapped("OUTPUT", Days)} IN
                Close(Sum(LAMBDA r : USSchedule(Days, r).tax, regions), output, n)

\* What goes to the accountant without a blocking item is complete and is what
\* the ledger says.
PackageIsSound == TablesAddUp /\ TwiceTaxedIsBlocked /\ BoxesAreTheLedger
=============================================================================
