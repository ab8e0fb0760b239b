------------------------------ MODULE TaxEngine ------------------------------
(***************************************************************************)
(* The tax of a document: internal/modules/gstindia and taxregimes.        *)
(*                                                                         *)
(* Pure operators.  A document comes with the facts its tax depends on and *)
(* its lines; the result has a line for each, or is Refused.               *)
(*                                                                         *)
(* Abstractions: amounts are integers of the currency's minor unit, rates  *)
(* integers in hundredths of a percent, quotients exact; a tax category    *)
(* is a record, an HSN code its kind; the rate tables hold one country of  *)
(* each sort (with and without a single reduced rate, with and without     *)
(* sales tax); the first day of the model is one the tables cover.         *)
(***************************************************************************)
EXTENDS Integers, FiniteSetsExt, SequencesExt, Sums

CONSTANTS
    Territories,    \* place-of-supply codes of Union Territories
    KnownStates     \* all place-of-supply codes

Forever == 1000000
Refused == <<>>
Unset == "UNSET"    \* a text left empty

\* n / d, half up.
Rounded(n, d) == (2 * n + d) \div (2 * d)

\* The one rounding point: each component by itself; an inclusive line's taxable
\* amount is what its tax leaves of the price.  cs are components: <<type, rate>>.
ComputeLine(line, inclusive, cs, class) ==
    LET whole == IF inclusive THEN 10000 + SumOver([i \in DOMAIN cs |-> cs[i][2]]) ELSE 10000
        comps == [i \in DOMAIN cs |-> [type |-> cs[i][1], rate |-> cs[i][2], amount |-> Rounded(line.amount * cs[i][2], whole)]]
        tax == SumOver([i \in DOMAIN comps |-> comps[i].amount]) IN
    [code |-> line.code, class |-> class, comps |-> comps, tax |-> tax,
     taxable |-> IF inclusive THEN line.amount - tax ELSE line.amount,
     gross |-> IF inclusive THEN line.amount ELSE line.amount + tax]

-----------------------------------------------------------------------------
(* India *)

\* The rows of tax_rate_master in force on a day; the latest start wins.
InForce(rows, code, day) == {r \in rows : r.code = code.kind /\ r.from <= day /\ day <= r.to}
Resolve(rows, code, day) ==
    CHOOSE r \in InForce(rows, code, day) : \A q \in InForce(rows, code, day) : q.from <= r.from

Halves(gst, place) ==
    <<<<"CGST", gst \div 2>>, <<IF place \in Territories THEN "UTGST" ELSE "SGST", gst \div 2>>>>

\* Variant: an intra-state supply bears no cess.
IndiaComponentsWithoutCess(row, supplierState, place) ==
    IF supplierState = place THEN Halves(row.gst, place)
    ELSE <<<<"IGST", row.gst>>>> \o (IF row.cess > 0 THEN <<<<"CESS", row.cess>>>> ELSE <<>>)

IndiaComponents(row, supplierState, place) ==
    (IF row.gst = 0 THEN <<>> ELSE IF supplierState = place THEN Halves(row.gst, place) ELSE <<<<"IGST", row.gst>>>>)
        \o (IF row.cess > 0 THEN <<<<"CESS", row.cess>>>> ELSE <<>>)

India(rows, doc) ==
    IF \/ doc.place \notin KnownStates
       \/ \E i \in DOMAIN doc.lines : InForce(rows, doc.lines[i].code, doc.date) = {}
    THEN Refused
    ELSE [i \in DOMAIN doc.lines |->
            LET row == Resolve(rows, doc.lines[i].code, doc.date) IN
            ComputeLine(doc.lines[i], doc.inclusive, IndiaComponents(row, doc.supplierState, doc.place), row.class)]

-----------------------------------------------------------------------------
(* Value added tax: Spain and the United Kingdom stand for the table *)

VATTable == [country \in {"ES", "GB"} |->
    IF country = "ES" THEN [standard |-> 2100, reduced |-> {400, 1000}]
                      ELSE [standard |-> 2000, reduced |-> {500}]]
EquivalenceSurcharge == [rate \in {2100, 1000, 400} |-> CASE rate = 2100 -> 520 [] rate = 1000 -> 140 [] rate = 400 -> 50]
UnsupportedRegions == {"ES-CN", "GB-NIR"}
EUMembers == {"ES", "FR"}
KnownCountries == EUMembers \cup {"GB", "US", "IN"}
VATName(country) == IF country = "ES" THEN "IVA" ELSE "VAT"

\* Unset when the supply is refused.
VATScope(doc, customer) ==
    IF customer = doc.country THEN IF doc.reverse THEN "REVERSE_CHARGE" ELSE "DOMESTIC"
    ELSE IF {doc.country, customer} \subseteq EUMembers THEN IF doc.registered THEN "INTRA_EU_B2B" ELSE Unset
    ELSE IF customer \in KnownCountries THEN "EXPORT" ELSE Unset

\* The rates a category may mean; refused unless there is exactly one.
PickRate(code, pack) ==
    CASE code.kind = "STANDARD" -> {pack.standard}
      [] code.kind = "REDUCED"  -> IF Cardinality(pack.reduced) = 1 THEN pack.reduced ELSE {}
      [] code.kind = "RATE"     -> {code.rate} \cap ({pack.standard} \cup pack.reduced)
      [] OTHER                  -> {}

\* A line's class and components, in a set: empty when the line is refused.
\* An exempt line is exempt whatever the scope.
ResolveVATLine(doc, code, scope) ==
    LET pack == VATTable[doc.country]
        charged == {<<<<VATName(doc.country), r>>>>
                      \o (IF doc.country = "ES" /\ doc.surcharge THEN <<<<"RE", EquivalenceSurcharge[r]>>>> ELSE <<>>)
                      : r \in PickRate(code, pack)} IN
    CASE code.kind = Unset                                                 -> {}
      [] code.kind = "EXEMPT"                                           -> {<<"EXEMPT", <<>>>>}
      [] code.kind \notin {Unset, "EXEMPT"} /\ scope # "DOMESTIC"          -> {<<scope, <<>>>>}
      [] code.kind = "ZERO" /\ scope = "DOMESTIC"                       -> {<<"ZERO_RATED", <<>>>>}
      [] code.kind \notin {Unset, "EXEMPT", "ZERO"} /\ scope = "DOMESTIC" ->
            {<<IF cs[1][2] = pack.standard THEN "STANDARD" ELSE "REDUCED", cs>> : cs \in charged}

VAT(doc) ==
    LET customer == IF doc.customer = Unset THEN doc.country ELSE doc.customer
        scope == VATScope(doc, customer)
        Found(i) == ResolveVATLine(doc, doc.lines[i].code, scope) IN
    IF doc.region \in UnsupportedRegions \/ scope = Unset \/ \E i \in DOMAIN doc.lines : Found(i) = {}
    THEN Refused
    ELSE [i \in DOMAIN doc.lines |->
            LET f == CHOOSE f \in Found(i) : TRUE IN ComputeLine(doc.lines[i], doc.inclusive, f[2], f[1])]

-----------------------------------------------------------------------------
(* United States: the destination state's base rate, where the seller collects *)

StateRates == [region \in {"US-CA", "US-OR", "US-NY"} |-> CASE region = "US-CA" -> 725 [] region = "US-OR" -> 0 [] region = "US-NY" -> 400]

USLine(doc, code, export, collects) ==
    IF export THEN <<"EXPORT", <<>>>>
    ELSE IF code.kind = "EXEMPT" THEN <<"EXEMPT", <<>>>>
    ELSE IF doc.exempt THEN <<"EXEMPT_CERTIFICATE", <<>>>>
    ELSE IF ~collects THEN <<"NOT_COLLECTED", <<>>>>
    ELSE IF StateRates[doc.region] = 0 THEN <<"STATE_HAS_NO_SALES_TAX", <<>>>>
    ELSE <<"TAXABLE_STATE_BASE_RATE_ONLY", <<<<"STATE_SALES_TAX", StateRates[doc.region]>>>>>>

US(doc) ==
    LET export == doc.customer \notin {Unset, "US"}
        collects == doc.region \in doc.collects IN
    IF \/ ~export /\ doc.region \notin DOMAIN StateRates
       \/ \E i \in DOMAIN doc.lines : doc.lines[i].code.kind \notin {Unset, "TAXABLE", "EXEMPT"}
    THEN Refused
    ELSE [i \in DOMAIN doc.lines |->
            LET f == USLine(doc, doc.lines[i].code, export, collects) IN ComputeLine(doc.lines[i], doc.inclusive, f[2], f[1])]

\* The engine of the supplier's country.
Calculate(rows, doc) ==
    CASE doc.country \in {Unset, "IN"}       -> India(rows, doc)
      [] doc.country = "US"               -> US(doc)
      [] doc.country \in DOMAIN VATTable  -> VAT(doc)
      [] OTHER                            -> Refused

Taxable(lines) == SumOver([i \in DOMAIN lines |-> lines[i].taxable])
Tax(lines) == SumOver([i \in DOMAIN lines |-> lines[i].tax])
=============================================================================
