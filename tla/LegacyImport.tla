----------------------------- MODULE LegacyImport -----------------------------
(***************************************************************************)
(* Bringing a business over from another program: customers and suppliers, *)
(* opening balances and past invoices.  internal/modules/contacts (parties *)
(* and their import) and internal/modules/legacyimport, with the part of   *)
(* accounting that an opening balance goes through.                        *)
(*                                                                         *)
(* An import reads what there is and then writes: parties and past         *)
(* invoices in one transaction, opening balances in one per row.           *)
(*                                                                         *)
(* Abstractions: a row's fields are as they are after trimming and parsing,*)
(* rows with a missing or malformed field are left out, a name is folded   *)
(* the way it is compared, addresses and registrations are left out.       *)
(***************************************************************************)
EXTENDS Integers, Sequences, FiniteSetsExt

CONSTANTS
    Callers,        \* requests
    NewParties,     \* parties a user enters: [type, name, phone]
    PartyFiles,     \* sequences of such rows
    BalanceFiles,   \* sequences of [name, side, amount]
    InvoiceFiles,   \* [kind, rows], a row being [number, name, total, paid]
    NoPhone,
    MaxParties,     \* bound
    MaxImports,     \* bound: imports
    MaxBreaks       \* bound: requests that stop, answers lost

PartyTypes == {"CUSTOMER", "SUPPLIER", "BOTH"}
NoSide == ""
Sides == {"RECEIVABLE", "PAYABLE"}
RowsOf(file) == {file[i] : i \in DOMAIN file}

ASSUME LegacyAssumption ==
    /\ \A new \in NewParties : new.type \in PartyTypes
    /\ \A file \in PartyFiles : file \in Seq(RowsOf(file)) /\ \A row \in RowsOf(file) : row.type \in PartyTypes
    /\ \A file \in BalanceFiles : file \in Seq(RowsOf(file)) /\ \A row \in RowsOf(file) : row.side \in Sides \cup {NoSide}
    /\ \A file \in InvoiceFiles : /\ file.kind \in {"SALE", "PURCHASE"} /\ file.rows \in Seq(RowsOf(file.rows))
                                  /\ \A row \in RowsOf(file.rows) : row.paid \in Int /\ row.total \in Int
    /\ MaxParties \in Nat /\ MaxImports \in Nat /\ MaxBreaks \in Nat

VARIABLES
    parties,        \* the parties, in the order they were made
    openings,       \* journals with source_type opening_balance
    register,       \* historical_invoices
    charted,        \* the chart of accounts has been seeded
    closed,         \* the period of the opening date is locked
    caller,         \* what each request has read, and the rows it has left
    reported,       \* history: the rows reported, with what was said of them and what they left behind
    mixed,          \* history: an import ran while another read the same
    unsure,         \* history: parties with a journal whose commit was not heard of
    imports, breaks

legacyVars == <<parties, openings, register, charted, closed, caller, reported, mixed, unsure, imports, breaks>>

Waiting == [doing |-> "none", rows |-> <<>>, at |-> 0, kind |-> "none", knew |-> {}, has |-> {}, said |-> {}]
PartyIds == DOMAIN parties

LegacyTypeOK ==
    /\ \A p \in PartyIds : parties[p].type \in PartyTypes
    /\ \A i \in DOMAIN openings : openings[i].party \in PartyIds /\ openings[i].side \in Sides
    /\ \A h \in register : h.party \in PartyIds /\ h.kind \in {"SALE", "PURCHASE"} /\ h.paid <= h.total
    /\ \A p, q \in PartyIds : parties[p].phone = parties[q].phone => p = q \/ parties[p].phone = NoPhone
    /\ \A c \in Callers : caller[c].doing \in {"none", "parties", "balances", "invoices"}

LegacyInit ==
    /\ parties = <<>> /\ openings = <<>> /\ register = {} /\ charted = FALSE /\ closed = FALSE
    /\ caller = [c \in Callers |-> Waiting]
    /\ reported = {} /\ mixed = FALSE /\ unsure = {} /\ imports = 0 /\ breaks = 0

PhonesOf(who) == {who[p].phone : p \in DOMAIN who} \ {NoPhone}
BooksKept == UNCHANGED <<openings, charted, closed>>
SaidKept == UNCHANGED <<reported, unsure, breaks>>

-----------------------------------------------------------------------------
(* Parties *)

CreateParty(new) ==
    /\ Len(parties) < MaxParties /\ new.phone \notin PhonesOf(parties)
    /\ parties' = Append(parties, [type |-> new.type, name |-> new.name, phone |-> new.phone, file |-> FALSE])
    /\ UNCHANGED <<register, caller, mixed, imports>> /\ BooksKept /\ SaidKept

Begin(c, what, first) ==
    /\ caller[c] = Waiting /\ imports < MaxImports /\ imports' = imports + 1
    /\ caller' = [caller EXCEPT ![c] = first]
    /\ mixed' = (mixed \/ \E d \in Callers : caller[d].doing = what)

ImportParties(c, file) ==
    /\ Begin(c, "parties", [Waiting EXCEPT !.doing = "parties", !.rows = file,
                                           !.knew = {<<parties[p].type, parties[p].name>> : p \in PartyIds},
                                           !.has = PhonesOf(parties)])
    /\ UNCHANGED <<parties, register>> /\ BooksKept /\ SaidKept

\* A phone or a name that is known makes a row a duplicate.
PartyRow(s, row) ==
    IF row.phone \in s.phones \/ <<row.type, row.name>> \in s.names THEN s
    ELSE [made |-> Append(s.made, [type |-> row.type, name |-> row.name, phone |-> row.phone, file |-> TRUE]),
          names |-> s.names \cup {<<row.type, row.name>>}, phones |-> s.phones \cup ({row.phone} \ {NoPhone})]

\* The rows one after another.
PartyRows(rows, s) ==
    LET after[i \in 0..Len(rows)] == IF i = 0 THEN s ELSE PartyRow(after[i - 1], rows[i])
    IN  after[Len(rows)]

\* One transaction: a phone that is taken by now refuses the file.
CommitParties(c) ==
    LET end == PartyRows(caller[c].rows, [made |-> <<>>, names |-> caller[c].knew, phones |-> caller[c].has])
    IN  /\ caller[c].doing = "parties" /\ Len(parties) + Len(end.made) <= MaxParties
        /\ parties' = IF PhonesOf(end.made) \cap PhonesOf(parties) # {} THEN parties ELSE parties \o end.made
        /\ caller' = [caller EXCEPT ![c] = Waiting]
        /\ UNCHANGED <<register, mixed, imports>> /\ BooksKept /\ SaidKept

Matches(known, name, allowed) == {p \in known : parties[p].name = name /\ parties[p].type \in allowed}

\* Variant: the first of several that match will do.
ResolveFirst(known, name, allowed) ==
    {p \in Matches(known, name, allowed) : \A q \in Matches(known, name, allowed) : p <= q}

\* resolveParty, among the parties the import has read: one of the right kind, and no
\* more than one.
ResolveParty(known, name, allowed) ==
    IF Cardinality(Matches(known, name, allowed)) = 1 THEN Matches(known, name, allowed) ELSE {}

-----------------------------------------------------------------------------
(* Opening balances *)

EnsureDefaultChartOfAccounts ==
    /\ ~charted /\ charted' = TRUE
    /\ UNCHANGED <<parties, openings, register, closed, caller, mixed, imports>> /\ SaidKept

SetOpeningPeriodLock ==
    /\ closed' = ~closed
    /\ UNCHANGED <<parties, openings, register, charted, caller, mixed, imports>> /\ SaidKept

Opened == {openings[i].party : i \in DOMAIN openings}

ImportOpeningBalances(c, file) ==
    /\ Begin(c, "balances", [Waiting EXCEPT !.doing = "balances", !.rows = file, !.at = 1, !.knew = PartyIds, !.has = Opened])
    /\ UNCHANGED <<parties, register>> /\ BooksKept /\ SaidKept

\* The side a row is for: what it says, or what its party is.
SideOf(row, type) ==
    IF row.side # NoSide THEN row.side
    ELSE CASE type = "CUSTOMER" -> "RECEIVABLE" [] type = "SUPPLIER" -> "PAYABLE" [] OTHER -> NoSide

Fits(side, type) == side # NoSide /\ <<side, type>> \notin {<<"RECEIVABLE", "SUPPLIER">>, <<"PAYABLE", "CUSTOMER">>}

\* The parties a row can be posted for: none, or the one it names.
Fitting(known, row) ==
    {p \in ResolveParty(known, row.name, PartyTypes) : Fits(SideOf(row, parties[p].type), parties[p].type)}

\* The journals a step leaves behind.
Left == DOMAIN openings' \ DOMAIN openings

Say(c, outcome) == caller' = [caller EXCEPT ![c].at = @ + 1, ![c].said = @ \cup {<<caller[c].at, outcome, Left>>}]

\* doPost: the accounts must be there and the period open.
PostOpening(p, row) ==
    openings' = Append(openings, [party |-> p, side |-> SideOf(row, parties[p].type), amount |-> row.amount])

\* Variant: the journal stays when its entries cannot be posted.
HalfPosted(p, row) == PostOpening(p, row)

\* Or doPost fails, and its transaction takes what it wrote along.
PostingRefused(p, row) == UNCHANGED openings

\* Variant: the party just posted for is not marked.
MarkNothing(c, p) == [caller[c] EXCEPT !.at = @ + 1, !.said = @ \cup {<<caller[c].at, "COMMITTED", Left>>}]

\* A row that is in marks its party: a second one in the file is a duplicate.
MarkPosted(c, p) == [caller[c] EXCEPT !.at = @ + 1, !.said = @ \cup {<<caller[c].at, "COMMITTED", Left>>}, !.has = @ \cup {p}]

AtRow(c) == caller[c].doing = "balances" /\ caller[c].at \in DOMAIN caller[c].rows

OpeningRow(c) ==
    LET row == caller[c].rows[caller[c].at]
        fit == Fitting(caller[c].knew, row)
    IN  /\ AtRow(c)
        /\ \/ fit = {} /\ UNCHANGED openings /\ Say(c, "ERROR")
           \/ fit # {} /\ fit \subseteq caller[c].has /\ UNCHANGED openings /\ Say(c, "DUPLICATE")
           \/ /\ fit # {} /\ fit \cap caller[c].has = {} /\ ~(charted /\ ~closed)
              /\ (\E p \in fit : PostingRefused(p, row)) /\ Say(c, "ERROR")
           \/ /\ fit # {} /\ fit \cap caller[c].has = {} /\ charted /\ ~closed
              /\ \E p \in fit :
                    /\ PostOpening(p, row)
                    /\ caller' = [caller EXCEPT ![c] = MarkPosted(c, p)]
        /\ UNCHANGED <<parties, register, charted, closed, mixed, imports>> /\ SaidKept

\* The commit is not heard of: the row is reported as an error.
OpeningUnheard(c) ==
    LET row == caller[c].rows[caller[c].at] IN
    /\ AtRow(c) /\ charted /\ ~closed /\ breaks < MaxBreaks /\ breaks' = breaks + 1
    /\ \E p \in Fitting(caller[c].knew, row) \ caller[c].has : PostOpening(p, row) /\ unsure' = unsure \cup {p}
    /\ Say(c, "ERROR")
    /\ UNCHANGED <<parties, register, charted, closed, reported, mixed, imports>>

ReportBalances(c) ==
    /\ caller[c].doing = "balances" /\ ~AtRow(c)
    /\ reported' = reported \cup {[kind |-> "OPENING", row |-> caller[c].rows[s[1]], knew |-> caller[c].knew, outcome |-> s[2], left |-> s[3]] : s \in caller[c].said}
    /\ caller' = [caller EXCEPT ![c] = Waiting]
    /\ UNCHANGED <<parties, register, mixed, unsure, imports, breaks>> /\ BooksKept

-----------------------------------------------------------------------------
(* Past invoices *)

NumbersOf(kind) == {h.number : h \in {x \in register : x.kind = kind}}
AllowedFor(kind) == IF kind = "PURCHASE" THEN {"SUPPLIER", "BOTH"} ELSE {"CUSTOMER", "BOTH"}

ImportHistoricalInvoices(c, file) ==
    /\ Begin(c, "invoices", [Waiting EXCEPT !.doing = "invoices", !.rows = file.rows, !.kind = file.kind,
                                            !.knew = PartyIds, !.has = NumbersOf(file.kind)])
    /\ UNCHANGED <<parties, register>> /\ BooksKept /\ SaidKept

InvoiceRow(c, s, row) ==
    LET who == ResolveParty(caller[c].knew, row.name, AllowedFor(caller[c].kind))
        say(outcome, left) ==
            s.said \cup {[kind |-> caller[c].kind, row |-> row, knew |-> caller[c].knew, outcome |-> outcome, left |-> left]}
        new == {[kind |-> caller[c].kind, number |-> row.number, party |-> p, total |-> row.total, paid |-> row.paid] : p \in who}
    IN  IF row.paid > row.total \/ who = {} THEN [s EXCEPT !.said = say("ERROR", {})]
        ELSE IF row.number \in s.seen THEN [s EXCEPT !.said = say("DUPLICATE", {})]
        ELSE [seen |-> s.seen \cup {row.number}, said |-> say("COMMITTED", new), made |-> s.made \cup new]

InvoiceRows(c, s) ==
    LET after[i \in 0..Len(caller[c].rows)] == IF i = 0 THEN s ELSE InvoiceRow(c, after[i - 1], caller[c].rows[i])
    IN  after[Len(caller[c].rows)]

\* One transaction: a number that is registered by now refuses the file.
CommitInvoices(c) ==
    LET end == InvoiceRows(c, [made |-> {}, seen |-> caller[c].has, said |-> {}])
    IN  /\ caller[c].doing = "invoices"
        /\ IF {h.number : h \in end.made} \cap NumbersOf(caller[c].kind) # {} THEN UNCHANGED <<register, reported>>
           ELSE register' = register \cup end.made /\ reported' = reported \cup end.said
        /\ caller' = [caller EXCEPT ![c] = Waiting]
        /\ UNCHANGED <<parties, mixed, unsure, imports, breaks>> /\ BooksKept

StopImport(c) ==
    /\ caller[c] # Waiting /\ breaks < MaxBreaks /\ breaks' = breaks + 1
    /\ caller' = [caller EXCEPT ![c] = Waiting]
    /\ UNCHANGED <<parties, register, reported, mixed, unsure, imports>> /\ BooksKept

LegacyNext ==
    \/ \E new \in NewParties : CreateParty(new)
    \/ EnsureDefaultChartOfAccounts \/ SetOpeningPeriodLock
    \/ \E c \in Callers :
          \/ \E file \in PartyFiles : ImportParties(c, file)
          \/ \E file \in BalanceFiles : ImportOpeningBalances(c, file)
          \/ \E file \in InvoiceFiles : ImportHistoricalInvoices(c, file)
          \/ CommitParties(c) \/ OpeningRow(c) \/ OpeningUnheard(c) \/ ReportBalances(c) \/ CommitInvoices(c) \/ StopImport(c)

LegacySpec == LegacyInit /\ [][LegacyNext]_legacyVars

-----------------------------------------------------------------------------
(* Properties *)

\* A file can be run again (ImportOpeningBalances): however often it is, and wherever
\* a run stopped, a party has one opening balance, on a side it can have, and the
\* parties of a file are made once, unless two imports of a kind overlapped or a
\* commit went unheard.
BroughtOverOnce ==
    /\ \A i, j \in DOMAIN openings :
          openings[i].party = openings[j].party => i = j \/ mixed \/ openings[i].party \in unsure
    /\ \A i \in DOMAIN openings : Fits(openings[i].side, parties[openings[i].party].type)
    /\ \A h \in register : parties[h.party].type \in AllowedFor(h.kind)
    /\ \A p, q \in PartyIds :
          (parties[p].file /\ parties[q].file /\ parties[p].name = parties[q].name) => p = q \/ parties[p].type # parties[q].type \/ mixed

\* The report of an import that ended is true of the books (ImportOpeningBalances,
\* ImportHistoricalInvoices): a row said to be in left one journal or invoice, with the
\* one party it could mean, which is still there; a duplicate was there and left
\* nothing; and a row reported as an error left nothing, but a journal whose commit
\* went unheard.
SaidIsSo ==
    \A r \in reported :
        LET who == {p \in r.knew : parties[p].name = r.row.name} IN
        CASE r.kind = "OPENING" /\ r.outcome = "COMMITTED" ->
                \E i \in DOMAIN openings : /\ r.left = {i} /\ who = {openings[i].party}
                                           /\ openings[i].amount = r.row.amount
                                           /\ r.row.side \in {NoSide, openings[i].side}
          [] r.kind = "OPENING" /\ r.outcome = "DUPLICATE" -> r.left = {} /\ who \cap Opened # {}
          [] r.kind = "OPENING" /\ r.outcome = "ERROR" -> \A i \in r.left : openings[i].party \in unsure
          [] r.kind # "OPENING" /\ r.outcome = "COMMITTED" ->
                \E h \in register : /\ r.left = {h} /\ h.kind = r.kind /\ h.number = r.row.number /\ h.party \in who
                                    /\ \A p \in who \ {h.party} : parties[p].type \notin AllowedFor(r.kind)
          [] r.kind # "OPENING" /\ r.outcome = "DUPLICATE" -> r.left = {} /\ r.row.number \in NumbersOf(r.kind)
          [] OTHER -> r.left = {}

\* What was brought over is in the books once, and the report says what is there.
BroughtOver == LegacyTypeOK /\ BroughtOverOnce /\ SaidIsSo
=============================================================================
