-------------------------------- MODULE Ageing -------------------------------
(***************************************************************************)
(* The ageing of a customer's open amounts: GetAgeing of                   *)
(* internal/modules/accounting/app/service.go, as functions of the rows of *)
(* the customer's ledger (day, debit, credit), oldest first.  The ledger   *)
(* grows by one row at a time, and its ageing is asked for after each.     *)
(*                                                                         *)
(* What is open is kept for each row: that of a credit is zero, which the  *)
(* loops pass over as they do a closed debit.                              *)
(***************************************************************************)
EXTENDS Sums, Sequences

CONSTANTS
    LedgerLines,    \* the rows posted to a customer's account
    MaxRows,        \* a bound on the ledger
    AsOf            \* the day the ageing is asked for

\* A journal line has one side (validateBalanced).
ASSUME LedgerAssumption ==
    /\ \A r \in LedgerLines :
          r \in [day : Int, debit : Nat, credit : Nat] /\ (r.debit = 0 \/ r.credit = 0)
    /\ MaxRows \in Nat /\ AsOf \in Int

VARIABLE ledger

AgeingInit == ledger = <<>>

\* Ledgers are read in the order of their days; a row dated back stands where it
\* would, had it been posted on its day.
PostRow(r) ==
    /\ Len(ledger) < MaxRows
    /\ ledger # <<>> => ledger[Len(ledger)].day <= r.day
    /\ ledger' = Append(ledger, r)

AgeingNext == \E r \in LedgerLines : PostRow(r)

AgeingSpec == AgeingInit /\ [][AgeingNext]_ledger

-----------------------------------------------------------------------------
(* GetAgeing *)

Lesser(m, n) == IF m < n THEN m ELSE n

\* What is left of a credit after the first i rows.
CreditLeft(open, credit) ==
    LET left[i \in 0 .. Len(open)] ==
            IF i = 0 THEN credit ELSE left[i - 1] - Lesser(open[i], left[i - 1])
    IN left

\* Variant: a credit closes every open debit it would have closed alone.
SettleEach(open, credit) == [i \in 1 .. Len(open) |-> open[i] - Lesser(open[i], credit)]

\* One credit closes the oldest open debits first; what is left of it is lost.
Settle(open, credit) ==
    [i \in 1 .. Len(open) |-> open[i] - Lesser(open[i], CreditLeft(open, credit)[i - 1])]

\* The loop over the rows, after each of them.
OpenAfter(rows) ==
    LET open[k \in 0 .. Len(rows)] ==
            IF k = 0 THEN <<>>
            ELSE IF rows[k].debit > 0 THEN Append(open[k - 1], rows[k].debit)
            ELSE Append(Settle(open[k - 1], rows[k].credit), 0)
    IN open

OpenAmounts(rows) == OpenAfter(rows)[Len(rows)]

Bands == {"current", "1-30", "31-60", "61-90", "90+"}

Band(days) ==
    CASE days <= 0 -> "current"
      [] days \in 1 .. 30 -> "1-30"
      [] days \in 31 .. 60 -> "31-60"
      [] days \in 61 .. 90 -> "61-90"
      [] OTHER -> "90+"

RowsIn(rows, b) == {i \in DOMAIN rows : Band(AsOf - rows[i].day) = b}

GetAgeing(rows) ==
    LET open == OpenAmounts(rows) IN
    [b \in Bands |-> SumOver([i \in RowsIn(rows, b) |-> open[i]])]

-----------------------------------------------------------------------------
(* What it promises *)

Billed(rows, i) == SumOver([k \in 1 .. i |-> rows[k].debit])
Credited(rows, i) == SumOver([k \in 1 .. i |-> rows[k].credit])

\* The customer was never ahead: no credit came before the debit it closes.
NeverAhead(rows) == \A i \in 1 .. Len(rows) : Billed(rows, i) >= Credited(rows, i)

\* With all credits set against all debits from the oldest on, what is open of a
\* debit is what of it exceeds the credits that older debits have not used up.
OpenByTotals(rows, i) ==
    LET beyond == Billed(rows, i) - Credited(rows, Len(rows)) IN
    CASE beyond <= 0 -> 0
      [] beyond >= rows[i].debit -> rows[i].debit
      [] OTHER -> beyond

\* GetAgeing, a loop over rows that consumes credits as they come, puts into each
\* band what the totals leave open of the debits of that age, and in all exactly
\* the balance, for every ledger in which the customer was never ahead
\* (accounting/app/service.go:922-994).
AgeingIsOldestFirst ==
    NeverAhead(ledger) =>
        /\ \A b \in Bands :
            GetAgeing(ledger)[b] = SumOver([i \in RowsIn(ledger, b) |-> OpenByTotals(ledger, i)])
        /\ SumOver(GetAgeing(ledger)) = Billed(ledger, Len(ledger)) - Credited(ledger, Len(ledger))
=============================================================================
