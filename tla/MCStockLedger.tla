---------------------------- MODULE MCStockLedger ----------------------------
(* Instances of StockLedger for TLC.                                       *)
EXTENDS StockLedger, TLC

CONSTANTS c1, c2

\* A two-line sale, a goods receipt of two, and the sale's cancellation.
MCDocuments ==
    {<<Step("out", c1, 1, None), Step("out", c2, 2, None)>>,
     <<Step("receipt", c1, 2, None)>>,
     <<Step("in", c1, 1, None), Step("in", c2, 2, None)>>}

\* Single lines, and two lines in the order opposite to a sale's.
MCAdjustments ==
    {<<Step("in", c1, 1, None)>>, <<Step("out", c1, 1, None)>>,
     <<Step("out", c2, 1, None), Step("in", c1, 1, None)>>}

\* Requests and reservations are interchangeable; the cells are not.
MCSymmetry == Permutations(Txs) \cup Permutations(Reservations)
=============================================================================
