-------------------------------- MODULE Sums ---------------------------------
(* Sums over finite sets: what SUM(column) of the selected rows returns.   *)
EXTENDS Integers, FiniteSetsExt

\* f gives the value summed for each element of its domain.
SumOver(f) == MapThenSumSet(LAMBDA x : f[x], DOMAIN f)
=============================================================================
