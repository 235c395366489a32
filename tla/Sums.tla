-------------------------------- MODULE Sums --------------------------------
(***************************************************************************)
(* Sums over finite sets: what SUM(...) does in the queries of the         *)
(* services, and what totals are compared with.                            *)
(***************************************************************************)
EXTENDS Integers, FiniteSetsExt

\* The sum of f[x] over the x in S.
SumOver(f, S) == MapThenSumSet(LAMBDA x : f[x], S)
=============================================================================
