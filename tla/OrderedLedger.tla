---------------------------- MODULE OrderedLedger ----------------------------
(***************************************************************************)
(* A spending ledger that, in addition, takes the events in the order they *)
(* were published.  A consumer whose deliveries are handled one after the  *)
(* other keeps one; with such a ledger no subtraction is cut short by      *)
(* GREATEST(0, ...), which SpendingPipeline is about.                      *)
(***************************************************************************)
EXTENDS SpendingLedger

\* An event takes effect after all those published before it.
TakenInOrder ==
  \A i \in done' \ done : \A j \in 1..(i - 1) : Guarded(log[j]) => j \in done

OrderedSpec == Spec /\ [][TakenInOrder]_ledgerVars
=============================================================================
