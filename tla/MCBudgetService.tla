-------------------------- MODULE MCBudgetService --------------------------
(***************************************************************************)
(* Small instances of BudgetService.  Amounts and limits are chosen so that *)
(* the thresholds meet: with a limit of 10, one expense of 8 warns, two of *)
(* them exceed, and one of 10 jumps past 80%.                              *)
(***************************************************************************)
EXTENDS BudgetService, TLC

MCMessage == Event
HandlerSymmetry == Permutations(Handler)
=============================================================================
