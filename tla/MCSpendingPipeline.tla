------------------------- MODULE MCSpendingPipeline -------------------------
(***************************************************************************)
(* Small instances of TransactionService and the consumer of its events: a *)
(* value is an income or an expense.                                       *)
(***************************************************************************)
EXTENDS SpendingPipeline, TLC

CONSTANTS salary, lunch

MCFigures == (salary :> Income) @@ (lunch :> [month |-> 1, amount |-> 5])

PipelineSymmetry ==
  Permutations(Request) \cup Permutations(Tx) \cup Permutations(Seeded)
=============================================================================
