-------------------------- MODULE MCReportService --------------------------
(***************************************************************************)
(* Small instances of ReportService: one category with both types, so that *)
(* updates move an amount from one row to the other and back.              *)
(***************************************************************************)
EXTENDS ReportService, TLC

MCMessage == Event
MCAccount == Cat \X Type
ReportSymmetry == Permutations(Handler) \cup Permutations(Tx)
=============================================================================
