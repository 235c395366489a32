---------------------------- MODULE ReportExport ----------------------------
(***************************************************************************)
(* The export of report-service: GET /reports/export/csv reads the totals, *)
(* saves a row of export_history, publishes report.exported and answers,   *)
(* one await after the other.  The file has every total of the household:  *)
(* month, year and type of the request reach the history row only.         *)
(*                                                                         *)
(* Modules that extend this one say what publishing is.                    *)
(***************************************************************************)

CONSTANT Export     \* requests for a CSV file

VARIABLES
  history,    \* export_history, a row per request
  export,     \* the await each request waits at
  announced   \* history: requests whose report.exported was published

exportVars == <<history, export, announced>>

ExportTypeOK ==
  /\ history \subseteq Export
  /\ export \in [Export -> {"new", "emit", "delivered", "failed"}]
  /\ announced \subseteq Export

ExportInit ==
  /\ history = {}
  /\ export = [x \in Export |-> "new"]
  /\ announced = {}

\* Mutant: the file is sent as soon as its history row is saved.
SaveAndAnswer(x) ==
  /\ export[x] = "new"
  /\ history' = history \cup {x}
  /\ export' = [export EXCEPT ![x] = "delivered"]
  /\ UNCHANGED announced

SaveHistory(x) ==
  /\ export[x] = "new"
  /\ history' = history \cup {x}
  /\ export' = [export EXCEPT ![x] = "emit"]
  /\ UNCHANGED announced

\* lastValueFrom(emit), which waits for the broker, and the answer.
ReportExported(x) ==
  /\ export[x] = "emit"
  /\ announced' = announced \cup {x}
  /\ export' = [export EXCEPT ![x] = "delivered"]
  /\ UNCHANGED history

\* The broker cannot be reached, or the process dies: the row stays, the client
\* gets no file.
ExportFails(x) ==
  /\ export[x] = "emit"
  /\ export' = [export EXCEPT ![x] = "failed"]
  /\ UNCHANGED <<history, announced>>

\* household.deleted, the second statement of deleteHouseholdData.
DropExportHistory ==
  /\ history # {}
  /\ history' = {}
  /\ UNCHANGED <<export, announced>>
=============================================================================
