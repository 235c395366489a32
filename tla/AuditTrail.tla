----------------------------- MODULE AuditTrail -----------------------------
(***************************************************************************)
(* audit-service with those it listens to: the services that publish the   *)
(* events of its queue, and report-service, whose exports it is to log.    *)
(***************************************************************************)
EXTENDS AuditService, ReportExport

CONSTANTS
  Exporter, Home    \* who exports, and the household whose totals they are

ExportLogged == [kind |-> "reportExported", user |-> Exporter, household |-> Home]

ASSUME TrailAssumption == ExportLogged \in Message

vars == <<queueVars, auditVars, exportVars>>

TypeOK == AuditTypeOK /\ ExportTypeOK

Init == AuditInit /\ ExportInit

\* What the deleted have done was published before; report-service goes on
\* serving exports.
Live(m) ==
  \A i \in DOMAIN log :
    /\ log[i].kind = "userDeleted" => log[i].user # m.user
    /\ log[i].kind = "householdDeleted" => log[i].household # m.household

PublishEvent ==
  /\ \E m \in Message : m.kind # "reportExported" /\ Live(m) /\ Publish(m)
  /\ UNCHANGED <<auditVars, exportVars>>

ExportCsv(x) ==
  \/ /\ SaveHistory(x) \/ ExportFails(x)
     /\ UNCHANGED <<queueVars, auditVars>>
  \/ /\ ReportExported(x)
     /\ Publish(ExportLogged)
     /\ UNCHANGED auditVars

HomeDeleted ==
  \E i \in DOMAIN log : log[i].kind = "householdDeleted" /\ log[i].household = Home

EraseExports ==
  /\ HomeDeleted
  /\ DropExportHistory
  /\ UNCHANGED <<queueVars, auditVars>>

Audit(h) == Consumer(h) /\ UNCHANGED exportVars

Failure == AuditFailure /\ UNCHANGED exportVars

Next ==
  \/ PublishEvent
  \/ \E x \in Export : ExportCsv(x)
  \/ EraseExports
  \/ \E h \in Handler : Audit(h)
  \/ Failure

Spec == Init /\ [][Next]_vars

FairSpec == Spec /\ \A h \in Handler : WF_vars(Audit(h))

-----------------------------------------------------------------------------
(* Properties *)

\* Whoever has received a file finds the export in the history, unless the
\* household is gone, and the audit log is told of it (docs/services.md:360).
DeliveredIsTraceable ==
  \A x \in Export :
    export[x] = "delivered" =>
      /\ \E i \in DOMAIN log : log[i].kind = "reportExported"
      /\ ~HomeDeleted => x \in history

\* Every event is carried out in the end, the exports included, whatever crashes
\* and channels are lost, unless the pool is exhausted or its handler has failed.
EventuallyLogged ==
  \A i \in MessageId : Published(i) ~> logged[i] > 0 \/ Exhausted \/ Stranded(i)
=============================================================================
