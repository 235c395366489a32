-------------------------- MODULE AuditTrail_proofs --------------------------
(***************************************************************************)
(* For any number of handlers, connections, messages, faults, users and    *)
(* households: the activity log is complete, its duplicates are accounted  *)
(* for, and what an erasure has to cover is gone once the queue is quiet.  *)
(***************************************************************************)
EXTENDS AuditTrail, Consumer_proofs

\* The guard's transaction of a handler has claimed the event, or has just
\* committed it.
Claiming(h, i) == msg[h] = i /\ pc[h] \in {"run", "commit"}

(***************************************************************************)
(* What a program counter says.  The unique index on the event id keeps    *)
(* two transactions from claiming one event.                               *)
(***************************************************************************)
ControlInv ==
  \A h \in Handler :
    /\ msg[h] = 0 <=> pc[h] = "free"
    /\ pc[h] = "run" => msg[h] \notin processed
    /\ \A g \in Handler \ {h} : ~(Claiming(h, msg[h]) /\ Claiming(g, msg[h]))

(***************************************************************************)
(* Every row over the first is paid for by a crash or a failing handler:   *)
(* one that is not paid for yet belongs to an event that is processed, or  *)
(* about to be committed.                                                  *)
(***************************************************************************)
Covered(i) == i \in processed \/ \E h \in Handler : msg[h] = i /\ pc[h] = "commit"

AccountInv ==
  /\ \A i \in MessageId : logged[i] <= broken + (IF Covered(i) THEN 1 ELSE 0)
  /\ \A i \in MessageId : Covered(i) \/ deliv[i] = "acked" => logged[i] >= 1
  /\ \A i \in MessageId : logged[i] > 0 => deliv[i] # "none"
  /\ \A h \in Handler : pc[h] = "ack" => logged[msg[h]] >= 1

\* An erasure that was carried out leaves rows of later events only.
ErasureInv ==
  \A j \in 1..Len(log) : logged[j] > 0 =>
    /\ log[j].kind = "userDeleted" =>
         \A r \in entries : r.user = log[j].user => r.event \in overtaken
    /\ log[j].kind = "householdDeleted" =>
         \A r \in entries : r.household = log[j].household => r.event \in overtaken

TraceInv ==
  \A x \in Export :
    /\ export[x] = "delivered" => \E i \in 1..Len(log) : log[i].kind = "reportExported"
    /\ export[x] \in {"emit", "delivered"} => x \in history \/ HomeDeleted

IInv == TypeOK /\ QueueInv /\ ControlInv /\ AccountInv /\ ErasureInv /\ TraceInv

-----------------------------------------------------------------------------
(* Types *)

LEMMA RowType ==
  ASSUME TypeOK, NEW i \in 1..Len(log)
  PROVE  RowOf(i) \in Entry
<1>1. log[i] \in [kind: Kind, user: User, household: Household]
  BY AuditAssumption DEF TypeOK, AuditTypeOK, QueueTypeOK
<1>2. i \in MessageId /\ logged[i] \in Nat
  BY BoundsAssumption DEF TypeOK, AuditTypeOK, QueueTypeOK, MessageId
<1> QED
  BY <1>1, <1>2 DEF RowOf, Entry

LEMMA TypeInit == Init => TypeOK
<1> SUFFICES ASSUME Init PROVE TypeOK
  OBVIOUS
<1>1. QueueTypeOK
  BY QueueInvInit DEF Init, AuditInit, QueueInv
<1> QED
  BY <1>1 DEF Init, AuditInit, ExportInit, TypeOK, AuditTypeOK, ExportTypeOK

\* Each step is one of the queue's operations.
LEMMA QueueSteps == IInv /\ [Next]_vars => QueueNext
<1> SUFFICES ASSUME IInv, [Next]_vars PROVE QueueNext
  OBVIOUS
<1>1. CASE PublishEvent
  BY <1>1 DEF PublishEvent, QueueNext
<1>2. ASSUME NEW x \in Export, ExportCsv(x) PROVE QueueNext
  BY <1>2, TrailAssumption DEF ExportCsv, QueueNext
<1>3. CASE EraseExports
  BY <1>3 DEF EraseExports, QueueNext
<1>4. ASSUME NEW h \in Handler, Audit(h) PROVE QueueNext
  BY <1>4 DEF Audit, Consumer, QueueNext, StartHandler, Connect, Claim, Run, Commit, FinishHandler
<1>5. CASE Failure
  <2>1. ASSUME NEW h \in Handler, HandlerFails(h) PROVE QueueNext
    BY <2>1, BoundsAssumption
    DEF HandlerFails, Fault, QueueNext, IInv, QueueInv, QueueTypeOK
  <2> QED
    BY <1>5, <2>1 DEF Failure, AuditFailure, RestartAudit, LoseChannel, QueueNext
<1>6. CASE UNCHANGED vars
  BY <1>6 DEF vars, QueueNext
<1> QED
  BY <1>1, <1>2, <1>3, <1>4, <1>5, <1>6 DEF Next

LEMMA TypeStep == IInv /\ [Next]_vars => TypeOK'
<1> SUFFICES ASSUME IInv, [Next]_vars PROVE TypeOK'
  OBVIOUS
<1>0. TypeOK /\ QueueTypeOK'
  BY QueueSteps, QueueInvStep DEF IInv, QueueInv
<1> USE <1>0 DEF TypeOK, AuditTypeOK, ExportTypeOK
<1>1. CASE PublishEvent \/ EraseExports
  BY <1>1 DEF PublishEvent, EraseExports, DropExportHistory, auditVars, exportVars
<1>2. ASSUME NEW x \in Export, ExportCsv(x) PROVE TypeOK'
  BY <1>2 DEF ExportCsv, SaveHistory, ExportFails, ReportExported, auditVars
<1>3. ASSUME NEW h \in Handler, Audit(h), ~Run(h) PROVE TypeOK'
  <2>1. pc[h] # "free" => msg[h] \in MessageId
    BY DEF IInv, ControlInv, QueueTypeOK
  <2> QED
    BY <1>3, <2>1 DEF Audit, Consumer, StartHandler, Connect, Claim, Commit, FinishHandler,
                      Goto, Rest, exportVars
<1>4. ASSUME NEW h \in Handler, Run(h), UNCHANGED exportVars PROVE TypeOK'
  <2>1. msg[h] \in 1..Len(log) /\ msg[h] \in MessageId
    BY <1>4 DEF IInv, ControlInv, QueueInv, DeliveriesInv, QueueTypeOK, Run
  <2>2. RowOf(msg[h]) \in Entry
    BY <2>1, RowType
  <2>3. logged' = [logged EXCEPT ![msg[h]] = @ + 1] => logged' \in [MessageId -> Nat]
    BY <2>1
  <2>4. ASSUME NEW r \in Entry
        PROVE  [r EXCEPT !.user = None, !.actor = "Deleted user"] \in Entry
    BY DEF Entry
  <2>5. entries' \subseteq Entry
    <3>1. CASE Log(h)
      BY <2>2, <3>1 DEF Log
    <3>2. CASE HandleUserDeleted(h)
      BY <2>4, <3>2 DEF HandleUserDeleted
    <3>3. CASE DeleteHouseholdData(h)
      BY <3>3 DEF DeleteHouseholdData
    <3> QED BY <1>4, <3>1, <3>2, <3>3 DEF Run
  <2> QED
    BY <1>4, <2>1, <2>3, <2>5
    DEF Run, Log, HandleUserDeleted, DeleteHouseholdData, Goto, exportVars
<1>5. CASE Failure
  BY <1>5 DEF Failure, AuditFailure, HandlerFails, RestartAudit, LoseChannel, Goto,
              exportVars, auditVars
<1>6. CASE UNCHANGED vars
  BY <1>6 DEF vars, auditVars, exportVars
<1> QED
  BY <1>1, <1>2, <1>3, <1>4, <1>5, <1>6 DEF Next, Audit, Consumer
-----------------------------------------------------------------------------
(* The four parts of the invariant *)

LEMMA ControlStep == IInv /\ [Next]_vars => ControlInv'
<1> SUFFICES ASSUME IInv, [Next]_vars PROVE ControlInv'
  OBVIOUS
<1> USE DEF IInv, ControlInv, Claiming
<1>0. /\ msg \in [Handler -> MessageId \cup {0}] /\ 0 \notin MessageId
      /\ pc \in [Handler -> {"free", "connect", "claim", "run", "commit", "ack"}]
  BY DEF TypeOK, AuditTypeOK, QueueTypeOK, MessageId
<1>1. CASE UNCHANGED <<msg, pc, processed>>
  BY <1>1
<1>2. ASSUME NEW h \in Handler, StartHandler(h) PROVE ControlInv'
  BY <1>0, <1>2 DEF StartHandler, Deliver, Idle, Goto, Rest
<1>3. ASSUME NEW h \in Handler, Connect(h) PROVE ControlInv'
  BY <1>0, <1>3 DEF Connect, Goto, Rest, queueVars
<1>4. ASSUME NEW h \in Handler, Claim(h) PROVE ControlInv'
  BY <1>0, <1>4 DEF Claim, IdTaken, Goto, Rest, queueVars
<1>5. ASSUME NEW h \in Handler, Run(h) PROVE ControlInv'
  BY <1>0, <1>5 DEF Run, Goto, queueVars
<1>6. ASSUME NEW h \in Handler, Commit(h) PROVE ControlInv'
  BY <1>0, <1>6 DEF Commit, Goto, queueVars
<1>7. ASSUME NEW h \in Handler, FinishHandler(h) \/ HandlerFails(h) PROVE ControlInv'
  BY <1>0, <1>7 DEF FinishHandler, HandlerFails, Ack, Throw, Goto, Rest
<1>8. CASE RestartAudit
  BY <1>0, <1>8 DEF RestartAudit, Crash
<1> QED
  BY <1>1, <1>2, <1>3, <1>4, <1>5, <1>6, <1>7, <1>8
  DEF Next, PublishEvent, Publish, ExportCsv, EraseExports, Audit, Consumer, Failure,
      AuditFailure, LoseChannel, DropChannel, queueVars, auditVars, vars

LEMMA AccountStep == IInv /\ [Next]_vars => AccountInv'
<1> SUFFICES ASSUME IInv, [Next]_vars PROVE AccountInv'
  OBVIOUS
<1> USE DEF IInv, AccountInv, Covered
<1>0. /\ msg \in [Handler -> MessageId \cup {0}] /\ 0 \notin MessageId
      /\ pc \in [Handler -> {"free", "connect", "claim", "run", "commit", "ack"}]
      /\ logged \in [MessageId -> Nat] /\ broken \in Nat
      /\ deliv \in [MessageId -> {"none", "queued", "unacked", "acked"}]
      /\ \A h \in Handler : msg[h] = 0 <=> pc[h] = "free"
  BY DEF TypeOK, AuditTypeOK, QueueTypeOK, MessageId, ControlInv
<1>1. ASSUME NEW m \in Message, Publish(m), UNCHANGED auditVars PROVE AccountInv'
  BY <1>0, <1>1 DEF Publish, auditVars
<1>2. ASSUME NEW h \in Handler, StartHandler(h) PROVE AccountInv'
  BY <1>0, <1>2 DEF StartHandler, Deliver, Idle, Goto, Rest
<1>3. ASSUME NEW h \in Handler, Connect(h) PROVE AccountInv'
  BY <1>0, <1>3 DEF Connect, Goto, Rest, queueVars
<1>4. ASSUME NEW h \in Handler, Claim(h) PROVE AccountInv'
  BY <1>0, <1>4 DEF Claim, Goto, Rest, queueVars
<1>5. ASSUME NEW h \in Handler, Run(h) PROVE AccountInv'
  \* A new row: nobody has claimed the event and it is not processed, so it was
  \* not covered before, and is now.
  <2>1. /\ msg[h] \in MessageId /\ deliv[msg[h]] # "none"
        /\ ~Covered(msg[h])
    BY <1>0, <1>5 DEF Run, ControlInv, Claiming, QueueInv, DeliveriesInv
  <2>2. logged' = [logged EXCEPT ![msg[h]] = @ + 1]
    BY <1>5 DEF Run, Log, HandleUserDeleted, DeleteHouseholdData
  <2>3. /\ UNCHANGED <<msg, deliv, processed, broken>>
        /\ pc' = [pc EXCEPT ![h] = "commit"] /\ pc[h] = "run"
    BY <1>5 DEF Run, Goto, queueVars
  <2>4. \A i \in MessageId : Covered(i)' <=> Covered(i) \/ i = msg[h]
    BY <1>0, <2>1, <2>3
  <2>5. \A i \in MessageId : logged'[i] = IF i = msg[h] THEN logged[i] + 1 ELSE logged[i]
    BY <1>0, <2>2
  <2> HIDE DEF Covered
  <2> QED
    BY <1>0, <2>1, <2>3, <2>4, <2>5
<1>6. ASSUME NEW h \in Handler, Commit(h) PROVE AccountInv'
  BY <1>0, <1>6 DEF Commit, Goto, queueVars
<1>7. ASSUME NEW h \in Handler, FinishHandler(h) PROVE AccountInv'
  BY <1>0, <1>7 DEF FinishHandler, Ack, Goto, Rest
<1>8. ASSUME NEW h \in Handler, HandlerFails(h) PROVE AccountInv'
  \* The transaction is rolled back and its row stays: the failure pays for it.
  BY <1>0, <1>8 DEF HandlerFails, Throw, Goto
<1>9. CASE RestartAudit
  BY <1>0, <1>9 DEF RestartAudit, Crash, Requeued
<1>10. CASE LoseChannel
  BY <1>0, <1>10 DEF LoseChannel, DropChannel, Requeued, auditVars
<1>11. CASE UNCHANGED <<queueVars, auditVars>>
  BY <1>11 DEF queueVars, auditVars
<1> QED
  BY <1>1, <1>2, <1>3, <1>4, <1>5, <1>6, <1>7, <1>8, <1>9, <1>10, <1>11, TrailAssumption
  DEF Next, PublishEvent, ExportCsv, EraseExports, Audit, Consumer, Failure,
      AuditFailure, vars

\* Only the effect of a handler writes the log.
LEMMA ErasureStep == IInv /\ [Next]_vars => ErasureInv'
<1> SUFFICES ASSUME IInv, [Next]_vars PROVE ErasureInv'
  OBVIOUS
<1>0. /\ LogGrows /\ QueueTypeOK /\ 1..Len(log) \subseteq MessageId
      /\ entries \subseteq Entry
      /\ \A j \in 1..Len(log) : log[j] \in [kind: Kind, user: User, household: Household]
  BY QueueSteps, QueueInvStep, BoundsAssumption, AuditAssumption
  DEF IInv, QueueInv, TypeOK, AuditTypeOK, QueueTypeOK, MessageId
<1>1. CASE UNCHANGED <<entries, logged, overtaken>>
  \* An event that is published in this step was not carried out yet.
  <2>1. \A j \in 1..Len(log') : j \in MessageId /\ (logged[j] > 0 => j \in 1..Len(log))
    <3>1. 1..Len(log') \subseteq MessageId
      BY QueueSteps, QueueInvStep, BoundsAssumption
      DEF IInv, QueueInv, QueueTypeOK, MessageId
    <3> QED
      BY <3>1 DEF IInv, AccountInv, QueueInv, DeliveriesInv
  <2> QED
    BY <1>0, <1>1, <2>1 DEF IInv, ErasureInv, LogGrows
<1>2. ASSUME NEW h \in Handler, Run(h) PROVE ErasureInv'
  <2>1. /\ UNCHANGED log
        /\ msg[h] \in 1..Len(log)
        /\ DOMAIN log = 1..Len(log)
    BY <1>0, <1>2 DEF Run, queueVars, IInv, ControlInv, QueueInv, DeliveriesInv, QueueTypeOK
  <2>2. \A j \in 1..Len(log) : logged'[j] > 0 => logged[j] > 0 \/ j = msg[h]
    <3>1. logged' = [logged EXCEPT ![msg[h]] = @ + 1]
      BY <1>2 DEF Run, Log, HandleUserDeleted, DeleteHouseholdData
    <3> QED
      BY <1>0, <3>1 DEF IInv, TypeOK, AuditTypeOK
  <2>3. CASE Log(h)
    \* The row of an event that an erasure has overtaken is marked.
    <3> DEFINE i == msg[h]
    <3>1. /\ entries' = entries \cup {RowOf(i)}
          /\ RowOf(i).event = i
          /\ overtaken \subseteq overtaken'
          /\ \A j \in 1..Len(log) : Covers(log[j], i) /\ logged[j] > 0 => i \in overtaken'
      BY <2>1, <2>3 DEF Log, RowOf
    <3>2. log[i].kind \notin {"userDeleted", "householdDeleted"}
      BY <2>3 DEF Log, event, Logging, Acting
    <3> QED
      BY <2>1, <2>2, <3>1, <3>2 DEF Covers, IInv, ErasureInv
  <2>4. CASE HandleUserDeleted(h)
    <3>1. \A r \in entries' : \/ r \in entries /\ r.user # log[msg[h]].user
                             \/ \E q \in entries : /\ r.event = q.event
                                                   /\ r.household = q.household
                                                   /\ r.user = None
      BY <1>0, <2>4 DEF HandleUserDeleted, event, Entry
    <3>2. \A j \in 1..Len(log) : log[j].user # None
      BY <1>0, AuditAssumption
    <3>3. log[msg[h]].kind = "userDeleted" /\ UNCHANGED overtaken
      BY <2>4 DEF HandleUserDeleted, event
    <3> QED
      BY <2>1, <2>2, <3>1, <3>2, <3>3 DEF IInv, ErasureInv
  <2>5. CASE DeleteHouseholdData(h)
    BY <2>1, <2>2, <2>5 DEF DeleteHouseholdData, event, IInv, ErasureInv
  <2> QED
    BY <1>2, <2>3, <2>4, <2>5 DEF Run
<1> QED
  BY <1>1, <1>2
  DEF Next, PublishEvent, ExportCsv, EraseExports, Audit, Consumer, Failure,
      AuditFailure, StartHandler, Connect, Claim, Commit, FinishHandler, HandlerFails,
      RestartAudit, LoseChannel, Rest, auditVars, vars

\* Exports go from the history row to the event to the file, and nothing that
\* was published is taken back.
LEMMA TraceStep == IInv /\ [Next]_vars => TraceInv'
<1> SUFFICES ASSUME IInv, [Next]_vars PROVE TraceInv'
  OBVIOUS
<1>0. LogGrows /\ QueueTypeOK
  BY QueueSteps, QueueInvStep DEF IInv, QueueInv
<1>1. /\ HomeDeleted => HomeDeleted'
      /\ (\E i \in 1..Len(log) : log[i].kind = "reportExported")
           => (\E i \in 1..Len(log') : log'[i].kind = "reportExported")
  <2>1. DOMAIN log = 1..Len(log) /\ DOMAIN log' = 1..Len(log')
    BY QueueSteps, QueueInvStep DEF IInv, QueueInv, QueueTypeOK
  <2> QED
    BY <1>0, <2>1 DEF LogGrows, HomeDeleted
<1>2. CASE UNCHANGED exportVars
  BY <1>1, <1>2 DEF IInv, TraceInv, exportVars
<1>3. ASSUME NEW x \in Export, SaveHistory(x) \/ ExportFails(x) PROVE TraceInv'
  BY <1>1, <1>3 DEF SaveHistory, ExportFails, IInv, TraceInv, TypeOK, ExportTypeOK
<1>4. ASSUME NEW x \in Export, ReportExported(x), Publish(ExportLogged) PROVE TraceInv'
  <2>1. \E i \in 1..Len(log') : log'[i].kind = "reportExported"
    <3>1. Len(log') = Len(log) + 1 /\ log'[Len(log) + 1] = ExportLogged
      BY <1>0, <1>4, TrailAssumption DEF Publish, QueueTypeOK
    <3> QED
      BY <1>0, <3>1 DEF QueueTypeOK, ExportLogged
  <2> QED
    BY <1>1, <1>4, <2>1 DEF ReportExported, IInv, TraceInv, TypeOK, ExportTypeOK
<1>5. CASE EraseExports
  BY <1>1, <1>5 DEF EraseExports, DropExportHistory, IInv, TraceInv
<1> QED
  BY <1>2, <1>3, <1>4, <1>5 DEF Next, PublishEvent, ExportCsv, Audit, Failure, vars

LEMMA InvInit == Init => IInv
<1> SUFFICES ASSUME Init PROVE IInv
  OBVIOUS
<1>1. TypeOK /\ QueueInv
  BY TypeInit, QueueInvInit DEF Init, AuditInit
<1>2. ControlInv /\ AccountInv
  BY DEF Init, AuditInit, QueueInit, ControlInv, Claiming, AccountInv, Covered
<1>3. ErasureInv /\ TraceInv
  BY DEF Init, AuditInit, QueueInit, ExportInit, ErasureInv, TraceInv
<1> QED
  BY <1>1, <1>2, <1>3 DEF IInv

-----------------------------------------------------------------------------
(* Theorems *)

LEMMA Invariance == Spec => []IInv
<1>1. IInv /\ [Next]_vars => IInv'
  BY TypeStep, QueueSteps, QueueInvStep, ControlStep, AccountStep, ErasureStep, TraceStep
  DEF IInv
<1> QED
  BY <1>1, InvInit, PTL DEF Spec

\* The rows stay rows of activity_logs, and the queue a queue.
THEOREM TypeCorrect == Spec => []TypeOK
  BY Invariance, PTL DEF IInv

\* However many handlers share the pool and whatever fails between a row and the
\* commit of withIdempotency: what is acked was logged, and rows beyond the first
\* are as many as crashes and failures at most.
THEOREM NothingLostNothingTwice == Spec => []LoggedOnce
<1>1. IInv => LoggedOnce
  BY BoundsAssumption
  DEF IInv, AccountInv, TypeOK, AuditTypeOK, QueueTypeOK, MessageId, LoggedOnce
<1> QED
  BY <1>1, Invariance, PTL

\* Once the queue is quiet the deleted user and the deleted household are gone
\* from the log, apart from the rows of events that were carried out too late.
THEOREM ErasedForGood == Spec => []ErasureHolds
<1>1. IInv => ErasureHolds
  <2> SUFFICES ASSUME IInv, Quiet, NEW j \in 1..Len(log)
               PROVE  logged[j] > 0 /\ DOMAIN log = 1..Len(log)
    BY DEF ErasureHolds, IInv, ErasureInv, ListForUser, ListForHousehold, QueueInv, QueueTypeOK
  <2>1. j \in MessageId /\ deliv[j] = "acked"
    BY BoundsAssumption DEF Quiet, IInv, QueueInv, DeliveriesInv, QueueTypeOK, MessageId
  <2> QED
    BY <2>1 DEF IInv, AccountInv, QueueInv, QueueTypeOK, TypeOK, AuditTypeOK
<1> QED
  BY <1>1, Invariance, PTL

\* Whoever has the file of an export finds it in the history, and the audit log
\* is told of it.
THEOREM ExportsTraced == Spec => []DeliveredIsTraceable
<1>1. IInv => DeliveredIsTraceable
  BY DEF IInv, TraceInv, QueueInv, QueueTypeOK, DeliveredIsTraceable
<1> QED
  BY <1>1, Invariance, PTL
=============================================================================
