------------------------ MODULE ReportService_proofs ------------------------
(***************************************************************************)
(* For any number of handlers, transactions, categories, messages and      *)
(* faults: report-service commits each event once, loses none of the       *)
(* writes of handlers that run side by side, and keeps a delivery unacked  *)
(* only when a handler ended by an exception.                              *)
(***************************************************************************)
EXTENDS ReportService, Consumer_proofs

InTransaction == {"subtract", "add", "commit"}
Claiming(h, i) == msg[h] = i /\ pc[h] \in InTransaction

\* The types the control of a handler rests on; those of the totals come later.
ControlTypes ==
  /\ book \in [Tx -> Entry \cup {Absent}]
  /\ processed \subseteq MessageId
  /\ pc \in [Handler -> Step]
  /\ held \in [Handler -> SUBSET Key]
  /\ applied \in [MessageId -> Nat]

ChangesTotals(e) ==
  /\ e.prev \in Entry \/ e.next \in Entry
  /\ e.kind = "created" => e.next \in Entry

(***************************************************************************)
(* What a program counter says of the event, and that one transaction at a *)
(* time has claimed it, which has not been committed before.               *)
(***************************************************************************)
ControlInv ==
  /\ \A i \in 1..Len(log) : log[i].kind # "householdDeleted" => ChangesTotals(log[i])
  /\ \A h \in Handler :
       /\ msg[h] = 0 <=> pc[h] = "free"
       /\ pc[h] \in InTransaction \cup {"claim"} => log[msg[h]].kind # "householdDeleted"
       /\ pc[h] \in {"dropSnapshots", "dropHistory"} => log[msg[h]].kind = "householdDeleted"
       /\ pc[h] = "subtract" => log[msg[h]].prev \in Entry
       /\ pc[h] = "add" => log[msg[h]].next \in Entry
       /\ pc[h] \in InTransaction => applied[msg[h]] = 0
       /\ \A g \in Handler \ {h} : ~(Claiming(h, msg[h]) /\ Claiming(g, msg[h]))

\* Acked, and nobody works on it any more: it is not delivered again.
Over(i) == deliv[i] = "acked" /\ \A h \in Handler : msg[h] # i

AccountInv ==
  /\ \A i \in MessageId : applied[i] <= 1
  /\ \A i \in processed : applied[i] = 1
  /\ \A i \in MessageId : applied[i] = 1 => i \in processed \/ Over(i)
  /\ \A i \in MessageId :
       deliv[i] = "acked" /\ log[i].kind # "householdDeleted" => applied[i] = 1
  /\ \A h \in Handler :
       pc[h] = "ack" /\ log[msg[h]].kind # "householdDeleted" => applied[msg[h]] = 1

\* A delivery that is out is with a handler whose channel is open.
StuckInv ==
  \A i \in MessageId :
    deliv[i] = "unacked" => i \in aborted \/ \E h \in Handler : msg[h] = i /\ live[h]

IInv == QueueInv /\ ControlTypes /\ ControlInv /\ AccountInv /\ StuckInv

-----------------------------------------------------------------------------
(* Types and the queue *)

LEMMA EventType ==
  ASSUME IInv, NEW i \in 1..Len(log)
  PROVE  log[i] \in Event /\ i \in MessageId /\ i # 0
  BY ReportAssumption, BoundsAssumption DEF IInv, QueueInv, QueueTypeOK, MessageId

LEMMA HandledEvent ==
  ASSUME IInv, NEW h \in Handler, pc[h] # "free"
  PROVE  msg[h] \in 1..Len(log) /\ msg[h] \in MessageId /\ event(h) \in Event
<1>1. msg[h] \in 1..Len(log)
  BY DEF IInv, QueueInv, QueueTypeOK, DeliveriesInv, ControlInv
<1> QED
  BY <1>1, EventType DEF event

LEMMA ChangePublishes ==
  ASSUME IInv, NEW t \in Tx, ChangeTransaction(t)
  PROVE  \E m \in Message : /\ Publish(m) /\ m.kind # "householdDeleted" /\ ChangesTotals(m)
                            /\ book' \in [Tx -> Entry \cup {Absent}]
                            /\ UNCHANGED <<rowVars, taskVars, ghostVars>>
<1>1. PICK kind \in {"created", "updated", "deleted"}, p \in Entry \cup {Absent} :
        /\ PublishChange(t, kind, p)
        /\ book[t] \in Entry \/ p \in Entry
        /\ kind = "created" => p \in Entry
  BY DEF ChangeTransaction, IInv, ControlTypes
<1> DEFINE m == [kind |-> kind, prev |-> book[t], next |-> p]
<1>2. m \in Message /\ m.kind # "householdDeleted" /\ ChangesTotals(m)
  BY <1>1, ReportAssumption DEF IInv, ControlTypes, Event, Posting, ChangesTotals
<1>3. Publish(m) /\ book' \in [Tx -> Entry \cup {Absent}]
  BY <1>1 DEF PublishChange, IInv, ControlTypes
<1> QED
  BY <1>1, <1>2, <1>3 DEF PublishChange

LEMMA QueueSteps == IInv /\ [Next]_vars => QueueNext
<1> SUFFICES ASSUME IInv, [Next]_vars PROVE QueueNext
  OBVIOUS
<1> USE DEF QueueNext
<1>1. ASSUME NEW t \in Tx, ChangeTransaction(t) PROVE QueueNext
  BY <1>1, ChangePublishes
<1>2. CASE DeleteHousehold
  <2>1. [kind |-> "householdDeleted", prev |-> Absent, next |-> Absent] \in Message
    BY ReportAssumption DEF Event, Posting
  <2> QED
    BY <1>2, <2>1 DEF DeleteHousehold
<1>3. ASSUME NEW h \in Handler, Consumer(h) PROVE QueueNext
  <2>1. EndByException(h) /\ UNCHANGED faults => QueueNext
    BY DEF EndByException, IInv, QueueInv, QueueTypeOK
  <2> QED
    BY <1>3, <2>1 DEF Consumer, StartHandler, Claim, SubtractFromSnapshot, AddToSnapshot, Commit,
                      DeadlockVictim, DropSnapshots, DropHistory, FinishHandler
<1>4. CASE CleanProcessedEventIds \/ Failure
  BY <1>4 DEF CleanProcessedEventIds, Failure, Restart, LoseChannel
<1>5. CASE UNCHANGED vars
  BY <1>5 DEF vars
<1> QED
  BY <1>1, <1>2, <1>3, <1>4, <1>5 DEF Next, Producer

LEMMA TypeStep == IInv /\ [Next]_vars => ControlTypes'
<1> SUFFICES ASSUME IInv, [Next]_vars PROVE ControlTypes'
  OBVIOUS
<1> USE DEF IInv, ControlTypes, rowVars, taskVars, ghostVars, Step
<1>1. ASSUME NEW t \in Tx, ChangeTransaction(t) PROVE ControlTypes'
  BY <1>1, ChangePublishes
<1>2. CASE DeleteHousehold \/ LoseChannel
  BY <1>2 DEF DeleteHousehold, LoseChannel
<1>3. ASSUME NEW h \in Handler, EndByException(h) PROVE ControlTypes'
  BY <1>3 DEF EndByException, EndTransaction, Goto
<1>4. ASSUME NEW h \in Handler, StartHandler(h) \/ Claim(h) \/ DropSnapshots(h)
                                \/ DropHistory(h) \/ FinishHandler(h)
      PROVE  ControlTypes'
  BY <1>4 DEF StartHandler, Claim, DropSnapshots, DropHistory, FinishHandler, Goto
<1>5. ASSUME NEW h \in Handler, SubtractFromSnapshot(h) PROVE ControlTypes'
  <2>1. event(h).prev.key \in rows => event(h).prev.key \in Key
    BY <1>5, HandledEvent DEF SubtractFromSnapshot, ControlInv, event, Entry
  <2> QED
    BY <1>5, <2>1 DEF SubtractFromSnapshot, Write, Goto, AfterSubtract
<1>6. ASSUME NEW h \in Handler, AddToSnapshot(h), ~EndByException(h) PROVE ControlTypes'
  <2>1. event(h).next.key \in Key
    BY <1>6 DEF AddToSnapshot, ControlInv, event, Entry
  <2> QED
    BY <1>6, <2>1 DEF AddToSnapshot, Write, Goto
<1>7. ASSUME NEW h \in Handler, Commit(h) PROVE ControlTypes'
  BY <1>7, HandledEvent DEF Commit, EndTransaction, Goto
<1>8. CASE CleanProcessedEventIds \/ Restart \/ UNCHANGED vars
  BY <1>8 DEF CleanProcessedEventIds, Restart, vars
<1> QED
  BY <1>1, <1>2, <1>3, <1>4, <1>5, <1>6, <1>7, <1>8
  DEF Next, Producer, Consumer, Failure, DeadlockVictim
-----------------------------------------------------------------------------
(* The parts of the invariant, a lemma per kind of step *)

\* A new message: nothing of what exists changes.
LEMMA PublishKeeps ==
  ASSUME IInv, NEW m \in Message, Publish(m),
         m.kind = "householdDeleted" \/ ChangesTotals(m),
         UNCHANGED <<rowVars, taskVars, ghostVars>>
  PROVE  ControlInv' /\ AccountInv' /\ StuckInv'
<1> USE DEF IInv, QueueInv, QueueTypeOK, ControlTypes, rowVars, taskVars, ghostVars
<1>1. /\ Len(log) \in Nat /\ Len(log') = Len(log) + 1 /\ log'[Len(log) + 1] = m
      /\ \A i \in 1..Len(log) : log'[i] = log[i]
      /\ Len(log) + 1 \in MessageId
  BY BoundsAssumption DEF Publish, MessageId
<1>2. /\ UNCHANGED <<msg, live>>
      /\ deliv' = [deliv EXCEPT ![Len(log) + 1] = "queued"]
      /\ deliv[Len(log) + 1] = "none"
  BY <1>1 DEF Publish, DeliveriesInv
<1>3. \A h \in Handler : pc[h] # "free" => msg[h] \in 1..Len(log)
  BY HandledEvent
<1>4. ControlInv'
  <2>1. \A i \in 1..Len(log') :
          log'[i].kind # "householdDeleted" => ChangesTotals(log'[i])
    BY <1>1 DEF ControlInv
  <2>2. \A h \in Handler : pc[h] # "free" => log'[msg[h]] = log[msg[h]]
    BY <1>1, <1>3
  <2> HIDE DEF IInv, QueueInv, QueueTypeOK
  <2> QED
    BY <1>2, <2>1, <2>2 DEF IInv, ControlInv, Claiming, InTransaction, ChangesTotals
<1>5. AccountInv'
  <2>1. \A i \in MessageId : deliv'[i] = "acked" <=> deliv[i] = "acked"
    BY <1>1, <1>2
  <2>2. \A i \in MessageId : deliv[i] = "acked" => log'[i] = log[i]
    BY <1>1 DEF DeliveriesInv
  <2>3. \A h \in Handler : pc[h] # "free" => log'[msg[h]] = log[msg[h]]
    BY <1>1, <1>3
  <2>4. \A i \in MessageId : Over(i)' <=> Over(i)
    BY <1>2, <2>1 DEF Over
  <2> HIDE DEF IInv, QueueInv, QueueTypeOK
  <2> QED
    BY <1>2, <2>1, <2>2, <2>3, <2>4 DEF IInv, AccountInv
<1>6. StuckInv'
  BY <1>2 DEF StuckInv
<1> QED
  BY <1>4, <1>5, <1>6

LEMMA DeliverKeeps ==
  ASSUME IInv, NEW h \in Handler, StartHandler(h)
  PROVE  ControlInv' /\ AccountInv' /\ StuckInv'
<1> USE DEF IInv, QueueInv, QueueTypeOK, ControlTypes, rowVars, ghostVars
<1>1. PICK i \in MessageId :
        /\ Deliver(h, i)
        /\ Goto(h, IF log[i].kind = "householdDeleted" THEN "dropSnapshots" ELSE "claim")
  BY DEF StartHandler
<1>2. /\ i # 0 /\ deliv[i] = "queued" /\ msg[h] = 0 /\ UNCHANGED <<log, processed, applied, aborted>>
      /\ deliv' = [deliv EXCEPT ![i] = "unacked"]
      /\ msg' = [msg EXCEPT ![h] = i]
      /\ live' = [live EXCEPT ![h] = TRUE]
  BY <1>1 DEF Deliver, AtHead, Idle, StartHandler, MessageId
<1>3. pc' = [pc EXCEPT ![h] = IF log[i].kind = "householdDeleted" THEN "dropSnapshots" ELSE "claim"]
  BY <1>1 DEF Goto
<1>4. ControlInv'
  BY <1>2, <1>3 DEF ControlInv, Claiming, InTransaction
<1>5. AccountInv'
  BY <1>2, <1>3 DEF AccountInv, Over
<1>6. StuckInv'
  BY <1>2 DEF StuckInv, MessageId
<1> QED
  BY <1>4, <1>5, <1>6

\* A handler goes on inside its transaction, or between other statements.
LEMMA MoveKeeps ==
  ASSUME IInv, NEW h \in Handler, NEW step, Goto(h, step), pc[h] # "free",
         UNCHANGED <<queueVars, processed, applied, aborted>>,
         step # "free",
         step \in {"dropSnapshots", "dropHistory"} => log[msg[h]].kind = "householdDeleted",
         step \in InTransaction \cup {"claim"} => log[msg[h]].kind # "householdDeleted",
         step = "subtract" => log[msg[h]].prev \in Entry,
         step = "add" => log[msg[h]].next \in Entry,
         step \in InTransaction =>
           /\ applied[msg[h]] = 0
           /\ \A g \in Handler \ {h} : ~Claiming(g, msg[h]),
         step = "ack" /\ log[msg[h]].kind # "householdDeleted" => applied[msg[h]] = 1
  PROVE  ControlInv' /\ AccountInv' /\ StuckInv'
<1> USE DEF IInv, QueueInv, QueueTypeOK, ControlTypes, queueVars, Goto
<1>1. ControlInv'
  BY DEF ControlInv, Claiming, InTransaction
<1>2. AccountInv'
  BY DEF AccountInv, Over
<1>3. StuckInv'
  BY DEF StuckInv
<1> QED
  BY <1>1, <1>2, <1>3

LEMMA ClaimKeeps ==
  ASSUME IInv, NEW h \in Handler, Claim(h)
  PROVE  ControlInv' /\ AccountInv' /\ StuckInv'
<1> DEFINE step == IF msg[h] \in processed THEN "ack"
                   ELSE IF event(h).prev \in Entry THEN "subtract" ELSE "add"
<1>1. pc[h] = "claim" /\ Goto(h, step)
  BY DEF Claim
<1>2. /\ msg[h] \in MessageId /\ log[msg[h]].kind # "householdDeleted"
      /\ ChangesTotals(log[msg[h]])
  BY <1>1, HandledEvent DEF IInv, ControlInv
<1>3. msg[h] \in processed => applied[msg[h]] = 1
  BY DEF IInv, AccountInv
<1>4. msg[h] \notin processed => applied[msg[h]] = 0
  BY <1>2 DEF IInv, AccountInv, Over, ControlTypes
<1>5. \A g \in Handler \ {h} : ~Claiming(g, msg[h])
  BY DEF Claim, IdTaken, Others, Claiming, InTransaction
<1>6. /\ step \notin {"free", "claim", "dropSnapshots", "dropHistory"}
      /\ step = "subtract" => log[msg[h]].prev \in Entry
      /\ step = "add" => log[msg[h]].next \in Entry
      /\ step = "ack" => msg[h] \in processed
      /\ step \in InTransaction => msg[h] \notin processed
  BY <1>2 DEF event, ChangesTotals, InTransaction
<1>7. UNCHANGED <<queueVars, processed, applied, aborted>>
  BY DEF Claim, rowVars, ghostVars
<1> HIDE DEF step
<1> QED
  BY <1>1, <1>2, <1>3, <1>4, <1>5, <1>6, <1>7, MoveKeeps

\* The write of a transaction, and the statements of household.deleted.
LEMMA StatementKeeps ==
  ASSUME IInv, NEW h \in Handler,
         \/ SubtractFromSnapshot(h)
         \/ AddToSnapshot(h) /\ ~EndByException(h)
         \/ DropSnapshots(h) \/ DropHistory(h)
  PROVE  ControlInv' /\ AccountInv' /\ StuckInv'
<1>1. CASE pc[h] \in InTransaction
  <2>1. PICK step : /\ Goto(h, step)
                    /\ step \in {"add", "commit"}
                    /\ step = "add" => log[msg[h]].next \in Entry
    BY <1>1 DEF SubtractFromSnapshot, AddToSnapshot, AfterSubtract, DropSnapshots, DropHistory,
                InTransaction, event
  <2>2. /\ log[msg[h]].kind # "householdDeleted" /\ applied[msg[h]] = 0
        /\ \A g \in Handler \ {h} : ~Claiming(g, msg[h])
    BY <1>1 DEF IInv, ControlInv, Claiming
  <2>3. UNCHANGED <<queueVars, processed, applied, aborted>>
    BY <1>1 DEF SubtractFromSnapshot, AddToSnapshot, DropSnapshots, DropHistory, InTransaction,
                rowVars, ghostVars
  <2>4. pc[h] # "free"
    BY <1>1 DEF InTransaction
  <2> QED
    BY <2>1, <2>2, <2>3, <2>4, MoveKeeps DEF InTransaction
<1>2. CASE pc[h] \notin InTransaction
  <2>1. PICK step \in {"dropHistory", "ack"} : Goto(h, step)
    BY <1>2 DEF SubtractFromSnapshot, AddToSnapshot, DropSnapshots, DropHistory, InTransaction
  <2>2. /\ pc[h] \in {"dropSnapshots", "dropHistory"}
        /\ UNCHANGED <<queueVars, processed, applied, aborted>>
    BY <1>2 DEF SubtractFromSnapshot, AddToSnapshot, DropSnapshots, DropHistory, InTransaction,
                rowVars, ghostVars
  <2> QED
    BY <2>1, <2>2, MoveKeeps DEF InTransaction, IInv, ControlInv
<1> QED
  BY <1>1, <1>2

\* The event takes effect: nobody else has claimed it, and it had none before.
LEMMA CommitKeeps ==
  ASSUME IInv, NEW h \in Handler, Commit(h)
  PROVE  ControlInv' /\ AccountInv' /\ StuckInv'
<1> DEFINE i == msg[h]
<1>1. /\ pc[h] = "commit" /\ pc' = [pc EXCEPT ![h] = "ack"]
      /\ processed' = processed \cup {i}
      /\ applied' = [applied EXCEPT ![i] = @ + 1]
      /\ UNCHANGED <<log, deliv, msg, live, aborted>>
  BY DEF Commit, Goto, queueVars
<1>2. /\ i \in MessageId /\ applied[i] = 0
      /\ \A g \in Handler \ {h} : ~Claiming(g, i)
  BY <1>1, HandledEvent DEF IInv, ControlInv, Claiming, InTransaction
<1> HIDE DEF i
<1>3. \A j \in MessageId : applied'[j] = IF j = i THEN 1 ELSE applied[j]
  BY <1>1, <1>2 DEF IInv, ControlTypes
<1>4. ControlInv'
  <2>1. \A g \in Handler : pc[g] # "free" => msg[g] \in MessageId
    BY HandledEvent
  <2> QED
    BY <1>1, <1>2, <1>3, <2>1 DEF IInv, ControlInv, ControlTypes, Claiming, InTransaction, i
<1>5. AccountInv'
  <2>1. \A j \in MessageId : Over(j)' <=> Over(j)
    BY <1>1 DEF Over
  <2>2. \A g \in Handler : pc[g] = "ack" => msg[g] \in MessageId
    BY HandledEvent
  <2> QED
    BY <1>1, <1>2, <1>3, <2>1, <2>2 DEF IInv, AccountInv, ControlTypes, i
<1>6. StuckInv'
  BY <1>1 DEF IInv, StuckInv
<1> QED
  BY <1>4, <1>5, <1>6

LEMMA FinishKeeps ==
  ASSUME IInv, NEW h \in Handler, FinishHandler(h)
  PROVE  ControlInv' /\ AccountInv' /\ StuckInv'
<1> DEFINE i == msg[h]
<1> USE DEF IInv, QueueInv, QueueTypeOK, ControlTypes
<1>1. /\ pc[h] = "ack" /\ i \in MessageId /\ 0 \notin MessageId
      /\ deliv' = [deliv EXCEPT ![i] = IF live[h] THEN "acked" ELSE @]
      /\ msg' = [msg EXCEPT ![h] = 0]
      /\ live' = [live EXCEPT ![h] = FALSE]
      /\ pc' = [pc EXCEPT ![h] = "free"]
      /\ UNCHANGED <<log, processed, applied, aborted>>
  BY HandledEvent DEF FinishHandler, Ack, Idle, Goto, rowVars, ghostVars, MessageId
<1>2. ControlInv'
  BY <1>1 DEF ControlInv, Claiming, InTransaction
<1>3. AccountInv'
  <2>1. \A j \in MessageId : Over(j) => Over(j)'
    BY <1>1 DEF Over
  <2>2. log[i].kind # "householdDeleted" => applied[i] = 1
    BY <1>1 DEF AccountInv
  <2> QED
    BY <1>1, <2>1, <2>2 DEF AccountInv
<1>4. StuckInv'
  BY <1>1 DEF StuckInv
<1> QED
  BY <1>2, <1>3, <1>4

LEMMA ExceptionKeeps ==
  ASSUME IInv, NEW h \in Handler, EndByException(h)
  PROVE  ControlInv' /\ AccountInv' /\ StuckInv'
<1> USE DEF IInv, QueueInv, QueueTypeOK, ControlTypes
<1>1. /\ 0 \notin MessageId
      /\ msg' = [msg EXCEPT ![h] = 0]
      /\ live' = [live EXCEPT ![h] = FALSE]
      /\ pc' = [pc EXCEPT ![h] = "free"]
      /\ aborted' = aborted \cup {msg[h]}
      /\ UNCHANGED <<log, deliv, processed, applied>>
  BY DEF EndByException, Throw, Goto, rowVars, MessageId
<1>2. ControlInv'
  BY <1>1 DEF ControlInv, Claiming, InTransaction
<1>3. AccountInv'
  BY <1>1 DEF AccountInv, Over
<1>4. StuckInv'
  BY <1>1 DEF StuckInv
<1> QED
  BY <1>2, <1>3, <1>4

\* The broker requeues what is unacked; what is settled stays settled.
LEMMA RequeueKeeps ==
  ASSUME IInv, Restart \/ LoseChannel
  PROVE  ControlInv' /\ AccountInv' /\ StuckInv'
<1> USE DEF IInv, QueueInv, QueueTypeOK, ControlTypes
<1>1. /\ 0 \notin MessageId
      /\ UNCHANGED <<log, processed, applied>>
      /\ \/ UNCHANGED <<msg, pc>>
         \/ msg' = [h \in Handler |-> 0] /\ pc' = [h \in Handler |-> "free"]
      /\ \A i \in MessageId : /\ deliv'[i] # "unacked"
                              /\ deliv'[i] = "acked" <=> deliv[i] = "acked"
  <2>1. CASE Restart
    BY <2>1 DEF Restart, Crash, Requeued, rowVars, ghostVars, MessageId
  <2>2. CASE LoseChannel
    BY <2>2 DEF LoseChannel, DropChannel, Requeued, rowVars, taskVars, ghostVars, MessageId
  <2> QED BY <2>1, <2>2
<1>2. ControlInv'
  BY <1>1 DEF ControlInv, Claiming, InTransaction
<1>3. AccountInv'
  BY <1>1 DEF AccountInv, Over
<1>4. StuckInv'
  BY <1>1 DEF StuckInv
<1> QED
  BY <1>2, <1>3, <1>4

LEMMA CleanKeeps ==
  ASSUME IInv, CleanProcessedEventIds
  PROVE  ControlInv' /\ AccountInv' /\ StuckInv'
<1>1. PICK i \in processed : Over(i) /\ processed' = processed \ {i}
  BY DEF CleanProcessedEventIds, Over
<1>2. UNCHANGED <<queueVars, pc, applied, aborted>>
  BY DEF CleanProcessedEventIds, taskVars, ghostVars
<1> QED
  BY <1>1, <1>2
  DEF IInv, ControlInv, Claiming, InTransaction, AccountInv, Over, StuckInv, queueVars

LEMMA InvInit == Init => IInv
<1> SUFFICES ASSUME Init PROVE IInv
  OBVIOUS
<1>1. QueueInv
  BY QueueInvInit DEF Init
<1>2. ControlTypes
  BY DEF Init, ControlTypes, Step
<1>3. ControlInv /\ AccountInv /\ StuckInv
  BY DEF Init, QueueInit, ControlInv, Claiming, InTransaction, AccountInv, StuckInv
<1> QED
  BY <1>1, <1>2, <1>3 DEF IInv

LEMMA InvStep == IInv /\ [Next]_vars => IInv'
<1> SUFFICES ASSUME IInv, [Next]_vars PROVE IInv'
  OBVIOUS
<1>0. QueueInv' /\ ControlTypes'
  BY QueueSteps, QueueInvStep, TypeStep DEF IInv
<1> DEFINE Kept == ControlInv' /\ AccountInv' /\ StuckInv'
<1>1. ASSUME NEW t \in Tx, ChangeTransaction(t) PROVE Kept
  BY <1>1, ChangePublishes, PublishKeeps
<1>2. ASSUME DeleteHousehold PROVE Kept
  <2> DEFINE m == [kind |-> "householdDeleted", prev |-> Absent, next |-> Absent]
  <2>1. m \in Message /\ m.kind = "householdDeleted"
    BY ReportAssumption DEF Event, Posting
  <2>2. Publish(m) /\ UNCHANGED <<rowVars, taskVars, ghostVars>>
    BY <1>2 DEF DeleteHousehold
  <2> HIDE DEF m
  <2> QED
    BY <2>1, <2>2, PublishKeeps
<1>3. ASSUME NEW h \in Handler, Consumer(h) PROVE Kept
  BY <1>3, DeliverKeeps, ClaimKeeps, StatementKeeps, CommitKeeps, FinishKeeps, ExceptionKeeps
  DEF Consumer, DeadlockVictim
<1>4. ASSUME CleanProcessedEventIds PROVE Kept
  BY <1>4, CleanKeeps
<1>5. ASSUME Failure PROVE Kept
  BY <1>5, RequeueKeeps DEF Failure
<1>6. ASSUME UNCHANGED vars PROVE Kept
  BY <1>6 DEF vars, queueVars, rowVars, taskVars, ghostVars, IInv, ControlInv, Claiming,
              AccountInv, Over, StuckInv
<1>7. Kept
  BY <1>1, <1>2, <1>3, <1>4, <1>5, <1>6 DEF Next, Producer
<1> QED
  BY <1>0, <1>7 DEF IInv

-----------------------------------------------------------------------------
(* Each event once *)

LEMMA Invariance == Spec => []IInv
  BY InvInit, InvStep, PTL DEF Spec

\* Whatever crashes, redeliveries, deadlocks and clean-ups of processed_event_ids
\* there are: an event's totals are committed at most once, and before its ack.
THEOREM EventsCommittedOnce == Spec => []CommittedOnce
<1>1. IInv => CommittedOnce
  BY EventType DEF IInv, AccountInv, CommittedOnce, QueueInv, QueueTypeOK
<1> QED
  BY <1>1, Invariance, PTL

\* Nothing but an exception leaves a delivery behind that nobody works on.
THEOREM OnlyAbortsAreStuck == Spec => []StuckOnlyIfAborted
<1>1. IInv => StuckOnlyIfAborted
  BY DEF IInv, StuckInv, StuckOnlyIfAborted
<1> QED
  BY <1>1, Invariance, PTL

-----------------------------------------------------------------------------
(* No write is lost *)

Numbers ==
  /\ total \in [Key -> Nat]
  /\ net \in [Key -> Int]
  /\ draft \in [Handler -> [Key -> Nat]]

\* Row locks: two transactions have never written the same row.
LockInv ==
  /\ \A h \in Handler : held[h] # {} => pc[h] \in {"add", "commit"}
  /\ \A h \in Handler : \A k \in held[h] : ~LockedByOther(h, k)

\* What a transaction is about to commit makes up for what its event is worth.
DraftEnough(h) ==
  /\ pc[h] = "add" =>
       \A k \in held[h] : draft[h][k] >= total[k] - Amount0(event(h).prev, k)
  /\ pc[h] = "commit" =>
       \A k \in Key : IF k \in held[h] THEN draft[h][k] >= total[k] + Effect(event(h), k)
                      ELSE Effect(event(h), k) <= 0

DraftInv == \A h \in Handler : DraftEnough(h)

TotalInv == Numbers /\ LockInv /\ DraftInv /\ NeverUnderreported

LEMMA AmountType ==
  ASSUME NEW p \in Posting, NEW k \in Key
  PROVE  Amount0(p, k) \in Nat
  BY PostingsAssumption DEF Amount0, Entry

LEMMA EffectType ==
  ASSUME NEW e \in Event, NEW k \in Key
  PROVE  /\ Effect(e, k) = Amount0(e.next, k) - Amount0(e.prev, k)
         /\ Amount0(e.next, k) \in Nat /\ Amount0(e.prev, k) \in Nat
         /\ Effect(e, k) \in Int
<1>1. e.next \in Posting /\ e.prev \in Posting
  BY DEF Event
<1>2. Amount0(e.next, k) \in Nat /\ Amount0(e.prev, k) \in Nat
  BY <1>1, AmountType
<1> QED
  BY <1>2 DEF Effect

\* What a book adds up to is at least what each of its transactions contributes.
LEMMA BookTotals ==
  ASSUME NEW b \in [Tx -> Posting], NEW k \in Key
  PROVE  /\ BookTotal(b, k) \in Nat
         /\ \A t \in Tx : BookTotal(b, k) >= Amount0(b[t], k)
         /\ (\A t \in Tx : Amount0(b[t], k) = 0) => BookTotal(b, k) = 0
<1> DEFINE f == [t \in Tx |-> Amount0(b[t], k)]
<1>1. BookTotal(b, k) = SumOver(f, Tx) /\ IsFiniteSet(Tx)
  BY ReportAssumption DEF BookTotal
<1>2. \A t \in Tx : f[t] = Amount0(b[t], k) /\ f[t] \in Nat
  BY AmountType
<1> HIDE DEF f
<1>3. SumOver(f, Tx) \in Nat
  BY <1>1, <1>2, SumNatural DEF Natural
<1>4. \A t \in Tx : SumOver(f, Tx) >= f[t]
  BY <1>1, <1>2, SumAtLeast DEF Natural
<1>5. (\A t \in Tx : f[t] = 0) => SumOver(f, Tx) = 0
  BY <1>1, SumZero
<1> QED
  BY <1>1, <1>2, <1>3, <1>4, <1>5

LEMMA BookChange ==
  ASSUME NEW b \in [Tx -> Posting], NEW t \in Tx, NEW p \in Posting, NEW k \in Key
  PROVE  BookTotal([b EXCEPT ![t] = p], k)
           = BookTotal(b, k) + (Amount0(p, k) - Amount0(b[t], k))
<1> DEFINE c == [b EXCEPT ![t] = p]
           f == [u \in Tx |-> Amount0(b[u], k)]
           g == [u \in Tx |-> Amount0(c[u], k)]
<1>1. /\ BookTotal(b, k) = SumOver(f, Tx) /\ BookTotal(c, k) = SumOver(g, Tx)
      /\ IsFiniteSet(Tx)
  BY ReportAssumption DEF BookTotal
<1>2. /\ Integral(f, Tx) /\ Integral(g, Tx) /\ \A u \in Tx : u # t => f[u] = g[u]
      /\ f[t] = Amount0(b[t], k) /\ g[t] = Amount0(p, k)
  BY AmountType DEF Integral
<1> HIDE DEF f, g
<1> QED
  BY <1>1, <1>2, SumChange

LEMMA TotalInit == Init => TotalInv
<1> SUFFICES ASSUME Init PROVE TotalInv
  OBVIOUS
<1>1. Numbers
  <2>1. book \in [Tx -> Posting]
    BY DEF Init, Posting
  <2>2. \A k \in Key : Booked(k) \in Nat
    BY <2>1, BookTotals DEF Booked
  <2> QED
    BY <2>2 DEF Init, Numbers, ZeroTotals
<1>2. LockInv /\ DraftInv
  BY DEF Init, LockInv, DraftInv, DraftEnough, LockedByOther
<1>3. NeverUnderreported
  BY <1>1 DEF Init, NeverUnderreported, Numbers
<1> QED
  BY <1>1, <1>2, <1>3 DEF TotalInv

\* The event of a handler is the same as long as it works on it.
LEMMA SameEvent ==
  ASSUME IInv, [Next]_vars, NEW h \in Handler, pc[h] # "free", msg'[h] = msg[h]
  PROVE  event(h)' = event(h)
<1>1. LogGrows
  BY QueueSteps, QueueInvStep DEF IInv
<1>2. msg[h] \in 1..Len(log)
  BY HandledEvent
<1> QED
  BY <1>1, <1>2 DEF LogGrows, event

\* What does not touch rows, locks and transactions under way.
LEMMA TotalStill ==
  ASSUME IInv, TotalInv, [Next]_vars,
         UNCHANGED <<total, net, draft, held>>,
         \A h \in Handler : pc'[h] \in {"add", "commit"} => pc[h] = pc'[h] /\ msg'[h] = msg[h],
         \A h \in Handler : pc'[h] \notin {"add", "commit"} => held[h] = {}
  PROVE  TotalInv'
<1>1. \A h \in Handler : pc'[h] \in {"add", "commit"} => event(h)' = event(h)
  BY SameEvent
<1>2. Numbers' /\ LockInv' /\ NeverUnderreported'
  BY DEF TotalInv, Numbers, LockInv, LockedByOther, Others, NeverUnderreported
<1>3. DraftInv'
  BY <1>1 DEF TotalInv, DraftInv, DraftEnough, Effect, Amount0
<1> QED
  BY <1>2, <1>3 DEF TotalInv

\* A transaction ends and leaves nothing behind.
LEMMA TotalEnd ==
  ASSUME IInv, TotalInv, NEW h \in Handler, EndTransaction(h), Goto(h, "free"),
         UNCHANGED <<log, total, net>>,
         \A g \in Handler \ {h} : msg'[g] = msg[g]
  PROVE  TotalInv'
<1> USE DEF TotalInv
<1>1. /\ held' = [held EXCEPT ![h] = {}]
      /\ draft' = [draft EXCEPT ![h] = ZeroTotals]
      /\ pc' = [pc EXCEPT ![h] = "free"]
      /\ held \in [Handler -> SUBSET Key] /\ pc \in [Handler -> Step]
  BY DEF EndTransaction, Goto, IInv, ControlTypes
<1>2. Numbers' /\ NeverUnderreported'
  BY <1>1 DEF Numbers, NeverUnderreported, ZeroTotals
<1>3. LockInv'
  BY <1>1 DEF LockInv, LockedByOther, Others
<1>4. DraftInv'
  BY <1>1 DEF DraftInv, DraftEnough, event, Effect, Amount0, Numbers
<1> QED
  BY <1>2, <1>3, <1>4

\* The effect of Write on the locks, and on the draft of the row.
LEMMA WriteKeeps ==
  ASSUME IInv, TotalInv, NEW h \in Handler, NEW k \in Key, NEW n \in Nat,
         Write(h, k, n), ~LockedByOther(h, k),
         NEW step \in {"add", "commit"}, Goto(h, step),
         UNCHANGED <<total, net>>
  PROVE  /\ Numbers' /\ LockInv' /\ NeverUnderreported'
         /\ held' = [held EXCEPT ![h] = @ \cup {k}]
         /\ \A j \in Key : draft'[h][j] = IF j = k THEN n ELSE draft[h][j]
         /\ \A g \in Handler \ {h} : draft'[g] = draft[g] /\ held'[g] = held[g] /\ pc'[g] = pc[g]
<1>0. /\ held \in [Handler -> SUBSET Key] /\ pc \in [Handler -> Step]
      /\ draft \in [Handler -> [Key -> Nat]]
  BY DEF IInv, ControlTypes, TotalInv, Numbers
<1>1. /\ held' = [held EXCEPT ![h] = @ \cup {k}]
      /\ draft' = [draft EXCEPT ![h][k] = n]
      /\ pc' = [pc EXCEPT ![h] = step]
  BY DEF Write, Goto
<1>2. Numbers' /\ NeverUnderreported'
  BY <1>0, <1>1 DEF TotalInv, Numbers, NeverUnderreported
<1>3. LockInv'
  BY <1>0, <1>1 DEF TotalInv, LockInv, LockedByOther, Others
<1> QED
  BY <1>0, <1>1, <1>2, <1>3

LEMMA OthersKeepDrafts ==
  ASSUME IInv, TotalInv, [Next]_vars, NEW g \in Handler,
         UNCHANGED <<msg, total>>,
         draft'[g] = draft[g], held'[g] = held[g], pc'[g] = pc[g]
  PROVE  DraftEnough(g)'
<1>1. pc[g] # "free" => event(g)' = event(g)
  BY SameEvent
<1>2. DraftEnough(g)
  BY DEF TotalInv, DraftInv
<1> QED
  BY <1>1, <1>2 DEF DraftEnough, Effect, Amount0

LEMMA TotalSubtract ==
  ASSUME IInv, TotalInv, [Next]_vars, NEW h \in Handler, SubtractFromSnapshot(h)
  PROVE  TotalInv'
<1> DEFINE e == event(h)  p == e.prev  n == SubtractFromTotal(total, p)[p.key]
           step == AfterSubtract(h)
<1>1. /\ pc[h] = "subtract" /\ Goto(h, step)
      /\ step = "add" \/ (step = "commit" /\ e.next \notin Entry)
      /\ UNCHANGED <<msg, total, net>>
      /\ \/ ~LockedByOther(h, p.key) /\ Write(h, p.key, n)
         \/ UNCHANGED <<held, draft>>
  BY DEF SubtractFromSnapshot, AfterSubtract, rowVars, queueVars
<1>2. e \in Event /\ p \in Entry /\ event(h)' = e
  BY <1>1, HandledEvent, SameEvent DEF IInv, ControlInv, event
<1>3. p.key \in Key /\ p.amount \in Nat
  BY <1>2, PostingsAssumption DEF Entry
<1>4. /\ pc' = [pc EXCEPT ![h] = step] /\ pc \in [Handler -> Step] /\ total \in [Key -> Nat]
      /\ held \in [Handler -> SUBSET Key] /\ held[h] = {}
  BY <1>1 DEF Goto, IInv, ControlTypes, TotalInv, Numbers, LockInv
<1>5. ASSUME NEW k \in Key
      PROVE  /\ Amount0(p, k) = IF p.key = k THEN p.amount ELSE 0
             /\ step = "commit" => Effect(e, k) = 0 - Amount0(p, k)
  BY <1>1, <1>2, <1>3 DEF Effect, Amount0
<1>6. n \in Nat /\ n >= total[p.key] - p.amount
  BY <1>2, <1>3, <1>4 DEF SubtractFromTotal
<1> HIDE DEF n, p, e, step
<1>7. CASE ~LockedByOther(h, p.key) /\ Write(h, p.key, n)
  <2>1. /\ Numbers' /\ LockInv' /\ NeverUnderreported'
        /\ held' = [held EXCEPT ![h] = @ \cup {p.key}]
        /\ \A j \in Key : draft'[h][j] = IF j = p.key THEN n ELSE draft[h][j]
        /\ \A g \in Handler \ {h} : draft'[g] = draft[g] /\ held'[g] = held[g] /\ pc'[g] = pc[g]
    BY <1>1, <1>3, <1>6, <1>7, WriteKeeps
  <2>2. \A g \in Handler \ {h} : DraftEnough(g)'
    BY <1>1, <2>1, OthersKeepDrafts
  <2>3. DraftEnough(h)'
    <3>1. /\ pc'[h] = step /\ held'[h] = {p.key}
          /\ draft'[h][p.key] = n /\ event(h)' = e
      BY <1>2, <1>3, <1>4, <2>1
    <3>2. \A k \in Key : k # p.key /\ step = "commit" => Effect(e, k) = 0
      BY <1>3, <1>5
    <3>3. /\ n >= total[p.key] - Amount0(p, p.key)
          /\ step = "commit" => n >= total[p.key] + Effect(e, p.key)
      BY <1>3, <1>4, <1>5, <1>6
    <3> QED
      BY <1>1, <3>1, <3>2, <3>3 DEF DraftEnough, Effect, Amount0, p
  <2> QED BY <2>1, <2>2, <2>3 DEF TotalInv, DraftInv
<1>8. CASE UNCHANGED <<held, draft>>
  <2>1. Numbers' /\ NeverUnderreported' /\ LockInv'
    BY <1>1, <1>4, <1>8 DEF TotalInv, Numbers, NeverUnderreported, LockInv, LockedByOther, Others
  <2>2. \A g \in Handler \ {h} : DraftEnough(g)'
    BY <1>1, <1>4, <1>8, OthersKeepDrafts
  <2>3. DraftEnough(h)'
    <3>1. \A k \in Key : step = "commit" => Effect(e, k) <= 0
      BY <1>3, <1>5
    <3> QED
      BY <1>1, <1>2, <1>4, <1>8, <3>1 DEF DraftEnough, Effect, Amount0
  <2> QED BY <2>1, <2>2, <2>3 DEF TotalInv, DraftInv
<1> QED
  BY <1>1, <1>7, <1>8

LEMMA TotalAdd ==
  ASSUME IInv, TotalInv, [Next]_vars, NEW h \in Handler, AddToSnapshot(h), ~EndByException(h)
  PROVE  TotalInv'
<1> DEFINE e == event(h)  p == e.next  n == Current(h, p.key) + p.amount
<1>1. /\ pc[h] = "add" /\ Goto(h, "commit")
      /\ UNCHANGED <<msg, total, net>>
      /\ ~LockedByOther(h, p.key) /\ Write(h, p.key, n)
  BY DEF AddToSnapshot, rowVars, queueVars, ghostVars
<1>2. e \in Event /\ p \in Entry /\ event(h)' = e
  BY <1>1, HandledEvent, SameEvent DEF IInv, ControlInv, event
<1>3. p.key \in Key /\ p.amount \in Nat
  BY <1>2, PostingsAssumption DEF Entry
<1>4. /\ pc' = [pc EXCEPT ![h] = "commit"] /\ pc \in [Handler -> Step]
      /\ total \in [Key -> Nat] /\ draft[h] \in [Key -> Nat] /\ held \in [Handler -> SUBSET Key]
  BY <1>1 DEF Goto, IInv, ControlTypes, TotalInv, Numbers
<1>5. ASSUME NEW k \in Key
      PROVE  /\ Amount0(e.prev, k) \in Nat
             /\ Effect(e, k) = (IF p.key = k THEN p.amount ELSE 0) - Amount0(e.prev, k)
             /\ k \in held[h] => draft[h][k] >= total[k] - Amount0(e.prev, k)
  BY <1>1, <1>2, <1>3, EffectType DEF Amount0, Effect, TotalInv, DraftInv, DraftEnough
<1>6. n \in Nat /\ n = (IF p.key \in held[h] THEN draft[h][p.key] ELSE total[p.key]) + p.amount
  BY <1>3, <1>4 DEF Current
<1> HIDE DEF n, p, e
<1>7. /\ Numbers' /\ LockInv' /\ NeverUnderreported'
      /\ held' = [held EXCEPT ![h] = @ \cup {p.key}]
      /\ \A j \in Key : draft'[h][j] = IF j = p.key THEN n ELSE draft[h][j]
      /\ \A g \in Handler \ {h} : draft'[g] = draft[g] /\ held'[g] = held[g] /\ pc'[g] = pc[g]
  BY <1>1, <1>3, <1>6, WriteKeeps
<1>8. \A g \in Handler \ {h} : DraftEnough(g)'
  BY <1>1, <1>7, OthersKeepDrafts
<1>9. DraftEnough(h)'
  <2>1. /\ pc'[h] = "commit" /\ held'[h] = held[h] \cup {p.key} /\ event(h)' = e
    BY <1>2, <1>4, <1>7
  <2>2. ASSUME NEW k \in Key
        PROVE  IF k \in held'[h] THEN draft'[h][k] >= total[k] + Effect(e, k) ELSE Effect(e, k) <= 0
    <3>1. CASE k = p.key
      BY <1>3, <1>4, <1>5, <1>6, <1>7, <2>1, <3>1
    <3>2. CASE k # p.key
      BY <1>3, <1>4, <1>5, <1>7, <2>1, <3>2
    <3> QED BY <3>1, <3>2
  <2> QED
    BY <1>1, <2>1, <2>2 DEF DraftEnough, Effect, Amount0
<1> QED
  BY <1>7, <1>8, <1>9 DEF TotalInv, DraftInv

\* The drafts become the totals: enough of them, and of rows nobody else holds.
LEMMA TotalCommit ==
  ASSUME IInv, TotalInv, [Next]_vars, NEW h \in Handler, Commit(h)
  PROVE  TotalInv'
<1> DEFINE e == event(h)
<1>1. /\ pc[h] = "commit" /\ pc' = [pc EXCEPT ![h] = "ack"] /\ UNCHANGED msg
      /\ total' = [k \in Key |-> IF k \in held[h] THEN draft[h][k] ELSE total[k]]
      /\ net' = [k \in Key |-> net[k] + Effect(e, k)]
      /\ held' = [held EXCEPT ![h] = {}]
      /\ draft' = [draft EXCEPT ![h] = ZeroTotals]
  BY DEF Commit, EndTransaction, Goto, queueVars
<1>2. /\ e \in Event
      /\ held \in [Handler -> SUBSET Key] /\ pc \in [Handler -> Step]
      /\ total \in [Key -> Nat] /\ net \in [Key -> Int] /\ draft \in [Handler -> [Key -> Nat]]
  BY <1>1, HandledEvent DEF IInv, ControlTypes, TotalInv, Numbers
<1>3. ASSUME NEW k \in Key
      PROVE  /\ Effect(e, k) \in Int /\ total[k] >= net[k]
             /\ IF k \in held[h] THEN draft[h][k] >= total[k] + Effect(e, k) ELSE Effect(e, k) <= 0
  BY <1>1, <1>2, EffectType DEF TotalInv, NeverUnderreported, DraftInv, DraftEnough
<1> HIDE DEF e
<1>4. Numbers'
  BY <1>1, <1>2, <1>3 DEF Numbers, ZeroTotals
<1>5. NeverUnderreported'
  <2> SUFFICES ASSUME NEW k \in Key PROVE total'[k] >= net'[k]
    BY DEF NeverUnderreported
  <2>1. total[k] \in Nat /\ net[k] \in Int /\ draft[h][k] \in Nat
    BY <1>2
  <2> QED
    BY <1>1, <1>3, <2>1
<1>6. LockInv'
  BY <1>1, <1>2 DEF TotalInv, LockInv, LockedByOther, Others
<1>7. ASSUME NEW g \in Handler PROVE DraftEnough(g)'
  <2>1. CASE g = h
    BY <1>1, <1>2, <2>1 DEF DraftEnough
  <2>2. CASE g # h
    <3>1. \A k \in held[g] : total'[k] = total[k]
      BY <1>1, <1>2, <2>2 DEF TotalInv, LockInv, LockedByOther, Others
    <3>2. pc[g] # "free" => event(g)' = event(g)
      BY <1>1, SameEvent
    <3>3. DraftEnough(g) /\ pc'[g] = pc[g] /\ held'[g] = held[g] /\ draft'[g] = draft[g]
      BY <1>1, <1>2, <2>2 DEF TotalInv, DraftInv
    <3> QED
      BY <3>1, <3>2, <3>3 DEF DraftEnough, Effect, Amount0
  <2> QED BY <2>1, <2>2
<1> QED
  BY <1>4, <1>5, <1>6, <1>7 DEF TotalInv, DraftInv

\* The rows go, and what is being written is worth more than before.
LEMMA TotalDrop ==
  ASSUME IInv, TotalInv, [Next]_vars, NEW h \in Handler, DropSnapshots(h)
  PROVE  TotalInv'
<1>1. /\ pc[h] = "dropSnapshots" /\ pc' = [pc EXCEPT ![h] = "dropHistory"]
      /\ total' = ZeroTotals /\ net' = ZeroTotals
      /\ UNCHANGED <<msg, held, draft>>
  BY DEF DropSnapshots, Goto, queueVars
<1>2. /\ pc \in [Handler -> Step] /\ held \in [Handler -> SUBSET Key]
      /\ total \in [Key -> Nat] /\ draft \in [Handler -> [Key -> Nat]]
  BY DEF IInv, ControlTypes, TotalInv, Numbers
<1>3. Numbers' /\ NeverUnderreported' /\ LockInv'
  BY <1>1, <1>2 DEF TotalInv, Numbers, NeverUnderreported, LockInv, LockedByOther, Others, ZeroTotals
<1>4. ASSUME NEW g \in Handler PROVE DraftEnough(g)'
  <2>1. CASE pc[g] \notin {"add", "commit"}
    BY <1>1, <1>2, <2>1 DEF DraftEnough
  <2>2. CASE pc[g] \in {"add", "commit"}
    <3>1. /\ event(g)' = event(g) /\ event(g) \in Event /\ pc'[g] = pc[g]
      BY <1>1, <1>2, <2>2, SameEvent, HandledEvent
    <3>2. ASSUME NEW k \in Key
          PROVE  /\ Amount0(event(g).prev, k) \in Nat /\ Effect(event(g), k) \in Int
                 /\ total'[k] = 0 /\ total[k] \in Nat /\ draft[g][k] \in Nat
      BY <1>1, <1>2, <3>1, EffectType DEF ZeroTotals
    <3>3. DraftEnough(g)
      BY DEF TotalInv, DraftInv
    <3>4. \A k \in held[g] : k \in Key
      BY <1>2
    <3> QED
      BY <1>1, <3>1, <3>2, <3>3, <3>4 DEF DraftEnough, Effect, Amount0
  <2> QED BY <2>1, <2>2
<1> QED
  BY <1>3, <1>4 DEF TotalInv, DraftInv

LEMMA TotalStep == IInv /\ TotalInv /\ [Next]_vars => TotalInv'
<1> SUFFICES ASSUME IInv, TotalInv, [Next]_vars PROVE TotalInv'
  OBVIOUS
<1>0. /\ held \in [Handler -> SUBSET Key] /\ pc \in [Handler -> Step]
      /\ draft \in [Handler -> [Key -> Nat]]
      /\ \A h \in Handler : pc[h] \notin {"add", "commit"} => held[h] = {}
  BY DEF IInv, ControlTypes, TotalInv, Numbers, LockInv
<1>1. ASSUME UNCHANGED <<total, taskVars, ghostVars, msg>> PROVE TotalInv'
  BY <1>0, <1>1, TotalStill DEF taskVars, ghostVars
<1>2. ASSUME NEW h \in Handler, StartHandler(h) PROVE TotalInv'
  BY <1>0, <1>2, TotalStill DEF StartHandler, Deliver, Idle, Goto, rowVars, ghostVars, IInv, ControlInv
<1>3. ASSUME NEW h \in Handler, Claim(h) PROVE TotalInv'
  <2>1. PICK step \in {"ack", "subtract", "add"} : pc' = [pc EXCEPT ![h] = step]
    BY <1>3 DEF Claim, Goto
  <2>2. held[h] = {} /\ UNCHANGED <<msg, total, net, held, draft>>
    BY <1>0, <1>3 DEF Claim, rowVars, ghostVars, queueVars
  <2>3. Numbers' /\ LockInv' /\ NeverUnderreported'
    BY <1>0, <2>1, <2>2 DEF TotalInv, Numbers, LockInv, LockedByOther, Others, NeverUnderreported
  <2>4. \A g \in Handler \ {h} : DraftEnough(g)'
    BY <2>1, <2>2, OthersKeepDrafts
  <2>5. DraftEnough(h)'
    BY <1>0, <2>1, <2>2 DEF DraftEnough
  <2> QED BY <2>3, <2>4, <2>5 DEF TotalInv, DraftInv
<1>4. ASSUME NEW h \in Handler, DropHistory(h) \/ FinishHandler(h) PROVE TotalInv'
  <2>1. /\ pc' = [pc EXCEPT ![h] = IF DropHistory(h) THEN "ack" ELSE "free"]
        /\ pc[h] \in {"dropHistory", "ack"}
        /\ UNCHANGED <<total, net, held, draft>>
        /\ \A g \in Handler \ {h} : msg'[g] = msg[g]
    BY <1>4 DEF DropHistory, FinishHandler, Ack, Goto, rowVars, ghostVars, queueVars,
                IInv, QueueInv, QueueTypeOK
  <2> QED BY <1>0, <2>1, TotalStill
<1>5. ASSUME NEW h \in Handler, EndByException(h) PROVE TotalInv'
  <2>1. \A g \in Handler \ {h} : msg'[g] = msg[g]
    BY <1>5 DEF EndByException, Throw, IInv, QueueInv, QueueTypeOK
  <2> QED
    BY <1>5, <2>1, TotalEnd DEF EndByException, Throw, rowVars
<1>6. CASE Restart
  <2>1. /\ \A h \in Handler : held'[h] = {} /\ pc'[h] = "free"
        /\ draft' \in [Handler -> [Key -> Nat]]
        /\ UNCHANGED <<total, net>>
    BY <1>6 DEF Restart, rowVars, ghostVars, ZeroTotals
  <2> QED
    BY <2>1 DEF TotalInv, Numbers, LockInv, LockedByOther, DraftInv, DraftEnough, NeverUnderreported
<1>7. ASSUME NEW t \in Tx, ChangeTransaction(t) PROVE TotalInv'
  <2>1. UNCHANGED <<total, taskVars, ghostVars, msg>>
    BY <1>7, ChangePublishes DEF Publish, rowVars
  <2> QED BY <1>1, <2>1
<1>8. CASE DeleteHousehold \/ LoseChannel \/ CleanProcessedEventIds \/ UNCHANGED vars
  <2>1. UNCHANGED <<total, taskVars, ghostVars, msg>>
    BY <1>8 DEF DeleteHousehold, Publish, LoseChannel, DropChannel, CleanProcessedEventIds, vars,
                rowVars, queueVars
  <2> QED BY <1>1, <2>1
<1> QED
  BY <1>2, <1>3, <1>4, <1>5, <1>6, <1>7, <1>8, TotalSubtract, TotalAdd, TotalCommit, TotalDrop
  DEF Next, Producer, Consumer, DeadlockVictim, Failure

\* Transactions of the database that overlap lose none of each other's writes: a
\* total is never below what the committed events add up to.
THEOREM NoLostWrites == Spec => []NeverUnderreported
<1>1. TotalInv => NeverUnderreported
  BY DEF TotalInv
<1> QED
  BY <1>1, InvInit, InvStep, TotalInit, TotalStep, PTL DEF Spec

\* The types that are left.
RestTypes == rows \subseteq Key /\ late \subseteq MessageId /\ aborted \subseteq MessageId

LEMMA RestStep == IInv /\ RestTypes /\ [Next]_vars => RestTypes'
<1> SUFFICES ASSUME IInv, RestTypes, [Next]_vars PROVE RestTypes'
  OBVIOUS
<1> USE DEF RestTypes
<1>1. \A h \in Handler : pc[h] # "free" => msg[h] \in MessageId
  BY HandledEvent
<1>2. \A h \in Handler : held[h] \subseteq Key
  BY DEF IInv, ControlTypes
<1>3. ASSUME NEW h \in Handler, SubtractFromSnapshot(h) PROVE RestTypes'
  BY <1>1, <1>3 DEF SubtractFromSnapshot, rowVars
<1>4. ASSUME NEW h \in Handler, EndByException(h), pc[h] # "free" PROVE RestTypes'
  BY <1>1, <1>4 DEF EndByException, rowVars
<1>5. ASSUME NEW h \in Handler, AddToSnapshot(h) PROVE RestTypes'
  BY <1>4, <1>5 DEF AddToSnapshot, rowVars, ghostVars
<1>6. ASSUME NEW h \in Handler, DeadlockVictim(h) PROVE RestTypes'
  <2>1. pc[h] # "free"
    BY <1>6 DEF DeadlockVictim, WaitsFor
  <2> QED BY <1>4, <1>6, <2>1 DEF DeadlockVictim
<1>7. ASSUME NEW h \in Handler, Commit(h) PROVE RestTypes'
  BY <1>2, <1>7 DEF Commit
<1>8. ASSUME NEW h \in Handler, DropSnapshots(h) PROVE RestTypes'
  BY <1>8 DEF DropSnapshots
<1>9. ASSUME NEW h \in Handler, StartHandler(h) \/ Claim(h) \/ DropHistory(h) \/ FinishHandler(h)
      PROVE RestTypes'
  BY <1>9 DEF StartHandler, Claim, DropHistory, FinishHandler, rowVars, ghostVars
<1>10. CASE Producer \/ CleanProcessedEventIds \/ Failure \/ UNCHANGED vars
  BY <1>10 DEF Producer, DeleteHousehold, ChangeTransaction, PublishChange, CleanProcessedEventIds,
    Failure, Restart, LoseChannel, rowVars, ghostVars, vars
<1> QED
  BY <1>3, <1>5, <1>6, <1>7, <1>8, <1>9, <1>10 DEF Next, Consumer

\* Every variable of report-service stays in its type.
THEOREM TypeCorrect == Spec => []TypeOK
<1>1. IInv /\ TotalInv /\ RestTypes => TypeOK
  BY DEF IInv, QueueInv, ControlTypes, TotalInv, Numbers, RestTypes, TypeOK
<1>2. Init => RestTypes
  BY DEF Init, RestTypes, Entry, Key
<1> QED
  BY <1>1, <1>2, RestStep, InvInit, InvStep, TotalInit, TotalStep, PTL DEF Spec

-----------------------------------------------------------------------------
(***************************************************************************)
(* The events account for the transactions: what the transactions add up   *)
(* to is what the committed events add up to and those which are not       *)
(* committed yet.  And before an event was published they added up to at   *)
(* least what it undoes.                                                   *)
(***************************************************************************)
Outstanding(k) ==
  [i \in MessageId |->
     IF i \in 1..Len(log) /\ applied[i] = 0 THEN Effect(log[i], k) ELSE 0]

Since(i, k) ==
  [j \in MessageId |-> IF j \in 1..Len(log) /\ j >= i THEN Effect(log[j], k) ELSE 0]

BookedInv ==
  /\ \A i \in MessageId : i \notin 1..Len(log) => applied[i] = 0
  /\ HouseholdAlive =>
       \A k \in Key : Booked(k) = net[k] + SumOver(Outstanding(k), MessageId)

BeforeInv ==
  \A i \in 1..Len(log), k \in Key :
    Booked(k) - SumOver(Since(i, k), MessageId) >= Amount0(log[i].prev, k)

BookInv == BookedInv /\ BeforeInv

LEMMA EventSums ==
  ASSUME IInv, NEW k \in Key
  PROVE  /\ IsFiniteSet(MessageId) /\ Integral(Outstanding(k), MessageId)
         /\ SumOver(Outstanding(k), MessageId) \in Int
         /\ \A i : /\ Integral(Since(i, k), MessageId)
                  /\ SumOver(Since(i, k), MessageId) \in Int
<1>1. IsFiniteSet(MessageId)
  BY FS_Interval, BoundsAssumption DEF MessageId
<1>2. \A j \in 1..Len(log) : Effect(log[j], k) \in Int
  BY EventType, EffectType
<1>3. Integral(Outstanding(k), MessageId) /\ \A i : Integral(Since(i, k), MessageId)
  BY <1>2 DEF Integral, Outstanding, Since
<1> QED
  BY <1>1, <1>3, SumType

\* Nothing is published and nothing committed.
LEMMA BookStill ==
  ASSUME BookInv, UNCHANGED <<book, log, applied, net>>
  PROVE  BookInv'
<1>1. \A k \in Key : /\ Booked(k)' = Booked(k) /\ Outstanding(k)' = Outstanding(k)
                     /\ \A i : Since(i, k)' = Since(i, k)
  BY DEF Booked, Outstanding, Since
<1>2. HouseholdAlive' <=> HouseholdAlive
  BY DEF HouseholdAlive
<1> QED
  BY <1>1, <1>2 DEF BookInv, BookedInv, BeforeInv

LEMMA BookPublish ==
  ASSUME IInv, BookInv, NEW m \in Message, Publish(m), UNCHANGED <<applied, net>>,
         net \in [Key -> Int],
         \A k \in Key : /\ Booked(k) \in Int /\ Booked(k)' = Booked(k) + Effect(m, k)
                        /\ Booked(k) >= Amount0(m.prev, k)
  PROVE  BookInv'
<1> DEFINE n == Len(log) + 1
<1>1. /\ n \in MessageId /\ n \notin 1..Len(log) /\ Len(log) \in Nat
      /\ 1..Len(log') = (1..Len(log)) \cup {n}
      /\ log'[n] = m /\ \A i \in 1..Len(log) : log'[i] = log[i]
  BY BoundsAssumption DEF Publish, MessageId, IInv, QueueInv, QueueTypeOK
<1>2. applied[n] = 0
  BY <1>1 DEF BookInv, BookedInv
<1>3. ASSUME NEW k \in Key
      PROVE  Effect(m, k) \in Int /\ Amount0(m.prev, k) \in Nat
  BY ReportAssumption, EffectType
<1> HIDE DEF n
<1>4. ASSUME NEW k \in Key, NEW f, NEW g, Integral(f, MessageId),
             g[n] = Effect(m, k), f[n] = 0, \A i \in MessageId : i # n => g[i] = f[i]
      PROVE  SumOver(g, MessageId) = SumOver(f, MessageId) + Effect(m, k)
  <2>1. Integral(g, MessageId) /\ IsFiniteSet(MessageId)
    BY <1>1, <1>3, <1>4, EventSums DEF Integral
  <2>2. SumOver(g, MessageId) = SumOver(f, MessageId) + (g[n] - f[n])
    BY <1>1, <1>4, <2>1, SumChange
  <2> QED
    BY <1>3, <1>4, <2>2
<1>5. BookedInv'
  <2>1. \A i \in MessageId : i \notin 1..Len(log') => applied'[i] = 0
    BY <1>1 DEF BookInv, BookedInv
  <2>2. ASSUME HouseholdAlive', NEW k \in Key
        PROVE  Booked(k)' = net'[k] + SumOver(Outstanding(k)', MessageId)
    <3>1. HouseholdAlive
      BY <1>1, <2>2 DEF HouseholdAlive, IInv, QueueInv, QueueTypeOK
    <3>2. Booked(k) = net[k] + SumOver(Outstanding(k), MessageId)
      BY <3>1 DEF BookInv, BookedInv
    <3>3. /\ Outstanding(k)'[n] = Effect(m, k) /\ Outstanding(k)[n] = 0
          /\ \A i \in MessageId : i # n => Outstanding(k)'[i] = Outstanding(k)[i]
      BY <1>1, <1>2 DEF Outstanding, Effect, Amount0
    <3>4. SumOver(Outstanding(k)', MessageId)
            = SumOver(Outstanding(k), MessageId) + Effect(m, k)
      BY <1>4, <3>3, EventSums
    <3>5. SumOver(Outstanding(k), MessageId) \in Int /\ net[k] \in Int
      BY EventSums
    <3> QED
      BY <1>3, <3>2, <3>4, <3>5
  <2> QED
    BY <2>1, <2>2 DEF BookedInv, MessageId
<1>6. BeforeInv'
  <2> SUFFICES ASSUME NEW i \in 1..Len(log'), NEW k \in Key
               PROVE  Booked(k)' - SumOver(Since(i, k)', MessageId) >= Amount0(log'[i].prev, k)
    BY DEF BeforeInv, MessageId, Amount0
  <2>1. CASE i = n
    <3>1. /\ Since(i, k)'[n] = Effect(m, k)
          /\ \A j \in MessageId : j # n => Since(i, k)'[j] = 0
      BY <1>1, <2>1 DEF Since, Effect, Amount0, n, MessageId
    <3>2. SumOver(Since(i, k)', MessageId) = Effect(m, k)
      BY <1>1, <1>3, <3>1, SumOfOne, EventSums
    <3> QED
      BY <1>1, <1>3, <2>1, <3>2
  <2>2. CASE i # n
    <3>1. i \in 1..Len(log) /\ i < n
      BY <1>1, <2>2 DEF n
    <3>2. Booked(k) - SumOver(Since(i, k), MessageId) >= Amount0(log[i].prev, k)
      BY <3>1 DEF BookInv, BeforeInv
    <3>3. /\ Since(i, k)'[n] = Effect(m, k) /\ Since(i, k)[n] = 0
          /\ \A j \in MessageId : j # n => Since(i, k)'[j] = Since(i, k)[j]
      BY <1>1, <3>1 DEF Since, Effect, Amount0, n, MessageId
    <3>4. SumOver(Since(i, k)', MessageId) = SumOver(Since(i, k), MessageId) + Effect(m, k)
      BY <1>4, <3>3, EventSums
    <3>5. SumOver(Since(i, k), MessageId) \in Int /\ log'[i] = log[i]
          /\ Amount0(log[i].prev, k) \in Nat
      BY <1>1, <3>1, EventSums, EventType, EffectType
    <3> QED
      BY <1>3, <3>2, <3>4, <3>5
  <2> QED
    BY <2>1, <2>2
<1> QED
  BY <1>5, <1>6 DEF BookInv

LEMMA BookCommit ==
  ASSUME IInv, BookInv, net \in [Key -> Int], NEW h \in Handler, Commit(h)
  PROVE  BookInv'
<1> DEFINE n == msg[h]  e == event(h)
<1>1. /\ n \in 1..Len(log) /\ n \in MessageId /\ e = log[n] /\ e \in Event
      /\ applied[n] = 0 /\ applied \in [MessageId -> Nat]
      /\ applied' = [applied EXCEPT ![n] = @ + 1]
      /\ net' = [k \in Key |-> net[k] + Effect(e, k)]
      /\ UNCHANGED <<book, log>>
  BY HandledEvent DEF Commit, IInv, ControlInv, ControlTypes, InTransaction, event, queueVars
<1> HIDE DEF n, e
<1>2. applied'[n] = 1 /\ \A i \in MessageId : i # n => applied'[i] = applied[i]
  BY <1>1
<1>3. BookedInv'
  <2>1. \A i \in MessageId : i \notin 1..Len(log') => applied'[i] = 0
    BY <1>1, <1>2 DEF BookInv, BookedInv
  <2>2. ASSUME HouseholdAlive', NEW k \in Key
        PROVE  Booked(k)' = net'[k] + SumOver(Outstanding(k)', MessageId)
    <3>1. Booked(k) = net[k] + SumOver(Outstanding(k), MessageId)
      BY <1>1, <2>2 DEF BookInv, BookedInv, HouseholdAlive
    <3>2. Effect(e, k) \in Int /\ net'[k] = net[k] + Effect(e, k) /\ net[k] \in Int
      BY <1>1, EffectType
    <3>3. /\ Outstanding(k)'[n] = 0 /\ Outstanding(k)[n] = Effect(e, k)
          /\ \A i \in MessageId : i # n => Outstanding(k)'[i] = Outstanding(k)[i]
      BY <1>1, <1>2 DEF Outstanding
    <3>4. Integral(Outstanding(k)', MessageId)
      BY <3>3, EventSums DEF Integral
    <3>5. SumOver(Outstanding(k)', MessageId)
            = SumOver(Outstanding(k), MessageId) + (0 - Effect(e, k))
      <4> DEFINE f == Outstanding(k)  g == Outstanding(k)'
      <4>1. /\ IsFiniteSet(MessageId) /\ n \in MessageId
            /\ Integral(f, MessageId) /\ Integral(g, MessageId)
            /\ \A i \in MessageId : i # n => f[i] = g[i]
            /\ g[n] = 0 /\ f[n] = Effect(e, k)
        BY <1>1, <3>3, <3>4, EventSums
      <4> HIDE DEF f, g
      <4>2. SumOver(g, MessageId) = SumOver(f, MessageId) + (g[n] - f[n])
        BY <4>1, SumChange
      <4> QED
        BY <4>1, <4>2 DEF f, g
    <3>6. SumOver(Outstanding(k), MessageId) \in Int /\ Booked(k)' = Booked(k)
      BY <1>1, EventSums DEF Booked
    <3> QED
      BY <3>1, <3>2, <3>5, <3>6
  <2> QED
    BY <2>1, <2>2 DEF BookedInv, MessageId
<1>4. BeforeInv'
  <2>1. \A k \in Key : Booked(k)' = Booked(k) /\ \A i : Since(i, k)' = Since(i, k)
    BY <1>1 DEF Booked, Since
  <2> QED
    BY <1>1, <2>1 DEF BookInv, BeforeInv
<1> QED
  BY <1>3, <1>4 DEF BookInv

LEMMA BookInit == Init => BookInv
<1> SUFFICES ASSUME Init PROVE BookInv
  OBVIOUS
<1>1. /\ log = <<>> /\ applied = [i \in MessageId |-> 0] /\ IsFiniteSet(MessageId)
      /\ \A k \in Key : Booked(k) = net[k]
  BY FS_Interval, BoundsAssumption DEF Init, QueueInit, MessageId
<1>2. ASSUME NEW k \in Key PROVE Booked(k) = net[k] + SumOver(Outstanding(k), MessageId)
  <2>1. SumOver(Outstanding(k), MessageId) = 0
    BY <1>1, SumZero DEF Outstanding
  <2>2. Booked(k) \in Nat
    BY BookTotals DEF Init, Posting, Booked
  <2> QED
    BY <1>1, <2>1, <2>2
<1> QED
  BY <1>1, <1>2 DEF BookInv, BookedInv, BeforeInv

LEMMA BookStep == IInv /\ TotalInv /\ BookInv /\ [Next]_vars => BookInv'
<1> SUFFICES ASSUME IInv, TotalInv, BookInv, [Next]_vars PROVE BookInv'
  OBVIOUS
<1> USE DEF rowVars, taskVars, ghostVars, queueVars
<1>0. /\ net \in [Key -> Int] /\ book \in [Tx -> Posting]
      /\ \A k \in Key : Booked(k) \in Nat /\ \A t \in Tx : Booked(k) >= Amount0(book[t], k)
  <2>1. net \in [Key -> Int] /\ book \in [Tx -> Posting]
    BY DEF TotalInv, Numbers, IInv, ControlTypes, Posting
  <2> QED
    BY <2>1, BookTotals DEF Booked
<1>1. ASSUME NEW t \in Tx, ChangeTransaction(t) PROVE BookInv'
  <2>1. PICK kind \in {"created", "updated", "deleted"}, p \in Entry \cup {Absent} :
          PublishChange(t, kind, p)
    BY <1>1 DEF ChangeTransaction
  <2> DEFINE m == [kind |-> kind, prev |-> book[t], next |-> p]
  <2>2. /\ m \in Message /\ Publish(m) /\ UNCHANGED <<applied, net>>
        /\ m.prev = book[t] /\ m.next = p /\ p \in Posting /\ book[t] \in Posting
        /\ book' = [book EXCEPT ![t] = p]
    BY <1>0, <2>1, ReportAssumption DEF PublishChange, Posting, Event
  <2> HIDE DEF m
  <2>3. ASSUME NEW k \in Key PROVE Booked(k)' = Booked(k) + Effect(m, k)
    <3>1. BookTotal(book', k) = BookTotal(book, k) + (Amount0(p, k) - Amount0(book[t], k))
      BY <1>0, <2>2, BookChange
    <3> QED
      BY <2>2, <3>1 DEF Booked, Effect
  <2> QED
    BY <1>0, <2>2, <2>3, BookPublish
<1>2. CASE DeleteHousehold
  <2> DEFINE m == [kind |-> "householdDeleted", prev |-> Absent, next |-> Absent]
  <2>1. /\ m \in Message /\ Publish(m) /\ UNCHANGED <<book, applied, net>>
        /\ m.prev = Absent /\ m.next = Absent
    BY <1>2, ReportAssumption DEF DeleteHousehold, Posting, Event
  <2> HIDE DEF m
  <2>2. \A k \in Key : Amount0(m.prev, k) = 0 /\ Effect(m, k) = 0
    BY <2>1, PostingsAssumption DEF Amount0, Effect
  <2>3. \A k \in Key : Booked(k)' = Booked(k)
    BY <2>1 DEF Booked
  <2>4. \A k \in Key : /\ Booked(k) \in Int /\ Booked(k)' = Booked(k) + Effect(m, k)
                       /\ Booked(k) >= Amount0(m.prev, k)
    BY <1>0, <2>2, <2>3
  <2> QED
    BY <1>0, <2>1, <2>4, BookPublish
<1>3. ASSUME NEW h \in Handler, Commit(h) PROVE BookInv'
  BY <1>0, <1>3, BookCommit
<1>4. ASSUME NEW h \in Handler, DropSnapshots(h) PROVE BookInv'
  <2>1. /\ msg[h] \in 1..Len(log) /\ log[msg[h]].kind = "householdDeleted"
        /\ UNCHANGED <<book, log, applied>>
    BY <1>4, HandledEvent DEF DropSnapshots, IInv, ControlInv
  <2>2. ~HouseholdAlive'
    BY <2>1 DEF HouseholdAlive, IInv, QueueInv, QueueTypeOK
  <2>3. \A k \in Key : Booked(k)' = Booked(k) /\ \A i : Since(i, k)' = Since(i, k)
    BY <2>1 DEF Booked, Since
  <2> QED
    BY <2>1, <2>2, <2>3 DEF BookInv, BookedInv, BeforeInv
<1>5. ASSUME NEW h \in Handler, Consumer(h), ~Commit(h), ~DropSnapshots(h) PROVE BookInv'
  <2>1. UNCHANGED <<book, log, applied, net>>
    BY <1>5 DEF Consumer, StartHandler, Deliver, Claim, SubtractFromSnapshot, AddToSnapshot,
      DeadlockVictim, EndByException, Throw, DropHistory, FinishHandler, Ack
  <2> QED
    BY <2>1, BookStill
<1>6. CASE CleanProcessedEventIds \/ Failure \/ UNCHANGED vars
  <2>1. UNCHANGED <<book, log, applied, net>>
    BY <1>6 DEF CleanProcessedEventIds, Failure, Restart, Crash, LoseChannel, DropChannel, vars
  <2> QED
    BY <2>1, BookStill
<1> QED
  BY <1>1, <1>2, <1>3, <1>4, <1>5, <1>6 DEF Next, Producer

\* A subtraction finds too little only if the events of its total were not
\* committed in the order they were published (GREATEST(0, ...) cuts it short).
THEOREM LateMeansReordered == Spec => LateOnlyWhenReordered
<1> DEFINE Inv == IInv /\ TotalInv /\ BookInv
<1>1. Inv /\ [Next]_vars =>
        [\A i \in late' \ late : HouseholdAlive => Reordered(i, log[i].prev.key)]_late
  <2> SUFFICES ASSUME IInv, TotalInv, BookInv, [Next]_vars, late' # late,
                      NEW n \in late' \ late, HouseholdAlive,
                      ~Reordered(n, log[n].prev.key)
               PROVE  FALSE
    OBVIOUS
  <2>1. PICK h \in Handler : SubtractFromSnapshot(h)
    BY DEF Next, Producer, DeleteHousehold, ChangeTransaction, PublishChange, Consumer, StartHandler,
      Claim, AddToSnapshot, DeadlockVictim, EndByException, Commit, DropSnapshots, DropHistory,
      FinishHandler, CleanProcessedEventIds, Failure, Restart, LoseChannel, ghostVars, vars
  <2> DEFINE e == log[n]  k == e.prev.key
  <2>2. /\ n = msg[h] /\ total[k] < e.prev.amount /\ pc[h] = "subtract"
    BY <2>1 DEF SubtractFromSnapshot, event
  <2>3. /\ n \in 1..Len(log) /\ n \in MessageId /\ e \in Event /\ e.prev \in Entry
        /\ applied[n] = 0
    BY <2>2, HandledEvent DEF event, IInv, ControlInv, InTransaction
  <2>4. k \in Key /\ Amount0(e.prev, k) = e.prev.amount /\ e.prev.amount \in Nat
    BY <2>3, PostingsAssumption DEF Amount0, Entry
  <2> HIDE DEF k, e
  <2>5. \A j \in MessageId : Outstanding(k)[j] = Since(n, k)[j]
    <3> SUFFICES ASSUME NEW j \in 1..Len(log), j \in MessageId
                 PROVE  (applied[j] = 0 <=> j >= n) \/ Effect(log[j], k) = 0
      BY DEF Outstanding, Since
    <3>1. CASE j = n
      BY <2>3, <3>1
    <3>2. CASE j # n /\ Touches(j, k)
      <4>1. ~((j < n) = (applied[j] = 0))
        BY <3>2 DEF Reordered, k, e, IInv, QueueInv, QueueTypeOK
      <4> QED
        BY <2>3, <3>2, <4>1
    <3>3. CASE ~Touches(j, k)
      BY <3>3 DEF Touches, Effect, Amount0
    <3> QED
      BY <3>1, <3>2, <3>3
  <2>6. SumOver(Outstanding(k), MessageId) = SumOver(Since(n, k), MessageId)
    BY <2>4, <2>5, EventSums, SumSame
  <2>7. Booked(k) = net[k] + SumOver(Outstanding(k), MessageId)
    BY <2>4 DEF BookInv, BookedInv
  <2>8. Booked(k) - SumOver(Since(n, k), MessageId) >= Amount0(e.prev, k)
    BY <2>3, <2>4 DEF BookInv, BeforeInv, e
  <2>9. /\ net[k] \in Int /\ total[k] \in Nat /\ total[k] >= net[k]
        /\ SumOver(Since(n, k), MessageId) \in Int
    BY <2>4, EventSums DEF TotalInv, Numbers, NeverUnderreported
  <2> QED
    BY <2>2, <2>4, <2>6, <2>7, <2>8, <2>9
<1> QED
  BY <1>1, InvInit, InvStep, TotalInit, TotalStep, BookInit, BookStep, PTL
  DEF Spec, LateOnlyWhenReordered

-----------------------------------------------------------------------------
(***************************************************************************)
(* As long as no subtraction was cut short, totals are exactly what the    *)
(* committed events add up to, and what a transaction is about to commit   *)
(* is exactly the effect of its event.                                     *)
(***************************************************************************)
DraftExact(h) ==
  /\ pc[h] = "add" =>
       \A k \in Key : IF k \in held[h] THEN draft[h][k] = total[k] - Amount0(event(h).prev, k)
                      ELSE Amount0(event(h).prev, k) = 0
  /\ pc[h] = "commit" =>
       \A k \in Key : IF k \in held[h] THEN draft[h][k] = total[k] + Effect(event(h), k)
                      ELSE Effect(event(h), k) = 0

Uncut == HouseholdAlive /\ late = {}

ExactInv ==
  Uncut => /\ \A k \in Key : total[k] = net[k] /\ (k \notin rows => total[k] = 0)
           /\ \A h \in Handler : DraftExact(h)

LEMMA UncutBefore == IInv /\ [Next]_vars /\ Uncut' => Uncut
<1> SUFFICES ASSUME IInv, [Next]_vars, Uncut' PROVE Uncut
  OBVIOUS
<1>1. LogGrows /\ log \in Seq(Message)
  BY QueueSteps, QueueInvStep DEF IInv, QueueInv, QueueTypeOK
<1>2. HouseholdAlive
  <2> SUFFICES ASSUME NEW i \in 1..Len(log) PROVE log[i].kind # "householdDeleted"
    BY <1>1 DEF HouseholdAlive
  <2>1. i \in 1..Len(log') /\ log'[i] = log[i] /\ log' \in Seq(Message)
    BY <1>1, QueueSteps, QueueInvStep DEF LogGrows, IInv, QueueInv, QueueTypeOK
  <2> QED
    BY <2>1 DEF Uncut, HouseholdAlive
<1>3. late \subseteq late'
  BY DEF Next, Producer, DeleteHousehold, ChangeTransaction, PublishChange, Consumer, StartHandler,
    Claim, SubtractFromSnapshot, AddToSnapshot, DeadlockVictim, EndByException, Commit,
    DropSnapshots, DropHistory, FinishHandler, CleanProcessedEventIds, Failure, Restart,
    LoseChannel, ghostVars, vars
<1> QED
  BY <1>2, <1>3 DEF Uncut

\* What a handler has drafted stays exact while it and the rows it holds stay.
LEMMA KeepsExact ==
  ASSUME IInv, [Next]_vars, NEW g \in Handler, DraftExact(g),
         pc'[g] \in {"add", "commit"} =>
           /\ pc'[g] = pc[g] /\ msg'[g] = msg[g]
           /\ draft'[g] = draft[g] /\ held'[g] = held[g]
           /\ \A k \in held[g] : total'[k] = total[k]
  PROVE  DraftExact(g)'
<1>1. CASE pc'[g] \notin {"add", "commit"}
  BY <1>1 DEF DraftExact
<1>2. CASE pc'[g] \in {"add", "commit"}
  <2>1. event(g)' = event(g)
    BY <1>2, SameEvent
  <2> QED
    BY <1>2, <2>1 DEF DraftExact, Effect, Amount0
<1> QED
  BY <1>1, <1>2

LEMMA ExactStill ==
  ASSUME IInv, ExactInv, [Next]_vars, UNCHANGED <<total, net, rows>>,
         \A g \in Handler : pc'[g] \in {"add", "commit"} =>
           /\ pc'[g] = pc[g] /\ msg'[g] = msg[g]
           /\ draft'[g] = draft[g] /\ held'[g] = held[g]
  PROVE  ExactInv'
<1> SUFFICES ASSUME Uncut'
             PROVE  /\ \A k \in Key : total'[k] = net'[k] /\ (k \notin rows' => total'[k] = 0)
                    /\ \A h \in Handler : DraftExact(h)'
  BY DEF ExactInv
<1>1. Uncut
  BY UncutBefore
<1> QED
  BY <1>1, KeepsExact DEF ExactInv

LEMMA ExactSubtract ==
  ASSUME IInv, TotalInv, ExactInv, [Next]_vars, NEW h \in Handler, SubtractFromSnapshot(h)
  PROVE  ExactInv'
<1> SUFFICES ASSUME Uncut'
             PROVE  /\ \A k \in Key : total'[k] = net'[k] /\ (k \notin rows' => total'[k] = 0)
                    /\ \A g \in Handler : DraftExact(g)'
  BY DEF ExactInv
<1> DEFINE e == event(h)  p == e.prev  n == SubtractFromTotal(total, p)[p.key]
           step == AfterSubtract(h)
<1>0. Uncut
  BY UncutBefore
<1>1. /\ pc[h] = "subtract" /\ Goto(h, step)
      /\ step = "add" \/ (step = "commit" /\ e.next \notin Entry)
      /\ UNCHANGED <<msg, total, net, rows>>
  BY DEF SubtractFromSnapshot, AfterSubtract, rowVars, queueVars
<1>2. e \in Event /\ p \in Entry /\ event(h)' = e /\ p.key \in Key /\ p.amount \in Nat \ {0}
  BY <1>1, HandledEvent, SameEvent, PostingsAssumption DEF IInv, ControlInv, event, Entry
<1>3. /\ pc' = [pc EXCEPT ![h] = step] /\ pc \in [Handler -> Step] /\ total \in [Key -> Nat]
      /\ draft \in [Handler -> [Key -> Nat]]
      /\ held \in [Handler -> SUBSET Key] /\ held[h] = {}
  BY <1>1 DEF Goto, IInv, ControlTypes, TotalInv, Numbers, LockInv
<1>4. total[p.key] >= p.amount
  <2>1. late' = {} /\ (total[p.key] < p.amount => late' = late \cup {msg[h]})
    BY DEF SubtractFromSnapshot, Uncut
  <2>2. total[p.key] \in Nat /\ p.amount \in Nat
    BY <1>2, <1>3
  <2> HIDE DEF p
  <2> QED
    BY <2>1, <2>2
<1>5. p.key \in rows
  BY <1>0, <1>2, <1>4 DEF ExactInv
<1>6. Write(h, p.key, n) /\ n = total[p.key] - p.amount
  <2>0. total[p.key] \in Nat /\ p.amount \in Nat
    BY <1>2, <1>3
  <2>1. n = IF total[p.key] > p.amount THEN total[p.key] - p.amount ELSE 0
    BY <1>2, <1>3 DEF SubtractFromTotal
  <2>2. n = total[p.key] - p.amount
    <3> HIDE DEF n, p
    <3> QED
      BY <1>4, <2>0, <2>1
  <2> QED
    BY <1>5, <2>2 DEF SubtractFromSnapshot
<1>7. ASSUME NEW k \in Key
      PROVE  /\ Amount0(p, k) = IF p.key = k THEN p.amount ELSE 0
             /\ step = "commit" => Effect(e, k) = 0 - Amount0(p, k)
  BY <1>1, <1>2 DEF Effect, Amount0
<1> HIDE DEF n, p, e, step
<1>8. /\ held' = [held EXCEPT ![h] = @ \cup {p.key}] /\ draft' = [draft EXCEPT ![h][p.key] = n]
  BY <1>6 DEF Write
<1>9. ASSUME NEW g \in Handler PROVE DraftExact(g)'
  <2>1. CASE g # h
    BY <1>0, <1>1, <1>3, <1>8, <2>1, KeepsExact DEF ExactInv
  <2>2. CASE g = h
    <3>1. /\ pc'[h] = step /\ held'[h] = {p.key}
          /\ draft'[h][p.key] = n /\ event(h)' = e
      BY <1>2, <1>3, <1>8
    <3>2. \A k \in Key : k # p.key =>
            Amount0(p, k) = 0 /\ (step = "commit" => Effect(e, k) = 0)
      BY <1>2, <1>7
    <3>3. /\ n = total[p.key] - Amount0(p, p.key)
          /\ step = "commit" => n = total[p.key] + Effect(e, p.key)
      BY <1>2, <1>3, <1>6, <1>7
    <3> QED
      BY <1>1, <2>2, <3>1, <3>2, <3>3 DEF DraftExact, Effect, Amount0, p
  <2> QED
    BY <2>1, <2>2
<1> QED
  BY <1>0, <1>1, <1>9 DEF ExactInv

LEMMA ExactAdd ==
  ASSUME IInv, TotalInv, ExactInv, [Next]_vars, NEW h \in Handler, AddToSnapshot(h),
         ~EndByException(h)
  PROVE  ExactInv'
<1> SUFFICES ASSUME Uncut'
             PROVE  /\ \A k \in Key : total'[k] = net'[k] /\ (k \notin rows' => total'[k] = 0)
                    /\ \A g \in Handler : DraftExact(g)'
  BY DEF ExactInv
<1> DEFINE e == event(h)  p == e.next  n == Current(h, p.key) + p.amount
<1>0. Uncut
  BY UncutBefore
<1>1. /\ pc[h] = "add" /\ Goto(h, "commit")
      /\ UNCHANGED <<msg, total, net, rows>> /\ Write(h, p.key, n)
  BY DEF AddToSnapshot, rowVars, queueVars, ghostVars
<1>2. e \in Event /\ p \in Entry /\ event(h)' = e /\ p.key \in Key /\ p.amount \in Nat
  BY <1>1, HandledEvent, SameEvent, PostingsAssumption DEF IInv, ControlInv, event, Entry
<1>3. /\ pc' = [pc EXCEPT ![h] = "commit"] /\ pc \in [Handler -> Step]
      /\ total \in [Key -> Nat] /\ draft \in [Handler -> [Key -> Nat]]
      /\ held \in [Handler -> SUBSET Key]
  BY <1>1 DEF Goto, IInv, ControlTypes, TotalInv, Numbers
<1>4. ASSUME NEW k \in Key
      PROVE  /\ Amount0(e.prev, k) \in Nat
             /\ Effect(e, k) = (IF p.key = k THEN p.amount ELSE 0) - Amount0(e.prev, k)
             /\ IF k \in held[h] THEN draft[h][k] = total[k] - Amount0(e.prev, k)
                ELSE Amount0(e.prev, k) = 0
  BY <1>0, <1>1, <1>2, EffectType DEF Amount0, Effect, ExactInv, DraftExact
<1>5. n = (IF p.key \in held[h] THEN draft[h][p.key] ELSE total[p.key]) + p.amount
  BY DEF Current
<1> HIDE DEF n, p, e
<1>6. /\ held' = [held EXCEPT ![h] = @ \cup {p.key}] /\ draft' = [draft EXCEPT ![h][p.key] = n]
  BY <1>1 DEF Write
<1>7. ASSUME NEW g \in Handler PROVE DraftExact(g)'
  <2>1. CASE g # h
    BY <1>0, <1>1, <1>3, <1>6, <2>1, KeepsExact DEF ExactInv
  <2>2. CASE g = h
    <3>1. /\ pc'[h] = "commit" /\ held'[h] = held[h] \cup {p.key} /\ event(h)' = e
          /\ \A k \in Key : draft'[h][k] = IF k = p.key THEN n ELSE draft[h][k]
      BY <1>2, <1>3, <1>6
    <3>2. ASSUME NEW k \in Key
          PROVE  IF k \in held'[h] THEN draft'[h][k] = total[k] + Effect(e, k) ELSE Effect(e, k) = 0
      <4>1. CASE k = p.key
        BY <1>2, <1>3, <1>4, <1>5, <3>1, <4>1
      <4>2. CASE k # p.key
        BY <1>2, <1>3, <1>4, <3>1, <4>2
      <4> QED BY <4>1, <4>2
    <3> QED
      BY <1>1, <2>2, <3>1, <3>2 DEF DraftExact, Effect, Amount0
  <2> QED
    BY <2>1, <2>2
<1> QED
  BY <1>0, <1>1, <1>7 DEF ExactInv

LEMMA ExactCommit ==
  ASSUME IInv, TotalInv, ExactInv, [Next]_vars, NEW h \in Handler, Commit(h)
  PROVE  ExactInv'
<1> SUFFICES ASSUME Uncut'
             PROVE  /\ \A k \in Key : total'[k] = net'[k] /\ (k \notin rows' => total'[k] = 0)
                    /\ \A g \in Handler : DraftExact(g)'
  BY DEF ExactInv
<1> DEFINE e == event(h)
<1>0. Uncut
  BY UncutBefore
<1>1. /\ pc[h] = "commit" /\ pc' = [pc EXCEPT ![h] = "ack"] /\ UNCHANGED msg
      /\ total' = [k \in Key |-> IF k \in held[h] THEN draft[h][k] ELSE total[k]]
      /\ net' = [k \in Key |-> net[k] + Effect(e, k)]
      /\ rows' = rows \cup held[h]
      /\ held' = [held EXCEPT ![h] = {}] /\ draft' = [draft EXCEPT ![h] = ZeroTotals]
  BY DEF Commit, EndTransaction, Goto, queueVars
<1>2. /\ e \in Event
      /\ held \in [Handler -> SUBSET Key] /\ pc \in [Handler -> Step]
      /\ total \in [Key -> Nat] /\ net \in [Key -> Int] /\ draft \in [Handler -> [Key -> Nat]]
  BY <1>1, HandledEvent DEF IInv, ControlTypes, TotalInv, Numbers
<1>3. ASSUME NEW k \in Key
      PROVE  total'[k] = net'[k] /\ (k \notin rows' => total'[k] = 0)
  <2>1. /\ Effect(e, k) \in Int /\ total[k] = net[k] /\ (k \notin rows => total[k] = 0)
        /\ IF k \in held[h] THEN draft[h][k] = total[k] + Effect(e, k) ELSE Effect(e, k) = 0
        /\ total[k] \in Nat
    BY <1>0, <1>1, <1>2, EffectType DEF ExactInv, DraftExact
  <2> HIDE DEF e
  <2> QED
    BY <1>1, <2>1
<1>4. ASSUME NEW g \in Handler PROVE DraftExact(g)'
  <2>1. CASE g = h
    BY <1>1, <1>2, <2>1 DEF DraftExact
  <2>2. CASE g # h
    <3>1. \A k \in held[g] : total'[k] = total[k]
      BY <1>1, <1>2, <2>2 DEF TotalInv, LockInv, LockedByOther, Others
    <3> QED
      BY <1>0, <1>1, <1>2, <2>2, <3>1, KeepsExact DEF ExactInv
  <2> QED
    BY <2>1, <2>2
<1> QED
  BY <1>3, <1>4

LEMMA ExactInit == Init => ExactInv
<1> SUFFICES ASSUME Init PROVE ExactInv
  OBVIOUS
<1>1. book \in [Tx -> Posting] /\ book \in [Tx -> Entry \cup {Absent}]
  BY DEF Init, Posting
<1>2. ASSUME NEW k \in Key, k \notin rows PROVE total[k] = 0
  <2>1. \A t \in Tx : Amount0(book[t], k) = 0
    BY <1>1, <1>2 DEF Init, Amount0
  <2>2. BookTotal(book, k) = 0
    BY <1>1, <2>1, BookTotals
  <2> QED
    BY <2>2 DEF Init, Booked
<1> QED
  BY <1>2 DEF Init, ExactInv, DraftExact

LEMMA ExactStep == IInv /\ TotalInv /\ ExactInv /\ [Next]_vars => ExactInv'
<1> SUFFICES ASSUME IInv, TotalInv, ExactInv, [Next]_vars PROVE ExactInv'
  OBVIOUS
<1> USE DEF rowVars, taskVars, ghostVars, queueVars
<1>0. /\ held \in [Handler -> SUBSET Key] /\ pc \in [Handler -> Step]
      /\ draft \in [Handler -> [Key -> Nat]] /\ msg \in [Handler -> MessageId \cup {0}]
  BY DEF IInv, ControlTypes, TotalInv, Numbers, QueueInv, QueueTypeOK
<1>1. ASSUME UNCHANGED <<total, net, rows, pc, held, draft, msg>> PROVE ExactInv'
  BY <1>1, ExactStill
<1>2. ASSUME NEW h \in Handler, StartHandler(h) PROVE ExactInv'
  BY <1>0, <1>2, ExactStill DEF StartHandler, Deliver, Idle, Goto
<1>3. ASSUME NEW h \in Handler, Claim(h) PROVE ExactInv'
  <2> SUFFICES ASSUME Uncut'
               PROVE  /\ \A k \in Key : total'[k] = net'[k] /\ (k \notin rows' => total'[k] = 0)
                      /\ \A g \in Handler : DraftExact(g)'
    BY DEF ExactInv
  <2>0. Uncut
    BY UncutBefore
  <2>1. PICK step \in {"ack", "subtract", "add"} :
          /\ pc' = [pc EXCEPT ![h] = step]
          /\ step = "add" => event(h).prev \notin Entry
    BY <1>3 DEF Claim, Goto
  <2>2. held[h] = {} /\ pc[h] = "claim" /\ UNCHANGED <<msg, total, net, rows, held, draft>>
    BY <1>0, <1>3 DEF Claim, TotalInv, LockInv
  <2>3. ASSUME NEW g \in Handler PROVE DraftExact(g)'
    <3>1. CASE g # h
      BY <1>0, <2>0, <2>1, <2>2, <3>1, KeepsExact DEF ExactInv
    <3>2. CASE g = h
      <4>1. event(h)' = event(h)
        BY <2>2, SameEvent
      <4> QED
        BY <1>0, <2>1, <2>2, <3>2, <4>1 DEF DraftExact, Amount0
    <3> QED BY <3>1, <3>2
  <2> QED
    BY <2>0, <2>2, <2>3 DEF ExactInv
<1>4. ASSUME NEW h \in Handler, DropHistory(h) \/ FinishHandler(h) PROVE ExactInv'
  BY <1>0, <1>4, ExactStill DEF DropHistory, FinishHandler, Ack, Goto
<1>5. ASSUME NEW h \in Handler, EndByException(h) PROVE ExactInv'
  BY <1>0, <1>5, ExactStill DEF EndByException, EndTransaction, Throw, Goto
<1>6. CASE Restart
  BY <1>6, ExactStill DEF Restart
<1>7. ASSUME NEW t \in Tx, ChangeTransaction(t) PROVE ExactInv'
  BY <1>1, <1>7, ChangePublishes DEF Publish
<1>8. CASE DeleteHousehold \/ LoseChannel \/ CleanProcessedEventIds \/ UNCHANGED vars
  BY <1>1, <1>8 DEF DeleteHousehold, Publish, LoseChannel, DropChannel, CleanProcessedEventIds, vars
<1>9. ASSUME NEW h \in Handler, DropSnapshots(h) PROVE ExactInv'
  <2>1. /\ msg[h] \in 1..Len(log) /\ log[msg[h]].kind = "householdDeleted" /\ log' = log
    BY <1>9, HandledEvent DEF DropSnapshots, IInv, ControlInv
  <2> QED
    BY <2>1 DEF ExactInv, Uncut, HouseholdAlive, IInv, QueueInv, QueueTypeOK
<1> QED
  BY <1>2, <1>3, <1>4, <1>5, <1>6, <1>7, <1>8, <1>9, ExactSubtract, ExactAdd, ExactCommit
  DEF Next, Producer, Consumer, DeadlockVictim, Failure

-----------------------------------------------------------------------------
(***************************************************************************)
(* Transactions serialize: what a transaction would leave behind if it     *)
(* committed now is what its two statements would do to the totals as they *)
(* are now, or, if it found too little to subtract, what the second one    *)
(* alone would do.                                                         *)
(***************************************************************************)
Reduced(n, p, k) ==
  IF p \in Entry /\ p.key = k THEN IF n > p.amount THEN n - p.amount ELSE 0 ELSE n

Holds(h, p) == p \in Entry => p.key \in held[h]

Serial(h) ==
  /\ pc[h] = "add" =>
       \/ /\ Holds(h, event(h).prev)
          /\ \A k \in Key : Current(h, k) = Reduced(total[k], event(h).prev, k)
       \/ /\ msg[h] \in late
          /\ \A k \in Key : Current(h, k) = total[k]
  /\ pc[h] = "commit" =>
       /\ Holds(h, event(h).next)
       /\ \/ /\ Holds(h, event(h).prev)
             /\ \A k \in Key : Current(h, k) = Reduced(total[k], event(h).prev, k)
                                                 + Amount0(event(h).next, k)
          \/ /\ msg[h] \in late
             /\ \A k \in Key : Current(h, k) = total[k] + Amount0(event(h).next, k)

SerialInv ==
  /\ \A k \in Key : k \notin rows => total[k] = 0
  /\ \A h \in Handler : Serial(h)

LEMMA LateGrows == [Next]_vars => late \subseteq late'
  BY DEF Next, Producer, DeleteHousehold, ChangeTransaction, PublishChange, Consumer, StartHandler,
    Claim, SubtractFromSnapshot, AddToSnapshot, DeadlockVictim, EndByException, Commit,
    DropSnapshots, DropHistory, FinishHandler, CleanProcessedEventIds, Failure, Restart,
    LoseChannel, ghostVars, vars

\* While a handler and the rows it holds stay as they are, other rows may change.
LEMMA KeepsSerial ==
  ASSUME IInv, [Next]_vars, NEW g \in Handler, Serial(g), total' \in [Key -> Nat],
         pc'[g] \in {"add", "commit"} =>
           /\ pc'[g] = pc[g] /\ msg'[g] = msg[g]
           /\ draft'[g] = draft[g] /\ held'[g] = held[g]
           /\ \A k \in held[g] : total'[k] = total[k]
  PROVE  Serial(g)'
<1>1. CASE pc'[g] \notin {"add", "commit"}
  BY <1>1 DEF Serial
<1>2. CASE pc'[g] \in {"add", "commit"}
  <2>1. event(g)' = event(g) /\ late \subseteq late'
    BY <1>2, SameEvent, LateGrows
  <2>2. ASSUME NEW k \in Key
        PROVE  /\ k \in held[g] => Current(g, k)' = Current(g, k) /\ total'[k] = total[k]
               /\ k \notin held[g] => Current(g, k)' = total'[k] /\ Current(g, k) = total[k]
    BY <1>2 DEF Current
  <2>3. ASSUME NEW p, Holds(g, p), NEW k \in Key, k \notin held[g], NEW n \in {total[k], total'[k]}
        PROVE  Reduced(n, p, k) = n /\ Amount0(p, k) = 0
    BY <2>3 DEF Holds, Reduced, Amount0
  <2>4. CASE pc[g] = "add"
    <3>1. CASE /\ Holds(g, event(g).prev)
               /\ \A k \in Key : Current(g, k) = Reduced(total[k], event(g).prev, k)
      <4>1. Holds(g, event(g).prev)'
        BY <1>2, <2>1, <3>1 DEF Holds, Entry, Key, Month
      <4>2. \A k \in Key : Current(g, k)' = Reduced(total'[k], event(g).prev, k)
        BY <2>2, <2>3, <3>1
      <4> QED
        BY <1>2, <2>1, <2>4, <4>1, <4>2 DEF Serial, Reduced
    <3>2. CASE msg[g] \in late /\ \A k \in Key : Current(g, k) = total[k]
      <4>1. msg'[g] \in late' /\ \A k \in Key : Current(g, k)' = total'[k]
        BY <1>2, <2>1, <2>2, <3>2
      <4> QED
        BY <1>2, <2>4, <4>1 DEF Serial
    <3> QED
      BY <2>4, <3>1, <3>2 DEF Serial
  <2>5. CASE pc[g] = "commit"
    <3>0. Holds(g, event(g).next) /\ Holds(g, event(g).next)'
      BY <1>2, <2>1, <2>5 DEF Serial, Holds
    <3>1. CASE /\ Holds(g, event(g).prev)
               /\ \A k \in Key : Current(g, k) = Reduced(total[k], event(g).prev, k)
                                                   + Amount0(event(g).next, k)
      <4>1. Holds(g, event(g).prev)'
        BY <1>2, <2>1, <3>1 DEF Holds
      <4>2. ASSUME NEW k \in Key
            PROVE  Current(g, k)' = Reduced(total'[k], event(g).prev, k) + Amount0(event(g).next, k)
        <5>1. CASE k \in held[g]
          BY <2>2, <3>1, <5>1
        <5>2. CASE k \notin held[g]
          <6>1. /\ Reduced(total'[k], event(g).prev, k) = total'[k]
                /\ Amount0(event(g).next, k) = 0 /\ Current(g, k)' = total'[k]
            BY <2>2, <2>3, <3>0, <3>1, <5>2
          <6> QED
            BY <6>1
        <5> QED BY <5>1, <5>2
      <4> QED
        BY <1>2, <2>1, <2>5, <3>0, <4>1, <4>2 DEF Serial, Reduced, Amount0
    <3>2. CASE /\ msg[g] \in late
               /\ \A k \in Key : Current(g, k) = total[k] + Amount0(event(g).next, k)
      <4>1. ASSUME NEW k \in Key
            PROVE  Current(g, k)' = total'[k] + Amount0(event(g).next, k)
        <5>1. CASE k \in held[g]
          BY <2>2, <3>2, <5>1
        <5>2. CASE k \notin held[g]
          BY <2>2, <2>3, <3>0, <5>2
        <5> QED BY <5>1, <5>2
      <4>2. msg'[g] \in late'
        BY <1>2, <2>1, <3>2
      <4> QED
        BY <1>2, <2>1, <2>5, <3>0, <4>1, <4>2 DEF Serial, Amount0
    <3> QED
      BY <2>5, <3>1, <3>2 DEF Serial
  <2> QED
    BY <1>2, <2>4, <2>5
<1> QED
  BY <1>1, <1>2

LEMMA SerialSubtract ==
  ASSUME IInv, TotalInv, SerialInv, [Next]_vars, NEW h \in Handler, SubtractFromSnapshot(h)
  PROVE  SerialInv'
<1> DEFINE e == event(h)  p == e.prev  n == SubtractFromTotal(total, p)[p.key]
           step == AfterSubtract(h)
<1>1. /\ pc[h] = "subtract" /\ Goto(h, step)
      /\ step = "add" \/ (step = "commit" /\ e.next \notin Entry)
      /\ UNCHANGED <<msg, total, rows>>
  BY DEF SubtractFromSnapshot, AfterSubtract, rowVars, queueVars
<1>2. /\ e \in Event /\ p \in Entry /\ event(h)' = e /\ msg[h] \in MessageId
      /\ p.key \in Key /\ p.amount \in Nat \ {0}
  BY <1>1, HandledEvent, SameEvent, PostingsAssumption DEF IInv, ControlInv, event, Entry
<1>3. /\ pc' = [pc EXCEPT ![h] = step] /\ pc \in [Handler -> Step] /\ total \in [Key -> Nat]
      /\ draft \in [Handler -> [Key -> Nat]]
      /\ held \in [Handler -> SUBSET Key] /\ held[h] = {}
  BY <1>1 DEF Goto, IInv, ControlTypes, TotalInv, Numbers, LockInv
<1>4. n = Reduced(total[p.key], p, p.key)
  BY <1>2, <1>3 DEF SubtractFromTotal, Reduced
<1>5. \/ /\ held' = [held EXCEPT ![h] = @ \cup {p.key}]
         /\ draft' = [draft EXCEPT ![h][p.key] = n]
      \/ /\ UNCHANGED <<held, draft>>
         /\ total[p.key] < p.amount /\ late' = late \cup {msg[h]}
  <2>1. p.key \notin rows => total[p.key] = 0
    BY <1>2 DEF SerialInv
  <2>2. p.key \notin rows => total[p.key] < p.amount
    BY <1>2, <2>1
  <2> QED
    BY <2>2 DEF SubtractFromSnapshot, Write
<1>6. step = "commit" => \A k \in Key : Amount0(e.next, k) = 0
  BY <1>1 DEF Amount0
<1> HIDE DEF n, p, e, step
<1>7. ASSUME NEW g \in Handler PROVE Serial(g)'
  <2>0. Serial(g)
    BY DEF SerialInv
  <2>1. CASE g # h
    BY <1>1, <1>3, <1>5, <2>0, <2>1, KeepsSerial
  <2>2. CASE g = h
    <3>1. CASE /\ held' = [held EXCEPT ![h] = @ \cup {p.key}]
               /\ draft' = [draft EXCEPT ![h][p.key] = n]
      <4>1. /\ pc'[h] = step /\ held'[h] = {p.key} /\ draft'[h][p.key] = n
        BY <1>2, <1>3, <3>1
      <4>2. \A k \in Key : Current(h, k)' = Reduced(total[k], p, k)
        BY <1>1, <1>4, <4>1 DEF Current, Reduced
      <4>3. Holds(h, event(h).prev)'
        BY <1>2, <4>1 DEF Holds, p
      <4>4. e.next \notin Entry => Holds(h, event(h).next)'
        BY <1>2 DEF Holds
      <4>5. CASE step = "add"
        BY <1>1, <1>2, <2>2, <4>1, <4>2, <4>3, <4>5 DEF Serial, p, Reduced
      <4>6. CASE step = "commit"
        <5>1. \A k \in Key : Current(h, k)' = Reduced(total[k], p, k) + Amount0(e.next, k)
          <6> SUFFICES ASSUME NEW k \in Key
                       PROVE  Current(h, k)' = Reduced(total[k], p, k) + Amount0(e.next, k)
            OBVIOUS
          <6>1. Reduced(total[k], p, k) \in Nat /\ Amount0(e.next, k) = 0
            BY <1>2, <1>3, <1>6, <4>6 DEF Reduced
          <6> QED
            BY <4>2, <6>1
        <5> QED
          BY <1>1, <1>2, <2>2, <4>1, <4>3, <4>4, <4>6, <5>1 DEF Serial, p, Reduced, Amount0
      <4> QED
        BY <1>1, <4>5, <4>6
    <3>2. CASE UNCHANGED <<held, draft>> /\ late' = late \cup {msg[h]}
      <4>1. /\ pc'[h] = step /\ held'[h] = {} /\ msg'[h] \in late'
        BY <1>1, <1>3, <3>2
      <4>2. \A k \in Key : Current(h, k)' = total'[k] /\ total'[k] \in Nat
        BY <1>1, <1>3, <4>1 DEF Current
      <4>3. step = "commit" => /\ Holds(h, event(h).next)'
                               /\ \A k \in Key : Amount0(event(h)'.next, k) = 0
        BY <1>1, <1>2, <1>6 DEF Holds
      <4>4. step = "commit" => \A k \in Key : Current(h, k)' = total'[k] + Amount0(event(h)'.next, k)
        BY <4>2, <4>3
      <4> QED
        BY <1>1, <2>2, <4>1, <4>2, <4>3, <4>4 DEF Serial, Amount0
    <3> QED
      BY <1>5, <3>1, <3>2
  <2> QED
    BY <2>1, <2>2
<1> QED
  BY <1>1, <1>7 DEF SerialInv

LEMMA SerialAdd ==
  ASSUME IInv, TotalInv, SerialInv, [Next]_vars, NEW h \in Handler, AddToSnapshot(h),
         ~EndByException(h)
  PROVE  SerialInv'
<1> DEFINE e == event(h)  p == e.next  n == Current(h, p.key) + p.amount
<1>1. /\ pc[h] = "add" /\ Goto(h, "commit")
      /\ UNCHANGED <<msg, total, rows, late>> /\ Write(h, p.key, n)
  BY DEF AddToSnapshot, rowVars, queueVars, ghostVars
<1>2. e \in Event /\ p \in Entry /\ event(h)' = e /\ p.key \in Key /\ p.amount \in Nat
  BY <1>1, HandledEvent, SameEvent, PostingsAssumption DEF IInv, ControlInv, event, Entry
<1>3. /\ pc' = [pc EXCEPT ![h] = "commit"] /\ pc \in [Handler -> Step]
      /\ total \in [Key -> Nat] /\ draft \in [Handler -> [Key -> Nat]]
      /\ held \in [Handler -> SUBSET Key]
  BY <1>1 DEF Goto, IInv, ControlTypes, TotalInv, Numbers
<1>4. ASSUME NEW k \in Key
      PROVE  Current(h, k) \in Nat /\ Amount0(p, k) = IF k = p.key THEN p.amount ELSE 0
  BY <1>2, <1>3 DEF Current, Amount0
<1> HIDE DEF p, e
<1>5. /\ held' = [held EXCEPT ![h] = @ \cup {p.key}] /\ draft' = [draft EXCEPT ![h][p.key] = n]
  BY <1>1 DEF Write
<1>6. ASSUME NEW g \in Handler PROVE Serial(g)'
  <2>0. Serial(g)
    BY DEF SerialInv
  <2>1. CASE g # h
    BY <1>1, <1>3, <1>5, <2>0, <2>1, KeepsSerial
  <2>2. CASE g = h
    <3>1. /\ pc'[h] = "commit" /\ held'[h] = held[h] \cup {p.key}
          /\ \A k \in Key : draft'[h][k] = IF k = p.key THEN n ELSE draft[h][k]
      BY <1>2, <1>3, <1>5
    <3>2. ASSUME NEW k \in Key PROVE Current(h, k)' = Current(h, k) + Amount0(p, k)
      <4>1. CASE k = p.key
        <5>1. Current(h, k)' = draft'[h][k]
          BY <3>1, <4>1 DEF Current
        <5> QED
          BY <1>4, <3>1, <4>1, <5>1
      <4>2. CASE k # p.key
        <5>1. Current(h, k)' = Current(h, k)
          BY <1>1, <3>1, <4>2 DEF Current
        <5> QED
          BY <1>4, <4>2, <5>1
      <4> QED BY <4>1, <4>2
    <3>3. Holds(h, event(h).next)'
      BY <1>2, <3>1 DEF Holds, p
    <3>4. CASE /\ Holds(h, e.prev)
               /\ \A k \in Key : Current(h, k) = Reduced(total[k], e.prev, k)
      <4>1. Holds(h, event(h).prev)'
        BY <1>2, <3>1, <3>4 DEF Holds
      <4>2. \A k \in Key : Current(h, k)' = Reduced(total[k], e.prev, k) + Amount0(p, k)
        BY <3>2, <3>4
      <4> QED
        BY <1>1, <1>2, <2>2, <3>1, <3>3, <4>1, <4>2 DEF Serial, p, Reduced, Amount0
    <3>5. CASE msg[h] \in late /\ \A k \in Key : Current(h, k) = total[k]
      <4>1. \A k \in Key : Current(h, k)' = total[k] + Amount0(p, k)
        BY <3>2, <3>5
      <4> QED
        BY <1>1, <1>2, <2>2, <3>1, <3>3, <3>5, <4>1 DEF Serial, p, Amount0
    <3> QED
      BY <1>1, <2>0, <2>2, <3>4, <3>5 DEF Serial, e
  <2> QED
    BY <2>1, <2>2
<1> QED
  BY <1>1, <1>6 DEF SerialInv

LEMMA SerialCommit ==
  ASSUME IInv, TotalInv, SerialInv, [Next]_vars, NEW h \in Handler, Commit(h)
  PROVE  SerialInv'
<1>1. /\ pc[h] = "commit" /\ pc' = [pc EXCEPT ![h] = "ack"] /\ UNCHANGED msg
      /\ total' = [k \in Key |-> IF k \in held[h] THEN draft[h][k] ELSE total[k]]
      /\ rows' = rows \cup held[h]
      /\ held' = [held EXCEPT ![h] = {}] /\ draft' = [draft EXCEPT ![h] = ZeroTotals]
  BY DEF Commit, EndTransaction, Goto, queueVars
<1>2. /\ held \in [Handler -> SUBSET Key] /\ pc \in [Handler -> Step]
      /\ total \in [Key -> Nat] /\ draft \in [Handler -> [Key -> Nat]]
  BY DEF IInv, ControlTypes, TotalInv, Numbers
<1>3. \A k \in Key : k \notin rows' => total'[k] = 0
  BY <1>1 DEF SerialInv
<1>4. ASSUME NEW g \in Handler PROVE Serial(g)'
  <2>1. CASE g = h
    BY <1>1, <1>2, <2>1 DEF Serial
  <2>2. CASE g # h
    <3>1. \A k \in held[g] : total'[k] = total[k]
      BY <1>1, <1>2, <2>2 DEF TotalInv, LockInv, LockedByOther, Others
    <3>2. total' \in [Key -> Nat] /\ Serial(g)
      BY <1>1, <1>2 DEF SerialInv
    <3> QED
      BY <1>1, <1>2, <2>2, <3>1, <3>2, KeepsSerial
  <2> QED
    BY <2>1, <2>2
<1> QED
  BY <1>3, <1>4 DEF SerialInv

\* The rows that go are locked by nobody; those that are being inserted stay.
LEMMA SerialDrop ==
  ASSUME IInv, TotalInv, SerialInv, [Next]_vars, NEW h \in Handler, DropSnapshots(h)
  PROVE  SerialInv'
<1>1. /\ pc[h] = "dropSnapshots" /\ pc' = [pc EXCEPT ![h] = "dropHistory"]
      /\ \A k \in rows : ~LockedByOther(h, k)
      /\ total' = ZeroTotals /\ UNCHANGED <<msg, held, draft>>
  BY DEF DropSnapshots, Goto, queueVars
<1>2. /\ pc \in [Handler -> Step] /\ held \in [Handler -> SUBSET Key]
      /\ total' \in [Key -> Nat] /\ \A k \in Key : total'[k] = 0
  BY <1>1 DEF IInv, ControlTypes, ZeroTotals
<1>3. ASSUME NEW g \in Handler PROVE Serial(g)'
  <2>1. CASE g = h
    BY <1>1, <1>2, <2>1 DEF Serial
  <2>2. CASE g # h
    <3>1. \A k \in held[g] : total'[k] = total[k]
      BY <1>1, <1>2, <2>2 DEF SerialInv, LockedByOther, Others
    <3>2. Serial(g)
      BY DEF SerialInv
    <3> QED
      BY <1>1, <1>2, <2>2, <3>1, <3>2, KeepsSerial
  <2> QED
    BY <2>1, <2>2
<1> QED
  BY <1>2, <1>3 DEF SerialInv

LEMMA SerialInit == Init => SerialInv
<1> SUFFICES ASSUME Init PROVE SerialInv
  OBVIOUS
<1>1. book \in [Tx -> Posting] /\ book \in [Tx -> Entry \cup {Absent}]
  BY DEF Init, Posting
<1>2. ASSUME NEW k \in Key, k \notin rows PROVE total[k] = 0
  <2>1. \A t \in Tx : Amount0(book[t], k) = 0
    BY <1>1, <1>2 DEF Init, Amount0
  <2>2. BookTotal(book, k) = 0
    BY <1>1, <2>1, BookTotals
  <2> QED
    BY <2>2 DEF Init, Booked
<1> QED
  BY <1>2 DEF Init, SerialInv, Serial

LEMMA SerialStep == IInv /\ TotalInv /\ SerialInv /\ [Next]_vars => SerialInv'
<1> SUFFICES ASSUME IInv, TotalInv, SerialInv, [Next]_vars PROVE SerialInv'
  OBVIOUS
<1> USE DEF rowVars, taskVars, ghostVars, queueVars
<1>0. /\ held \in [Handler -> SUBSET Key] /\ pc \in [Handler -> Step]
      /\ draft \in [Handler -> [Key -> Nat]] /\ msg \in [Handler -> MessageId \cup {0}]
      /\ total \in [Key -> Nat] /\ \A h \in Handler : Serial(h)
  BY DEF IInv, ControlTypes, TotalInv, Numbers, QueueInv, QueueTypeOK, SerialInv
<1>1. ASSUME UNCHANGED <<total, rows>>,
             \A g \in Handler : pc'[g] \in {"add", "commit"} =>
               /\ pc'[g] = pc[g] /\ msg'[g] = msg[g]
               /\ draft'[g] = draft[g] /\ held'[g] = held[g]
      PROVE  SerialInv'
  BY <1>0, <1>1, KeepsSerial DEF SerialInv
<1>2. ASSUME NEW h \in Handler, StartHandler(h) PROVE SerialInv'
  BY <1>0, <1>1, <1>2 DEF StartHandler, Deliver, Idle, Goto
<1>3. ASSUME NEW h \in Handler, Claim(h) PROVE SerialInv'
  <2>1. PICK step \in {"ack", "subtract", "add"} :
          /\ pc' = [pc EXCEPT ![h] = step]
          /\ step = "add" => event(h).prev \notin Entry
    BY <1>3 DEF Claim, Goto
  <2>2. held[h] = {} /\ pc[h] = "claim" /\ UNCHANGED <<msg, total, rows, held, draft>>
    BY <1>0, <1>3 DEF Claim, TotalInv, LockInv
  <2>3. ASSUME NEW g \in Handler PROVE Serial(g)'
    <3>1. CASE g # h
      BY <1>0, <2>1, <2>2, <3>1, KeepsSerial
    <3>2. CASE g = h
      <4>1. event(h)' = event(h)
        BY <2>2, SameEvent
      <4>2. \A k \in Key : Current(h, k)' = total[k]
        BY <2>2 DEF Current
      <4> QED
        BY <1>0, <2>1, <2>2, <3>2, <4>1, <4>2 DEF Serial, Holds, Reduced
    <3> QED BY <3>1, <3>2
  <2> QED
    BY <2>2, <2>3 DEF SerialInv
<1>4. ASSUME NEW h \in Handler, DropHistory(h) \/ FinishHandler(h) PROVE SerialInv'
  BY <1>0, <1>1, <1>4 DEF DropHistory, FinishHandler, Ack, Goto
<1>5. ASSUME NEW h \in Handler, EndByException(h) PROVE SerialInv'
  BY <1>0, <1>1, <1>5 DEF EndByException, EndTransaction, Throw, Goto
<1>6. CASE Restart
  BY <1>1, <1>6 DEF Restart
<1>7. ASSUME NEW t \in Tx, ChangeTransaction(t) PROVE SerialInv'
  BY <1>1, <1>7, ChangePublishes DEF Publish
<1>8. CASE DeleteHousehold \/ LoseChannel \/ CleanProcessedEventIds \/ UNCHANGED vars
  BY <1>1, <1>8 DEF DeleteHousehold, Publish, LoseChannel, DropChannel, CleanProcessedEventIds, vars
<1> QED
  BY <1>2, <1>3, <1>4, <1>5, <1>6, <1>7, <1>8, SerialSubtract, SerialAdd, SerialCommit, SerialDrop
  DEF Next, Producer, Consumer, DeadlockVictim, Failure

-----------------------------------------------------------------------------
(* Refinement: a commit is a Post, or one without its subtraction; an ack that *)
(* reaches the broker is a Settle, the deletion of the snapshots an Erase; all *)
(* the rest leaves the ledger as it is.                                        *)

done == {i \in MessageId : applied[i] > 0}
settled == {i \in MessageId : deliv[i] = "acked"}

LEMMA LedgerStutter ==
  ASSUME UNCHANGED <<log, applied, total>>,
         \A i \in MessageId : deliv'[i] = "acked" <=> deliv[i] = "acked"
  PROVE  UNCHANGED Ledger!ledgerVars
  BY DEF Ledger!ledgerVars

LEMMA LedgerPublish ==
  ASSUME IInv, NEW m \in Message, Publish(m), UNCHANGED <<applied, total>>
  PROVE  Ledger!Publish
<1>1. log \in Seq(Message) /\ Len(log) \in Nat /\ deliv \in [MessageId -> {"none", "queued", "unacked", "acked"}]
  BY DEF IInv, QueueInv, QueueTypeOK
<1>2. Len(log) + 1 \in MessageId => deliv[Len(log) + 1] # "acked"
  BY <1>1 DEF IInv, QueueInv, DeliveriesInv
<1>3. {i \in MessageId : deliv'[i] = "acked"} = settled
  BY <1>1, <1>2 DEF Publish, settled
<1> QED
  BY <1>3, ReportAssumption
  DEF Ledger!Publish, Publish, settled, Event, Ledger!Event, Posting, Ledger!Posting, Entry,
      Ledger!Entry, Key, Ledger!Key, Month, Ledger!Month

\* What the two statements of an event do to a total.
LEMMA AddedTotals ==
  ASSUME NEW p \in Posting, NEW v \in [Key -> Nat]
  PROVE  /\ AddToTotal(v, p) \in [Key -> Nat]
         /\ \A k \in Key : AddToTotal(v, p)[k] = v[k] + Amount0(p, k)
<1>1. CASE p \in Entry
  <2>1. p.key \in Key /\ p.amount \in Nat
    BY <1>1, PostingsAssumption DEF Entry
  <2>2. AddToTotal(v, p) = [v EXCEPT ![p.key] = v[p.key] + p.amount]
    BY <1>1 DEF AddToTotal
  <2>3. v[p.key] + p.amount \in Nat
    BY <2>1
  <2>4. \A k \in Key : Amount0(p, k) = IF p.key = k THEN p.amount ELSE 0
    BY <1>1 DEF Amount0
  <2> QED
    BY <2>1, <2>2, <2>3, <2>4
<1>2. CASE p \notin Entry
  <2>1. \A k \in Key : v[k] \in Nat /\ Amount0(p, k) = 0
    BY <1>2 DEF Amount0
  <2> QED
    BY <1>2, <2>1 DEF AddToTotal
<1> QED
  BY <1>1, <1>2

LEMMA PostedTotals ==
  ASSUME NEW e \in Event, NEW v \in [Key -> Nat]
  PROVE  /\ Posted(v, e) \in [Key -> Nat]
         /\ \A k \in Key : Posted(v, e)[k] = Reduced(v[k], e.prev, k) + Amount0(e.next, k)
<1>1. e.next \in Posting
  BY DEF Event
<1> DEFINE w == SubtractFromTotal(v, e.prev)
<1>2. w \in [Key -> Nat] /\ \A k \in Key : w[k] = Reduced(v[k], e.prev, k)
  <2>1. CASE e.prev \in Entry
    <3>1. e.prev.amount \in Nat
      BY <2>1, PostingsAssumption DEF Entry
    <3> DEFINE x == IF v[e.prev.key] > e.prev.amount THEN v[e.prev.key] - e.prev.amount ELSE 0
    <3>2. w = [v EXCEPT ![e.prev.key] = x]
      BY <2>1 DEF SubtractFromTotal
    <3>3. e.prev.key \in Key => x \in Nat
      BY <3>1
    <3>4. \A k \in Key : Reduced(v[k], e.prev, k) = IF e.prev.key = k THEN x ELSE v[k]
      BY <2>1 DEF Reduced
    <3> QED
      BY <3>2, <3>3, <3>4
  <2>2. CASE e.prev \notin Entry
    BY <2>2 DEF SubtractFromTotal, Reduced
  <2> QED
    BY <2>1, <2>2
<1> HIDE DEF w
<1>3. /\ AddToTotal(w, e.next) \in [Key -> Nat]
      /\ \A k \in Key : AddToTotal(w, e.next)[k] = w[k] + Amount0(e.next, k)
  BY <1>1, <1>2, AddedTotals
<1> QED
  BY <1>2, <1>3 DEF Posted, w

\* A commit leaves what the transaction would leave behind, as SerialInv has it.
LEMMA LedgerCommit ==
  ASSUME IInv, TotalInv, SerialInv, RestTypes, NEW h \in Handler, Commit(h)
  PROVE  Ledger!Next \/ \E i \in late : CutShort(i)
<1> DEFINE e == event(h)
<1>0. PICK i \in MessageId : i = msg[h]
  BY HandledEvent DEF Commit
<1>1. /\ pc[h] = "commit" /\ UNCHANGED <<log, deliv>>
      /\ applied' = [applied EXCEPT ![i] = @ + 1]
      /\ total' = [k \in Key |-> Current(h, k)]
  BY <1>0 DEF Commit, queueVars, Current
<1>2. /\ i \in 1..Len(log) /\ e \in Event /\ e = log[i]
      /\ e.kind # "householdDeleted" /\ ChangesTotals(e) /\ applied[i] = 0
  BY <1>0, <1>1, HandledEvent DEF event, IInv, ControlInv, InTransaction
<1>3. total \in [Key -> Nat] /\ applied \in [MessageId -> Nat] /\ late \subseteq MessageId
  BY DEF TotalInv, Numbers, IInv, ControlTypes, RestTypes
<1>4. Serial(h)
  BY DEF SerialInv
<1>5. CASE \A k \in Key : Current(h, k) = Reduced(total[k], e.prev, k) + Amount0(e.next, k)
  <2>1. total' = Posted(total, e)
    <3> DEFINE w == Posted(total, e)
    <3>1. w \in [Key -> Nat] /\ \A k \in Key : w[k] = Current(h, k)
      BY <1>2, <1>3, <1>5, PostedTotals
    <3> HIDE DEF w
    <3>2. total' = w
      BY <1>1, <3>1
    <3> QED
      BY <3>2 DEF w
  <2>2. i \notin done /\ {j \in MessageId : applied'[j] > 0} = done \cup {i}
    BY <1>1, <1>2, <1>3 DEF done
  <2>3. Guarded(log[i])
    BY <1>2 DEF Guarded, ChangesTotals
  <2>4. Ledger!Post(i)
    BY <1>1, <1>2, <2>1, <2>2, <2>3
    DEF Ledger!Post, MessageId, Ledger!Guarded, Guarded, done, Posted,
        Ledger!Posted, AddToTotal, Ledger!AddToTotal, SubtractFromTotal,
        Ledger!SubtractFromTotal, Entry, Ledger!Entry, Key, Ledger!Key, Month, Ledger!Month
  <2> QED
    BY <1>2, <2>4 DEF Ledger!Next
<1>6. CASE i \in late /\ \A k \in Key : Current(h, k) = total[k] + Amount0(e.next, k)
  <2>1. e.next \in Posting
    BY <1>2 DEF Event
  <2>2. total' = AddToTotal(total, e.next)
    BY <1>1, <1>3, <1>6, <2>1, AddedTotals
  <2>3. CutShort(i)
    BY <1>1, <1>2, <1>3, <2>2 DEF CutShort
  <2> QED
    BY <1>6, <2>3
<1> QED
  BY <1>0, <1>1, <1>4, <1>5, <1>6 DEF Serial

LEMMA LedgerStep ==
  ASSUME IInv, TotalInv, SerialInv, RestTypes, [Next]_vars
  PROVE  Ledger!Next \/ (\E i \in late : CutShort(i)) \/ UNCHANGED Ledger!ledgerVars
<1> DEFINE Goal == Ledger!Next \/ (\E i \in late : CutShort(i)) \/ UNCHANGED Ledger!ledgerVars
<1> USE DEF rowVars, taskVars, ghostVars
<1>0. deliv \in [MessageId -> {"none", "queued", "unacked", "acked"}]
  BY DEF IInv, QueueInv, QueueTypeOK
<1>1. ASSUME NEW t \in Tx, ChangeTransaction(t) PROVE Goal
  BY <1>1, ChangePublishes, LedgerPublish DEF Ledger!Next
<1>2. CASE DeleteHousehold
  <2>1. [kind |-> "householdDeleted", prev |-> Absent, next |-> Absent] \in Message
    BY ReportAssumption DEF Event, Posting
  <2> QED
    BY <1>2, <2>1, LedgerPublish DEF DeleteHousehold, Ledger!Next
<1>3. ASSUME NEW h \in Handler, Commit(h) PROVE Goal
  BY <1>3, LedgerCommit
<1>4. ASSUME NEW h \in Handler, FinishHandler(h) PROVE Goal
  <2>0. PICK i \in MessageId : i = msg[h]
    BY <1>4, HandledEvent DEF FinishHandler
  <2>1. /\ UNCHANGED <<log, applied, total>> /\ pc[h] = "ack"
        /\ deliv' = [deliv EXCEPT ![i] = IF live[h] THEN "acked" ELSE @]
    BY <1>4, <2>0 DEF FinishHandler, Ack
  <2>2. i \in 1..Len(log) /\ (Guarded(log[i]) => applied[i] = 1)
    BY <2>0, <2>1, HandledEvent DEF IInv, AccountInv, Guarded
  <2>3. CASE deliv[i] = "acked" \/ ~live[h]
    <3>1. \A j \in MessageId : deliv'[j] = "acked" <=> deliv[j] = "acked"
      BY <1>0, <2>1, <2>3
    <3> QED
      BY <2>1, <3>1, LedgerStutter
  <2>4. CASE deliv[i] # "acked" /\ live[h]
    <3>1. i \notin settled /\ {j \in MessageId : deliv'[j] = "acked"} = settled \cup {i}
      BY <1>0, <2>1, <2>2, <2>4 DEF settled
    <3>2. Guarded(log[i]) => i \in done
      BY <2>2 DEF done
    <3>3. Ledger!Settle(i)
      BY <2>1, <2>2, <3>1, <3>2
      DEF Ledger!Settle, MessageId, settled, done, Guarded, Ledger!Guarded, Entry,
          Ledger!Entry, Key, Ledger!Key, Month, Ledger!Month
    <3> QED
      BY <2>2, <3>3 DEF Ledger!Next
  <2> QED
    BY <2>3, <2>4
<1>5. ASSUME NEW h \in Handler, DropSnapshots(h) PROVE Goal
  <2>1. msg[h] \in 1..Len(log) /\ log[msg[h]].kind = "householdDeleted"
    BY <1>5, HandledEvent DEF IInv, ControlInv, DropSnapshots
  <2>2. Ledger!Erase
    BY <1>5, <2>1 DEF DropSnapshots, Ledger!Erase, queueVars, ZeroTotals, Ledger!ZeroTotals, Key,
                      Ledger!Key, Month, Ledger!Month
  <2> QED
    BY <2>2 DEF Ledger!Next
<1>6. CASE Restart \/ LoseChannel
  BY <1>6, LedgerStutter DEF Restart, LoseChannel, Crash, DropChannel, Requeued
<1>7. ASSUME NEW h \in Handler, StartHandler(h) PROVE Goal
  BY <1>0, <1>7, LedgerStutter DEF StartHandler, Deliver, AtHead
<1>8. ASSUME NEW h \in Handler,
             \/ Claim(h) \/ SubtractFromSnapshot(h) \/ EndByException(h) \/ DropHistory(h)
             \/ (AddToSnapshot(h) /\ ~EndByException(h))
      PROVE  Goal
  <2>1. UNCHANGED <<log, deliv, applied, total>>
    BY <1>8 DEF Claim, SubtractFromSnapshot, EndByException, DropHistory, AddToSnapshot, Throw,
                queueVars
  <2> QED
    BY <2>1, LedgerStutter
<1>9. CASE CleanProcessedEventIds \/ UNCHANGED vars
  BY <1>9, LedgerStutter DEF CleanProcessedEventIds, vars, queueVars
<1> QED
  BY <1>1, <1>2, <1>3, <1>4, <1>5, <1>6, <1>7, <1>8, <1>9
  DEF Next, Producer, Consumer, DeadlockVictim, Failure

\* However the statements of the handlers' transactions interleave, report-service
\* takes each event in one step, as the ledger does; only a subtraction that was
\* cut short can be missing from it.
THEOREM TransactionsSerialize == Spec => CommitsSerialize
<1>1. Init => TotalInv /\ SerialInv /\ RestTypes
  BY TotalInit, SerialInit DEF Init, RestTypes, Entry, Key
<1>2. IInv /\ TotalInv /\ SerialInv /\ RestTypes /\ [Next]_vars
        => TotalInv' /\ SerialInv' /\ RestTypes'
  BY TotalStep, SerialStep, RestStep
<1>3. IInv /\ TotalInv /\ SerialInv /\ RestTypes /\ [Next]_vars
        => [Ledger!Next \/ \E i \in late : CutShort(i)]_(Ledger!ledgerVars)
  BY LedgerStep
<1> QED
  BY <1>1, <1>2, <1>3, Invariance, PTL DEF Spec, CommitsSerialize

-----------------------------------------------------------------------------
(* The reports add the totals up *)

CategoriesOf(K) == {k.cat[1] : k \in K}
MonthsOf(K) == {k.month : k \in K}
Lines(K, type, c) == {k \in Of(K, type) : k.cat[1] = c}
RowsOfYear(y) == {k \in rows : YearOf(k.month) = y}

\* Images are finite; this is the library's FS_Image for the two that occur.
LEMMA FiniteKeys ==
  /\ IsFiniteSet(Key)
  /\ \A K : IsFiniteSet(K) => IsFiniteSet(CategoriesOf(K)) /\ IsFiniteSet(MonthsOf(K))
<1>1. IsFiniteSet(Key)
  <2> DEFINE S == Category \X Month
             f == [x \in S |-> [cat |-> x[1], month |-> x[2]]]
  <2>1. IsFiniteSet(Month)
    BY FS_Interval, PostingsAssumption DEF Month
  <2>2. IsFiniteSet(S)
    BY <2>1, FS_Product, ReportAssumption
  <2>3. ASSUME NEW k \in Key PROVE \E x \in S : f[x] = k
    <3>1. <<k.cat, k.month>> \in S /\ f[<<k.cat, k.month>>] = k
      BY DEF Key
    <3> QED BY <3>1
  <2>4. f \in Surjection(S, Key)
    BY <2>3 DEF Surjection, Key
  <2> QED
    BY <2>2, <2>4, FS_Surjection
<1>2. ASSUME NEW K, IsFiniteSet(K)
      PROVE  IsFiniteSet(CategoriesOf(K)) /\ IsFiniteSet(MonthsOf(K))
  <2> DEFINE c == [k \in K |-> k.cat[1]]  m == [k \in K |-> k.month]
  <2>1. c \in Surjection(K, CategoriesOf(K)) /\ m \in Surjection(K, MonthsOf(K))
    BY DEF Surjection, CategoriesOf, MonthsOf
  <2> QED
    BY <1>2, <2>1, FS_Surjection
<1> QED
  BY <1>1, <1>2

LEMMA TotalsAreSums ==
  ASSUME TotalInv, RestTypes, NEW K \in SUBSET rows
  PROVE  IsFiniteSet(K) /\ Integral(total, K)
<1>1. K \in SUBSET Key
  BY DEF RestTypes
<1> QED
  BY <1>1, FiniteKeys, FS_Subset DEF Integral, TotalInv, Numbers

\* The total of some rows is that of their categories, and that of their months.
LEMMA ByCategory ==
  ASSUME TotalInv, RestTypes, NEW K \in SUBSET rows, NEW type,
         NEW g, \A c \in CategoriesOf(K) : g[c] = SumOf(Lines(K, type, c))
  PROVE  SumOf(Of(K, type)) = SumOver(g, CategoriesOf(K))
<1> DEFINE S == Of(K, type)  C == CategoriesOf(K)  p == [k \in S |-> k.cat[1]]
<1>1. S \subseteq K /\ S \in SUBSET rows
  BY DEF Of
<1>2. IsFiniteSet(S) /\ Integral(total, S) /\ IsFiniteSet(C)
  BY <1>1, TotalsAreSums, FiniteKeys
<1>3. \A x \in S : p[x] \in C
  BY <1>1 DEF CategoriesOf
<1>4. \A c \in C : g[c] = SumOver(total, {x \in S : p[x] = c})
  <2> SUFFICES ASSUME NEW c \in C PROVE g[c] = SumOver(total, {x \in S : p[x] = c})
    OBVIOUS
  <2>1. {x \in S : p[x] = c} = Lines(K, type, c)
    BY DEF Lines
  <2> QED
    BY <2>1 DEF SumOf
<1> HIDE DEF S, C, p
<1>5. SumOver(total, S) = SumOver(g, C)
  BY <1>2, <1>3, <1>4, SumOfParts
<1> QED
  BY <1>5 DEF SumOf, S, C

LEMMA ByMonth ==
  ASSUME TotalInv, RestTypes, NEW y, NEW type,
         NEW g, \A m \in MonthsOf(RowsOfYear(y)) : g[m] = SumOf(Of(RowsOf(m), type))
  PROVE  SumOf(Of(RowsOfYear(y), type)) = SumOver(g, MonthsOf(RowsOfYear(y)))
<1> DEFINE K == RowsOfYear(y)  S == Of(K, type)  C == MonthsOf(K)  p == [k \in S |-> k.month]
<1>1. S \subseteq K /\ S \in SUBSET rows /\ K \in SUBSET rows
  BY DEF Of, RowsOfYear
<1>2. IsFiniteSet(S) /\ Integral(total, S) /\ IsFiniteSet(C)
  BY <1>1, TotalsAreSums, FiniteKeys
<1>3. \A x \in S : p[x] \in C
  BY <1>1 DEF MonthsOf
<1>4. \A c \in C : g[c] = SumOver(total, {x \in S : p[x] = c})
  <2> SUFFICES ASSUME NEW c \in C PROVE g[c] = SumOver(total, {x \in S : p[x] = c})
    OBVIOUS
  <2>1. YearOf(c) = y
    BY DEF MonthsOf, RowsOfYear
  <2>2. {x \in S : p[x] = c} = Of(RowsOf(c), type)
    BY <2>1 DEF Of, RowsOf, RowsOfYear
  <2> QED
    BY <2>2 DEF SumOf
<1> HIDE DEF S, C, p
<1>5. SumOver(total, S) = SumOver(g, C)
  BY <1>2, <1>3, <1>4, SumOfParts
<1> QED
  BY <1>5 DEF SumOf, S, C

\* All events settled and none cut short: every total is what is booked.
LEMMA QuietTotals ==
  ASSUME IInv, TotalInv, BookInv, ExactInv, Quiet, Uncut
  PROVE  \A k \in Key : total[k] = Booked(k) /\ (k \notin rows => total[k] = 0)
<1> SUFFICES ASSUME NEW k \in Key
             PROVE  total[k] = Booked(k) /\ (k \notin rows => total[k] = 0)
  OBVIOUS
<1>1. ASSUME NEW i \in 1..Len(log) PROVE applied[i] # 0
  <2>1. i \in MessageId /\ deliv[i] = "acked"
    BY EventType DEF Quiet, IInv, QueueInv, DeliveriesInv
  <2>2. log[i].kind # "householdDeleted"
    BY DEF Uncut, HouseholdAlive, IInv, QueueInv, QueueTypeOK
  <2> QED
    BY <2>1, <2>2 DEF IInv, AccountInv
<1>2. \A i \in MessageId : Outstanding(k)[i] = 0
  BY <1>1 DEF Outstanding
<1>3. SumOver(Outstanding(k), MessageId) = 0
  BY <1>2, EventSums, SumZero
<1>4. Booked(k) = net[k] + SumOver(Outstanding(k), MessageId) /\ net[k] \in Int
  BY DEF BookInv, BookedInv, Uncut, TotalInv, Numbers
<1> QED
  BY <1>3, <1>4 DEF ExactInv

LEMMA MonthBooked ==
  ASSUME IInv, TotalInv, RestTypes, BookInv, ExactInv, Quiet, Uncut, NEW m \in Month, NEW type
  PROVE  SumOf(Of(RowsOf(m), type))
           = SumOver([k \in Key |-> Booked(k)], {k \in Key : k.month = m /\ k.cat[2] = type})
<1> DEFINE S == {k \in Key : k.month = m /\ k.cat[2] = type}  T == Of(RowsOf(m), type)
           b == [k \in Key |-> Booked(k)]
<1>1. T \in SUBSET rows /\ T \subseteq S /\ S \in SUBSET Key /\ \A k \in S \ T : k \notin rows
  BY DEF Of, RowsOf, RestTypes
<1>2. IsFiniteSet(S) /\ IsFiniteSet(T) /\ Integral(total, T)
  BY <1>1, FiniteKeys, FS_Subset, TotalsAreSums
<1>3. \A k \in S : b[k] = total[k] /\ (k \notin rows => total[k] = 0)
  BY <1>1, QuietTotals
<1> HIDE DEF S, T, b
<1>4. SumOver(b, S) = SumOver(total, S)
  BY <1>2, <1>3, SumSame
<1>5. SumOver(total, S) = SumOver(total, T)
  BY <1>1, <1>2, <1>3, SumSubset
<1> QED
  BY <1>4, <1>5 DEF SumOf, S, T, b

\* The reports agree with one another at any moment, and with the transactions
\* whenever all events are settled and no subtraction was cut short.
THEOREM ReportsAreExact == Spec => []ReportsExact
<1> DEFINE Inv == IInv /\ TotalInv /\ RestTypes /\ BookInv /\ ExactInv
<1>1. Inv => ReportsExact
  <2> SUFFICES ASSUME IInv, TotalInv, RestTypes, BookInv, ExactInv PROVE ReportsExact
    OBVIOUS
  <2>1. ASSUME NEW m \in Month
        PROVE  Totals(m) = AddedUp(CategoryBreakdown(RowsOf(m)))
    <3> DEFINE K == RowsOf(m)  C == CategoriesOf(K)  lines == CategoryBreakdown(K)
               gi == [c \in C |-> lines[c].income]  ge == [c \in C |-> lines[c].expense]
    <3>1. /\ DOMAIN lines = C
          /\ \A c \in C : gi[c] = SumOf(Lines(K, "income", c))
          /\ \A c \in C : ge[c] = SumOf(Lines(K, "expense", c))
      BY DEF CategoryBreakdown, CategoriesOf, Lines
    <3>2. K \in SUBSET rows
      BY DEF RowsOf
    <3> HIDE DEF K, lines
    <3>3. /\ SumOf(Of(K, "income")) = SumOver(gi, C)
          /\ SumOf(Of(K, "expense")) = SumOver(ge, C)
      <4> HIDE DEF gi, ge
      <4> QED BY <3>1, <3>2, ByCategory
    <3> QED
      BY <3>1, <3>3 DEF Totals, AddedUp, K, lines
  <2>2. ASSUME NEW m \in Month, Quiet, HouseholdAlive, late = {}
        PROVE  Totals(m) = BookedTotals(m)
    BY <2>2, MonthBooked DEF Uncut, Totals, BookedTotals
  <2>3. ASSUME NEW y
        PROVE  GetYearly(y).totals = AddedUp(GetYearly(y).months)
    <3> DEFINE K == RowsOfYear(y)  C == MonthsOf(K)
               lines == [m \in C |-> Totals(m)]
               gi == [m \in C |-> lines[m].income]  ge == [m \in C |-> lines[m].expense]
    <3>1. /\ \A m \in C : gi[m] = SumOf(Of(RowsOf(m), "income"))
          /\ \A m \in C : ge[m] = SumOf(Of(RowsOf(m), "expense"))
      BY DEF Totals
    <3>2. /\ SumOf(Of(K, "income")) = SumOver(gi, C)
          /\ SumOf(Of(K, "expense")) = SumOver(ge, C)
      <4> HIDE DEF gi, ge
      <4>1. SumOf(Of(K, "income")) = SumOver(gi, C)
        BY <3>1, ByMonth
      <4>2. SumOf(Of(K, "expense")) = SumOver(ge, C)
        BY <3>1, ByMonth
      <4> QED BY <4>1, <4>2
    <3>3. AddedUp(lines) = [income |-> SumOver(gi, C), expense |-> SumOver(ge, C)]
      BY DEF AddedUp
    <3> QED
      BY <3>2, <3>3 DEF GetYearly, RowsOfYear, MonthsOf
  <2>4. ASSUME NEW m \in Month
        PROVE  \A u \in GetMember(m) : /\ u.totals = Totals(m)
                                       /\ u.breakdown = CategoryBreakdown(RowsOf(m))
    BY DEF GetMember
  <2>5. ASSUME NEW m \in Month PROVE Totals(PreviousMonth(m)) = GetMonthly(m - 1).totals
    BY DEF GetMonthly, PreviousMonth
  <2>6. ASSUME NEW m
        PROVE  /\ GetMonthly(m).totals = Totals(m)
               /\ GetMonthly(m).breakdown = CategoryBreakdown(RowsOf(m))
               /\ GetMonthly(m).previous = Totals(PreviousMonth(m))
    BY DEF GetMonthly
  <2> HIDE DEF Inv
  <2> QED
    BY <2>1, <2>2, <2>3, <2>4, <2>5, <2>6 DEF ReportsExact
<1>2. Init => Inv
  <2>1. Init => RestTypes
    BY DEF Init, RestTypes, Entry, Key
  <2> QED
    BY <2>1, InvInit, TotalInit, BookInit, ExactInit
<1>3. Inv /\ [Next]_vars => Inv'
  BY InvStep, TotalStep, RestStep, BookStep, ExactStep
<1> QED
  BY <1>1, <1>2, <1>3, PTL DEF Spec
-----------------------------------------------------------------------------
(***************************************************************************)
(* NobodyWaitsForever, with the conditions under which a handler has a     *)
(* step written out instead of ENABLED: what its statement waits for is    *)
(* free, or PostgreSQL finds it in a circle of transactions that wait for  *)
(* one another.                                                            *)
(***************************************************************************)
CanGoOn(h) ==
  \/ pc[h] \in {"commit", "ack", "dropHistory"}
  \/ pc[h] = "claim" /\ ~IdTaken(h)
  \/ /\ pc[h] = "subtract"
     /\ event(h).prev.key \in rows => ~LockedByOther(h, event(h).prev.key)
  \/ pc[h] = "add" /\ ~LockedByOther(h, event(h).next.key)
  \/ pc[h] = "dropSnapshots" /\ \A k \in rows : ~LockedByOther(h, k)

InCircle(h) ==
  \E S \in SUBSET Handler :
    /\ h \in S
    /\ \A g \in S : \E f \in S \ {g} : WaitsFor(g, f)

\* Whoever waits for a row waits for a transaction that has written it, and that
\* one waits for a row itself unless it can go on: the transactions that wait are
\* a circle as long as nobody can go on (withIdempotency, the deadlock detection).
THEOREM SomebodyGoesOn ==
  Spec => []((\E h \in Handler : pc[h] # "free")
               => \E h \in Handler : CanGoOn(h) \/ InCircle(h))
<1>1. IInv /\ TotalInv /\ (\E h \in Handler : pc[h] # "free")
        => \E h \in Handler : CanGoOn(h) \/ InCircle(h)
  <2> SUFFICES ASSUME IInv, TotalInv, NEW h \in Handler, pc[h] # "free",
                      \A g \in Handler : ~CanGoOn(g)
               PROVE  \E g \in Handler : InCircle(g)
    OBVIOUS
  <2> DEFINE S == {g \in Handler : pc[g] \in {"subtract", "add"}}
  <2>1. ASSUME NEW g \in Handler, NEW k, LockedByOther(g, k)
        PROVE  \E f \in S \ {g} : k \in held[f]
    BY <2>1 DEF LockedByOther, Others, TotalInv, LockInv, CanGoOn
  <2>2. ASSUME NEW g \in S PROVE \E f \in S \ {g} : WaitsFor(g, f)
    <3>1. CASE pc[g] = "subtract"
      <4>1. event(g).prev.key \in rows /\ LockedByOther(g, event(g).prev.key)
        BY <3>1 DEF CanGoOn
      <4> QED
        BY <2>1, <3>1, <4>1 DEF WaitsFor
    <3>2. CASE pc[g] = "add"
      <4>1. LockedByOther(g, event(g).next.key)
        BY <3>2 DEF CanGoOn
      <4> QED
        BY <2>1, <3>2, <4>1 DEF WaitsFor
    <3> QED
      BY <3>1, <3>2
  <2>3. S # {}
    <3>1. pc[h] \in Step
      BY DEF IInv, ControlTypes
    <3>2. CASE pc[h] = "claim"
      <4>1. IdTaken(h)
        BY <3>2 DEF CanGoOn
      <4> QED
        BY <4>1 DEF IdTaken, Others, CanGoOn
    <3>3. CASE pc[h] = "dropSnapshots"
      <4>1. \E k \in rows : LockedByOther(h, k)
        BY <3>3 DEF CanGoOn
      <4> QED
        BY <2>1, <4>1
    <3> QED
      BY <3>1, <3>2, <3>3 DEF Step, CanGoOn
  <2>4. \A g \in S : InCircle(g)
    BY <2>2 DEF InCircle
  <2> QED
    BY <2>3, <2>4
<1> QED
  BY <1>1, InvInit, InvStep, TotalInit, TotalStep, PTL DEF Spec
=============================================================================
