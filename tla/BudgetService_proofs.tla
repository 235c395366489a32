------------------------ MODULE BudgetService_proofs ------------------------
(***************************************************************************)
(* For every number of handlers, transactions, categories, messages and    *)
(* faults: budget-service is type correct, applies each event exactly once *)
(* and implements the abstract ledger; without a fault each flag stands    *)
(* for an alert, no crossing of a threshold is missed, and, when           *)
(* deliveries are handled one at a time, no alert is repeated and the      *)
(* deletion of a household leaves nothing behind.                          *)
(***************************************************************************)
EXTENDS BudgetService, Consumer_proofs

AlertSteps == {"snapshot", "state", "insertState", "mark", "emit"}
DropSteps == {"list", "dropStates", "dropSnapshots", "dropBudgets"}

(***************************************************************************)
(* What a handler's program counter says of the message it handles and of  *)
(* what it has read.                                                       *)
(***************************************************************************)
ControlInv ==
  /\ \A i \in MessageId : deliv[i] # "none" => i \in 1..Len(log)
  /\ \A h \in Handler :
       /\ msg[h] = 0 <=> pc[h] = "free"
       /\ msg[h] # 0 => deliv[msg[h]] # "none"
       /\ pc[h] = "apply" => Guarded(log[msg[h]])
       /\ pc[h] \in AlertSteps \cup {"budget"} =>
            /\ log[msg[h]].next \in Entry
            /\ Guarded(log[msg[h]])
       /\ pc[h] \in AlertSteps => view[h].gen \in Gen
       /\ pc[h] \in DropSteps => log[msg[h]].kind = "householdDeleted"

(***************************************************************************)
(* How often an event has been applied, against what the database and the  *)
(* broker remember of it.  The third conjunct is the point: an id that the *)
(* cron has dropped belongs to a message that nobody can handle any more.  *)
(***************************************************************************)
AccountInv ==
  /\ \A i \in MessageId : applied[i] <= 1
  /\ \A i \in processed : applied[i] = 1
  /\ \A i \in MessageId : applied[i] = 1 => i \in processed \/ Finished(i)
  /\ \A i \in MessageId :
       deliv[i] = "acked" /\ Guarded(log[i]) => applied[i] = 1
  /\ \A h \in Handler :
       pc[h] \notin {"free", "apply"} /\ Guarded(log[msg[h]])
         => applied[msg[h]] = 1

IInv == TypeOK /\ ControlInv /\ AccountInv

-----------------------------------------------------------------------------
(* Data *)

\* Totals stay naturals: an upsert adds, and the clamp keeps a subtraction
\* from going below zero.
LEMMA PostedType ==
  ASSUME NEW total \in [Key -> Nat], NEW e \in Event
  PROVE  Posted(total, e) \in [Key -> Nat]
<1>1. \A p \in Entry : p.key \in Key /\ p.amount \in Nat
  BY PostingsAssumption DEF Entry
<1> DEFINE less == SubtractFromTotal(total, e.prev)
<1>2. less \in [Key -> Nat]
  BY <1>1 DEF SubtractFromTotal
<1>3. AddToTotal(less, e.next) \in [Key -> Nat]
  <2> HIDE DEF less
  <2> QED BY <1>1, <1>2 DEF AddToTotal
<1> QED
  BY <1>3 DEF Posted

LEMMA EventType ==
  ASSUME TypeOK, NEW i \in 1..Len(log)
  PROVE  log[i] \in Event
  BY BudgetAssumption DEF TypeOK, QueueTypeOK

\* What a handler needs to know of itself before it touches an alert state.
LEMMA AlertKeyType ==
  ASSUME IInv, NEW h \in Handler, pc[h] \in AlertSteps
  PROVE  AlertKey(h) \in StateKey
<1>1. msg[h] \in 1..Len(log)
  BY DEF IInv, TypeOK, QueueTypeOK, ControlInv, AlertSteps
<1>2. log[msg[h]].next \in Entry /\ view[h].gen \in Gen
  BY DEF IInv, ControlInv
<1>3. key(h) \in Key
  BY <1>2 DEF key, event, Entry
<1> QED
  BY <1>2, <1>3 DEF AlertKey, StateKey, Key

-----------------------------------------------------------------------------
(* Types *)

LEMMA TypeInit == Init => TypeOK
<1> SUFFICES ASSUME Init PROVE TypeOK
  OBVIOUS
<1>1. QueueTypeOK
  BY BoundsAssumption DEF Init, QueueInit, QueueTypeOK, MessageId
<1>2. book \in [Tx -> Posting] /\ now \in Month
  BY PostingsAssumption DEF Init, Posting, Month
<1>3. /\ processed \subseteq MessageId
      /\ spent \in [Key -> Nat]
      /\ snapRows \subseteq Key
  BY DEF Init, ZeroTotals
<1>4. /\ budgets \in [Category -> {NoBudget} \cup [gen: Gen, limit: Limit]]
      /\ gens \in [Category -> 0..MaxGen]
  BY BudgetAssumption DEF Init, Gen
<1>5. /\ stateRows \subseteq StateKey
      /\ warned \subseteq StateKey
      /\ exceeded \subseteq StateKey
  BY DEF Init
<1>6. NoView \in View
  BY BudgetAssumption DEF NoView, View
<1>7. /\ pc \in [Handler -> Step]
      /\ view \in [Handler -> View]
  BY <1>6 DEF Init, Step
<1>8. patch = NoPatch /\ ops \in 0..MaxOps
  BY BudgetAssumption DEF Init
<1>9. /\ applied \in [MessageId -> Nat]
      /\ sent \in [StateKey \X Level -> Nat]
  BY DEF Init
<1> QED
  BY <1>1, <1>2, <1>3, <1>4, <1>5, <1>7, <1>8, <1>9 DEF TypeOK

LEMMA NoViewType == NoView \in View
  BY BudgetAssumption DEF NoView, View

LEMMA TypeStep == IInv /\ [Next]_vars => TypeOK'
<1> SUFFICES ASSUME IInv, [Next]_vars PROVE TypeOK'
  OBVIOUS
<1> USE NoViewType DEF TypeOK, rowVars, budgetVars, alertVars, taskVars, httpVars, ghostVars
<1>0. TypeOK
  BY DEF IInv
<1>1. ASSUME NEW t \in Tx, NEW kind \in {"created", "updated", "deleted"},
             NEW p \in Posting, PublishChange(t, kind, p)
      PROVE  TypeOK'
  <2>1. [kind |-> kind, prev |-> book[t], next |-> p] \in Message
    BY <1>0, BudgetAssumption DEF Event
  <2> QED
    BY <1>0, <1>1, <2>1, QueueTypeStep DEF PublishChange
<1>2. ASSUME NEW t \in Tx, \/ CreateTransaction(t) \/ UpdateTransaction(t)
                           \/ DeleteTransaction(t)
      PROVE  TypeOK'
  <2>1. Absent \in Posting
    BY DEF Posting
  <2> QED
    BY <1>1, <1>2, <2>1 DEF CreateTransaction, UpdateTransaction,
                            DeleteTransaction
<1>3. ASSUME DeleteHousehold PROVE TypeOK'
  <2>1. [kind |-> "householdDeleted", prev |-> Absent, next |-> Absent]
          \in Message
    BY BudgetAssumption DEF Event, Posting
  <2> QED
    BY <1>0, <1>3, <2>1, QueueTypeStep DEF DeleteHousehold
<1>4. ASSUME NEW h \in Handler, StartHandler(h) PROVE TypeOK'
  BY <1>0, <1>4, QueueTypeStep DEF StartHandler, Goto, FirstStep, Step
<1>5. ASSUME NEW h \in Handler, Apply(h) PROVE TypeOK'
  <2>1. msg[h] \in 1..Len(log) /\ msg[h] \in MessageId
    BY <1>0, <1>5 DEF IInv, ControlInv, Apply, QueueTypeOK
  <2>2. log[msg[h]] \in Event
    BY <1>0, <2>1, EventType
  <2>3. Post(msg[h]) => spent' \in [Key -> Nat]
    BY <1>0, <2>2, PostedType DEF Post
  <2>4. Post(msg[h]) => snapRows' \subseteq Key
    BY <1>0 DEF Post, Entry
  <2>5. Post(msg[h]) => processed' \subseteq MessageId
    BY <1>0, <2>1 DEF Post
  <2>6. Post(msg[h]) => applied' \in [MessageId -> Nat]
    BY <1>0, <2>1 DEF Post
  <2>7. pc' \in [Handler -> Step]
    BY <1>0, <1>5 DEF Apply, Goto, AfterApply, Step
  <2> QED
    BY <1>0, <1>5, <2>3, <2>4, <2>5, <2>6, <2>7, QueueTypeStep
    DEF Apply, Skip
<1>6. ASSUME NEW h \in Handler, ApplyOverflows(h) PROVE TypeOK'
  BY <1>0, <1>6, QueueTypeStep
  DEF ApplyOverflows, EndByException, Goto, Step, QueueTypeOK
<1>7. ASSUME NEW h \in Handler, FindBudget(h) PROVE TypeOK'
  <2>1. key(h).cat \in Category
    BY <1>7 DEF IInv, ControlInv, FindBudget, key, event, Entry, Key
  <2> DEFINE b == budgets[key(h).cat]
  <2>2. b.gen \in 0..MaxGen /\ b.limit \in Limit \cup {0}
    BY <1>0, <2>1, BudgetAssumption DEF NoBudget, Gen
  <2>3. view' = [view EXCEPT ![h].gen = b.gen, ![h].limit = b.limit]
    BY <1>7 DEF FindBudget
  <2>4. view' \in [Handler -> View]
    <3> HIDE DEF b
    <3>1. view[h] \in View /\ view \in [Handler -> View]
      BY <1>0
    <3>2. [view[h] EXCEPT !.gen = b.gen, !.limit = b.limit] \in View
      BY <2>2, <3>1 DEF View
    <3>3. view' = [view EXCEPT ![h] = [view[h] EXCEPT !.gen = b.gen, !.limit = b.limit]]
      BY <2>3
    <3> QED BY <3>1, <3>2, <3>3
  <2> QED
    BY <1>0, <1>7, <2>4, QueueTypeStep DEF FindBudget, Goto, Step
<1>8. ASSUME NEW h \in Handler, FindSnapshot(h) PROVE TypeOK'
  <2>1. key(h) \in Key
    BY <1>8 DEF IInv, ControlInv, FindSnapshot, key, event, Entry, AlertSteps
  <2>2. view' \in [Handler -> View]
    BY <1>0, <1>8, <2>1 DEF FindSnapshot, View
  <2> QED
    BY <1>0, <1>8, <2>2, QueueTypeStep DEF FindSnapshot, Goto, Step
<1>9. ASSUME NEW h \in Handler, NEW flags, Decide(h, flags)
      PROVE  view' \in [Handler -> View] /\ pc' \in [Handler -> Step]
  <2>1. Alert(view[h], flags) \in Level \cup {"none"}
    BY DEF Alert, Level
  <2>2. view' \in [Handler -> View]
    BY <1>0, <1>9, <2>1 DEF Decide, View
  <2> QED
    BY <1>0, <1>9, <2>2 DEF Decide, Goto, Step
<1>10. ASSUME NEW h \in Handler, FindState(h) PROVE TypeOK'
  <2>1. view' \in [Handler -> View] /\ pc' \in [Handler -> Step]
    BY <1>0, <1>9, <1>10 DEF FindState, Goto, Step
  <2> QED
    BY <1>0, <1>10, <2>1, QueueTypeStep DEF FindState
<1>11. ASSUME NEW h \in Handler, InsertState(h) PROVE TypeOK'
  <2>1. AlertKey(h) \in StateKey
    BY <1>11, AlertKeyType DEF InsertState, AlertSteps
  <2> QED
    BY <1>0, <1>9, <1>11, <2>1, QueueTypeStep DEF InsertState
<1>12. ASSUME NEW h \in Handler, InsertStateFails(h) PROVE TypeOK'
  BY <1>0, <1>12, QueueTypeStep
  DEF InsertStateFails, EndByException, Goto, Step, QueueTypeOK
<1>13. ASSUME NEW h \in Handler, MarkSent(h) PROVE TypeOK'
  <2>1. AlertKey(h) \in StateKey
    BY <1>13, AlertKeyType DEF MarkSent, AlertSteps
  <2> QED
    BY <1>0, <1>13, <2>1, QueueTypeStep DEF MarkSent, Goto, Step
<1>14. ASSUME NEW h \in Handler, EmitAlert(h) PROVE TypeOK'
  <2> DEFINE a == <<AlertKey(h), view[h].level>>
  <2>1. sent' = [sent EXCEPT ![a] = @ + 1]
    BY <1>14 DEF EmitAlert
  <2>2. ASSUME NEW S, NEW f \in [S -> Nat], NEW x
        PROVE  [f EXCEPT ![x] = f[x] + 1] \in [S -> Nat]
    <3>1. CASE x \in S
      <4>1. f[x] + 1 \in Nat
        BY <3>1
      <4> QED BY <4>1
    <3>2. CASE x \notin S
      BY <3>2
    <3> QED BY <3>1, <3>2
  <2>3. sent' \in [StateKey \X Level -> Nat]
    BY <1>0, <2>1, <2>2
  <2> QED
    BY <1>0, <1>14, <2>3, QueueTypeStep DEF EmitAlert, Goto, Step
<1>15. ASSUME NEW h \in Handler, FinishHandler(h) PROVE TypeOK'
  BY <1>0, <1>15, QueueTypeStep DEF FinishHandler, Goto, Step
<1>16. ASSUME NEW h \in Handler, ListBudgets(h) PROVE TypeOK'
  <2> DEFINE ids == {<<c, budgets[c].gen>> :
                       c \in {d \in Category : budgets[d] # NoBudget}}
  <2>1. ids \subseteq Category \X Gen
    BY <1>0
  <2>2. view' \in [Handler -> View]
    BY <1>0, <1>16, <2>1 DEF ListBudgets, View
  <2> QED
    BY <1>0, <1>16, <2>2, QueueTypeStep DEF ListBudgets, Goto, Step
<1>17. ASSUME NEW h \in Handler, DropStates(h) PROVE TypeOK'
  <2>1. view' \in [Handler -> View]
    BY <1>0, <1>17 DEF DropStates, View
  <2> QED
    BY <1>0, <1>17, <2>1, QueueTypeStep DEF DropStates, Goto, Step
<1>18. ASSUME NEW h \in Handler, DropSnapshots(h) \/ DropBudgets(h)
       PROVE  TypeOK'
  BY <1>0, <1>18, QueueTypeStep
  DEF DropSnapshots, DropBudgets, ZeroTotals, Goto, Step
<1>19. ASSUME NEW c \in Category, NEW limit \in Limit, CreateBudget(c, limit)
       PROVE  TypeOK'
  BY <1>0, <1>19, QueueTypeStep, BudgetAssumption DEF CreateBudget, Request, Gen
<1>20. ASSUME NEW c \in Category, RemoveBudget(c) PROVE TypeOK'
  BY <1>0, <1>20, QueueTypeStep, BudgetAssumption DEF RemoveBudget, Request
<1>21. ASSUME NEW c \in Category, NEW limit \in Limit, PatchFind(c, limit)
       PROVE  TypeOK'
  BY <1>0, <1>21, QueueTypeStep, BudgetAssumption DEF PatchFind, Request, Patch
<1>22. ASSUME PatchSave PROVE TypeOK'
  <2>1. patch \in Patch
    BY <1>0, <1>22 DEF PatchSave, NoPatch
  <2> QED
    BY <1>0, <1>22, <2>1, QueueTypeStep DEF PatchSave, Patch
<1>23. ASSUME PatchReset PROVE TypeOK'
  BY <1>0, <1>23, QueueTypeStep DEF PatchReset
<1>24. ASSUME NewMonth PROVE TypeOK'
  BY <1>0, <1>24, QueueTypeStep, PostingsAssumption DEF NewMonth, Month
<1>25. ASSUME CleanProcessedEventIds PROVE TypeOK'
  BY <1>0, <1>25, QueueTypeStep DEF CleanProcessedEventIds
<1>26. ASSUME NEW h \in Handler, HandlerFails(h) PROVE TypeOK'
  BY <1>0, <1>26, QueueTypeStep, BoundsAssumption
  DEF HandlerFails, Fault, EndByException, Goto, Step, QueueTypeOK
<1>27. ASSUME Restart \/ LoseChannel PROVE TypeOK'
  BY <1>0, <1>27, QueueTypeStep DEF Restart, LoseChannel, Step
<1>28. CASE UNCHANGED vars
  BY <1>0, <1>28, QueueTypeStep DEF vars
<1> QED
  BY <1>2, <1>3, <1>4, <1>5, <1>6, <1>7, <1>8, <1>10, <1>11, <1>12, <1>13,
     <1>14, <1>15, <1>16, <1>17, <1>18, <1>19, <1>20, <1>21, <1>22, <1>23,
     <1>24, <1>25, <1>26, <1>27, <1>28
  DEF Next, Producer, Consumer, TransactionHandler, HouseholdHandler, Http,
      Failure

LEMMA InvInit == Init => IInv
<1> SUFFICES ASSUME Init PROVE IInv
  OBVIOUS
<1>1. ControlInv
  BY DEF Init, QueueInit, ControlInv, AlertSteps, DropSteps
<1>2. AccountInv
  BY DEF Init, QueueInit, AccountInv
<1> QED
  BY <1>1, <1>2, TypeInit DEF IInv

-----------------------------------------------------------------------------
(* A step either lets handlers move on with the queue as it is, or it is one *)
(* of the broker's operations.                                              *)

\* The handler goes on to another await; the queue is not involved.
Moves(h) ==
  /\ UNCHANGED queueVars
  /\ pc[h] # "free"
  /\ \E step \in Step \ {"free", "apply"} : Goto(h, step)

LEMMA ControlMove ==
  ASSUME IInv, NEW h \in Handler, Moves(h),
         \A g \in Handler : view'[g].gen = view[g].gen \/ g = h,
         pc'[h] \in AlertSteps \cup {"budget"} =>
           event(h).next \in Entry /\ Guarded(event(h)),
         pc'[h] \in AlertSteps => view'[h].gen \in Gen,
         pc'[h] \in DropSteps => event(h).kind = "householdDeleted"
  PROVE  ControlInv'
  BY DEF IInv, TypeOK, QueueTypeOK, ControlInv, Moves, Goto, queueVars, event,
         AlertSteps, DropSteps

LEMMA AccountMove ==
  ASSUME IInv, NEW h \in Handler, Moves(h),
         UNCHANGED <<processed, applied>>, pc[h] # "apply"
  PROVE  AccountInv'
  BY DEF IInv, TypeOK, QueueTypeOK, AccountInv, Moves, Goto, queueVars,
         Finished

\* Nothing happens to handlers and queue.
LEMMA StandStill ==
  ASSUME IInv, UNCHANGED <<queueVars, taskVars, processed, applied>>
  PROVE  ControlInv' /\ AccountInv'
  BY DEF IInv, ControlInv, AccountInv, queueVars, taskVars, Finished

LEMMA PublishStep ==
  ASSUME IInv, NEW m \in Message, Publish(m), TypeOK',
         UNCHANGED <<taskVars, processed, applied>>
  PROVE  ControlInv' /\ AccountInv'
<1> USE DEF IInv, TypeOK, QueueTypeOK, MessageId, taskVars
<1>1. /\ Len(log') = Len(log) + 1
      /\ \A i \in 1..Len(log) : log'[i] = log[i]
  BY DEF Publish
<1>2. Len(log) + 1 \in MessageId /\ deliv[Len(log) + 1] = "none"
  BY DEF Publish, ControlInv
<1>3. \A h \in Handler : msg'[h] = msg[h] /\ (msg[h] # 0 => msg[h] \in 1..Len(log))
  BY DEF Publish, ControlInv
<1>4. ControlInv'
  <2> USE <1>1, <1>2, <1>3
  <2>1. \A i \in MessageId : deliv'[i] # "none" => i \in 1..Len(log')
    BY DEF Publish, ControlInv
  <2>2. \A h \in Handler : msg[h] # 0 => deliv'[msg[h]] # "none"
    BY DEF Publish, ControlInv
  <2> QED
    BY <2>1, <2>2 DEF ControlInv, AlertSteps, DropSteps
<1>5. AccountInv'
  <2> USE <1>1, <1>2, <1>3
  <2>1. \A i \in MessageId : deliv'[i] = "acked" <=> deliv[i] = "acked"
    BY DEF Publish
  <2>2. \A i \in MessageId : deliv[i] = "acked" => i \in 1..Len(log)
    BY DEF ControlInv
  <2>3. \A i \in MessageId : Finished(i) => Finished(i)'
    BY <2>1 DEF Finished
  <2>4. \A h \in Handler : pc[h] # "free" => msg[h] \in 1..Len(log)
    BY DEF ControlInv
  <2> QED
    BY <2>1, <2>2, <2>3, <2>4 DEF AccountInv
<1> QED
  BY <1>4, <1>5

LEMMA DeliverStep ==
  ASSUME IInv, NEW h \in Handler, StartHandler(h)
  PROVE  ControlInv' /\ AccountInv'
<1> USE DEF IInv, TypeOK, QueueTypeOK
<1>1. PICK i \in MessageId : Deliver(h, i) /\ Goto(h, FirstStep(log[i]))
  BY DEF StartHandler
<1>2. /\ deliv[i] = "queued" /\ msg[h] = 0 /\ UNCHANGED log
      /\ deliv' = [deliv EXCEPT ![i] = "unacked"]
      /\ msg' = [msg EXCEPT ![h] = i]
      /\ UNCHANGED <<processed, applied, view>>
  BY <1>1 DEF Deliver, AtHead, Idle, StartHandler, rowVars, ghostVars
<1>3. pc' = [pc EXCEPT ![h] = FirstStep(log[i])]
  BY <1>1 DEF Goto
<1>4. i # 0
  BY DEF MessageId
<1>5. /\ FirstStep(log[i]) # "free"
      /\ FirstStep(log[i]) \in {"apply", "list", "ack"}
      /\ FirstStep(log[i]) = "apply" <=> Guarded(log[i])
      /\ FirstStep(log[i]) = "list" => log[i].kind = "householdDeleted"
  BY DEF FirstStep
<1>6. ControlInv'
  BY <1>2, <1>3, <1>4, <1>5 DEF ControlInv, AlertSteps, DropSteps
<1>7. \A j \in MessageId : Finished(j) => Finished(j)'
  BY <1>2 DEF Finished
<1>8. AccountInv'
  BY <1>2, <1>3, <1>5, <1>7 DEF AccountInv
<1> QED
  BY <1>6, <1>8

LEMMA EndStep ==
  ASSUME IInv, NEW h \in Handler, Throw(h), Goto(h, "free"),
         view' = [view EXCEPT ![h] = NoView],
         UNCHANGED <<processed, applied>>
  PROVE  ControlInv' /\ AccountInv'
<1> USE DEF IInv, TypeOK, QueueTypeOK
<1>1. \A j \in MessageId : Finished(j) => Finished(j)'
  BY DEF Finished, Throw, MessageId
<1>2. ControlInv'
  BY DEF ControlInv, Throw, Goto, AlertSteps, DropSteps
<1>3. AccountInv'
  BY <1>1 DEF AccountInv, Throw, Goto
<1> QED
  BY <1>2, <1>3

LEMMA AckStep ==
  ASSUME IInv, NEW h \in Handler, FinishHandler(h)
  PROVE  ControlInv' /\ AccountInv'
<1> USE DEF IInv, TypeOK, QueueTypeOK
<1>1. /\ pc[h] = "ack" /\ msg[h] \in MessageId /\ UNCHANGED log
      /\ deliv' = [deliv EXCEPT ![msg[h]] = IF live[h] THEN "acked" ELSE @]
      /\ msg' = [msg EXCEPT ![h] = 0]
      /\ pc' = [pc EXCEPT ![h] = "free"]
      /\ view' = [view EXCEPT ![h] = NoView]
      /\ UNCHANGED <<processed, applied>>
  BY DEF FinishHandler, Ack, Idle, Goto, rowVars, ghostVars
<1>2. \A j \in MessageId : Finished(j) => Finished(j)'
  BY <1>1 DEF Finished, MessageId
<1>3. ControlInv'
  BY <1>1 DEF ControlInv, AlertSteps, DropSteps
<1>4. Guarded(log[msg[h]]) => applied[msg[h]] = 1
  BY <1>1 DEF AccountInv
<1>5. \A i \in MessageId : deliv'[i] = "acked" => deliv[i] = "acked" \/ i = msg[h]
  BY <1>1
<1>6. AccountInv'
  BY <1>1, <1>2, <1>4, <1>5 DEF AccountInv
<1> QED
  BY <1>3, <1>6

LEMMA CrashStep ==
  ASSUME IInv, Restart \/ LoseChannel
  PROVE  ControlInv' /\ AccountInv'
<1> USE DEF IInv, TypeOK, QueueTypeOK
<1>1. /\ UNCHANGED <<log, processed, applied>>
      /\ \A i \in MessageId :
           /\ deliv'[i] = "acked" <=> deliv[i] = "acked"
           /\ deliv'[i] = "none" <=> deliv[i] = "none"
  BY DEF Restart, LoseChannel, Crash, DropChannel, Requeued, rowVars, ghostVars
<1>2. CASE Restart
  <2>1. \A h \in Handler : msg'[h] = 0 /\ pc'[h] = "free"
    BY <1>2 DEF Restart, Crash
  <2>2. \A i \in MessageId : Finished(i) => Finished(i)'
    BY <1>1, <2>1 DEF Finished, MessageId
  <2>3. ControlInv'
    BY <1>1, <2>1 DEF ControlInv, AlertSteps, DropSteps
  <2>4. AccountInv'
    BY <1>1, <2>1, <2>2 DEF AccountInv
  <2> QED
    BY <2>3, <2>4
<1>3. CASE LoseChannel
  <2>1. UNCHANGED <<msg, pc, view>>
    BY <1>3 DEF LoseChannel, DropChannel, taskVars
  <2>2. \A i \in MessageId : Finished(i) => Finished(i)'
    BY <1>1, <2>1 DEF Finished
  <2>3. ControlInv'
    BY <1>1, <2>1 DEF ControlInv, AlertSteps, DropSteps
  <2>4. AccountInv'
    BY <1>1, <2>1, <2>2 DEF AccountInv
  <2> QED
    BY <2>3, <2>4
<1> QED
  BY <1>2, <1>3

\* The heart of the matter: a message whose id is not in processed_event_ids
\* and that a handler works on has not been applied before.
LEMMA NewIsNew ==
  ASSUME IInv, NEW h \in Handler, pc[h] = "apply", IsNew(msg[h])
  PROVE  applied[msg[h]] = 0
<1>1. msg[h] \in MessageId
  BY DEF IInv, TypeOK, QueueTypeOK, ControlInv
<1>2. ~Finished(msg[h])
  BY DEF Finished
<1>3. applied[msg[h]] # 1
  BY <1>1, <1>2 DEF IInv, AccountInv, IsNew
<1>4. applied[msg[h]] \in Nat
  BY <1>1 DEF IInv, TypeOK
<1>5. applied[msg[h]] <= 1
  BY <1>1 DEF IInv, AccountInv
<1> QED
  BY <1>3, <1>4, <1>5

LEMMA ApplyStep ==
  ASSUME IInv, NEW h \in Handler, Apply(h)
  PROVE  ControlInv' /\ AccountInv'
<1> USE DEF IInv, TypeOK, QueueTypeOK
<1>1. /\ pc[h] = "apply" /\ msg[h] \in MessageId
      /\ UNCHANGED queueVars /\ UNCHANGED view
      /\ pc' = [pc EXCEPT ![h] = AfterApply(event(h))]
  BY DEF Apply, Goto, ControlInv
<1>2. AfterApply(event(h)) \in {"budget", "ack"}
  BY DEF AfterApply
<1>3. AfterApply(event(h)) = "budget" => event(h).next \in Entry
  BY DEF AfterApply
<1>4. ControlInv'
  BY <1>1, <1>2, <1>3
  DEF ControlInv, AlertSteps, DropSteps, queueVars, event
<1>5. /\ applied'[msg[h]] = 1
      /\ \A i \in MessageId : i # msg[h] => applied'[i] = applied[i]
      /\ \A i \in processed' : i \in processed \/ i = msg[h]
      /\ processed \subseteq processed'
      /\ msg[h] \in processed'
  <2>1. CASE Post(msg[h])
    <3>1. applied[msg[h]] = 0
      BY <1>1, <2>1, NewIsNew DEF Post
    <3> QED
      BY <1>1, <2>1, <3>1 DEF Post
  <2>2. CASE Skip(msg[h])
    BY <1>1, <2>2 DEF Skip, IsNew, AccountInv, rowVars
  <2> QED
    BY <2>1, <2>2 DEF Apply
<1>6. \A i \in MessageId : Finished(i) => Finished(i)'
  BY <1>1 DEF Finished, queueVars
<1>7. UNCHANGED <<log, deliv, msg>>
  BY <1>1 DEF queueVars
<1>8. ASSUME NEW i \in MessageId PROVE applied'[i] <= 1
  <2>1. applied[i] <= 1
    BY DEF AccountInv
  <2>2. applied'[i] = 1 \/ applied'[i] = applied[i]
    BY <1>5
  <2> QED
    BY <2>1, <2>2
<1>9. \A i \in processed' : applied'[i] = 1
  BY <1>1, <1>5 DEF AccountInv
<1>10. \A i \in MessageId : applied'[i] = 1 => i \in processed' \/ Finished(i)'
  BY <1>5, <1>6 DEF AccountInv
<1>11. \A i \in MessageId :
         deliv'[i] = "acked" /\ Guarded(log'[i]) => applied'[i] = 1
  BY <1>5, <1>7 DEF AccountInv
<1>12. \A g \in Handler :
         pc'[g] \notin {"free", "apply"} /\ Guarded(log'[msg'[g]])
           => applied'[msg'[g]] = 1
  <2> SUFFICES ASSUME NEW g \in Handler, pc'[g] \notin {"free", "apply"},
                      Guarded(log'[msg'[g]])
               PROVE  applied'[msg'[g]] = 1
    OBVIOUS
  <2>1. CASE g = h
    BY <1>5, <1>7, <2>1
  <2>2. CASE g # h
    <3>1. pc'[g] = pc[g] /\ msg[g] \in MessageId
      BY <1>1, <2>2 DEF ControlInv
    <3> QED
      BY <1>5, <1>7, <3>1 DEF AccountInv
  <2> QED
    BY <2>1, <2>2
<1>13. AccountInv'
  BY <1>8, <1>9, <1>10, <1>11, <1>12 DEF AccountInv
<1> QED
  BY <1>4, <1>13

\* The cron forgets an id only when its message is finished.
LEMMA CleanStep ==
  ASSUME IInv, CleanProcessedEventIds
  PROVE  ControlInv' /\ AccountInv'
<1>1. UNCHANGED <<queueVars, taskVars, applied>>
  BY DEF CleanProcessedEventIds, ghostVars
<1>2. /\ processed' \subseteq processed
      /\ \A i \in processed : i \in processed' \/ Finished(i)
  BY DEF CleanProcessedEventIds
<1>3. ControlInv'
  BY <1>1 DEF IInv, ControlInv, queueVars, taskVars
<1>4. \A i \in MessageId : Finished(i) <=> Finished(i)'
  BY <1>1 DEF Finished, queueVars
<1>5. /\ UNCHANGED <<log, deliv, msg, pc, applied>>
      /\ \A i \in processed' : i \in processed
  BY <1>1, <1>2 DEF queueVars, taskVars
<1>6. AccountInv'
  BY <1>2, <1>4, <1>5 DEF IInv, AccountInv
<1> QED
  BY <1>3, <1>6

LEMMA InvStep == IInv /\ [Next]_vars => IInv'
<1> SUFFICES ASSUME IInv, [Next]_vars PROVE ControlInv' /\ AccountInv'
  BY TypeStep DEF IInv
<1> USE DEF rowVars, budgetVars, alertVars, taskVars, httpVars, ghostVars
<1>0. TypeOK /\ TypeOK'
  BY TypeStep DEF IInv
<1>1. ASSUME Producer PROVE ControlInv' /\ AccountInv'
  <2>1. \E m : Publish(m)
    BY <1>1 DEF Producer, CreateTransaction, UpdateTransaction,
                DeleteTransaction, PublishChange, DeleteHousehold
  <2>2. UNCHANGED <<taskVars, processed, applied>>
    BY <1>1 DEF Producer, CreateTransaction, UpdateTransaction,
                DeleteTransaction, PublishChange, DeleteHousehold
  <2>3. PICK m : Publish(m)
    BY <2>1
  <2>4. m \in Message
    <3>1. log' = Append(log, m) /\ log' \in Seq(Message) /\ log \in Seq(Message)
      BY <1>0, <2>3 DEF Publish, TypeOK, QueueTypeOK
    <3>2. m = log'[Len(log')] /\ Len(log') \in 1..Len(log')
      BY <3>1
    <3> QED
      BY <3>1, <3>2
  <2> QED
    BY <1>0, <2>2, <2>3, <2>4, PublishStep
<1>2. ASSUME NEW h \in Handler, FindBudget(h)
      PROVE  ControlInv' /\ AccountInv'
  <2>1. key(h).cat \in Category
    BY <1>2 DEF IInv, ControlInv, FindBudget, key, event, Entry, Key
  <2>2. Moves(h) /\ pc'[h] \in {"ack", "snapshot"}
    BY <1>0, <1>2 DEF FindBudget, Moves, Goto, Step, TypeOK
  <2>3. pc'[h] = "snapshot" => view'[h].gen \in Gen
    <3>1. pc'[h] = "snapshot" => budgets[key(h).cat] # NoBudget
      BY <1>0, <1>2 DEF FindBudget, Goto, TypeOK
    <3>2. budgets[key(h).cat] # NoBudget => budgets[key(h).cat].gen \in Gen
      BY <1>0, <2>1 DEF TypeOK
    <3>3. view'[h].gen = budgets[key(h).cat].gen
      BY <1>0, <1>2 DEF FindBudget, TypeOK, View
    <3> QED
      BY <3>1, <3>2, <3>3
  <2>4. event(h).next \in Entry /\ Guarded(event(h))
    BY <1>2 DEF IInv, ControlInv, FindBudget, event
  <2>5. \A g \in Handler : view'[g].gen = view[g].gen \/ g = h
    BY <1>0, <1>2 DEF FindBudget, TypeOK
  <2>6. ControlInv'
    BY <2>2, <2>3, <2>4, <2>5, ControlMove DEF DropSteps, AlertSteps
  <2> QED
    BY <1>2, <2>2, <2>6, AccountMove DEF FindBudget
<1>3. ASSUME NEW h \in Handler,
             \/ FindSnapshot(h) \/ FindState(h) \/ InsertState(h)
             \/ MarkSent(h) \/ EmitAlert(h)
      PROVE  ControlInv' /\ AccountInv'
  <2>1. pc[h] \in AlertSteps
    BY <1>3 DEF FindSnapshot, FindState, InsertState, MarkSent, EmitAlert,
                AlertSteps
  <2>2. Moves(h) /\ pc'[h] \in AlertSteps \cup {"ack"}
    BY <1>0, <1>3
    DEF FindSnapshot, FindState, InsertState, MarkSent, EmitAlert, Decide,
        Moves, Goto, Step, AlertSteps, TypeOK
  <2>3. \A g \in Handler : view'[g].gen = view[g].gen
    BY <1>0, <1>3
    DEF FindSnapshot, FindState, InsertState, MarkSent, EmitAlert, Decide,
        TypeOK, View
  <2>4. event(h).next \in Entry /\ Guarded(event(h)) /\ view[h].gen \in Gen
    BY <2>1 DEF IInv, ControlInv, event
  <2>5. ControlInv'
    BY <2>2, <2>3, <2>4, ControlMove DEF DropSteps, AlertSteps
  <2>6. UNCHANGED <<processed, applied>> /\ pc[h] # "apply"
    BY <1>3, <2>1
    DEF FindSnapshot, FindState, InsertState, MarkSent, EmitAlert, AlertSteps
  <2> QED
    BY <2>2, <2>5, <2>6, AccountMove
<1>4. ASSUME NEW h \in Handler, HouseholdHandler(h)
      PROVE  ControlInv' /\ AccountInv'
  <2>1. pc[h] \in DropSteps
    BY <1>4 DEF HouseholdHandler, ListBudgets, DropStates, DropSnapshots,
                DropBudgets, DropSteps
  <2>2. Moves(h) /\ pc'[h] \in DropSteps \cup {"ack"}
    BY <1>0, <1>4
    DEF HouseholdHandler, ListBudgets, DropStates, DropSnapshots, DropBudgets,
        Moves, Goto, Step, DropSteps, TypeOK
  <2>3. \A g \in Handler : view'[g].gen = view[g].gen
    BY <1>0, <1>4
    DEF HouseholdHandler, ListBudgets, DropStates, DropSnapshots, DropBudgets,
        TypeOK, View
  <2>4. event(h).kind = "householdDeleted"
    BY <2>1 DEF IInv, ControlInv, event
  <2>5. ControlInv'
    BY <2>2, <2>3, <2>4, ControlMove DEF DropSteps, AlertSteps
  <2>6. UNCHANGED <<processed, applied>> /\ pc[h] # "apply"
    BY <1>4, <2>1
    DEF HouseholdHandler, ListBudgets, DropStates, DropSnapshots, DropBudgets,
        DropSteps
  <2> QED
    BY <2>2, <2>5, <2>6, AccountMove
<1>5. ASSUME NEW h \in Handler,
             ApplyOverflows(h) \/ InsertStateFails(h) \/ HandlerFails(h)
      PROVE  ControlInv' /\ AccountInv'
  BY <1>5, EndStep
  DEF ApplyOverflows, InsertStateFails, HandlerFails, EndByException
<1>6. ASSUME Http \/ NewMonth PROVE ControlInv' /\ AccountInv'
  BY <1>6, StandStill
  DEF Http, CreateBudget, RemoveBudget, PatchFind, PatchSave, PatchReset,
      NewMonth
<1>7. CASE UNCHANGED vars
  BY <1>7, StandStill DEF vars
<1> QED
  BY <1>1, <1>2, <1>3, <1>4, <1>5, <1>6, <1>7, DeliverStep, ApplyStep, AckStep,
     CrashStep, CleanStep
  DEF Next, Consumer, TransactionHandler, Failure

-----------------------------------------------------------------------------
(* Theorems *)

\* The inductive invariant.
THEOREM Invariance == Spec => []IInv
<1>1. Init => IInv
  BY InvInit
<1>2. IInv /\ [Next]_vars => IInv'
  BY InvStep
<1> QED
  BY <1>1, <1>2, PTL DEF Spec

\* Every variable keeps its type; in particular spent_amount is never negative
\* (subtractFromTotal's GREATEST).
THEOREM TypeCorrect == Spec => []TypeOK
<1>1. IInv => TypeOK
  BY DEF IInv
<1> QED
  BY <1>1, Invariance, PTL

\* Each event takes effect at most once, and exactly once when it is acked,
\* for any number of concurrent handlers, crashes, lost channels and failures.
THEOREM EventsCountOnce == Spec => []ExactlyOnce
<1>1. IInv => ExactlyOnce
  <2>1. QueueTypeOK => DOMAIN log \subseteq MessageId
    BY BoundsAssumption DEF QueueTypeOK, MessageId
  <2> QED
    BY <2>1 DEF IInv, TypeOK, AccountInv, ExactlyOnce
<1> QED
  BY <1>1, Invariance, PTL

-----------------------------------------------------------------------------
(* Refinement: a committed database transaction is a Post, an ack that       *)
(* reaches the broker a Settle, the deletion of the snapshots an Erase; all  *)
(* the rest leaves the ledger as it is.                                     *)

done == {i \in MessageId : applied[i] > 0}
settled == {i \in MessageId : deliv[i] = "acked"}

LEMMA LedgerInit == Init => Ledger!Init
<1> SUFFICES ASSUME Init PROVE Ledger!Init
  OBVIOUS
<1>1. done = {} /\ settled = {}
  BY DEF Init, QueueInit, done, settled
<1> QED
  BY <1>1 DEF Init, QueueInit, done, settled, Ledger!Init, ZeroTotals,
              Ledger!ZeroTotals, Key, Ledger!Key, Month, Ledger!Month

\* Steps that neither publish, apply, ack nor erase are invisible.
LEMMA LedgerStutter ==
  ASSUME IInv, UNCHANGED <<log, applied, spent>>,
         \A i \in MessageId : deliv'[i] = "acked" <=> deliv[i] = "acked"
  PROVE  UNCHANGED Ledger!ledgerVars
  BY DEF Ledger!ledgerVars

LEMMA LedgerStep == IInv /\ [Next]_vars => [Ledger!Next]_(Ledger!ledgerVars)
<1> SUFFICES ASSUME IInv, [Next]_vars
             PROVE  Ledger!Next \/ UNCHANGED Ledger!ledgerVars
  OBVIOUS
<1> USE DEF rowVars, budgetVars, alertVars, taskVars, httpVars, ghostVars
<1>0. TypeOK /\ TypeOK'
  BY TypeStep DEF IInv
<1>1. CASE Producer
  <2>1. /\ UNCHANGED <<applied, spent>>
        /\ \E m : Publish(m)
    BY <1>1 DEF Producer, CreateTransaction, UpdateTransaction,
                DeleteTransaction, PublishChange, DeleteHousehold
  <2>2. PICK m : Publish(m)
    BY <2>1
  <2>3. m \in Event
    <3>1. log' = Append(log, m) /\ log' \in Seq(Message) /\ log \in Seq(Message)
      BY <1>0, <2>2 DEF Publish, TypeOK, QueueTypeOK
    <3>2. m = log'[Len(log')] /\ Len(log') \in 1..Len(log')
      BY <3>1
    <3> QED
      BY <3>1, <3>2, BudgetAssumption
  <2>4. settled' = settled
    <3>1. deliv' = [deliv EXCEPT ![Len(log) + 1] = "queued"]
      BY <2>2 DEF Publish
    <3>2. Len(log) \in Nat
      BY <1>0 DEF TypeOK, QueueTypeOK
    <3>3. Len(log) + 1 \notin 1..Len(log)
      BY <3>2
    <3>4. deliv[Len(log) + 1] # "acked" \/ Len(log) + 1 \notin MessageId
      BY <3>3 DEF IInv, ControlInv
    <3> QED
      BY <1>0, <3>1, <3>4 DEF settled, TypeOK, QueueTypeOK
  <2>5. Ledger!Publish
    BY <2>1, <2>2, <2>3, <2>4
    DEF Ledger!Publish, Publish, settled, Event, Ledger!Event, Posting,
        Ledger!Posting, Entry, Ledger!Entry, Key, Ledger!Key, Month,
        Ledger!Month
  <2> QED
    BY <2>5 DEF Ledger!Next
<1>2. ASSUME NEW h \in Handler, Apply(h)
      PROVE  Ledger!Next \/ UNCHANGED Ledger!ledgerVars
  <2>1. /\ UNCHANGED <<log, deliv>>
        /\ pc[h] = "apply"
        /\ Post(msg[h]) \/ UNCHANGED <<applied, spent>>
    BY <1>2 DEF Apply, Skip, queueVars
  <2>2. CASE UNCHANGED <<applied, spent>>
    BY <2>1, <2>2, LedgerStutter
  <2>3. CASE Post(msg[h])
    <3>0. PICK i \in MessageId : i = msg[h]
      BY <1>0, <2>1 DEF IInv, ControlInv, TypeOK, QueueTypeOK
    <3>1. i \in 1..Len(log) /\ Guarded(log[i])
      BY <2>1, <3>0 DEF IInv, ControlInv
    <3>2. applied[i] = 0
      BY <2>1, <2>3, <3>0, NewIsNew DEF Post
    <3>3. done' = done \cup {i} /\ i \notin done
      BY <1>0, <2>3, <3>0, <3>1, <3>2 DEF done, Post, TypeOK
    <3>4. spent' = Posted(spent, log[i])
      BY <2>3, <3>0 DEF Post
    <3>5. Ledger!Post(i)
      BY <2>1, <3>1, <3>3, <3>4
      DEF Ledger!Post, Ledger!Guarded, Guarded, done, Posted, Ledger!Posted,
          AddToTotal, Ledger!AddToTotal, SubtractFromTotal,
          Ledger!SubtractFromTotal, Entry, Ledger!Entry, Key, Ledger!Key,
          Month, Ledger!Month
    <3> QED
      BY <3>1, <3>5 DEF Ledger!Next
  <2> QED
    BY <2>1, <2>2, <2>3
<1>3. ASSUME NEW h \in Handler, FinishHandler(h)
      PROVE  Ledger!Next \/ UNCHANGED Ledger!ledgerVars
  <2>0. PICK i \in MessageId : i = msg[h]
    BY <1>0, <1>3 DEF FinishHandler, IInv, ControlInv, TypeOK, QueueTypeOK
  <2>1. /\ UNCHANGED <<log, applied, spent>>
        /\ pc[h] = "ack"
        /\ deliv' = [deliv EXCEPT ![i] = IF live[h] THEN "acked" ELSE @]
    BY <1>3, <2>0 DEF FinishHandler, Ack
  <2>2. /\ i \in 1..Len(log)
        /\ Guarded(log[i]) => applied[i] = 1
    BY <2>0, <2>1 DEF IInv, ControlInv, AccountInv
  <2>3. CASE deliv[i] = "acked" \/ ~live[h]
    <3>1. \A j \in MessageId : deliv'[j] = "acked" <=> deliv[j] = "acked"
      BY <1>0, <2>1, <2>3 DEF TypeOK, QueueTypeOK
    <3> QED
      BY <2>1, <3>1, LedgerStutter
  <2>4. CASE deliv[i] # "acked" /\ live[h]
    <3>1. settled' = settled \cup {i} /\ i \notin settled
      BY <1>0, <2>0, <2>1, <2>2, <2>4 DEF settled, TypeOK, QueueTypeOK
    <3>2. Guarded(log[i]) => i \in done
      BY <2>0, <2>2 DEF done
    <3>3. Ledger!Settle(i)
      BY <2>1, <2>2, <3>1, <3>2
      DEF Ledger!Settle, settled, done, Guarded, Ledger!Guarded, Entry,
          Ledger!Entry, Key, Ledger!Key, Month, Ledger!Month
    <3> QED
      BY <2>2, <3>3 DEF Ledger!Next
  <2> QED
    BY <2>3, <2>4
<1>4. ASSUME NEW h \in Handler, DropSnapshots(h)
      PROVE  Ledger!Next \/ UNCHANGED Ledger!ledgerVars
  <2>1. msg[h] \in 1..Len(log) /\ log[msg[h]].kind = "householdDeleted"
    BY <1>0, <1>4 DEF IInv, ControlInv, TypeOK, QueueTypeOK, DropSnapshots,
                      DropSteps
  <2>2. Ledger!Erase
    BY <1>4, <2>1
    DEF DropSnapshots, Ledger!Erase, queueVars, ZeroTotals,
        Ledger!ZeroTotals, Key, Ledger!Key, Month, Ledger!Month
  <2> QED
    BY <2>2 DEF Ledger!Next
<1>5. ASSUME Restart \/ LoseChannel PROVE UNCHANGED Ledger!ledgerVars
  <2>1. UNCHANGED <<log, applied, spent>>
    BY <1>5 DEF Restart, LoseChannel, Crash, DropChannel
  <2>2. \A i \in MessageId : deliv'[i] = "acked" <=> deliv[i] = "acked"
    BY <1>5 DEF Restart, LoseChannel, Crash, DropChannel, Requeued
  <2> QED
    BY <2>1, <2>2, LedgerStutter
<1>6. ASSUME NEW h \in Handler, StartHandler(h)
      PROVE  UNCHANGED Ledger!ledgerVars
  <2>1. PICK i \in MessageId : Deliver(h, i)
    BY <1>6 DEF StartHandler
  <2>2. \A j \in MessageId : deliv'[j] = "acked" <=> deliv[j] = "acked"
    BY <1>0, <2>1 DEF Deliver, AtHead, TypeOK, QueueTypeOK
  <2>3. UNCHANGED <<log, applied, spent>>
    BY <1>6, <2>1 DEF StartHandler, Deliver
  <2> QED
    BY <2>2, <2>3, LedgerStutter
<1>7. ASSUME NEW h \in Handler,
             \/ ApplyOverflows(h) \/ FindBudget(h) \/ FindSnapshot(h)
             \/ FindState(h) \/ InsertState(h) \/ InsertStateFails(h)
             \/ MarkSent(h) \/ EmitAlert(h) \/ ListBudgets(h) \/ DropStates(h)
             \/ DropBudgets(h) \/ HandlerFails(h)
      PROVE  UNCHANGED Ledger!ledgerVars
  <2>1. UNCHANGED <<log, deliv, applied, spent>>
    BY <1>7
    DEF ApplyOverflows, FindBudget, FindSnapshot, FindState, InsertState,
        InsertStateFails, MarkSent, EmitAlert, ListBudgets, DropStates,
        DropBudgets, HandlerFails, EndByException, Throw, queueVars
  <2> QED
    BY <2>1, LedgerStutter
<1>8. ASSUME Http \/ NewMonth \/ CleanProcessedEventIds
      PROVE  UNCHANGED Ledger!ledgerVars
  <2>1. UNCHANGED <<log, deliv, applied, spent>>
    BY <1>8
    DEF Http, CreateBudget, RemoveBudget, PatchFind, PatchSave, PatchReset,
        NewMonth, CleanProcessedEventIds, queueVars
  <2> QED
    BY <2>1, LedgerStutter
<1>9. CASE UNCHANGED vars
  BY <1>9, LedgerStutter DEF vars, queueVars
<1> QED
  BY <1>1, <1>2, <1>3, <1>4, <1>5, <1>6, <1>7, <1>8, <1>9
  DEF Next, Consumer, TransactionHandler, HouseholdHandler, Failure

\* budget-service, with its alerts, HTTP requests and failures, implements the
\* abstract ledger.
THEOREM LedgerImplemented == Spec => ImplementsLedger
<1>1. Init => Ledger!Init
  BY LedgerInit
<1>2. IInv /\ [Next]_vars => [Ledger!Next]_(Ledger!ledgerVars)
  BY LedgerStep
<1> QED
  BY <1>1, <1>2, Invariance, PTL DEF Spec, ImplementsLedger, Ledger!Spec

-----------------------------------------------------------------------------
(* What a step leaves alone *)

\* What a handler has read of the budget and decided on.
Knows(v) == <<v.gen, v.limit, v.spent, v.level>>

\* A handler that neither takes a step of its own nor is lost keeps its place.
Stays(h) ==
  /\ pc'[h] = pc[h]
  /\ msg'[h] = msg[h]
  /\ Knows(view'[h]) = Knows(view[h])
  /\ view'[h].row = view[h].row \/ \E g \in Handler : DropStates(g)
  /\ live'[h] = live[h] \/ LoseChannel

LEMMA HandlerKept ==
  ASSUME IInv, [Next]_vars, NEW h \in Handler
  PROVE  Consumer(h) \/ HandlerFails(h) \/ Restart \/ Stays(h)
<1> SUFFICES ASSUME ~Consumer(h), ~HandlerFails(h), ~Restart PROVE Stays(h)
  OBVIOUS
<1> USE DEF IInv, TypeOK, QueueTypeOK, View, taskVars, queueVars
<1>1. CASE Producer
  BY <1>1 DEF Producer, CreateTransaction, UpdateTransaction, DeleteTransaction,
              PublishChange, DeleteHousehold, Publish, Stays
<1>2. CASE Http \/ NewMonth \/ CleanProcessedEventIds \/ UNCHANGED vars
  BY <1>2 DEF Http, CreateBudget, RemoveBudget, PatchFind, PatchSave, PatchReset,
              NewMonth, CleanProcessedEventIds, vars, httpVars, Stays
<1>3. CASE LoseChannel
  BY <1>3 DEF LoseChannel, DropChannel, Stays
<1>4. ASSUME NEW g \in Handler, Consumer(g) PROVE Stays(h)
  <2>0. g # h
    BY <1>4
  <2>1. CASE StartHandler(g) \/ FinishHandler(g) \/ ApplyOverflows(g) \/ InsertStateFails(g)
    BY <2>0, <2>1 DEF StartHandler, FinishHandler, ApplyOverflows, InsertStateFails,
                      EndByException, Deliver, Ack, Throw, Goto, Stays
  <2>2. CASE \/ Apply(g) \/ FindBudget(g) \/ FindSnapshot(g) \/ FindState(g)
             \/ InsertState(g) \/ MarkSent(g) \/ EmitAlert(g) \/ ListBudgets(g)
             \/ DropSnapshots(g) \/ DropBudgets(g)
    BY <2>0, <2>2 DEF Apply, FindBudget, FindSnapshot, FindState, InsertState, MarkSent,
                      EmitAlert, ListBudgets, DropSnapshots, DropBudgets, Decide, Goto, Stays
  <2>3. CASE DropStates(g)
    BY <2>0, <2>3 DEF DropStates, Goto, Stays, Knows
  <2> QED
    BY <1>4, <2>1, <2>2, <2>3 DEF Consumer, TransactionHandler, HouseholdHandler
<1>5. ASSUME NEW g \in Handler, HandlerFails(g) PROVE Stays(h)
  <2>0. g # h
    BY <1>5
  <2> QED
    BY <1>5, <2>0 DEF HandlerFails, EndByException, Throw, Goto, Stays
<1> QED
  BY <1>1, <1>2, <1>3, <1>4, <1>5 DEF Next, Failure

LEMMA LogKept ==
  ASSUME IInv, [Next]_vars
  PROVE  LogGrows
<1>1. QueueTypeOK /\ QueueTypeOK'
  BY TypeStep DEF IInv, TypeOK
<1>2. Len(log) \in Nat /\ Len(log') \in Nat
  BY <1>1 DEF QueueTypeOK
<1>3. ASSUME NEW m, Publish(m) PROVE LogGrows
  <2>1. log' = Append(log, m) /\ log \in Seq(Message) /\ log' \in Seq(Message)
    BY <1>1, <1>3 DEF Publish, QueueTypeOK
  <2>2. m = log'[Len(log')] /\ Len(log') \in 1..Len(log')
    BY <2>1
  <2>3. m \in Message
    BY <2>1, <2>2
  <2> QED
    BY <1>2, <2>1, <2>3 DEF LogGrows
<1>4. CASE UNCHANGED log
  BY <1>2, <1>4 DEF LogGrows
<1>5. (\E m : Publish(m)) \/ UNCHANGED log
  BY DEF Next, Producer, CreateTransaction, UpdateTransaction, DeleteTransaction,
         PublishChange, DeleteHousehold, Consumer, TransactionHandler, HouseholdHandler,
         StartHandler, FinishHandler, ApplyOverflows, InsertStateFails, EndByException,
         Deliver, Ack, Throw, Apply, FindBudget, FindSnapshot, FindState, InsertState,
         MarkSent, EmitAlert, ListBudgets, DropStates, DropSnapshots, DropBudgets,
         Http, CreateBudget, RemoveBudget, PatchFind, PatchSave, PatchReset, NewMonth,
         CleanProcessedEventIds, Failure, HandlerFails, Restart, LoseChannel, Crash,
         DropChannel, queueVars, vars
<1> QED
  BY <1>3, <1>4, <1>5

\* A household that exists now existed before.
LEMMA AliveBefore ==
  ASSUME IInv, [Next]_vars, HouseholdAlive'
  PROVE  HouseholdAlive
<1>1. \A i \in 1..Len(log) : log'[i] = log[i] /\ i \in 1..Len(log')
  BY LogKept DEF LogGrows, IInv, TypeOK, QueueTypeOK
<1>2. DOMAIN log = 1..Len(log) /\ DOMAIN log' = 1..Len(log')
  BY TypeStep DEF IInv, TypeOK, QueueTypeOK
<1> QED
  BY <1>1, <1>2 DEF HouseholdAlive

\* So the alert a handler is about stays the same one.
LEMMA AlertKeyKept ==
  ASSUME IInv, LogGrows, NEW h \in Handler, msg[h] # 0,
         msg'[h] = msg[h], view'[h].gen = view[h].gen
  PROVE  AlertKey(h)' = AlertKey(h)
<1>1. msg[h] \in 1..Len(log)
  BY DEF IInv, TypeOK, QueueTypeOK, ControlInv
<1>2. log'[msg'[h]] = log[msg[h]]
  BY <1>1 DEF LogGrows
<1> QED
  BY <1>2 DEF AlertKey, key, event

-----------------------------------------------------------------------------
(* Alerts *)

\* Is the flag of a level stored in the state row s?
Flag(s, level) == s \in (IF level = "exceeded" THEN exceeded ELSE warned)

\* The alert that the handler is about.
About(h, s, level) == AlertKey(h) = s /\ view[h].level = level

DecidedInv == \A h \in Handler : pc[h] \in {"mark", "emit"} => view[h].level \in Level

\* Unless something failed, who has stored a flag is about to emit, or has.
EmitInv ==
  faults = 0 =>
    \A s \in StateKey, level \in Level :
      Flag(s, level) =>
        \/ sent[<<s, level>>] > 0
        \/ \E h \in Handler : pc[h] = "emit" /\ About(h, s, level)

LEMMA DecidedStep ==
  ASSUME IInv, DecidedInv, [Next]_vars
  PROVE  DecidedInv'
<1> SUFFICES ASSUME NEW h \in Handler, pc'[h] \in {"mark", "emit"}
             PROVE  view'[h].level \in Level
  BY DEF DecidedInv
<1> USE DEF IInv, TypeOK, View
<1>1. CASE Stays(h)
  BY <1>1 DEF Stays, Knows, DecidedInv
<1>2. CASE FindState(h) \/ InsertState(h)
  <2>1. PICK flags : Decide(h, flags) /\ Alert(view[h], flags) # "none"
    BY <1>2 DEF FindState, InsertState, Decide, Goto
  <2>2. Alert(view[h], flags) \in Level
    BY <2>1 DEF Alert, Level
  <2> QED
    BY <2>1, <2>2 DEF Decide
<1>3. CASE MarkSent(h)
  BY <1>3 DEF MarkSent, DecidedInv
<1>4. CASE \/ StartHandler(h) \/ Apply(h) \/ ApplyOverflows(h) \/ FindBudget(h)
           \/ FindSnapshot(h) \/ InsertStateFails(h) \/ EmitAlert(h)
           \/ HouseholdHandler(h) \/ FinishHandler(h) \/ HandlerFails(h) \/ Restart
  BY <1>4 DEF StartHandler, FirstStep, Apply, AfterApply, ApplyOverflows, FindBudget,
              FindSnapshot, InsertStateFails, EmitAlert, HouseholdHandler, ListBudgets,
              DropStates, DropSnapshots, DropBudgets, FinishHandler, HandlerFails,
              EndByException, Goto, Restart
<1> QED
  BY <1>1, <1>2, <1>3, <1>4, HandlerKept DEF Consumer, TransactionHandler

\* Nobody but MarkSent sets a flag, nobody but EmitAlert publishes an alert.
LEMMA AlertsKept ==
  ASSUME IInv, [Next]_vars,
         \A h \in Handler : ~MarkSent(h) /\ ~EmitAlert(h)
  PROVE  warned' \subseteq warned /\ exceeded' \subseteq exceeded /\ sent' = sent
  BY DEF Next, Producer, CreateTransaction, UpdateTransaction, DeleteTransaction,
         PublishChange, DeleteHousehold, Consumer, TransactionHandler, HouseholdHandler,
         StartHandler, FinishHandler, ApplyOverflows, InsertStateFails, EndByException,
         Apply, FindBudget, FindSnapshot, FindState, InsertState,
         ListBudgets, DropStates, DropSnapshots, DropBudgets,
         Http, CreateBudget, RemoveBudget, PatchFind, PatchSave, PatchReset, NewMonth,
         CleanProcessedEventIds, Failure, HandlerFails, Restart, LoseChannel,
         alertVars, ghostVars, vars

LEMMA FaultsCount ==
  ASSUME IInv, [Next]_vars, faults' = 0
  PROVE  faults = 0 /\ ~Restart /\ ~LoseChannel /\ \A h \in Handler : ~HandlerFails(h)
<1>1. faults \in Nat
  BY BoundsAssumption DEF IInv, TypeOK, QueueTypeOK
<1>2. faults + 1 # 0
  BY <1>1
<1>3. \A kind : ~Fault(kind)
  BY <1>2 DEF Fault
<1>4. ~Restart /\ ~LoseChannel /\ \A h \in Handler : ~HandlerFails(h)
  BY <1>3 DEF Restart, LoseChannel, HandlerFails, Crash, DropChannel
<1>5. faults' = faults
  BY <1>4
  DEF Next, Producer, CreateTransaction, UpdateTransaction, DeleteTransaction,
      PublishChange, DeleteHousehold, Consumer, TransactionHandler, HouseholdHandler,
      StartHandler, FinishHandler, ApplyOverflows, InsertStateFails, Deliver, Publish,
      Ack, Apply, FindBudget, FindSnapshot, FindState, InsertState, MarkSent, EmitAlert,
      ListBudgets, DropStates, DropSnapshots, DropBudgets, Http, CreateBudget,
      RemoveBudget, PatchFind, PatchSave, PatchReset, NewMonth, CleanProcessedEventIds,
      Failure, queueVars, vars
<1> QED
  BY <1>4, <1>5

LEMMA EmitStep ==
  ASSUME IInv, DecidedInv, EmitInv, [Next]_vars
  PROVE  EmitInv'
<1> SUFFICES ASSUME faults' = 0, NEW s \in StateKey, NEW level \in Level,
                    Flag(s, level)'
             PROVE  \/ sent'[<<s, level>>] > 0
                    \/ \E h \in Handler : pc'[h] = "emit" /\ About(h, s, level)'
  BY DEF EmitInv
<1>0. TypeOK /\ faults = 0 /\ LogGrows
  BY FaultsCount, LogKept DEF IInv
<1>1. sent[<<s, level>>] \in Nat
  BY <1>0 DEF TypeOK
<1>2. ASSUME NEW h \in Handler, EmitAlert(h)
      PROVE  /\ \A a \in StateKey \X Level : sent'[a] >= sent[a]
             /\ About(h, s, level) => sent'[<<s, level>>] > 0
  <2> DEFINE b == <<AlertKey(h), view[h].level>>
  <2>0. b \in StateKey \X Level
    BY <1>2, AlertKeyType DEF EmitAlert, AlertSteps, DecidedInv
  <2>1. sent' = [sent EXCEPT ![b] = sent[b] + 1]
    BY <1>2 DEF EmitAlert
  <2>2. \A a \in StateKey \X Level : sent[a] \in Nat
    BY <1>0 DEF TypeOK
  <2>3. \A a \in StateKey \X Level : sent'[a] = IF a = b THEN sent[b] + 1 ELSE sent[a]
    <3> HIDE DEF b
    <3> QED BY <1>0, <2>1 DEF TypeOK
  <2>4. About(h, s, level) => <<s, level>> = b
    BY DEF About
  <2> QED
    <3> HIDE DEF b
    <3> QED BY <2>0, <2>2, <2>3, <2>4
\* Who is about to emit still is, or has.
<1>3. ASSUME NEW h \in Handler, pc[h] = "emit", About(h, s, level)
      PROVE  \/ sent'[<<s, level>>] > 0
             \/ pc'[h] = "emit" /\ About(h, s, level)'
  <2>1. CASE Stays(h)
    <3>1. view'[h].gen = view[h].gen /\ view'[h].level = view[h].level
      BY <2>1 DEF Stays, Knows
    <3>2. msg[h] # 0
      BY <1>3 DEF IInv, ControlInv
    <3>3. AlertKey(h)' = AlertKey(h)
      BY <1>0, <2>1, <3>1, <3>2, AlertKeyKept DEF Stays
    <3> QED
      BY <1>3, <2>1, <3>1, <3>3 DEF Stays, About
  <2>2. CASE Consumer(h)
    <3>1. EmitAlert(h)
      BY <1>3, <2>2 DEF Consumer, TransactionHandler, HouseholdHandler, Apply,
        ApplyOverflows, FindBudget, FindSnapshot, FindState, InsertState, InsertStateFails,
        MarkSent, ListBudgets, DropStates, DropSnapshots, DropBudgets, FinishHandler,
        StartHandler, Deliver, Idle, IInv, ControlInv
    <3> QED
      BY <1>2, <1>3, <3>1
  <2> QED
    BY <2>1, <2>2, HandlerKept, FaultsCount
<1>4. CASE Flag(s, level)
  <2>1. sent'[<<s, level>>] >= sent[<<s, level>>]
    <3>1. CASE \E h \in Handler : EmitAlert(h)
      BY <1>2, <3>1
    <3>2. CASE ~\E h \in Handler : EmitAlert(h)
      <4>1. sent' = sent
        BY <3>2, AlertsKept DEF MarkSent, ghostVars
      <4> QED BY <1>1, <4>1
    <3> QED BY <3>1, <3>2
  <2>2. CASE sent[<<s, level>>] > 0
    <3>1. sent'[<<s, level>>] \in Nat
      BY TypeStep DEF TypeOK
    <3> QED BY <1>1, <2>1, <2>2, <3>1
  <2>3. CASE \E h \in Handler : pc[h] = "emit" /\ About(h, s, level)
    BY <1>3, <2>3
  <2> QED
    BY <1>0, <1>4, <2>2, <2>3 DEF EmitInv
<1>5. CASE ~Flag(s, level)
  <2>1. PICK h \in Handler : MarkSent(h)
    BY <1>5, AlertsKept DEF Flag, EmitAlert, alertVars
  <2>2. AlertKey(h) = s /\ view[h].level = level
    BY <1>5, <2>1 DEF MarkSent, Flag, DecidedInv, Level
  <2>3. pc'[h] = "emit" /\ UNCHANGED <<msg, log, view>>
    BY <1>0, <2>1 DEF MarkSent, Goto, TypeOK, queueVars
  <2> QED
    BY <2>2, <2>3 DEF About, AlertKey, key, event
<1> QED
  BY <1>4, <1>5

\* A flag that is set and that no handler is about to act on stands for an alert
\* that was published, for any number of handlers: the flag is stored by the same
\* handler that emits next (checkThreshold), and without a fault that one arrives.
THEOREM FlaggedMeansSent == Spec => []FlaggedAlertWasSent
<1> DEFINE Inv == IInv /\ DecidedInv /\ EmitInv
<1>1. Init => Inv
  BY InvInit DEF Init, DecidedInv, EmitInv, Flag
<1>2. Inv /\ [Next]_vars => Inv'
  BY InvStep, DecidedStep, EmitStep
<1>3. Inv => FlaggedAlertWasSent
  BY DEF EmitInv, FlaggedAlertWasSent, Flag, Level
<1> QED
  BY <1>1, <1>2, <1>3, PTL DEF Spec

-----------------------------------------------------------------------------
(***************************************************************************)
(* No crossing is missed.  A threshold that is reached and not flagged is  *)
(* on somebody's way: some event of that category and month is not settled *)
(* yet, and every handler that could settle it has either not looked, or   *)
(* has seen that the threshold is reached.                                 *)
(***************************************************************************)
Reached(k, percent) ==
  budgets[k.cat] # NoBudget /\ Reaches(spent[k], budgets[k.cat].limit, percent)

Flagged(k, percent) ==
  LET s == <<k.cat, budgets[k.cat].gen, k.month>>
  IN  s \in exceeded \/ (percent = 80 /\ s \in warned)

WillFlag(h, k, percent) ==
  /\ pc[h] \in {"apply", "budget", "snapshot", "state", "insertState", "mark"}
  /\ pc[h] \notin {"apply", "budget"} => view[h].gen = budgets[k.cat].gen
  /\ pc[h] \in {"snapshot", "state", "insertState"} => view[h].limit = budgets[k.cat].limit
  /\ pc[h] \in {"state", "insertState"} => Reaches(view[h].spent, view[h].limit, percent)
  /\ pc[h] = "mark" =>
       view[h].row /\ (view[h].level = "exceeded" \/ (percent = 80 /\ view[h].level = "warning"))

\* Message i is about an expense of k and is still to be handled, or handled again.
Awaited(i, k) ==
  /\ i \in 1..Len(log) /\ deliv[i] \notin {"none", "acked"}
  /\ Guarded(log[i]) /\ log[i].next \in Entry /\ log[i].next.key = k

Witness(i, k, percent) ==
  /\ Awaited(i, k)
  /\ \A h \in Handler : msg[h] = i /\ live[h] => WillFlag(h, k, percent)

\* The limits are left alone and the household exists.
Undisturbed == ops = 0 /\ HouseholdAlive

CrossingInv ==
  Undisturbed =>
    /\ patch = NoPatch
    /\ \A k \in Key, percent \in {80, 100} :
         Reached(k, percent) =>
           Flagged(k, percent) \/ \E i \in MessageId : Witness(i, k, percent)

LEMMA UndisturbedBefore ==
  ASSUME IInv, [Next]_vars, Undisturbed'
  PROVE  Undisturbed /\ (Http => patch # NoPatch)
<1>1. HouseholdAlive
  BY AliveBefore DEF Undisturbed
<1>2. ops \in Nat /\ ops + 1 # 0
  BY BudgetAssumption DEF IInv, TypeOK
<1>3. ~Request
  BY <1>2 DEF Request, Undisturbed
<1>4. ops' = ops
  BY <1>3
  DEF Next, Producer, CreateTransaction, UpdateTransaction, DeleteTransaction,
      PublishChange, DeleteHousehold, Consumer, TransactionHandler, HouseholdHandler,
      StartHandler, FinishHandler, ApplyOverflows, InsertStateFails, EndByException,
      Apply, FindBudget, FindSnapshot, FindState, InsertState, MarkSent, EmitAlert,
      ListBudgets, DropStates, DropSnapshots, DropBudgets, Http, CreateBudget,
      RemoveBudget, PatchFind, PatchSave, PatchReset, NewMonth, CleanProcessedEventIds,
      Failure, HandlerFails, Restart, LoseChannel, httpVars, vars
<1>5. Http => patch # NoPatch
  BY <1>3 DEF Http, CreateBudget, RemoveBudget, PatchFind, PatchSave, PatchReset, NoPatch
<1> QED
  BY <1>1, <1>4, <1>5 DEF Undisturbed

LEMMA NobodyErases ==
  ASSUME IInv, HouseholdAlive, NEW h \in Handler
  PROVE  ~HouseholdHandler(h) /\ pc[h] \notin DropSteps
<1>1. pc[h] \notin DropSteps
  <2> SUFFICES ASSUME pc[h] \in DropSteps PROVE FALSE
    OBVIOUS
  <2>1. msg[h] \in 1..Len(log) /\ log[msg[h]].kind = "householdDeleted"
    BY DEF IInv, ControlInv, TypeOK, QueueTypeOK, DropSteps
  <2>2. DOMAIN log = 1..Len(log)
    BY DEF IInv, TypeOK, QueueTypeOK
  <2> QED
    BY <2>1, <2>2 DEF HouseholdAlive
<1> QED
  BY <1>1 DEF HouseholdHandler, ListBudgets, DropStates, DropSnapshots, DropBudgets, DropSteps

\* While nobody edits a limit, budgets stay and flags are only added.
LEMMA LimitsKept ==
  ASSUME IInv, [Next]_vars, HouseholdAlive, ~Http
  PROVE  /\ budgets' = budgets
         /\ warned \subseteq warned' /\ exceeded \subseteq exceeded'
         /\ patch' \in {patch, NoPatch}
<1>1. \A h \in Handler : ~HouseholdHandler(h)
  BY NobodyErases
<1> QED
  BY <1>1
  DEF Next, Producer, CreateTransaction, UpdateTransaction, DeleteTransaction,
      PublishChange, DeleteHousehold, Consumer, TransactionHandler,
      StartHandler, FinishHandler, ApplyOverflows, InsertStateFails, EndByException,
      Apply, FindBudget, FindSnapshot, FindState, InsertState, MarkSent, EmitAlert,
      NewMonth, CleanProcessedEventIds, Failure, HandlerFails, Restart, LoseChannel,
      budgetVars, alertVars, httpVars, vars

\* Only an event with a new expense of k raises the total of k.
LEMMA OnlyAnExpenseRaises ==
  ASSUME NEW total \in [Key -> Nat], NEW e \in Event, NEW k \in Key,
         ~(e.next \in Entry /\ e.next.key = k)
  PROVE  Posted(total, e)[k] <= total[k]
<1>1. \A p \in Entry : p.key \in Key /\ p.amount \in Nat
  BY PostingsAssumption DEF Entry
<1> DEFINE less == SubtractFromTotal(total, e.prev)
<1>2. less \in [Key -> Nat] /\ less[k] <= total[k]
  BY <1>1 DEF SubtractFromTotal
<1>3. AddToTotal(less, e.next)[k] = less[k]
  <2> HIDE DEF less
  <2> QED BY <1>1, <1>2 DEF AddToTotal
<1> QED
  BY <1>2, <1>3 DEF Posted

LEMMA ReachedMonotone ==
  ASSUME NEW a \in Nat, NEW b \in Nat, a <= b, NEW limit \in Nat, NEW percent \in Nat,
         Reaches(a, limit, percent)
  PROVE  Reaches(b, limit, percent)
<1> DEFINE x == limit * percent
<1>1. x \in Nat
  OBVIOUS
<1>2. a * 100 >= x => b * 100 >= x
  <2> HIDE DEF x
  <2> QED BY <1>1
<1> QED
  BY <1>2 DEF Reaches

\* An event that is on its way stays so until a live handler acks it.
LEMMA AwaitedKept ==
  ASSUME IInv, [Next]_vars, NEW i \in MessageId, NEW k \in Key, Awaited(i, k)
  PROVE  Awaited(i, k)' \/ \E h \in Handler : FinishHandler(h) /\ msg[h] = i /\ live[h]
<1> SUFFICES ASSUME \A h \in Handler : FinishHandler(h) /\ msg[h] = i => ~live[h]
             PROVE  Awaited(i, k)'
  OBVIOUS
<1>1. i \in 1..Len(log') /\ log'[i] = log[i]
  <2>1. LogGrows
    BY LogKept
  <2>2. Len(log) \in Nat
    BY DEF IInv, TypeOK, QueueTypeOK
  <2>3. i \in 1..Len(log)
    BY DEF Awaited
  <2> QED
    BY <2>1, <2>2, <2>3 DEF LogGrows
<1>2. deliv'[i] \notin {"none", "acked"}
  <2> USE DEF IInv, TypeOK, QueueTypeOK, Awaited
  <2>1. CASE Producer
    BY <2>1 DEF Producer, CreateTransaction, UpdateTransaction, DeleteTransaction,
                PublishChange, DeleteHousehold, Publish
  <2>2. ASSUME NEW h \in Handler, StartHandler(h) PROVE deliv'[i] \notin {"none", "acked"}
    BY <2>2 DEF StartHandler, Deliver
  <2>3. ASSUME NEW h \in Handler, FinishHandler(h) PROVE deliv'[i] \notin {"none", "acked"}
    BY <2>3 DEF FinishHandler, Ack, Idle
  <2>4. CASE Restart \/ LoseChannel
    BY <2>4 DEF Restart, LoseChannel, Crash, DropChannel, Requeued
  <2>5. CASE UNCHANGED deliv
    BY <2>5
  <2> QED
    BY <2>1, <2>2, <2>3, <2>4, <2>5
    DEF Next, Consumer, TransactionHandler, HouseholdHandler, ApplyOverflows,
        InsertStateFails, EndByException, Throw, Apply, FindBudget, FindSnapshot,
        FindState, InsertState, MarkSent, EmitAlert, ListBudgets, DropStates,
        DropSnapshots, DropBudgets, Http, CreateBudget, RemoveBudget, PatchFind,
        PatchSave, PatchReset, NewMonth, CleanProcessedEventIds, Failure, HandlerFails,
        queueVars, vars
<1> QED
  BY <1>1, <1>2 DEF Awaited

\* The step of a handler that is to flag the threshold brings the flag nearer.
LEMMA WillFlagKept ==
  ASSUME IInv, [Next]_vars, HouseholdAlive, ~Http,
         NEW k \in Key, NEW percent \in {80, 100}, NEW i \in MessageId, NEW h \in Handler,
         Reached(k, percent), Awaited(i, k),
         msg[h] = i /\ live[h] => WillFlag(h, k, percent),
         msg'[h] = i, live'[h]
  PROVE  WillFlag(h, k, percent)' \/ Flagged(k, percent)'
<1> USE DEF IInv, TypeOK, QueueTypeOK
<1>0. /\ budgets' = budgets /\ warned \subseteq warned' /\ exceeded \subseteq exceeded'
      /\ i # 0 /\ \A g \in Handler : ~DropStates(g)
  BY LimitsKept, NobodyErases DEF HouseholdHandler, MessageId
<1>1. CASE Stays(h)
  <2>1. ~LoseChannel
    BY <1>1 DEF LoseChannel, DropChannel
  <2>2. WillFlag(h, k, percent)
    BY <1>1, <2>1 DEF Stays
  <2>3. view'[h].row = view[h].row
    BY <1>0, <1>1 DEF Stays
  <2> QED
    BY <1>0, <1>1, <2>2, <2>3 DEF Stays, Knows, WillFlag
<1>2. CASE StartHandler(h)
  <2>1. pc'[h] = "apply"
    BY <1>2 DEF StartHandler, Deliver, Goto, FirstStep, Awaited
  <2> QED
    BY <2>1 DEF WillFlag
<1>3. ASSUME TransactionHandler(h)
      PROVE  WillFlag(h, k, percent)' \/ Flagged(k, percent)'
  <2>0. ~ApplyOverflows(h) /\ ~InsertStateFails(h)
    BY <1>0 DEF ApplyOverflows, InsertStateFails, EndByException, Throw
  <2>1. msg[h] = i /\ live[h]
    BY <1>3, <2>0
    DEF TransactionHandler, Apply, FindBudget, FindSnapshot, FindState, InsertState,
        MarkSent, EmitAlert, queueVars
  <2>2. WillFlag(h, k, percent)
    BY <2>1
  <2>3. key(h) = k /\ event(h).next \in Entry
    BY <2>1 DEF key, event, Awaited
  <2>4. CASE Apply(h)
    BY <2>3, <2>4 DEF Apply, Goto, AfterApply, WillFlag
  <2>5. CASE FindBudget(h)
    <3>1. budgets[k.cat] # NoBudget
      BY DEF Reached
    <3>2. pc'[h] = "snapshot"
      BY <2>3, <2>5, <3>1 DEF FindBudget, Goto
    <3>3. view'[h].gen = budgets[k.cat].gen /\ view'[h].limit = budgets[k.cat].limit
      BY <2>3, <2>5 DEF FindBudget, View
    <3> QED
      BY <1>0, <3>2, <3>3 DEF WillFlag
  <2>6. CASE FindSnapshot(h)
    <3>1. /\ pc[h] = "snapshot" /\ pc'[h] = "state" /\ view'[h].spent = spent[k]
          /\ view'[h].gen = view[h].gen /\ view'[h].limit = view[h].limit
      BY <2>3, <2>6 DEF FindSnapshot, View, Goto
    <3> QED
      BY <1>0, <2>2, <3>1 DEF WillFlag, Reached
  <2>7. ASSUME pc[h] \in {"state", "insertState"}, NEW flags, Decide(h, flags),
               "exceeded" \in flags => AlertKey(h) \in exceeded,
               "warning" \in flags => AlertKey(h) \in warned
        PROVE  WillFlag(h, k, percent)' \/ Flagged(k, percent)'
    <3>1. /\ view[h].gen = budgets[k.cat].gen
          /\ Reaches(view[h].spent, view[h].limit, percent)
      BY <2>2, <2>7 DEF WillFlag
    <3>2. AlertKey(h) = <<k.cat, budgets[k.cat].gen, k.month>>
      BY <2>3, <3>1 DEF AlertKey
    <3> DEFINE a == Alert(view[h], flags)
    <3>3. CASE Flagged(k, percent)
      BY <1>0, <3>3 DEF Flagged
    <3>4. CASE ~Flagged(k, percent)
      <4>1. a = "exceeded" \/ (percent = 80 /\ a = "warning")
        <5>1. CASE percent = 100
          BY <2>7, <3>1, <3>2, <3>4, <5>1 DEF Alert, Flagged
        <5>2. CASE percent = 80
          BY <2>7, <3>1, <3>2, <3>4, <5>2 DEF Alert, Flagged
        <5> QED BY <5>1, <5>2
      <4>2. /\ pc'[h] = "mark" /\ view'[h].level = a /\ view'[h].row
            /\ view'[h].gen = view[h].gen
        BY <2>7, <4>1 DEF Decide, Goto, View
      <4> QED
        <5> HIDE DEF a
        <5> QED BY <1>0, <3>1, <4>1, <4>2 DEF WillFlag
    <3> QED BY <3>3, <3>4
  <2>8. CASE FindState(h)
    <3>1. CASE AlertKey(h) \in stateRows
      <4>1. Decide(h, Flags(AlertKey(h)))
        BY <2>8, <3>1 DEF FindState
      <4> QED
        BY <2>7, <2>8, <4>1 DEF FindState, Flags
    <3>2. CASE AlertKey(h) \notin stateRows
      <4>1. pc[h] = "state" /\ pc'[h] = "insertState" /\ view' = view
        BY <2>8, <3>2 DEF FindState, Goto
      <4> QED
        BY <1>0, <2>2, <4>1 DEF WillFlag
    <3> QED BY <3>1, <3>2
  <2>9. CASE InsertState(h)
    BY <2>7, <2>9 DEF InsertState
  <2>10. CASE MarkSent(h)
    <3>1. /\ pc[h] = "mark" /\ view[h].row /\ view[h].gen = budgets[k.cat].gen
          /\ view[h].level = "exceeded" \/ (percent = 80 /\ view[h].level = "warning")
      BY <2>2, <2>10 DEF MarkSent, WillFlag
    <3>2. AlertKey(h) = <<k.cat, budgets[k.cat].gen, k.month>>
      BY <2>3, <3>1 DEF AlertKey
    <3> QED
      BY <1>0, <2>10, <3>1, <3>2 DEF MarkSent, Flagged
  <2>11. ~EmitAlert(h)
    BY <2>2 DEF EmitAlert, WillFlag
  <2> QED
    BY <1>3, <2>0, <2>4, <2>5, <2>6, <2>8, <2>9, <2>10, <2>11 DEF TransactionHandler
<1>4. ~FinishHandler(h) /\ ~HandlerFails(h) /\ ~Restart
  BY <1>0 DEF FinishHandler, Ack, HandlerFails, EndByException, Throw, Restart, Crash
<1>5. ~HouseholdHandler(h)
  BY NobodyErases
<1> QED
  BY <1>1, <1>2, <1>3, <1>4, <1>5, HandlerKept DEF Consumer

\* The expense that raises the total is a witness: nobody has handled it yet.
LEMMA NewWitness ==
  ASSUME IInv, NEW h \in Handler, Apply(h), Post(msg[h]), NEW k \in Key, NEW percent,
         event(h).next \in Entry, event(h).next.key = k, NEW i, i = msg[h]
  PROVE  i \in MessageId /\ Witness(i, k, percent)'
<1> USE DEF IInv, TypeOK, QueueTypeOK
<1>1. /\ pc[h] = "apply" /\ UNCHANGED queueVars
      /\ pc' = [pc EXCEPT ![h] = "budget"]
  BY DEF Apply, Goto, AfterApply
<1>2. i \in MessageId /\ i \in 1..Len(log) /\ Guarded(log[i]) /\ deliv[i] # "none"
  BY <1>1 DEF ControlInv
<1>3. applied[i] = 0
  BY <1>1, NewIsNew DEF Post
<1>4. deliv[i] # "acked"
  <2>1. applied[i] # 1
    BY <1>3
  <2> QED
    BY <1>2, <2>1 DEF AccountInv
<1>5. \A g \in Handler : msg[g] = i => pc[g] = "apply"
  BY <1>2, <1>3 DEF ControlInv, AccountInv, MessageId
<1>6. \A g \in Handler : msg[g] = i => WillFlag(g, k, percent)'
  <2>1. \A g \in Handler : msg[g] = i => pc'[g] \in {"apply", "budget"}
    BY <1>1, <1>5
  <2> QED
    BY <2>1 DEF WillFlag
<1>7. Awaited(i, k)'
  BY <1>1, <1>2, <1>4 DEF Awaited, event, queueVars
<1> QED
  BY <1>1, <1>2, <1>6, <1>7 DEF Witness, queueVars

LEMMA CrossingStep ==
  ASSUME IInv, CrossingInv, [Next]_vars
  PROVE  CrossingInv'
<1> SUFFICES ASSUME Undisturbed'
             PROVE  /\ patch' = NoPatch
                    /\ \A k \in Key, percent \in {80, 100} :
                         Reached(k, percent)' =>
                           \/ Flagged(k, percent)'
                           \/ \E i \in MessageId' : Witness(i, k, percent)'
  BY DEF CrossingInv
<1>1. Undisturbed /\ HouseholdAlive /\ patch = NoPatch /\ ~Http
  BY UndisturbedBefore DEF CrossingInv, Undisturbed
<1>2. /\ budgets' = budgets /\ patch' = NoPatch
      /\ warned \subseteq warned' /\ exceeded \subseteq exceeded'
  BY <1>1, LimitsKept
<1> SUFFICES ASSUME NEW k \in Key, NEW percent \in {80, 100}, Reached(k, percent)'
             PROVE  Flagged(k, percent)' \/ \E i \in MessageId : Witness(i, k, percent)'
  BY <1>2 DEF MessageId
<1>3. CASE \E h \in Handler : /\ Apply(h) /\ Post(msg[h])
                              /\ event(h).next \in Entry /\ event(h).next.key = k
  <2>1. PICK h \in Handler : /\ Apply(h) /\ Post(msg[h])
                             /\ event(h).next \in Entry /\ event(h).next.key = k
    BY <1>3
  <2>2. \A i : i = msg[h] => i \in MessageId /\ Witness(i, k, percent)'
    BY <2>1, NewWitness
  <2> QED
    BY <2>2
<1>4. CASE ~\E h \in Handler : /\ Apply(h) /\ Post(msg[h])
                               /\ event(h).next \in Entry /\ event(h).next.key = k
  <2>1. spent'[k] <= spent[k]
    <3>1. ASSUME NEW h \in Handler, Apply(h), Post(msg[h]) PROVE spent'[k] <= spent[k]
      <4>1. msg[h] \in 1..Len(log)
        BY <3>1 DEF IInv, TypeOK, QueueTypeOK, ControlInv, Apply
      <4>2. event(h) \in Event /\ spent \in [Key -> Nat]
        BY <4>1, EventType DEF event, IInv, TypeOK
      <4>3. spent' = Posted(spent, event(h))
        BY <3>1 DEF Post, event
      <4> QED
        BY <1>4, <3>1, <4>2, <4>3, OnlyAnExpenseRaises
    <3>2. CASE UNCHANGED spent
      BY <3>2 DEF IInv, TypeOK
    <3>3. (\E h \in Handler : Apply(h) /\ Post(msg[h])) \/ UNCHANGED spent
      BY <1>1, NobodyErases
      DEF Next, Producer, CreateTransaction, UpdateTransaction, DeleteTransaction,
          PublishChange, DeleteHousehold, Consumer, TransactionHandler, StartHandler,
          FinishHandler, ApplyOverflows, InsertStateFails, EndByException, Apply, Skip,
          FindBudget, FindSnapshot, FindState, InsertState, MarkSent, EmitAlert, NewMonth,
          CleanProcessedEventIds, Failure, HandlerFails, Restart, LoseChannel, rowVars, vars
    <3> QED BY <3>1, <3>2, <3>3
  <2>2. Reached(k, percent)
    <3>1. budgets[k.cat].limit \in Nat /\ percent \in Nat
      <4>1. budgets[k.cat] \in {NoBudget} \cup [gen: Gen, limit: Limit]
        BY DEF IInv, TypeOK, Key
      <4>2. budgets[k.cat].limit \in Limit \cup {0}
        BY <4>1 DEF NoBudget
      <4>3. \A x \in Limit \cup {0} : x \in Nat
        BY BudgetAssumption
      <4>4. percent \in Nat
        OBVIOUS
      <4> QED
        BY <4>2, <4>3, <4>4
    <3>2. spent[k] \in Nat /\ spent'[k] \in Nat
      BY TypeStep DEF IInv, TypeOK
    <3> QED
      BY <1>2, <2>1, <3>1, <3>2, ReachedMonotone DEF Reached
  <2>3. CASE Flagged(k, percent)
    BY <1>2, <2>3 DEF Flagged
  <2>4. CASE ~Flagged(k, percent)
    <3>1. PICK i \in MessageId : Witness(i, k, percent)
      BY <1>1, <2>2, <2>4 DEF CrossingInv
    <3>2. Awaited(i, k)'
      <4>1. ASSUME NEW h \in Handler, FinishHandler(h), msg[h] = i, live[h] PROVE FALSE
        BY <3>1, <4>1 DEF Witness, WillFlag, FinishHandler
      <4> QED
        BY <3>1, <4>1, AwaitedKept DEF Witness
    <3>3. ASSUME NEW h \in Handler, msg'[h] = i, live'[h]
          PROVE  WillFlag(h, k, percent)' \/ Flagged(k, percent)'
      BY <1>1, <2>2, <3>1, <3>3, WillFlagKept DEF Witness
    <3> QED
      BY <3>2, <3>3 DEF Witness
  <2> QED BY <2>3, <2>4
<1> QED
  BY <1>3, <1>4

\* Once every event is settled, a total at 80% or 100% of its limit is flagged,
\* for any number of handlers, messages and faults: a handler that fails or dies
\* in checkThreshold leaves its delivery to be handled again, and the duplicate
\* still checks the threshold.
THEOREM CrossingsAreSeen == Spec => []NoCrossingMissed
<1> DEFINE Inv == IInv /\ CrossingInv
<1>1. Init => Inv
  <2> SUFFICES ASSUME Init PROVE CrossingInv
    BY InvInit
  <2>1. ASSUME NEW k \in Key, NEW percent \in {80, 100} PROVE ~Reached(k, percent)
    <3> SUFFICES ASSUME budgets[k.cat] # NoBudget
                 PROVE  ~Reaches(spent[k], budgets[k.cat].limit, percent)
      BY DEF Reached
    <3>1. budgets[k.cat].limit \in Nat \ {0}
      BY BudgetAssumption DEF Init, Key
    <3>2. spent[k] = 0
      BY DEF Init, ZeroTotals
    <3> DEFINE x == budgets[k.cat].limit * percent
    <3>3. x \in Nat /\ x > 0
      BY <3>1
    <3>4. ~(0 * 100 >= x)
      <4> HIDE DEF x
      <4> QED BY <3>3
    <3> QED
      BY <3>2, <3>4 DEF Reaches
  <2> QED
    BY <2>1 DEF Init, CrossingInv
<1>2. Inv /\ [Next]_vars => Inv'
  BY InvStep, CrossingStep
<1>3. Inv => NoCrossingMissed
  <2> SUFFICES ASSUME IInv, CrossingInv, Quiet, ops = 0, HouseholdAlive, NEW k \in Key,
                      NEW percent \in {80, 100}, Reached(k, percent)
               PROVE  Flagged(k, percent)
    BY DEF NoCrossingMissed, Reached, Flagged
  <2>1. \A i \in MessageId : ~Witness(i, k, percent)
    BY DEF Witness, Awaited, Quiet
  <2> QED
    BY <2>1 DEF CrossingInv, Undisturbed
<1> QED
  BY <1>1, <1>2, <1>3, PTL DEF Spec

-----------------------------------------------------------------------------
(***************************************************************************)
(* Alerts are not repeated when deliveries are handled one after the       *)
(* other.  Each alert published, the one about to be, and a PATCH that may *)
(* clear a flag are paid for: by a request, or by the flag that is set.    *)
(***************************************************************************)
OneAtATime == \A g, h \in Handler : g = h

\* A flag belongs to a row, and so does the decision to set one.
RowInv ==
  /\ warned \cup exceeded \subseteq stateRows
  /\ \A h \in Handler : pc[h] = "mark" /\ view[h].row => AlertKey(h) \in stateRows

Emits(s, level) == \E h \in Handler : pc[h] = "emit" /\ About(h, s, level)
Emitting(s, level) == IF Emits(s, level) THEN 1 ELSE 0
Marked(s, level) == IF Flag(s, level) THEN 1 ELSE 0
Patching == IF patch = NoPatch THEN 0 ELSE 1

Paid(s, level) ==
  sent[<<s, level>>] + Emitting(s, level) + Patching <= ops + Marked(s, level)

OnceInv ==
  HouseholdAlive =>
    /\ \A h \in Handler :
         pc[h] = "mark" => view[h].row /\ ~Flag(AlertKey(h), view[h].level)
    /\ \A s \in StateKey, level \in Level : Paid(s, level)

LEMMA RowStep ==
  ASSUME IInv, RowInv, [Next]_vars
  PROVE  RowInv'
<1> USE DEF IInv, TypeOK, QueueTypeOK
<1>1. warned' \cup exceeded' \subseteq stateRows'
  <2>1. ASSUME NEW h \in Handler, InsertState(h) \/ MarkSent(h) \/ DropStates(h)
        PROVE  warned' \cup exceeded' \subseteq stateRows'
    BY <2>1 DEF InsertState, MarkSent, DropStates, RowInv
  <2>2. CASE PatchReset
    BY <2>2 DEF PatchReset, RowInv
  <2>3. CASE UNCHANGED alertVars
    BY <2>3 DEF alertVars, RowInv
  <2> QED
    BY <2>1, <2>2, <2>3
    DEF Next, Producer, CreateTransaction, UpdateTransaction, DeleteTransaction,
        PublishChange, DeleteHousehold, Consumer, TransactionHandler, HouseholdHandler,
        StartHandler, FinishHandler, ApplyOverflows, InsertStateFails, EndByException,
        Apply, FindBudget, FindSnapshot, FindState, EmitAlert, ListBudgets,
        DropSnapshots, DropBudgets, Http, CreateBudget, RemoveBudget, PatchFind,
        PatchSave, NewMonth, CleanProcessedEventIds, Failure, HandlerFails, Restart,
        LoseChannel, vars
<1>2. ASSUME NEW h \in Handler, pc'[h] = "mark", view'[h].row
      PROVE  AlertKey(h)' \in stateRows'
  <2>1. CASE Stays(h)
    <3>0. pc[h] = "mark" /\ msg[h] # 0 /\ AlertKey(h)' = AlertKey(h)
      BY <1>2, <2>1, LogKept, AlertKeyKept DEF Stays, Knows, ControlInv
    <3>1. CASE \E g \in Handler : DropStates(g)
      <4>1. PICK g \in Handler : DropStates(g)
        BY <3>1
      <4>2. AlertKey(h) \notin StatesOf(view[g].gone) /\ view[h].row
        BY <1>2, <3>0, <4>1 DEF DropStates, View
      <4> QED
        BY <3>0, <4>1, <4>2 DEF DropStates, RowInv
    <3>2. CASE ~\E g \in Handler : DropStates(g)
      <4>1. AlertKey(h) \in stateRows
        BY <1>2, <2>1, <3>0, <3>2 DEF Stays, RowInv
      <4>2. stateRows \subseteq stateRows'
        BY <3>2
        DEF Next, Producer, CreateTransaction, UpdateTransaction, DeleteTransaction,
            PublishChange, DeleteHousehold, Consumer, TransactionHandler, HouseholdHandler,
            StartHandler, FinishHandler, ApplyOverflows, InsertStateFails, EndByException,
            Apply, FindBudget, FindSnapshot, FindState, InsertState, MarkSent, EmitAlert,
            ListBudgets, DropSnapshots, DropBudgets, Http, CreateBudget, RemoveBudget,
            PatchFind, PatchSave, PatchReset, NewMonth, CleanProcessedEventIds, Failure,
            HandlerFails, Restart, LoseChannel, alertVars, vars
      <4> QED BY <3>0, <4>1, <4>2
    <3> QED BY <3>1, <3>2
  <2>2. CASE FindState(h) \/ InsertState(h)
    <3>1. UNCHANGED <<log, msg>> /\ view'[h].gen = view[h].gen
      BY <2>2 DEF FindState, InsertState, Decide, Goto, queueVars, View
    <3>2. AlertKey(h)' = AlertKey(h)
      BY <3>1 DEF AlertKey, key, event
    <3>3. FindState(h) => AlertKey(h) \in stateRows /\ stateRows' = stateRows
      BY <1>2 DEF FindState, Goto, alertVars
    <3>4. InsertState(h) => AlertKey(h) \in stateRows'
      BY DEF InsertState
    <3> QED
      BY <2>2, <3>2, <3>3, <3>4
  <2>3. CASE \/ StartHandler(h) \/ Apply(h) \/ ApplyOverflows(h) \/ FindBudget(h)
             \/ FindSnapshot(h) \/ InsertStateFails(h) \/ EmitAlert(h) \/ MarkSent(h)
             \/ HouseholdHandler(h) \/ FinishHandler(h) \/ HandlerFails(h) \/ Restart
    BY <1>2, <2>3
    DEF StartHandler, FirstStep, Apply, AfterApply, ApplyOverflows, FindBudget,
        FindSnapshot, InsertStateFails, EmitAlert, MarkSent, HouseholdHandler, ListBudgets,
        DropStates, DropSnapshots, DropBudgets, FinishHandler, HandlerFails,
        EndByException, Goto, Restart
  <2> QED
    BY <2>1, <2>2, <2>3, HandlerKept DEF Consumer, TransactionHandler
<1> QED
  BY <1>1, <1>2 DEF RowInv

LEMMA EmitsKept ==
  ASSUME IInv, [Next]_vars, \A h \in Handler : ~MarkSent(h),
         NEW s, NEW level, Emits(s, level)'
  PROVE  Emits(s, level)
<1>1. PICK h \in Handler : pc'[h] = "emit" /\ About(h, s, level)'
  BY DEF Emits
<1>2. Stays(h)
  BY <1>1, HandlerKept
  DEF Consumer, TransactionHandler, StartHandler, FirstStep, Apply, AfterApply,
      ApplyOverflows, FindBudget, FindSnapshot, FindState, InsertState, Decide,
      InsertStateFails, EmitAlert, HouseholdHandler, ListBudgets, DropStates,
      DropSnapshots, DropBudgets, FinishHandler, HandlerFails, EndByException, Goto,
      Restart, IInv, TypeOK
<1>3. pc[h] = "emit" /\ msg[h] # 0
  BY <1>1, <1>2 DEF Stays, IInv, ControlInv
<1>4. About(h, s, level)
  BY <1>1, <1>2, <1>3, LogKept, AlertKeyKept DEF Stays, Knows, About
<1> QED
  BY <1>1, <1>3, <1>4 DEF Emits

\* Who decides to raise an alert has seen that its flag is not set.
LEMMA UnflaggedStep ==
  ASSUME IInv, RowInv, OnceInv, OneAtATime, [Next]_vars, HouseholdAlive,
         NEW h \in Handler, pc'[h] = "mark"
  PROVE  view'[h].row /\ ~Flag(AlertKey(h), view[h].level)'
<1> USE DEF IInv, TypeOK, QueueTypeOK
<1>1. CASE Stays(h)
  <2>1. pc[h] = "mark" /\ msg[h] # 0
    BY <1>1 DEF Stays, ControlInv
  <2>2. AlertKey(h)' = AlertKey(h) /\ view'[h].level = view[h].level
    BY <1>1, <2>1, LogKept, AlertKeyKept DEF Stays, Knows
  <2>3. view'[h].row = view[h].row
    BY <1>1, NobodyErases DEF Stays, HouseholdHandler
  <2>4. \A g \in Handler : ~MarkSent(g) /\ ~EmitAlert(g)
    BY <1>1, <2>1 DEF OneAtATime, MarkSent, EmitAlert, Goto, Stays
  <2>5. warned' \subseteq warned /\ exceeded' \subseteq exceeded
    BY <2>4, AlertsKept
  <2> QED
    BY <2>1, <2>2, <2>3, <2>5 DEF OnceInv, Flag
<1>2. ASSUME NEW flags, Decide(h, flags), UNCHANGED <<log, msg, warned, exceeded>>,
             Flags(AlertKey(h)) = flags
      PROVE  view'[h].row /\ ~Flag(AlertKey(h), view[h].level)'
  <2>1. /\ view'[h].row /\ view'[h].gen = view[h].gen
        /\ view'[h].level = Alert(view[h], flags)
        /\ Alert(view[h], flags) # "none"
    BY <1>2 DEF Decide, Goto, View
  <2>2. AlertKey(h)' = AlertKey(h)
    BY <1>2, <2>1 DEF AlertKey, key, event
  <2>3. Alert(view[h], flags) \in Level \ flags
    BY <2>1 DEF Alert, Level
  <2>4. ~Flag(AlertKey(h), Alert(view[h], flags))
    BY <1>2, <2>3 DEF Flag, Flags, Level
  <2> QED
    BY <1>2, <2>1, <2>2, <2>4 DEF Flag
<1>3. CASE FindState(h)
  <2>1. Decide(h, Flags(AlertKey(h))) /\ UNCHANGED <<log, msg, warned, exceeded>>
    BY <1>3 DEF FindState, Goto, queueVars, alertVars
  <2> QED
    BY <1>2, <2>1
<1>4. CASE InsertState(h)
  <2>1. Decide(h, {}) /\ UNCHANGED <<log, msg, warned, exceeded>>
    BY <1>4 DEF InsertState, queueVars
  <2>2. Flags(AlertKey(h)) = {}
    BY <1>4 DEF InsertState, RowInv, Flags
  <2> QED
    BY <1>2, <2>1, <2>2
<1> QED
  BY <1>1, <1>3, <1>4, HandlerKept
  DEF Consumer, TransactionHandler, StartHandler, FirstStep, Apply, AfterApply,
      ApplyOverflows, FindBudget, FindSnapshot, MarkSent, InsertStateFails, EmitAlert,
      HouseholdHandler, ListBudgets, DropStates, DropSnapshots, DropBudgets,
      FinishHandler, HandlerFails, EndByException, Goto, Restart

LEMMA PaidStep ==
  ASSUME IInv, DecidedInv, OnceInv, OneAtATime, [Next]_vars, HouseholdAlive,
         NEW s \in StateKey, NEW level \in Level
  PROVE  Paid(s, level)'
<1> DEFINE a == <<s, level>>
<1>0. /\ sent[a] \in Nat /\ ops \in Nat /\ Patching \in {0, 1}
      /\ Emitting(s, level) \in {0, 1} /\ Marked(s, level) \in {0, 1}
      /\ Patching' \in {0, 1} /\ Emitting(s, level)' \in {0, 1}
      /\ Marked(s, level)' \in {0, 1}
      /\ sent[a] + Emitting(s, level) + Patching <= ops + Marked(s, level)
  BY BudgetAssumption DEF IInv, TypeOK, Patching, Emitting, Marked, OnceInv, Paid
<1> USE DEF IInv, TypeOK
<1>1. ASSUME NEW h \in Handler, MarkSent(h) PROVE Paid(s, level)'
  <2>1. /\ pc[h] = "mark" /\ pc'[h] = "emit" /\ view[h].row
        /\ ~Flag(AlertKey(h), view[h].level) /\ view[h].level \in Level
        /\ UNCHANGED <<log, msg, view, sent, ops, patch>>
    BY <1>1 DEF MarkSent, Goto, OnceInv, DecidedInv, queueVars, httpVars, ghostVars
  <2>2. AlertKey(h)' = AlertKey(h) /\ (About(h, s, level)' <=> About(h, s, level))
    BY <2>1 DEF AlertKey, key, event, About
  <2>3. Emitting(s, level) = 0
    BY <2>1 DEF Emitting, Emits, OneAtATime
  <2>4. CASE About(h, s, level)
    <3>1. Marked(s, level) = 0
      BY <2>1, <2>4 DEF About, Marked
    <3>2. Marked(s, level)' = 1
      BY <1>1, <2>1, <2>4 DEF MarkSent, About, Marked, Flag, Level
    <3>3. Patching' = Patching
      BY <2>1 DEF Patching
    <3> QED
      BY <1>0, <2>1, <2>3, <3>1, <3>2, <3>3 DEF Paid
  <2>5. CASE ~About(h, s, level)
    <3>1. Emitting(s, level)' = 0
      BY <2>2, <2>5 DEF Emitting, Emits, OneAtATime
    <3>2. Marked(s, level)' = Marked(s, level)
      BY <1>1, <2>1, <2>5 DEF MarkSent, About, Marked, Flag, Level
    <3>3. Patching' = Patching
      BY <2>1 DEF Patching
    <3> QED
      BY <1>0, <2>1, <2>3, <3>1, <3>2, <3>3 DEF Paid
  <2> QED BY <2>4, <2>5
<1>2. ASSUME \A h \in Handler : ~MarkSent(h)
      PROVE  Emitting(s, level)' <= Emitting(s, level)
  BY <1>2, EmitsKept DEF Emitting
<1>3. ASSUME NEW h \in Handler, EmitAlert(h) PROVE Paid(s, level)'
  <2>1. /\ pc[h] = "emit" /\ pc'[h] = "ack"
        /\ UNCHANGED <<warned, exceeded, ops, patch>>
        /\ sent' = [sent EXCEPT ![<<AlertKey(h), view[h].level>>] = @ + 1]
    BY <1>3 DEF EmitAlert, Goto, alertVars, httpVars
  <2>2. Marked(s, level)' = Marked(s, level) /\ Patching' = Patching
    BY <2>1 DEF Marked, Flag, Patching
  <2>3. Emitting(s, level)' = 0
    BY <2>1 DEF Emitting, Emits, OneAtATime
  <2>4. CASE About(h, s, level)
    <3>1. Emitting(s, level) = 1
      BY <2>1, <2>4 DEF Emitting, Emits
    <3>2. sent'[a] = sent[a] + 1
      BY <2>1, <2>4 DEF About
    <3> QED
      BY <1>0, <2>1, <2>2, <2>3, <3>1, <3>2 DEF Paid
  <2>5. CASE ~About(h, s, level)
    <3>1. sent'[a] = sent[a]
      BY <2>1, <2>5 DEF About
    <3> QED
      BY <1>0, <2>1, <2>2, <2>3, <3>1 DEF Paid
  <2> QED BY <2>4, <2>5
<1>4. CASE Http
  <2>1. sent' = sent /\ Emitting(s, level)' <= Emitting(s, level)
    <3>1. UNCHANGED <<taskVars, sent>>
      BY <1>4 DEF Http, CreateBudget, RemoveBudget, PatchFind, PatchSave, PatchReset, ghostVars
    <3>2. \A h \in Handler : ~MarkSent(h)
      BY <3>1 DEF MarkSent, Goto, taskVars
    <3> QED BY <1>2, <3>1, <3>2
  <2>2. CASE ops' = ops + 1
    <3>1. Marked(s, level)' = Marked(s, level)
      BY <1>4, <1>0, <2>2
      DEF Http, CreateBudget, RemoveBudget, PatchFind, PatchSave, PatchReset, Marked, Flag,
          alertVars
    <3>2. Patching' <= Patching + 1
      BY <1>0
    <3> QED BY <1>0, <2>1, <2>2, <3>1, <3>2 DEF Paid
  <2>3. CASE PatchSave
    <3>1. Marked(s, level)' = Marked(s, level) /\ ops' = ops
      BY <2>3 DEF PatchSave, Marked, Flag, alertVars
    <3>2. patch # NoPatch
      BY <2>3 DEF PatchSave, NoPatch
    <3>3. Patching' <= Patching
      BY <3>2, <1>0 DEF Patching
    <3> QED BY <1>0, <2>1, <3>1, <3>3 DEF Paid
  <2>4. CASE PatchReset
    <3>1. patch # NoPatch /\ patch' = NoPatch /\ ops' = ops
      BY <2>4 DEF PatchReset, NoPatch
    <3>2. Patching = 1 /\ Patching' = 0
      BY <3>1 DEF Patching
    <3> QED BY <1>0, <2>1, <3>1, <3>2 DEF Paid
  <2> QED
    BY <1>4, <2>2, <2>3, <2>4 DEF Http, CreateBudget, RemoveBudget, PatchFind, Request
<1>5. CASE ~Http /\ \A h \in Handler : ~MarkSent(h) /\ ~EmitAlert(h)
  <2>1. /\ UNCHANGED <<warned, exceeded, sent, ops>>
        /\ patch' \in {patch, NoPatch}
    BY <1>5, NobodyErases
    DEF Next, Producer, CreateTransaction, UpdateTransaction, DeleteTransaction,
        PublishChange, DeleteHousehold, Consumer, TransactionHandler,
        StartHandler, FinishHandler, ApplyOverflows, InsertStateFails, EndByException,
        Apply, FindBudget, FindSnapshot, FindState, InsertState,
        NewMonth, CleanProcessedEventIds, Failure, HandlerFails, Restart, LoseChannel,
        alertVars, httpVars, ghostVars, vars
  <2>2. Marked(s, level)' = Marked(s, level) /\ Patching' <= Patching
    BY <1>0, <2>1 DEF Marked, Flag, Patching
  <2> QED
    BY <1>0, <1>2, <1>5, <2>1, <2>2 DEF Paid
<1> QED
  BY <1>1, <1>3, <1>4, <1>5

\* Each threshold fires at most once per budget and month, and once more for each
\* request that may have reset the flags, as long as deliveries are handled one at
\* a time: checkThreshold reads the flag and stores it in two statements, and two
\* handlers side by side can both read it unset.
THEOREM AlertsFireOnce == OneAtATime => (Spec => []AlertOncePerMonth)
<1> SUFFICES ASSUME OneAtATime PROVE Spec => []AlertOncePerMonth
  OBVIOUS
<1> DEFINE Inv == IInv /\ DecidedInv /\ RowInv /\ OnceInv
<1>1. Init => Inv
  <2> SUFFICES ASSUME Init PROVE DecidedInv /\ RowInv /\ OnceInv
    BY InvInit
  <2>1. DecidedInv /\ RowInv
    BY DEF Init, DecidedInv, RowInv
  <2>2. ASSUME NEW s \in StateKey, NEW level \in Level PROVE Paid(s, level)
    BY DEF Init, Paid, Emitting, Emits, Marked, Flag, Patching
  <2>3. \A h \in Handler : pc[h] # "mark"
    BY DEF Init
  <2> QED
    BY <2>1, <2>2, <2>3 DEF OnceInv
<1>2. Inv /\ [Next]_vars => Inv'
  <2> SUFFICES ASSUME Inv, [Next]_vars PROVE Inv'
    OBVIOUS
  <2>1. ASSUME HouseholdAlive'
        PROVE  /\ \A h \in Handler :
                    pc'[h] = "mark" => view'[h].row /\ ~Flag(AlertKey(h), view[h].level)'
               /\ \A s \in StateKey', level \in Level' : Paid(s, level)'
    <3>1. HouseholdAlive
      BY <2>1, AliveBefore
    <3>2. StateKey' = StateKey /\ Level' = Level
      BY DEF StateKey, Level
    <3> QED
      BY <3>1, <3>2, UnflaggedStep, PaidStep
  <2> QED
    BY <2>1, InvStep, DecidedStep, RowStep DEF OnceInv
<1>3. Inv => AlertOncePerMonth
  <2> SUFFICES ASSUME Inv, HouseholdAlive, NEW s \in StateKey, NEW level \in Level
               PROVE  sent[<<s, level>>] <= 1 + ops
    BY DEF AlertOncePerMonth
  <2>1. /\ sent[<<s, level>>] \in Nat /\ ops \in Nat
        /\ Emitting(s, level) \in Nat /\ Patching \in Nat /\ Marked(s, level) \in {0, 1}
    BY BudgetAssumption DEF IInv, TypeOK, Patching, Emitting, Marked
  <2>2. Paid(s, level)
    BY DEF OnceInv
  <2> QED
    BY <2>1, <2>2 DEF Paid
<1> QED
  BY <1>1, <1>2, <1>3, PTL DEF Spec

-----------------------------------------------------------------------------
(***************************************************************************)
(* household.deleted leaves nothing behind when deliveries are handled one *)
(* at a time and no handler throws: then messages are settled in the order *)
(* of the queue, also across crashes, so nothing is posted after the       *)
(* household's rows are gone.                                              *)
(***************************************************************************)
Sequential == OneAtATime /\ "throw" \notin FaultKinds
InOrder == Sequential /\ MaxOps = 0

NoOverflow == \A h \in Handler : ~ApplyOverflows(h)

OrderInv ==
  /\ \A i \in 1..Len(log) : deliv[i] # "none"
  /\ \A i, j \in MessageId : j < i /\ deliv[i] = "acked" => deliv[j] = "acked"
  /\ \A i \in MessageId :
       deliv[i] = "unacked" => \E h \in Handler : msg[h] = i /\ live[h]
  /\ \A h \in Handler : msg[h] # 0 =>
       /\ deliv[msg[h]] # "acked"
       /\ \A j \in MessageId : j < msg[h] => deliv[j] = "acked"

BudgetIds == {<<c, budgets[c].gen>> : c \in {d \in Category : budgets[d] # NoBudget}}

Erased == snapRows = {} /\ stateRows = {}

\* What a handler at work has read is still so, and what it has dropped is gone.
WorkInv(h) ==
  /\ pc[h] \in AlertSteps => view[h].gen = budgets[key(h).cat].gen
  /\ pc[h] = "insertState" => AlertKey(h) \notin stateRows
  /\ pc[h] = "dropStates" => view[h].gone = BudgetIds
  /\ pc[h] \in {"dropSnapshots", "dropBudgets"} => stateRows = {}
  /\ pc[h] = "dropBudgets" => snapRows = {}
  /\ pc[h] = "ack" /\ event(h).kind = "householdDeleted" => Erased

LastIsErased ==
  \A i \in MessageId :
    i = Len(log) /\ deliv[i] = "acked" /\ log[i].kind = "householdDeleted" => Erased

ErasedInv ==
  /\ \A s \in stateRows : budgets[s[1]].gen = s[2]
  /\ \A h \in Handler : WorkInv(h)
  /\ LastIsErased

\* The state row that a handler is about to insert is not there.
InsertInv == \A h \in Handler : pc[h] = "insertState" => AlertKey(h) \notin stateRows

LEMMA ErasedInsert == ErasedInv => InsertInv
  BY DEF ErasedInv, WorkInv, InsertInv

LEMMA NobodyThrows ==
  ASSUME Sequential, InsertInv, NoOverflow, NEW h \in Handler
  PROVE  ~HandlerFails(h) /\ ~ApplyOverflows(h) /\ ~InsertStateFails(h)
<1>1. ~HandlerFails(h)
  BY DEF Sequential, HandlerFails, Fault
<1>2. ~InsertStateFails(h)
  BY DEF InsertStateFails, InsertInv
<1> QED
  BY <1>1, <1>2 DEF NoOverflow

\* One handler at work: nobody else inserts the row.
LEMMA InsertStep ==
  ASSUME IInv, Sequential, InsertInv, [Next]_vars
  PROVE  InsertInv'
<1> SUFFICES ASSUME NEW h \in Handler, pc'[h] = "insertState"
             PROVE  AlertKey(h)' \notin stateRows'
  BY DEF InsertInv
<1> USE DEF IInv, TypeOK, QueueTypeOK
<1>0. \A g \in Handler : g = h
  BY DEF Sequential, OneAtATime
<1>1. CASE Stays(h)
  <2>1. pc[h] = "insertState" /\ msg[h] # 0 /\ AlertKey(h)' = AlertKey(h)
    BY <1>1, LogKept, AlertKeyKept DEF Stays, Knows, ControlInv
  <2>2. \A g \in Handler : ~InsertState(g)
    BY <1>0, <1>1, <2>1 DEF InsertState, Decide, Goto, Stays
  <2>3. stateRows' \subseteq stateRows
    BY <2>2
    DEF Next, Producer, CreateTransaction, UpdateTransaction, DeleteTransaction,
        PublishChange, DeleteHousehold, Consumer, TransactionHandler, HouseholdHandler,
        StartHandler, FinishHandler, ApplyOverflows, InsertStateFails, EndByException,
        Apply, FindBudget, FindSnapshot, FindState, MarkSent, EmitAlert, ListBudgets,
        DropStates, DropSnapshots, DropBudgets, Http, CreateBudget, RemoveBudget,
        PatchFind, PatchSave, PatchReset, NewMonth, CleanProcessedEventIds, Failure,
        HandlerFails, Restart, LoseChannel, alertVars, vars
  <2> QED
    BY <2>1, <2>3 DEF InsertInv
<1>2. CASE FindState(h)
  <2>1. AlertKey(h) \notin stateRows /\ UNCHANGED <<log, msg, view, stateRows>>
    BY <1>2 DEF FindState, Decide, Goto, queueVars, alertVars
  <2> QED
    BY <2>1 DEF AlertKey, key, event
<1>3. CASE \/ StartHandler(h) \/ Apply(h) \/ ApplyOverflows(h) \/ FindBudget(h)
           \/ FindSnapshot(h) \/ InsertState(h) \/ InsertStateFails(h) \/ EmitAlert(h)
           \/ MarkSent(h) \/ HouseholdHandler(h) \/ FinishHandler(h) \/ HandlerFails(h)
           \/ Restart
  BY <1>3
  DEF StartHandler, FirstStep, Apply, AfterApply, ApplyOverflows, FindBudget,
      FindSnapshot, InsertState, Decide, InsertStateFails, EmitAlert, MarkSent,
      HouseholdHandler, ListBudgets, DropStates, DropSnapshots, DropBudgets,
      FinishHandler, HandlerFails, EndByException, Goto, Restart
<1> QED
  BY <1>1, <1>2, <1>3, HandlerKept DEF Consumer, TransactionHandler

LEMMA NoRequests ==
  ASSUME IInv, InOrder, [Next]_vars, patch = NoPatch
  PROVE  ~Http
<1>1. ~Request
  BY DEF InOrder, Request, IInv, TypeOK
<1> QED
  BY <1>1 DEF Http, CreateBudget, RemoveBudget, PatchFind, PatchSave, PatchReset, NoPatch

\* Somebody at work means that the end of the queue is not settled.
LEMMA BusyIsUnsettled ==
  ASSUME IInv, OrderInv, NEW h \in Handler, msg[h] # 0
  PROVE  deliv[Len(log)] # "acked" /\ Len(log) \in MessageId /\ Len(log) # 0
<1> USE DEF IInv, TypeOK, QueueTypeOK, MessageId
<1>1. msg[h] \in 1..Len(log) /\ Len(log) \in Nat
  BY DEF ControlInv
<1>2. deliv[msg[h]] # "acked"
  BY DEF OrderInv
<1>3. Len(log) \in MessageId
  BY <1>1, BoundsAssumption
<1>4. msg[h] = Len(log) \/ msg[h] < Len(log)
  BY <1>1
<1> QED
  BY <1>1, <1>2, <1>3, <1>4 DEF OrderInv

LEMMA OrderStep ==
  ASSUME IInv, Sequential, OrderInv, InsertInv, NoOverflow, [Next]_vars
  PROVE  OrderInv'
<1> USE BoundsAssumption DEF IInv, TypeOK, QueueTypeOK, MessageId
<1>1. CASE UNCHANGED queueVars
  BY <1>1 DEF queueVars, OrderInv
<1>2. ASSUME NEW m, Publish(m) PROVE OrderInv'
  <2>1. /\ Len(log) + 1 \in MessageId /\ Len(log) \in Nat
        /\ deliv' = [deliv EXCEPT ![Len(log) + 1] = "queued"]
        /\ UNCHANGED <<msg, live>>
    BY <1>2 DEF Publish
  <2>2. deliv[Len(log) + 1] = "none"
    BY <2>1 DEF ControlInv
  <2>3. Len(log') = Len(log) + 1
    BY <1>2 DEF Publish
  <2>4. \A i \in MessageId : i # Len(log) + 1 => deliv'[i] = deliv[i]
    BY <2>1
  <2>5. \A h \in Handler : msg[h] # 0 => msg[h] \in 1..Len(log)
    BY DEF ControlInv
  <2>6. deliv'[Len(log) + 1] = "queued"
    BY <2>1
  <2>7. ASSUME NEW i \in MessageId, NEW j \in MessageId, j < i, deliv'[i] = "acked"
        PROVE  deliv'[j] = "acked"
    <3>1. deliv[i] = "acked"
      BY <2>4, <2>6, <2>7
    <3>2. deliv[j] = "acked"
      BY <2>7, <3>1 DEF OrderInv
    <3> QED BY <2>2, <2>4, <3>2
  <2>8. \A h \in Handler : msg[h] # 0 => \A j \in MessageId : j < msg[h] => deliv'[j] = "acked"
    BY <2>2, <2>4, <2>5 DEF OrderInv
  <2> QED
    BY <2>1, <2>2, <2>3, <2>4, <2>5, <2>6, <2>7, <2>8 DEF OrderInv
<1>3. ASSUME NEW h \in Handler, NEW i \in MessageId, Deliver(h, i) PROVE OrderInv'
  <2>1. /\ msg[h] = 0 /\ deliv[i] = "queued" /\ UNCHANGED log
        /\ \A j \in MessageId : j < i => deliv[j] # "queued"
        /\ deliv' = [deliv EXCEPT ![i] = "unacked"]
        /\ msg' = [msg EXCEPT ![h] = i] /\ live' = [live EXCEPT ![h] = TRUE]
    BY <1>3 DEF Deliver, AtHead, Idle
  <2>2. \A g \in Handler : g = h
    BY DEF Sequential, OneAtATime
  <2>3. \A j \in MessageId : deliv[j] # "unacked"
    BY <2>1, <2>2 DEF OrderInv
  <2>4. \A j \in MessageId : j < i => deliv[j] = "acked"
    <3>1. i \in 1..Len(log) /\ Len(log) \in Nat
      BY <2>1 DEF ControlInv
    <3>2. \A j \in MessageId : j < i => j \in 1..Len(log)
      BY <3>1
    <3>3. \A j \in MessageId : j < i => deliv[j] # "none"
      BY <3>2 DEF OrderInv
    <3>4. \A j \in MessageId : deliv[j] \in {"none", "queued", "unacked", "acked"}
      OBVIOUS
    <3> QED BY <2>1, <2>3, <3>3, <3>4
  <2> QED
    BY <2>1, <2>2, <2>3, <2>4 DEF OrderInv
<1>4. ASSUME NEW h \in Handler, Ack(h) PROVE OrderInv'
  <2>1. /\ msg[h] # 0 /\ UNCHANGED log
        /\ deliv' = [deliv EXCEPT ![msg[h]] = IF live[h] THEN "acked" ELSE @]
        /\ msg' = [msg EXCEPT ![h] = 0]
    BY <1>4 DEF Ack, Idle
  <2>2. \A g \in Handler : g = h
    BY DEF Sequential, OneAtATime
  <2>3. \A i \in MessageId : deliv'[i] # "unacked"
    BY <2>1, <2>2 DEF OrderInv
  <2>4. \A i, j \in MessageId : j < i /\ deliv'[i] = "acked" => deliv'[j] = "acked"
    BY <2>1 DEF OrderInv
  <2> QED
    BY <2>1, <2>2, <2>3, <2>4 DEF OrderInv
<1>5. CASE Restart \/ LoseChannel
  <2>1. /\ deliv' = Requeued /\ UNCHANGED log
        /\ UNCHANGED msg \/ \A h \in Handler : msg'[h] = 0
    BY <1>5 DEF Restart, LoseChannel, Crash, DropChannel
  <2>2. \A i \in MessageId : /\ deliv'[i] = "acked" <=> deliv[i] = "acked"
                             /\ deliv'[i] = "none" <=> deliv[i] = "none"
                             /\ deliv'[i] # "unacked"
    BY <2>1 DEF Requeued
  <2>3. \A i \in 1..Len(log) : i \in MessageId
    OBVIOUS
  <2>4. \A i \in 1..Len(log') : deliv'[i] # "none"
    BY <2>1, <2>2, <2>3 DEF OrderInv
  <2>5. \A i, j \in MessageId : j < i /\ deliv'[i] = "acked" => deliv'[j] = "acked"
    BY <2>2 DEF OrderInv
  <2>6. \A h \in Handler : msg'[h] # 0 =>
          /\ deliv'[msg'[h]] # "acked"
          /\ \A j \in MessageId : j < msg'[h] => deliv'[j] = "acked"
    <3> SUFFICES ASSUME NEW h \in Handler, msg'[h] # 0
                 PROVE  /\ deliv'[msg'[h]] # "acked"
                        /\ \A j \in MessageId : j < msg'[h] => deliv'[j] = "acked"
      OBVIOUS
    <3>1. msg'[h] = msg[h] /\ msg[h] \in MessageId
      BY <2>1
    <3> QED
      BY <2>2, <3>1 DEF OrderInv
  <2> QED
    BY <2>2, <2>4, <2>5, <2>6 DEF OrderInv
<1>6. \/ UNCHANGED queueVars \/ (\E m : Publish(m)) \/ Restart \/ LoseChannel
      \/ \E h \in Handler : Ack(h) \/ \E i \in MessageId : Deliver(h, i)
  BY NobodyThrows
  DEF Next, Producer, CreateTransaction, UpdateTransaction, DeleteTransaction,
      PublishChange, DeleteHousehold, Consumer, TransactionHandler, HouseholdHandler,
      StartHandler, FinishHandler, Apply, FindBudget, FindSnapshot, FindState, InsertState,
      MarkSent, EmitAlert, ListBudgets, DropStates, DropSnapshots, DropBudgets, Http,
      CreateBudget, RemoveBudget, PatchFind, PatchSave, PatchReset, NewMonth,
      CleanProcessedEventIds, Failure, vars
<1> QED
  BY <1>1, <1>2, <1>3, <1>4, <1>5, <1>6

\* The last message is not settled while a handler is at work, and a message that
\* is published is not settled yet.
LEMMA LastStep ==
  ASSUME IInv, InOrder, OrderInv, ErasedInv, NoOverflow, patch = NoPatch, [Next]_vars
  PROVE  LastIsErased'
<1> SUFFICES ASSUME NEW i \in MessageId, i = Len(log'), deliv'[i] = "acked",
                    log'[i].kind = "householdDeleted"
             PROVE  Erased'
  BY DEF LastIsErased, MessageId
<1> USE BoundsAssumption DEF IInv, TypeOK, QueueTypeOK
<1>1. CASE UNCHANGED <<log, deliv, snapRows, stateRows>>
  BY <1>1 DEF ErasedInv, LastIsErased, Erased
<1>2. ASSUME NEW m, Publish(m) PROVE FALSE
  <2>1. Len(log') = Len(log) + 1 /\ deliv' = [deliv EXCEPT ![Len(log) + 1] = "queued"]
    BY <1>2 DEF Publish
  <2> QED
    BY <2>1
<1>3. ASSUME NEW h \in Handler, StartHandler(h) PROVE Erased'
  <2>1. deliv[i] = "acked" /\ UNCHANGED <<log, snapRows, stateRows>>
    BY <1>3 DEF StartHandler, Deliver, rowVars, alertVars
  <2> QED
    BY <2>1 DEF ErasedInv, LastIsErased, Erased
<1>4. ASSUME NEW h \in Handler, FinishHandler(h) PROVE Erased'
  <2>1. /\ pc[h] = "ack" /\ UNCHANGED <<log, snapRows, stateRows>> /\ msg[h] # 0
        /\ deliv' = [deliv EXCEPT ![msg[h]] = IF live[h] THEN "acked" ELSE @]
    BY <1>4 DEF FinishHandler, Ack, Idle, rowVars, alertVars
  <2>2. deliv[i] # "acked"
    BY <2>1, BusyIsUnsettled
  <2>3. i = msg[h]
    BY <2>1, <2>2
  <2> QED
    BY <2>1, <2>3 DEF ErasedInv, WorkInv, event, Erased
<1>5. ASSUME NEW h \in Handler, pc[h] # "free", UNCHANGED <<log, deliv>> PROVE FALSE
  <2>1. msg[h] # 0
    BY <1>5 DEF ControlInv
  <2> QED
    BY <1>5, <2>1, BusyIsUnsettled
<1>6. CASE Restart \/ LoseChannel
  <2>1. UNCHANGED <<log, snapRows, stateRows>> /\ deliv[i] = "acked"
    BY <1>6 DEF Restart, LoseChannel, Crash, DropChannel, Requeued, rowVars, alertVars
  <2> QED
    BY <2>1 DEF ErasedInv, LastIsErased, Erased
<1>7. \/ UNCHANGED <<log, deliv, snapRows, stateRows>> \/ (\E m : Publish(m))
      \/ Restart \/ LoseChannel
      \/ \E h \in Handler : \/ StartHandler(h) \/ FinishHandler(h)
                            \/ pc[h] # "free" /\ UNCHANGED <<log, deliv>>
  BY NobodyThrows, ErasedInsert, NoRequests
  DEF InOrder, Next, Producer, CreateTransaction, UpdateTransaction, DeleteTransaction,
      PublishChange, DeleteHousehold, Consumer, TransactionHandler, HouseholdHandler,
      Apply, FindBudget, FindSnapshot, FindState, InsertState, MarkSent, EmitAlert,
      ListBudgets, DropStates, DropSnapshots, DropBudgets, NewMonth,
      CleanProcessedEventIds, Failure, rowVars, alertVars, queueVars, vars
<1> QED
  BY <1>1, <1>2, <1>3, <1>4, <1>5, <1>6, <1>7

\* One handler at work: it is the only one that changes a row or a limit.
LEMMA WorkStep ==
  ASSUME IInv, InOrder, OrderInv, ErasedInv, NoOverflow, patch = NoPatch, [Next]_vars
  PROVE  /\ \A s \in stateRows' : budgets'[s[1]].gen = s[2]
         /\ \A h \in Handler : WorkInv(h)'
<1> USE DEF IInv, TypeOK, QueueTypeOK
<1> DEFINE RowsOK == \A s \in stateRows : budgets[s[1]].gen = s[2]
           WorkOK == \A h \in Handler : WorkInv(h)
<1>0. RowsOK /\ WorkOK /\ \A g, h \in Handler : g = h
  BY DEF ErasedInv, InOrder, Sequential, OneAtATime
\* Whoever is idle or about to apply has nothing to keep.
<1>1. ASSUME UNCHANGED <<budgets, stateRows>>,
             \A h \in Handler : pc'[h] \in {"free", "apply", "budget", "list"}
      PROVE  RowsOK' /\ WorkOK'
  BY <1>0, <1>1 DEF WorkInv, AlertSteps
<1>2. ASSUME UNCHANGED <<budgets, stateRows, snapRows, msg, pc, view>>
      PROVE  RowsOK' /\ WorkOK'
  <2>1. ASSUME NEW h \in Handler PROVE WorkInv(h)'
    <3>1. CASE pc[h] = "free"
      BY <1>2, <3>1 DEF WorkInv, AlertSteps
    <3>2. CASE pc[h] # "free"
      <4>1. msg[h] \in 1..Len(log)
        BY <3>2 DEF ControlInv
      <4>2. event(h)' = event(h) /\ key(h)' = key(h) /\ AlertKey(h)' = AlertKey(h)
        BY <1>2, <4>1, LogKept DEF LogGrows, event, key, AlertKey
      <4>3. WorkInv(h)
        BY <1>0
      <4> QED
        BY <1>2, <4>2, <4>3 DEF WorkInv, BudgetIds, Erased
    <3> QED BY <3>1, <3>2
  <2> QED
    BY <1>0, <1>2, <2>1
<1>3. ASSUME NEW h \in Handler, StartHandler(h) PROVE RowsOK' /\ WorkOK'
  <2>1. PICK i \in MessageId : /\ msg' = [msg EXCEPT ![h] = i] /\ log' = log
                               /\ pc' = [pc EXCEPT ![h] = FirstStep(log[i])]
    BY <1>3 DEF StartHandler, Deliver, Goto
  <2>2. UNCHANGED <<budgets, stateRows>> /\ \A g \in Handler : g = h
    BY <1>0, <1>3 DEF StartHandler, budgetVars, alertVars
  <2>3. CASE FirstStep(log[i]) = "ack"
    <3>1. log[i].kind # "householdDeleted"
      BY <2>3 DEF FirstStep
    <3>2. pc'[h] = "ack" /\ event(h)'.kind # "householdDeleted"
      BY <2>1, <2>3, <3>1 DEF event
    <3>3. WorkInv(h)'
      BY <3>2 DEF WorkInv, AlertSteps
    <3> QED
      BY <1>0, <2>2, <3>3
  <2>4. CASE FirstStep(log[i]) \in {"apply", "list"}
    BY <1>1, <2>1, <2>2, <2>4
  <2> QED BY <2>3, <2>4 DEF FirstStep
<1>4. ASSUME NEW h \in Handler, FinishHandler(h) \/ Restart PROVE RowsOK' /\ WorkOK'
  <2>1. UNCHANGED <<budgets, stateRows>> /\ pc'[h] = "free"
    BY <1>4 DEF FinishHandler, Restart, Goto, budgetVars, alertVars
  <2> QED
    BY <1>0, <1>1, <2>1
\* The rest is the work itself; the message stays the same one.
<1>5. ASSUME NEW h \in Handler, UNCHANGED <<log, msg>>, RowsOK', WorkInv(h)'
      PROVE  RowsOK' /\ WorkOK'
  BY <1>0, <1>5
<1>6. ASSUME NEW h \in Handler, TransactionHandler(h) PROVE RowsOK' /\ WorkOK'
  <2>0. UNCHANGED <<log, msg, budgets>> /\ event(h)' = event(h) /\ key(h)' = key(h)
    BY <1>6, NobodyThrows, ErasedInsert
    DEF InOrder, TransactionHandler, Apply, FindBudget, FindSnapshot, FindState, InsertState,
        MarkSent, EmitAlert, queueVars, budgetVars, event, key
  <2>1. event(h).kind # "householdDeleted"
    <3>1. pc[h] \in AlertSteps \cup {"apply", "budget"}
      BY <1>6 DEF TransactionHandler, Apply, ApplyOverflows, FindBudget, FindSnapshot,
                  FindState, InsertState, InsertStateFails, MarkSent, EmitAlert, AlertSteps
    <3> QED
      BY <3>1 DEF ControlInv, Guarded, event
  <2>2. CASE Apply(h)
    <3>1. pc'[h] \in {"budget", "ack"} /\ stateRows' = stateRows
      BY <2>2 DEF Apply, Goto, AfterApply, alertVars
    <3> QED
      BY <1>0, <2>0, <2>1, <3>1 DEF WorkInv, AlertSteps
  <2>3. CASE FindBudget(h)
    <3>1. /\ pc'[h] \in {"snapshot", "ack"} /\ stateRows' = stateRows
          /\ view'[h].gen = budgets[key(h).cat].gen
      BY <2>3 DEF FindBudget, Goto, alertVars, View
    <3> QED
      BY <1>0, <2>0, <2>1, <3>1 DEF WorkInv
  <2>4. CASE \/ FindSnapshot(h) \/ MarkSent(h) \/ EmitAlert(h)
             \/ FindState(h) /\ AlertKey(h) \in stateRows
    <3>1. /\ pc[h] \in AlertSteps /\ pc'[h] \in {"state", "mark", "emit", "ack"}
          /\ view'[h].gen = view[h].gen /\ stateRows' = stateRows
      BY <2>4 DEF FindSnapshot, MarkSent, EmitAlert, FindState, Decide, Goto, View,
                  alertVars, AlertSteps
    <3>2. view[h].gen = budgets[key(h).cat].gen
      BY <1>0, <3>1 DEF WorkInv
    <3> QED
      BY <1>0, <2>0, <2>1, <3>1, <3>2 DEF WorkInv
  <2>5. CASE FindState(h) /\ AlertKey(h) \notin stateRows
    <3>1. /\ pc[h] \in AlertSteps /\ pc'[h] = "insertState"
          /\ view' = view /\ stateRows' = stateRows
      BY <2>5 DEF FindState, Goto, alertVars, AlertSteps
    <3>2. view[h].gen = budgets[key(h).cat].gen
      BY <1>0, <3>1 DEF WorkInv
    <3>3. AlertKey(h)' = AlertKey(h)
      BY <2>0, <3>1 DEF AlertKey
    <3> QED
      BY <1>0, <2>0, <2>1, <2>5, <3>1, <3>2, <3>3 DEF WorkInv
  <2>6. CASE InsertState(h)
    <3>1. /\ pc[h] \in AlertSteps /\ pc'[h] \in {"mark", "ack"}
          /\ view'[h].gen = view[h].gen /\ stateRows' = stateRows \cup {AlertKey(h)}
      BY <2>6 DEF InsertState, Decide, Goto, View, AlertSteps
    <3>2. view[h].gen = budgets[key(h).cat].gen
      BY <1>0, <3>1 DEF WorkInv
    <3>3. RowsOK'
      BY <1>0, <2>0, <3>1, <3>2 DEF AlertKey
    <3>4. WorkInv(h)'
      BY <2>0, <2>1, <3>1, <3>2 DEF WorkInv
    <3> QED
      BY <1>0, <3>3, <3>4
  <2> QED
    BY <1>6, <2>2, <2>3, <2>4, <2>5, <2>6, NobodyThrows, ErasedInsert
    DEF InOrder, TransactionHandler
<1>7. ASSUME NEW h \in Handler, HouseholdHandler(h) PROVE RowsOK' /\ WorkOK'
  <2>0. UNCHANGED <<log, msg>> /\ event(h)' = event(h)
    BY <1>7 DEF HouseholdHandler, ListBudgets, DropStates, DropSnapshots, DropBudgets,
                queueVars, event
  <2>1. \A s \in stateRows : <<s[1], s[2]>> \in BudgetIds
    <3> SUFFICES ASSUME NEW s \in stateRows PROVE <<s[1], s[2]>> \in BudgetIds
      OBVIOUS
    <3>1. s[1] \in Category /\ s[2] \in Gen /\ budgets[s[1]].gen = s[2]
      BY <1>0 DEF StateKey
    <3>2. budgets[s[1]] # NoBudget
      BY <3>1, BudgetAssumption DEF NoBudget, Gen
    <3> QED
      BY <3>1, <3>2 DEF BudgetIds
  <2>2. CASE ListBudgets(h)
    <3>1. /\ view'[h].gone = BudgetIds
          /\ pc'[h] = IF BudgetIds = {} THEN "dropSnapshots" ELSE "dropStates"
          /\ UNCHANGED <<budgets, stateRows>>
      BY <2>2 DEF ListBudgets, BudgetIds, Goto, View, budgetVars, alertVars
    <3>2. BudgetIds' = BudgetIds
      BY <3>1 DEF BudgetIds
    <3>3. WorkInv(h)'
      BY <2>1, <3>1, <3>2 DEF WorkInv, AlertSteps
    <3> QED
      BY <1>0, <3>1, <3>3
  <2>3. CASE DropStates(h)
    <3>1. view[h].gone = BudgetIds
      BY <1>0, <2>3 DEF DropStates, WorkInv
    <3>2. stateRows \subseteq StatesOf(view[h].gone)
      BY <2>1, <3>1 DEF StatesOf
    <3>3. stateRows' = {} /\ pc'[h] = "dropSnapshots"
      BY <2>3, <3>2 DEF DropStates, Goto
    <3> QED
      BY <1>0, <3>3 DEF WorkInv, AlertSteps
  <2>4. CASE DropSnapshots(h)
    <3>1. stateRows' = {} /\ snapRows' = {} /\ pc'[h] = "dropBudgets"
      BY <1>0, <2>4 DEF DropSnapshots, WorkInv, Goto, alertVars
    <3> QED
      BY <1>0, <3>1 DEF WorkInv, AlertSteps
  <2>5. CASE DropBudgets(h)
    <3>1. stateRows' = {} /\ snapRows' = {} /\ pc'[h] = "ack"
      BY <1>0, <2>5 DEF DropBudgets, WorkInv, Goto, alertVars, rowVars
    <3> QED
      BY <1>0, <3>1 DEF WorkInv, AlertSteps, Erased
  <2> QED
    BY <1>7, <2>2, <2>3, <2>4, <2>5 DEF HouseholdHandler
<1>8. \/ UNCHANGED <<budgets, stateRows, snapRows, msg, pc, view>> \/ Restart
      \/ \E h \in Handler : \/ StartHandler(h) \/ FinishHandler(h)
                            \/ TransactionHandler(h) \/ HouseholdHandler(h)
  BY NobodyThrows, ErasedInsert, NoRequests
  DEF InOrder, Next, Producer, CreateTransaction, UpdateTransaction, DeleteTransaction,
      PublishChange, DeleteHousehold, Consumer, NewMonth, CleanProcessedEventIds, Failure,
      LoseChannel, DropChannel, Publish, rowVars, budgetVars, alertVars, taskVars,
      queueVars, vars
<1>9. CASE Restart
  <2>1. UNCHANGED <<budgets, stateRows>> /\ \A h \in Handler : pc'[h] = "free"
    BY <1>9 DEF Restart, budgetVars, alertVars
  <2> QED
    BY <1>1, <2>1
<1> QED
  BY <1>2, <1>3, <1>4, <1>6, <1>7, <1>8, <1>9

\* When household.deleted was the last event and everything is settled, no total
\* and no alert state is left, for any number of messages, categories, months,
\* crashes and lost channels: as long as deliveries are handled one at a time, no
\* handler throws and limits are not edited (onHouseholdDeleted, deleteHouseholdData).
THEOREM HouseholdsAreErased ==
  InOrder => (Spec /\ [][NoOverflow]_vars => []HouseholdErased)
<1> SUFFICES ASSUME InOrder PROVE Spec /\ [][NoOverflow]_vars => []HouseholdErased
  OBVIOUS
<1> DEFINE Inv == IInv /\ OrderInv /\ ErasedInv /\ patch = NoPatch
<1>1. Init => Inv
  <2> SUFFICES ASSUME Init PROVE OrderInv /\ ErasedInv /\ patch = NoPatch
    BY InvInit
  <2>1. OrderInv
    BY BoundsAssumption DEF Init, QueueInit, OrderInv
  <2>2. \A h \in Handler : WorkInv(h)
    BY DEF Init, WorkInv, AlertSteps
  <2> QED
    BY <2>1, <2>2 DEF Init, QueueInit, ErasedInv, LastIsErased
<1>2. Inv /\ [Next]_vars /\ [NoOverflow]_vars => Inv'
  <2> SUFFICES ASSUME Inv, [Next]_vars, [NoOverflow]_vars PROVE Inv'
    OBVIOUS
  <2>1. CASE UNCHANGED vars
    <3>1. UNCHANGED vars => NoOverflow
      BY DEF NoOverflow, ApplyOverflows, EndByException, Goto, vars, taskVars, IInv, TypeOK
    <3> QED
      BY <2>1, <3>1, InvStep, OrderStep, ErasedInsert, LastStep, WorkStep
      DEF InOrder, ErasedInv, vars, httpVars
  <2>2. CASE NoOverflow
    <3>1. patch' = NoPatch
      BY <2>2, NoRequests
      DEF Next, Producer, CreateTransaction, UpdateTransaction, DeleteTransaction,
          PublishChange, DeleteHousehold, Consumer, TransactionHandler, HouseholdHandler,
          StartHandler, FinishHandler, ApplyOverflows, InsertStateFails, EndByException,
          Apply, FindBudget, FindSnapshot, FindState, InsertState, MarkSent, EmitAlert,
          ListBudgets, DropStates, DropSnapshots, DropBudgets, NewMonth,
          CleanProcessedEventIds, Failure, HandlerFails, Restart, LoseChannel, httpVars, vars
    <3> QED
      BY <2>2, <3>1, InvStep, OrderStep, ErasedInsert, LastStep, WorkStep DEF InOrder, ErasedInv
  <2> QED BY <2>1, <2>2
<1>3. Inv => HouseholdErased
  <2> SUFFICES ASSUME Inv, Quiet, log # <<>>, log[Len(log)].kind = "householdDeleted"
               PROVE  Erased
    BY DEF HouseholdErased, Erased
  <2>1. Len(log) \in MessageId /\ Len(log) \in 1..Len(log)
    BY BoundsAssumption DEF IInv, TypeOK, QueueTypeOK, MessageId
  <2>2. deliv[Len(log)] = "acked"
    BY <2>1 DEF Quiet, OrderInv
  <2> QED
    BY <2>1, <2>2 DEF ErasedInv, LastIsErased
<1> QED
  BY <1>1, <1>2, <1>3, PTL DEF Spec

-----------------------------------------------------------------------------
(***************************************************************************)
(* Totals are exact when deliveries are handled one at a time and no       *)
(* handler throws.  Events then take effect in the order they were         *)
(* published, so a subtraction always finds what an earlier event added.   *)
(***************************************************************************)
LEMMA AmountType ==
  ASSUME NEW p \in Posting, NEW k \in Key
  PROVE  Amount0(p, k) \in Nat
  BY PostingsAssumption DEF Amount0, Entry

LEMMA EffectType ==
  ASSUME NEW e \in Event, NEW k \in Key
  PROVE  /\ Effect(e, k) = Amount0(e.next, k) - Amount0(e.prev, k)
         /\ Amount0(e.next, k) \in Nat /\ Amount0(e.prev, k) \in Nat
         /\ Effect(e, k) \in Int
<1>1. e.next \in Posting /\ e.prev \in Posting
  BY DEF Event
<1>2. Amount0(e.next, k) \in Nat /\ Amount0(e.prev, k) \in Nat
  BY <1>1, AmountType
<1> QED
  BY <1>2 DEF Effect

\* What the transactions add up to is at least what each of them contributes.
LEMMA ExpensesType ==
  ASSUME NEW b \in [Tx -> Posting], NEW k \in Key
  PROVE  /\ BookTotal(b, k) \in Nat
         /\ \A t \in Tx : BookTotal(b, k) >= Amount0(b[t], k)
         /\ (\A t \in Tx : b[t] = Absent) => BookTotal(b, k) = 0
<1> DEFINE f == [t \in Tx |-> Amount0(b[t], k)]
<1>1. BookTotal(b, k) = SumOver(f, Tx) /\ IsFiniteSet(Tx)
  BY BudgetAssumption DEF BookTotal
<1>2. \A t \in Tx : f[t] = Amount0(b[t], k) /\ f[t] \in Nat
  BY AmountType
<1>3. \A t \in Tx : b[t] = Absent => f[t] = 0
  BY PostingsAssumption DEF Amount0
<1> HIDE DEF f
<1>4. SumOver(f, Tx) \in Nat /\ \A t \in Tx : SumOver(f, Tx) >= f[t]
  BY <1>1, <1>2, SumNatural, SumAtLeast DEF Natural
<1>5. (\A t \in Tx : f[t] = 0) => SumOver(f, Tx) = 0
  BY <1>1, SumZero
<1> QED
  BY <1>1, <1>2, <1>3, <1>4, <1>5

LEMMA ExpensesChange ==
  ASSUME NEW b \in [Tx -> Posting], NEW t \in Tx, NEW p \in Posting, NEW k \in Key
  PROVE  BookTotal([b EXCEPT ![t] = p], k)
           = BookTotal(b, k) + (Amount0(p, k) - Amount0(b[t], k))
<1> DEFINE c == [b EXCEPT ![t] = p]
           f == [u \in Tx |-> Amount0(b[u], k)]
           g == [u \in Tx |-> Amount0(c[u], k)]
<1>1. /\ BookTotal(b, k) = SumOver(f, Tx) /\ BookTotal(c, k) = SumOver(g, Tx)
      /\ IsFiniteSet(Tx)
  BY BudgetAssumption DEF BookTotal
<1>2. /\ Integral(f, Tx) /\ Integral(g, Tx) /\ \A u \in Tx : u # t => f[u] = g[u]
      /\ f[t] = Amount0(b[t], k) /\ g[t] = Amount0(p, k)
  BY AmountType DEF Integral
<1> HIDE DEF f, g
<1> QED
  BY <1>1, <1>2, SumChange

\* What the events do to k that have not taken effect, and those from i on.
Outstanding(k) ==
  [i \in MessageId |->
     IF i \in 1..Len(log) /\ applied[i] = 0 THEN Effect(log[i], k) ELSE 0]

Since(i, k) ==
  [j \in MessageId |-> IF j \in 1..Len(log) /\ j >= i THEN Effect(log[j], k) ELSE 0]

\* An event has taken effect only when all before it are settled.
AppliedInOrder ==
  \A i, j \in MessageId : applied[i] # 0 /\ j < i => deliv[j] = "acked"

CountInv ==
  /\ \A i \in 1..Len(log) : log[i].kind = "created" => log[i].prev = Absent
  /\ \A i \in MessageId : i \notin 1..Len(log) => applied[i] = 0
  /\ AppliedInOrder
  /\ HouseholdAlive =>
       \A k \in Key : Expenses(k) = spent[k] + SumOver(Outstanding(k), MessageId)
  /\ \A i \in 1..Len(log), k \in Key :
       Expenses(k) - SumOver(Since(i, k), MessageId) >= Amount0(log[i].prev, k)

LEMMA EventSums ==
  ASSUME IInv, NEW k \in Key
  PROVE  /\ IsFiniteSet(MessageId) /\ Integral(Outstanding(k), MessageId)
         /\ SumOver(Outstanding(k), MessageId) \in Int
         /\ \A i : /\ Integral(Since(i, k), MessageId)
                  /\ SumOver(Since(i, k), MessageId) \in Int
<1>1. IsFiniteSet(MessageId)
  BY FS_Interval, BoundsAssumption DEF MessageId
<1>2. \A j \in 1..Len(log) : Effect(log[j], k) \in Int
  BY EventType, EffectType DEF IInv
<1>3. Integral(Outstanding(k), MessageId) /\ \A i : Integral(Since(i, k), MessageId)
  BY <1>2 DEF Integral, Outstanding, Since
<1> QED
  BY <1>1, <1>3, SumType

LEMMA CountPublish ==
  ASSUME IInv, CountInv, NEW m \in Message, Publish(m), UNCHANGED <<applied, spent>>,
         m.kind = "created" => m.prev = Absent,
         \A k \in Key : /\ Expenses(k) \in Int /\ Expenses(k)' = Expenses(k) + Effect(m, k)
                        /\ Expenses(k) >= Amount0(m.prev, k)
  PROVE  CountInv'
<1> DEFINE n == Len(log) + 1
<1>1. /\ n \in MessageId /\ n \notin 1..Len(log) /\ Len(log) \in Nat
      /\ 1..Len(log') = (1..Len(log)) \cup {n}
      /\ log'[n] = m /\ \A i \in 1..Len(log) : log'[i] = log[i]
      /\ deliv' = [deliv EXCEPT ![n] = "queued"]
  BY BoundsAssumption DEF Publish, MessageId, IInv, TypeOK, QueueTypeOK
<1>2. applied[n] = 0 /\ deliv[n] = "none" /\ spent \in [Key -> Nat]
  BY <1>1 DEF CountInv, IInv, TypeOK, ControlInv
<1>3. ASSUME NEW k \in Key
      PROVE  Effect(m, k) \in Int /\ Amount0(m.prev, k) \in Nat
  BY BudgetAssumption, EffectType
<1>4. AppliedInOrder'
  BY <1>1, <1>2 DEF CountInv, AppliedInOrder, IInv, TypeOK, QueueTypeOK, MessageId
<1> HIDE DEF n
<1>5. ASSUME NEW k \in Key, NEW f, NEW g, Integral(f, MessageId),
             g[n] = Effect(m, k), f[n] = 0, \A i \in MessageId : i # n => g[i] = f[i]
      PROVE  SumOver(g, MessageId) = SumOver(f, MessageId) + Effect(m, k)
  <2>1. Integral(g, MessageId) /\ IsFiniteSet(MessageId)
    BY <1>1, <1>3, <1>5, EventSums DEF Integral
  <2>2. SumOver(g, MessageId) = SumOver(f, MessageId) + (g[n] - f[n])
    BY <1>1, <1>5, <2>1, SumChange
  <2> QED
    BY <1>3, <1>5, <2>2
<1>6. ASSUME HouseholdAlive', NEW k \in Key
      PROVE  Expenses(k)' = spent'[k] + SumOver(Outstanding(k)', MessageId)
  <2>1. HouseholdAlive
    <3>1. DOMAIN log = 1..Len(log) /\ DOMAIN log' = 1..Len(log')
      BY DEF Publish, IInv, TypeOK, QueueTypeOK
    <3> QED
      BY <1>1, <1>6, <3>1 DEF HouseholdAlive
  <2>2. Expenses(k) = spent[k] + SumOver(Outstanding(k), MessageId)
    BY <2>1 DEF CountInv
  <2>3. /\ Outstanding(k)'[n] = Effect(m, k) /\ Outstanding(k)[n] = 0
        /\ \A i \in MessageId : i # n => Outstanding(k)'[i] = Outstanding(k)[i]
    BY <1>1, <1>2 DEF Outstanding, Effect, Amount0
  <2>4. SumOver(Outstanding(k)', MessageId)
          = SumOver(Outstanding(k), MessageId) + Effect(m, k)
    BY <1>5, <2>3, EventSums
  <2>5. SumOver(Outstanding(k), MessageId) \in Int /\ spent[k] \in Int
    BY <1>2, EventSums
  <2> QED
    BY <1>3, <2>2, <2>4, <2>5
<1>7. ASSUME NEW i \in 1..Len(log'), NEW k \in Key
      PROVE  Expenses(k)' - SumOver(Since(i, k)', MessageId) >= Amount0(log'[i].prev, k)
  <2>1. CASE i = n
    <3>1. /\ Since(i, k)'[n] = Effect(m, k)
          /\ \A j \in MessageId : j # n => Since(i, k)'[j] = 0
      BY <1>1, <2>1 DEF Since, Effect, Amount0, n, MessageId
    <3>2. SumOver(Since(i, k)', MessageId) = Effect(m, k)
      BY <1>1, <1>3, <3>1, SumOfOne, EventSums
    <3> QED
      BY <1>1, <1>3, <2>1, <3>2
  <2>2. CASE i # n
    <3>1. i \in 1..Len(log) /\ i < n
      BY <1>1, <2>2 DEF n
    <3>2. Expenses(k) - SumOver(Since(i, k), MessageId) >= Amount0(log[i].prev, k)
      BY <3>1 DEF CountInv
    <3>3. /\ Since(i, k)'[n] = Effect(m, k) /\ Since(i, k)[n] = 0
          /\ \A j \in MessageId : j # n => Since(i, k)'[j] = Since(i, k)[j]
      BY <1>1, <3>1 DEF Since, Effect, Amount0, n, MessageId
    <3>4. SumOver(Since(i, k)', MessageId) = SumOver(Since(i, k), MessageId) + Effect(m, k)
      BY <1>5, <3>3, EventSums
    <3>5. SumOver(Since(i, k), MessageId) \in Int /\ log'[i] = log[i]
          /\ Amount0(log[i].prev, k) \in Nat
      BY <1>1, <3>1, EventSums, EventType, EffectType DEF IInv
    <3> QED
      BY <1>3, <3>2, <3>4, <3>5
  <2> QED
    BY <2>1, <2>2
<1>8. \A i \in 1..Len(log') : log'[i].kind = "created" => log'[i].prev = Absent
  BY <1>1 DEF CountInv
<1>9. \A i \in MessageId : i \notin 1..Len(log') => applied'[i] = 0
  BY <1>1 DEF CountInv
<1> QED
  BY <1>4, <1>6, <1>7, <1>8, <1>9 DEF CountInv, MessageId, Amount0

\* What a handler of a guarded event posts adds the effect of its event.
LEMMA PostedEffect ==
  ASSUME NEW total \in [Key -> Nat], NEW e \in Event, NEW k \in Key,
         total[k] >= Amount0(e.prev, k)
  PROVE  Posted(total, e)[k] = total[k] + Effect(e, k)
<1>1. \A p \in Entry : p.key \in Key /\ p.amount \in Nat
  BY PostingsAssumption DEF Entry
<1> DEFINE less == SubtractFromTotal(total, e.prev)
<1>2. less \in [Key -> Nat] /\ less[k] = total[k] - Amount0(e.prev, k)
  BY <1>1 DEF SubtractFromTotal, Amount0
<1>3. AddToTotal(less, e.next)[k] = less[k] + Amount0(e.next, k)
  <2> HIDE DEF less
  <2> QED BY <1>1, <1>2 DEF AddToTotal, Amount0
<1>4. Amount0(e.next, k) \in Nat /\ Amount0(e.prev, k) \in Nat
  BY EffectType
<1> HIDE DEF less
<1> QED
  BY <1>2, <1>3, <1>4 DEF Posted, Effect, less

LEMMA UnguardedHasNoEffect ==
  ASSUME IInv, CountInv, HouseholdAlive, NEW i \in 1..Len(log), ~Guarded(log[i]),
         NEW k \in Key
  PROVE  Effect(log[i], k) = 0
<1>1. /\ log[i].kind # "householdDeleted" /\ log[i].kind = "created"
      /\ log[i].next \notin Entry
  BY DEF HouseholdAlive, Guarded, IInv, TypeOK, QueueTypeOK
<1> QED
  BY <1>1, PostingsAssumption DEF CountInv, Effect, Amount0

LEMMA CountPost ==
  ASSUME IInv, OrderInv, CountInv, NEW h \in Handler, pc[h] = "apply", Post(msg[h]),
         UNCHANGED <<queueVars, book>>
  PROVE  CountInv'
<1> DEFINE n == msg[h]  e == log[n]
<1>1. /\ n \in 1..Len(log) /\ n \in MessageId /\ n # 0 /\ e \in Event
      /\ applied \in [MessageId -> Nat] /\ spent \in [Key -> Nat]
      /\ applied[n] = 0
      /\ applied' = [applied EXCEPT ![n] = @ + 1] /\ spent' = Posted(spent, e)
  BY EventType, NewIsNew
  DEF Post, IInv, TypeOK, QueueTypeOK, ControlInv, MessageId
<1>2. deliv[n] # "acked" /\ \A j \in MessageId : j < n => deliv[j] = "acked"
  BY <1>1 DEF OrderInv
<1>3. UNCHANGED <<book, log, deliv>>
  BY DEF queueVars
<1> HIDE DEF n, e
<1>4. applied'[n] = 1 /\ \A i \in MessageId : i # n => applied'[i] = applied[i]
  BY <1>1
<1>5. AppliedInOrder'
  BY <1>2, <1>3, <1>4 DEF CountInv, AppliedInOrder, MessageId
<1>6. ASSUME HouseholdAlive', NEW k \in Key
      PROVE  Expenses(k)' = spent'[k] + SumOver(Outstanding(k)', MessageId)
  <2>0. HouseholdAlive
    BY <1>3, <1>6 DEF HouseholdAlive
  <2>1. Expenses(k) = spent[k] + SumOver(Outstanding(k), MessageId)
    BY <2>0 DEF CountInv
  <2>2. \A j \in MessageId : Outstanding(k)[j] = Since(n, k)[j]
    <3> SUFFICES ASSUME NEW j \in 1..Len(log), j \in MessageId
                 PROVE  (applied[j] = 0 <=> j >= n) \/ Effect(log[j], k) = 0
      BY DEF Outstanding, Since
    <3>1. CASE j = n
      BY <1>1, <3>1
    <3>2. CASE j < n
      <4>1. deliv[j] = "acked"
        BY <1>2, <3>2
      <4>2. Guarded(log[j]) => applied[j] = 1
        BY <4>1 DEF IInv, AccountInv
      <4> QED
        BY <1>1, <2>0, <3>2, <4>2, UnguardedHasNoEffect
    <3>3. CASE j > n
      <4>1. applied[j] = 0
        BY <1>1, <1>2, <3>3 DEF CountInv, AppliedInOrder
      <4> QED
        BY <1>1, <3>3, <4>1
    <3> QED
      BY <1>1, <3>1, <3>2, <3>3
  <2>3. SumOver(Outstanding(k), MessageId) = SumOver(Since(n, k), MessageId)
    BY <2>2, EventSums, SumSame
  <2>4. Expenses(k) - SumOver(Since(n, k), MessageId) >= Amount0(e.prev, k)
    BY <1>1 DEF CountInv, e
  <2>5. /\ SumOver(Outstanding(k), MessageId) \in Int /\ spent[k] \in Nat
        /\ Effect(e, k) \in Int /\ Amount0(e.prev, k) \in Nat
    BY <1>1, EventSums, EffectType
  <2>6. spent[k] >= Amount0(e.prev, k)
    BY <2>1, <2>3, <2>4, <2>5
  <2>7. spent'[k] = spent[k] + Effect(e, k)
    BY <1>1, <2>6, PostedEffect
  <2>8. /\ Outstanding(k)'[n] = 0 /\ Outstanding(k)[n] = Effect(e, k)
        /\ \A i \in MessageId : i # n => Outstanding(k)'[i] = Outstanding(k)[i]
    BY <1>1, <1>3, <1>4 DEF Outstanding, e
  <2>9. SumOver(Outstanding(k)', MessageId)
          = SumOver(Outstanding(k), MessageId) + (0 - Effect(e, k))
    <3> DEFINE f == Outstanding(k)  g == Outstanding(k)'
    <3>1. Integral(g, MessageId)
      BY <2>8, EventSums DEF Integral
    <3>2. /\ IsFiniteSet(MessageId) /\ n \in MessageId
          /\ Integral(f, MessageId) /\ Integral(g, MessageId)
          /\ \A i \in MessageId : i # n => f[i] = g[i]
          /\ g[n] = 0 /\ f[n] = Effect(e, k)
      BY <1>1, <2>8, <3>1, EventSums
    <3> HIDE DEF f, g
    <3>3. SumOver(g, MessageId) = SumOver(f, MessageId) + (g[n] - f[n])
      BY <3>2, SumChange
    <3> QED
      BY <3>2, <3>3 DEF f, g
  <2>10. Expenses(k)' = Expenses(k)
    BY <1>3 DEF Expenses
  <2> QED
    BY <2>1, <2>5, <2>7, <2>9, <2>10
<1>7. \A k \in Key : Expenses(k)' = Expenses(k) /\ \A i : Since(i, k)' = Since(i, k)
  BY <1>3 DEF Expenses, Since
<1>8. \A i \in MessageId : i \notin 1..Len(log') => applied'[i] = 0
  BY <1>1, <1>3, <1>4 DEF CountInv
<1> QED
  BY <1>3, <1>5, <1>6, <1>7, <1>8 DEF CountInv, MessageId

LEMMA AckedStays ==
  ASSUME IInv, [Next]_vars, ~\E m : Publish(m)
  PROVE  \A i \in MessageId : deliv[i] = "acked" => deliv'[i] = "acked"
<1> USE DEF IInv, TypeOK, QueueTypeOK
<1>1. ASSUME NEW h \in Handler, NEW i \in MessageId, Deliver(h, i)
      PROVE  \A j \in MessageId : deliv[j] = "acked" => deliv'[j] = "acked"
  BY <1>1 DEF Deliver, AtHead
<1>2. ASSUME NEW h \in Handler, Ack(h)
      PROVE  \A j \in MessageId : deliv[j] = "acked" => deliv'[j] = "acked"
  BY <1>2 DEF Ack
<1>3. CASE Restart \/ LoseChannel
  BY <1>3 DEF Restart, LoseChannel, Crash, DropChannel, Requeued
<1>4. \/ UNCHANGED deliv \/ Restart \/ LoseChannel
      \/ \E h \in Handler : Ack(h) \/ \E i \in MessageId : Deliver(h, i)
  BY DEF Next, Producer, CreateTransaction, UpdateTransaction, DeleteTransaction,
      PublishChange, DeleteHousehold, Consumer, TransactionHandler, HouseholdHandler,
      StartHandler, FinishHandler, Apply, ApplyOverflows, FindBudget, FindSnapshot, FindState,
      InsertState, InsertStateFails, EndByException, Throw, HandlerFails,
      MarkSent, EmitAlert, ListBudgets, DropStates, DropSnapshots, DropBudgets, Http,
      CreateBudget, RemoveBudget, PatchFind, PatchSave, PatchReset, NewMonth,
      CleanProcessedEventIds, Failure, queueVars, vars
<1> QED
  BY <1>1, <1>2, <1>3, <1>4

LEMMA CountStep ==
  ASSUME IInv, OrderInv, CountInv, [Next]_vars
  PROVE  CountInv'
<1> USE DEF rowVars, ghostVars
<1>0. /\ book \in [Tx -> Posting]
      /\ \A k \in Key : Expenses(k) \in Nat /\ \A t \in Tx : Expenses(k) >= Amount0(book[t], k)
  <2>1. book \in [Tx -> Posting]
    BY DEF IInv, TypeOK
  <2> QED
    BY <2>1, ExpensesType DEF Expenses
<1>1. ASSUME NEW t \in Tx, CreateTransaction(t) \/ UpdateTransaction(t) \/ DeleteTransaction(t)
      PROVE  CountInv'
  <2>1. PICK kind \in {"created", "updated", "deleted"}, p \in Posting :
          /\ PublishChange(t, kind, p)
          /\ kind = "created" => book[t] = Absent
    BY <1>1 DEF CreateTransaction, UpdateTransaction, DeleteTransaction, Posting
  <2> DEFINE m == [kind |-> kind, prev |-> book[t], next |-> p]
  <2>2. /\ m \in Message /\ Publish(m) /\ UNCHANGED <<applied, spent>>
        /\ m.prev = book[t] /\ m.next = p /\ book[t] \in Posting
        /\ m.kind = "created" => m.prev = Absent
        /\ book' = [book EXCEPT ![t] = p]
    BY <1>0, <2>1, BudgetAssumption DEF PublishChange, Event
  <2> HIDE DEF m
  <2>3. ASSUME NEW k \in Key PROVE Expenses(k)' = Expenses(k) + Effect(m, k)
    <3>1. BookTotal(book', k) = BookTotal(book, k) + (Amount0(p, k) - Amount0(book[t], k))
      BY <1>0, <2>2, ExpensesChange
    <3> QED
      BY <2>2, <3>1 DEF Expenses, Effect
  <2> QED
    BY <1>0, <2>2, <2>3, CountPublish
<1>2. CASE DeleteHousehold
  <2> DEFINE m == [kind |-> "householdDeleted", prev |-> Absent, next |-> Absent]
  <2>1. /\ m \in Message /\ Publish(m) /\ UNCHANGED <<book, applied, spent>>
        /\ m.prev = Absent /\ m.next = Absent
    BY <1>2, BudgetAssumption DEF DeleteHousehold, Posting, Event
  <2> HIDE DEF m
  <2>2. \A k \in Key : Amount0(m.prev, k) = 0 /\ Effect(m, k) = 0
    BY <2>1, PostingsAssumption DEF Amount0, Effect
  <2>3. \A k \in Key : Expenses(k)' = Expenses(k)
    BY <2>1 DEF Expenses
  <2>4. \A k \in Key : /\ Expenses(k) \in Int /\ Expenses(k)' = Expenses(k) + Effect(m, k)
                       /\ Expenses(k) >= Amount0(m.prev, k)
    BY <1>0, <2>2, <2>3
  <2> QED
    BY <2>1, <2>4, CountPublish
<1>3. ASSUME NEW h \in Handler, Apply(h), Post(msg[h]) PROVE CountInv'
  BY <1>3, CountPost DEF Apply
\* Nothing is published or posted; totals are dropped only with the household.
<1>4. ASSUME UNCHANGED <<book, log, applied>>, ~\E m : Publish(m),
             UNCHANGED spent \/ ~HouseholdAlive
      PROVE  CountInv'
  <2>1. \A k \in Key : /\ Expenses(k)' = Expenses(k) /\ Outstanding(k)' = Outstanding(k)
                       /\ \A i : Since(i, k)' = Since(i, k)
    BY <1>4 DEF Expenses, Outstanding, Since
  <2>2. (HouseholdAlive' <=> HouseholdAlive)
    BY <1>4 DEF HouseholdAlive
  <2>3. AppliedInOrder'
    BY <1>4, AckedStays DEF CountInv, AppliedInOrder, MessageId
  <2> QED
    BY <1>4, <2>1, <2>2, <2>3 DEF CountInv, MessageId
<1>5. ASSUME NEW h \in Handler, DropSnapshots(h) PROVE CountInv'
  <2>1. ~HouseholdAlive
    BY <1>5, NobodyErases DEF HouseholdHandler
  <2>2. UNCHANGED <<book, log, applied>>
    BY <1>5 DEF DropSnapshots, queueVars
  <2>3. ~\E m : Publish(m)
    BY <2>2 DEF Publish, IInv, TypeOK, QueueTypeOK
  <2> QED BY <1>4, <2>1, <2>2, <2>3
<1>6. ASSUME UNCHANGED <<book, log, applied, spent>> PROVE CountInv'
  <2>1. ~\E m : Publish(m)
    BY <1>6 DEF Publish, IInv, TypeOK, QueueTypeOK
  <2> QED BY <1>4, <1>6, <2>1
<1>7. \/ UNCHANGED <<book, log, applied, spent>> \/ DeleteHousehold
      \/ \E t \in Tx : CreateTransaction(t) \/ UpdateTransaction(t) \/ DeleteTransaction(t)
      \/ \E h \in Handler : DropSnapshots(h) \/ (Apply(h) /\ Post(msg[h]))
  <2> USE DEF queueVars
  <2>1. ASSUME NEW h \in Handler, Consumer(h), ~DropSnapshots(h), ~(Apply(h) /\ Post(msg[h]))
        PROVE  UNCHANGED <<book, log, applied, spent>>
    BY <2>1 DEF Consumer, TransactionHandler, HouseholdHandler, StartHandler, FinishHandler,
        Apply, Skip, ApplyOverflows, FindBudget, FindSnapshot, FindState, InsertState,
        InsertStateFails, EndByException, Deliver, Ack, Throw, MarkSent, EmitAlert,
        ListBudgets, DropStates, DropBudgets
  <2>2. CASE Http \/ NewMonth \/ CleanProcessedEventIds \/ Failure \/ UNCHANGED vars
    BY <2>2 DEF Http, CreateBudget, RemoveBudget, PatchFind, PatchSave, PatchReset,
        NewMonth, CleanProcessedEventIds, Failure, HandlerFails, EndByException, Throw,
        Restart, Crash, LoseChannel, DropChannel, vars
  <2> QED
    BY <2>1, <2>2 DEF Next, Producer
<1> QED
  BY <1>1, <1>2, <1>3, <1>5, <1>6, <1>7

LEMMA CountInit == Init => CountInv
<1> SUFFICES ASSUME Init PROVE CountInv
  OBVIOUS
<1>1. /\ log = <<>> /\ applied = [i \in MessageId |-> 0] /\ IsFiniteSet(MessageId)
      /\ book \in [Tx -> Posting] /\ \A t \in Tx : book[t] = Absent
      /\ \A k \in Key : spent[k] = 0
  BY FS_Interval, BoundsAssumption DEF Init, QueueInit, MessageId, Posting, ZeroTotals
<1>2. ASSUME NEW k \in Key PROVE Expenses(k) = spent[k] + SumOver(Outstanding(k), MessageId)
  <2>1. SumOver(Outstanding(k), MessageId) = 0
    BY <1>1, SumZero DEF Outstanding
  <2>2. Expenses(k) = 0
    BY <1>1, ExpensesType DEF Expenses
  <2> QED
    BY <1>1, <2>1, <2>2
<1> QED
  BY <1>1, <1>2 DEF CountInv, AppliedInOrder

\* Once every event is settled each total is the sum of the expenses that exist,
\* whatever crashes and lost channels there were, as long as deliveries are handled
\* one at a time and no handler throws (applyTransaction, GREATEST(0, ...)).
THEOREM TotalsAreExact ==
  Sequential => (Spec /\ [][NoOverflow]_vars => []TotalsExact)
<1> SUFFICES ASSUME Sequential PROVE Spec /\ [][NoOverflow]_vars => []TotalsExact
  OBVIOUS
<1> DEFINE Inv == IInv /\ OrderInv /\ InsertInv /\ CountInv
<1>1. Init => Inv
  <2> SUFFICES ASSUME Init PROVE OrderInv /\ InsertInv
    BY InvInit, CountInit
  <2> QED
    BY BoundsAssumption DEF Init, QueueInit, OrderInv, InsertInv
<1>2. Inv /\ [Next]_vars /\ [NoOverflow]_vars => Inv'
  <2> SUFFICES ASSUME Inv, [Next]_vars, [NoOverflow]_vars PROVE Inv'
    OBVIOUS
  <2>1. UNCHANGED vars => NoOverflow
    BY DEF NoOverflow, ApplyOverflows, EndByException, Goto, vars, taskVars, IInv, TypeOK
  <2> QED
    BY <2>1, InvStep, OrderStep, InsertStep, CountStep
<1>3. Inv => TotalsExact
  <2> SUFFICES ASSUME Inv, Quiet, HouseholdAlive, NEW k \in Key PROVE spent[k] = Expenses(k)
    BY DEF TotalsExact
  <2>1. ASSUME NEW i \in 1..Len(log), applied[i] = 0 PROVE Effect(log[i], k) = 0
    <3>0. i \in MessageId
      BY BoundsAssumption DEF IInv, TypeOK, QueueTypeOK, MessageId
    <3>1. deliv[i] = "acked"
      BY <3>0 DEF Quiet, OrderInv
    <3>2. ~Guarded(log[i])
      BY <2>1, <3>0, <3>1 DEF IInv, AccountInv
    <3> QED
      BY <3>2, UnguardedHasNoEffect
  <2>2. SumOver(Outstanding(k), MessageId) = 0
    BY <2>1, EventSums, SumZero DEF Outstanding
  <2> QED
    BY <2>2 DEF CountInv, IInv, TypeOK
<1> QED
  BY <1>1, <1>2, <1>3, PTL DEF Spec

\* An event that takes effect is the first that is not settled.
LEMMA OrderedStep ==
  ASSUME IInv, OrderInv, [Next]_vars
  PROVE  Ledger!TakenInOrder
<1> SUFFICES ASSUME NEW i \in MessageId, applied'[i] > 0, ~(applied[i] > 0),
                    NEW j \in 1..(i - 1), Ledger!Guarded(log[j])
             PROVE  j \in MessageId /\ applied[j] > 0
  BY DEF Ledger!TakenInOrder
<1>1. PICK h \in Handler : pc[h] = "apply" /\ Post(msg[h])
  <2>1. applied' # applied
    OBVIOUS
  <2> USE DEF rowVars, ghostVars, queueVars
  <2>2. ASSUME NEW h \in Handler, Consumer(h), ~(Apply(h) /\ Post(msg[h]))
        PROVE  UNCHANGED applied
    BY <2>2 DEF Consumer, TransactionHandler, HouseholdHandler, StartHandler, FinishHandler,
        Apply, Skip, ApplyOverflows, FindBudget, FindSnapshot, FindState, InsertState,
        InsertStateFails, EndByException, MarkSent, EmitAlert, ListBudgets, DropStates,
        DropSnapshots, DropBudgets
  <2>3. CASE Producer \/ Http \/ NewMonth \/ CleanProcessedEventIds \/ Failure \/ UNCHANGED vars
    BY <2>3 DEF Producer, CreateTransaction, UpdateTransaction, DeleteTransaction,
        PublishChange, DeleteHousehold, Http, CreateBudget, RemoveBudget, PatchFind,
        PatchSave, PatchReset, NewMonth, CleanProcessedEventIds, Failure, HandlerFails,
        EndByException, Restart, LoseChannel, vars
  <2> QED
    BY <2>1, <2>2, <2>3 DEF Next, Apply
<1>2. msg[h] \in MessageId /\ applied \in [MessageId -> Nat] /\ msg[h] # 0
  BY <1>1 DEF IInv, TypeOK, QueueTypeOK, ControlInv
<1>3. i = msg[h]
  BY <1>1, <1>2 DEF Post
<1>4. j \in MessageId /\ j < i
  BY BoundsAssumption DEF MessageId
<1>5. deliv[j] = "acked"
  BY <1>2, <1>3, <1>4 DEF OrderInv
<1>6. Guarded(log[j])
  BY DEF Guarded, Ledger!Guarded, Entry, Ledger!Entry, Key, Ledger!Key, Month, Ledger!Month
<1> QED
  BY <1>4, <1>5, <1>6 DEF IInv, AccountInv

\* With one delivery at a time and handlers that do not throw, budget-service takes
\* the events in the order transaction-service has published them, whatever the
\* broker delivers again after crashes and lost channels.
THEOREM OrderIsKept ==
  Sequential => (Spec /\ [][NoOverflow]_vars => ImplementsOrderedLedger)
<1> SUFFICES ASSUME Sequential PROVE Spec /\ [][NoOverflow]_vars => ImplementsOrderedLedger
  OBVIOUS
<1> DEFINE Inv == IInv /\ OrderInv /\ InsertInv
<1>1. Init => Inv
  <2> SUFFICES ASSUME Init PROVE OrderInv /\ InsertInv
    BY InvInit
  <2> QED
    BY BoundsAssumption DEF Init, QueueInit, OrderInv, InsertInv
<1>2. Inv /\ [Next]_vars /\ [NoOverflow]_vars => Inv'
  <2> SUFFICES ASSUME Inv, [Next]_vars, [NoOverflow]_vars PROVE Inv'
    OBVIOUS
  <2>1. UNCHANGED vars => NoOverflow
    BY DEF NoOverflow, ApplyOverflows, EndByException, Goto, vars, taskVars, IInv, TypeOK
  <2> QED
    BY <2>1, InvStep, OrderStep, InsertStep
<1>3. Inv /\ [Next]_vars => [Ledger!TakenInOrder]_(Ledger!ledgerVars)
  BY OrderedStep
<1>4. Spec => Ledger!Spec
  BY LedgerImplemented DEF ImplementsLedger
<1> QED
  BY <1>1, <1>2, <1>3, <1>4, PTL DEF Spec, ImplementsOrderedLedger, Ledger!OrderedSpec

=============================================================================
