---------------------- MODULE NotificationService_proofs ----------------------
(***************************************************************************)
(* For any number of members, handlers, messages and faults: a             *)
(* notification is made once per delivery of its event, for everybody it   *)
(* concerns, and those of an erased household are gone.                    *)
(***************************************************************************)
EXTENDS NotificationService, Consumer_proofs, FiniteSetTheorems

\* Only a chain that Promise.all has started is anywhere.
ControlInv ==
  \A h \in Handler :
    /\ msg[h] = 0 <=> pc[h] = "free"
    /\ pc[h] \in {"free", "members", "erase"} => chain[h] = NoChain
    /\ pc[h] = "members" => event(h).kind = "budget"
    /\ pc[h] = "erase" => event(h).kind = "householdDeleted"

\* A handler that has not failed has told, or will tell, whom it concerns.
Told(i, u) == made[i][u] > 0 \/ <<i, u>> \in excused
ToldInv ==
  /\ \A h \in Handler, u \in User :
       pc[h] = "fan" =>
         /\ event(h).kind = "budget" /\ chain[h][u] \in {"mail", "over"} => Told(msg[h], u)
         /\ event(h).kind = "memberJoined" /\ event(h).user = u =>
              chain[h][u] = "persist" \/ made[msg[h]][u] > 0
  /\ \A i \in DOMAIN log, u \in User :
       deliv[i] = "acked" =>
         /\ log[i].kind = "budget" => Told(i, u)
         /\ log[i].kind = "memberJoined" /\ log[i].user = u => made[i][u] > 0

\* Handlers that may make one more notification of event i for u, or mail it.
Telling(i, u) ==
  {h \in Handler :
     msg[h] = i /\ (pc[h] = "members" \/ chain[h][u] \in {"prefs", "persist"})}
Mailing(i, u) == {h \in Handler : msg[h] = i /\ chain[h][u] = "mail"}
ToCome(i) == IF deliv[i] \in {"none", "queued"} THEN 1 ELSE 0

\* Each fault brings an event back once at most.
CountInv ==
  \A i \in MessageId, u \in User :
    /\ IsFiniteSet(Telling(i, u))
    /\ made[i][u] + Cardinality(Telling(i, u)) + ToCome(i) <= 1 + faults

\* An email about a budget follows a notification of its own.
MailInv ==
  \A i \in MessageId, u \in User :
    /\ i \notin DOMAIN log => mailed[i][u] = 0
    /\ i \in DOMAIN log /\ log[i].kind = "budget" =>
         /\ IsFiniteSet(Mailing(i, u))
         /\ mailed[i][u] + Cardinality(Mailing(i, u)) <= made[i][u]

\* Nobody works on an event that was settled when the household was erased.
ErasedInv ==
  /\ \A i \in settled : deliv[i] = "acked" /\ \A h \in Handler : msg[h] # i
  /\ ErasedForGood

IInv == TypeOK /\ QueueInv /\ ControlInv /\ ToldInv /\ CountInv /\ MailInv /\ ErasedInv

-----------------------------------------------------------------------------
(* Types *)

LEMMA EventType ==
  ASSUME TypeOK, NEW i \in DOMAIN log
  PROVE  log[i] \in [kind: Kind, user: User]
  BY NotificationAssumption DEF TypeOK, QueueTypeOK

\* A delivery that is worked on is one of a published event.
LEMMA Working ==
  ASSUME QueueInv, ControlInv, NEW h \in Handler, pc[h] # "free"
  PROVE  /\ msg[h] \in MessageId /\ msg[h] \in DOMAIN log
         /\ deliv[msg[h]] # "none"
  BY DEF QueueInv, QueueTypeOK, DeliveriesInv, ControlInv

\* A chain that is not over is one of a handler at work.
LEMMA Chaining ==
  ASSUME ControlInv, TypeOK, NEW h \in Handler, NEW u \in User, chain[h][u] # "over"
  PROVE  pc[h] \in {"fan", "rejected"}
  BY DEF ControlInv, NoChain, TypeOK

\* A chain goes on alone.
LEMMA Advances ==
  ASSUME TypeOK, NEW h \in Handler, NEW u \in User, NEW step \in Steps, Advance(h, u, step)
  PROVE  /\ chain' \in [Handler -> [User -> Steps]]
         /\ chain'[h][u] = step
         /\ \A v \in User : v # u => chain'[h][v] = chain[h][v]
         /\ \A g \in Handler : g # h => chain'[g] = chain[g]
  BY DEF Advance, TypeOK

\* One more is counted for an event and a user.
LEMMA Counts ==
  ASSUME NEW f \in [MessageId -> [User -> Nat]], NEW i \in MessageId, NEW u \in User,
         NEW g, g = [f EXCEPT ![i][u] = @ + 1]
  PROVE  /\ g \in [MessageId -> [User -> Nat]]
         /\ g[i][u] = f[i][u] + 1
         /\ \A j \in MessageId, v \in User : j # i \/ v # u => g[j][v] = f[j][v]
<1>1. f[i] \in [User -> Nat] /\ f[i][u] \in Nat
  OBVIOUS
<1>2. g = [f EXCEPT ![i] = [f[i] EXCEPT ![u] = f[i][u] + 1]]
  OBVIOUS
<1>3. [f[i] EXCEPT ![u] = f[i][u] + 1] \in [User -> Nat]
  BY <1>1
<1>4. QED
  BY <1>1, <1>2, <1>3

LEMMA QueueStep == IInv /\ [Next]_vars => QueueInv' /\ LogGrows
<1> SUFFICES ASSUME IInv, [Next]_vars PROVE QueueInv' /\ LogGrows
  OBVIOUS
<1>1. ASSUME QueueNext PROVE QueueInv' /\ LogGrows
  BY <1>1, QueueInvStep DEF IInv
<1>2. CASE PublishEvent
  BY <1>1, <1>2 DEF PublishEvent, QueueNext
<1>3. ASSUME NEW h \in Handler, StartHandler(h) PROVE QueueNext
  BY <1>3 DEF StartHandler, QueueNext
<1>4. ASSUME NEW h \in Handler, FinishHandler(h) PROVE QueueNext
  BY <1>4 DEF FinishHandler, QueueNext, IInv, QueueInv, QueueTypeOK
<1>5. ASSUME NEW h \in Handler, NEW u \in User, PersistFails(h, u)
      PROVE  QueueInv' /\ LogGrows
  <2>1. faults' \in 0..MaxFaults /\ UNCHANGED <<log, deliv, msg, live>>
    BY <1>5, BoundsAssumption DEF PersistFails, Fault, IInv, QueueInv, QueueTypeOK
  <2>2. Len(log) \in Nat
    BY DEF IInv, QueueInv, QueueTypeOK
  <2>3. QED
    BY <2>1, <2>2 DEF IInv, QueueInv, QueueTypeOK, DeliveriesInv, LogGrows
<1>6. CASE RestartService \/ LoseChannel
  BY <1>1, <1>6 DEF RestartService, LoseChannel, QueueNext
<1>7. CASE UNCHANGED queueVars
  BY <1>1, <1>7 DEF QueueNext
<1>8. ASSUME NEW h \in Handler, Handle(h) PROVE QueueInv' /\ LogGrows
  BY <1>1, <1>3, <1>4, <1>5, <1>7, <1>8
  DEF Handle, GetMembers, DeleteByHousehold, GetPreferences, Persist, SendMail
<1>9. QED
  BY <1>2, <1>6, <1>7, <1>8 DEF Next, FindNotification, SaveRead, vars

LEMMA TypeStep == IInv /\ [Next]_vars => TypeOK'
<1> SUFFICES ASSUME IInv, [Next]_vars PROVE TypeOK'
  OBVIOUS
<1>1. TypeOK /\ QueueTypeOK'
  BY QueueStep DEF IInv, QueueInv
<1>2. CASE PublishEvent \/ LoseChannel
  BY <1>1, <1>2 DEF PublishEvent, LoseChannel, ownVars, TypeOK
<1>3. ASSUME NEW h \in Handler, StartHandler(h) PROVE TypeOK'
  <2>1. PICK i \in MessageId :
          /\ Deliver(h, i)
          /\ Goto(h, CASE log[i].kind = "budget"           -> "members"
                       [] log[i].kind = "householdDeleted" -> "erase"
                       [] OTHER                            -> "fan")
          /\ Advance(h, log[i].user, FirstStep[log[i].kind])
          /\ UNCHANGED <<tables, history>>
    BY <1>3 DEF StartHandler
  <2>2. i \in DOMAIN log
    BY <2>1 DEF Deliver, AtHead, IInv, QueueInv, DeliveriesInv, QueueTypeOK
  <2>3. log[i].user \in User /\ FirstStep[log[i].kind] \in Steps
    BY <1>1, <2>2, EventType DEF FirstStep, Kind, Steps
  <2>4. QED
    BY <1>1, <2>1, <2>3 DEF TypeOK, Goto, Advance, tables, history
<1>4. ASSUME NEW h \in Handler, GetMembers(h) PROVE TypeOK'
  <2>1. msg[h] \in MessageId
    BY <1>4, Working DEF IInv, GetMembers
  <2>2. PICK M \in SUBSET User :
          /\ chain' = [chain EXCEPT ![h] = [u \in User |-> IF u \in M THEN "prefs" ELSE "over"]]
          /\ excused' = excused \cup ({msg[h]} \X (User \ M))
    BY <1>4 DEF GetMembers
  <2>3. excused' \subseteq MessageId \X User
    BY <1>1, <2>1, <2>2 DEF TypeOK
  <2>4. [u \in User |-> IF u \in M THEN "prefs" ELSE "over"] \in [User -> Steps]
    BY DEF Steps
  <2>5. chain' \in [Handler -> [User -> Steps]]
    BY <1>1, <2>2, <2>4 DEF TypeOK
  <2>6. QED
    BY <1>1, <1>4, <2>3, <2>5 DEF TypeOK, GetMembers, Goto, tables
<1>5. ASSUME NEW h \in Handler, DeleteByHousehold(h) \/ FinishHandler(h) PROVE TypeOK'
  BY <1>1, <1>5 DEF TypeOK, DeleteByHousehold, FinishHandler, Goto, tables, history
<1>6. ASSUME NEW h \in Handler, NEW u \in User,
             GetPreferences(h, u) \/ SendMail(h, u) \/ PersistFails(h, u)
      PROVE  TypeOK'
  <2>1. msg[h] \in MessageId
    BY <1>6, Chaining, Working DEF IInv, GetPreferences, SendMail, PersistFails
  <2>2. chain' \in [Handler -> [User -> Steps]]
    BY <1>1, <1>6, Advances DEF GetPreferences, SendMail, PersistFails, Steps
  <2>3. CASE GetPreferences(h, u)
    BY <1>1, <2>1, <2>2, <2>3 DEF TypeOK, GetPreferences, tables
  <2>4. CASE SendMail(h, u)
    <3>1. mailed' \in [MessageId -> [User -> Nat]]
      <4>1. mailed \in [MessageId -> [User -> Nat]]
        BY <1>1 DEF TypeOK
      <4>2. CASE mailed' = [mailed EXCEPT ![msg[h]][u] = @ + 1]
        BY ONLY <2>1, <4>1, <4>2, Counts
      <4>3. QED
        BY <2>4, <4>1, <4>2 DEF SendMail
    <3>2. QED
      BY <1>1, <2>2, <2>4, <3>1 DEF TypeOK, SendMail, tables
  <2>5. CASE PersistFails(h, u)
    BY <1>1, <2>2, <2>5 DEF TypeOK, PersistFails, Goto, tables, history
  <2>6. QED
    BY <1>6, <2>3, <2>4, <2>5
<1>7. ASSUME NEW h \in Handler, NEW u \in User, Persist(h, u) PROVE TypeOK'
  <2>1. msg[h] \in MessageId
    BY <1>7, Chaining, Working DEF IInv, Persist
  <2>2. NewRow(h, u) \in Notification
    BY <1>1, <2>1 DEF NewRow, Notification, TypeOK
  <2>3. QED
    BY <1>1, <1>7, <2>1, <2>2 DEF TypeOK, Persist, Advance, Steps
<1>8. CASE FindNotification \/ SaveRead
  BY <1>1, <1>8 DEF FindNotification, SaveRead, TypeOK, history
<1>9. CASE RestartService
  BY <1>1, <1>9 DEF RestartService, TypeOK, history, NoChain, Steps
<1>10. CASE UNCHANGED vars
  BY <1>1, <1>10 DEF vars, ownVars, TypeOK
<1>11. QED
  BY <1>2, <1>3, <1>4, <1>5, <1>6, <1>7, <1>8, <1>9, <1>10 DEF Next, Handle

-----------------------------------------------------------------------------
(* What steps leave alone *)

Alone(h) ==
  \A g \in Handler : g # h => msg'[g] = msg[g] /\ pc'[g] = pc[g] /\ chain'[g] = chain[g]

\* What was published stays as it is.
EventsKept ==
  /\ DOMAIN log \subseteq DOMAIN log'
  /\ \A i \in DOMAIN log : log'[i] = log[i]

LEMMA Keeping == IInv /\ [Next]_vars => EventsKept
<1> SUFFICES ASSUME IInv, [Next]_vars PROVE EventsKept
  OBVIOUS
<1>1. LogGrows /\ QueueInv /\ QueueInv'
  BY QueueStep DEF IInv
<1>2. DOMAIN log = 1..Len(log) /\ DOMAIN log' = 1..Len(log')
      /\ Len(log) \in Nat /\ Len(log') \in Nat
  BY <1>1 DEF QueueInv, QueueTypeOK
<1>3. QED
  BY <1>1, <1>2 DEF LogGrows, EventsKept

\* A handler acts for itself.
LEMMA ActsAlone ==
  ASSUME TypeOK, NEW h \in Handler, Handle(h)
  PROVE  Alone(h) /\ log' = log
<1> USE DEF TypeOK, QueueTypeOK, Alone
<1>1. CASE StartHandler(h)
  BY <1>1 DEF StartHandler, Deliver, Goto, Advance
<1>2. CASE GetMembers(h)
  BY <1>2 DEF GetMembers, Goto, queueVars
<1>3. CASE DeleteByHousehold(h)
  BY <1>3 DEF DeleteByHousehold, Goto, queueVars
<1>4. CASE FinishHandler(h)
  BY <1>4 DEF FinishHandler, Goto, Ack, Throw
<1>5. ASSUME NEW u \in User,
             GetPreferences(h, u) \/ Persist(h, u) \/ SendMail(h, u) \/ PersistFails(h, u)
      PROVE  Alone(h) /\ log' = log
  BY <1>5
  DEF GetPreferences, Persist, SendMail, PersistFails, Goto, Advance, queueVars
<1>6. QED
  BY <1>1, <1>2, <1>3, <1>4, <1>5 DEF Handle

\* A handler starts on the oldest event in the queue.
LEMMA Starts ==
  ASSUME IInv, NEW h \in Handler, StartHandler(h)
  PROVE  \E i \in DOMAIN log :
           /\ i \in MessageId /\ log[i] \in [kind: Kind, user: User]
           /\ deliv[i] = "queued" /\ deliv' = [deliv EXCEPT ![i] = "unacked"]
           /\ msg[h] = 0 /\ msg'[h] = i
           /\ pc[h] = "free"
           /\ pc'[h] = CASE log[i].kind = "budget"           -> "members"
                         [] log[i].kind = "householdDeleted" -> "erase"
                         [] OTHER                            -> "fan"
           /\ chain[h] = NoChain
           /\ chain'[h] = [u \in User |-> IF u = log[i].user THEN FirstStep[log[i].kind]
                                          ELSE "over"]
           /\ UNCHANGED <<log, faults, tables, history>>
<1>1. PICK i \in MessageId :
        /\ Deliver(h, i)
        /\ Goto(h, CASE log[i].kind = "budget"           -> "members"
                     [] log[i].kind = "householdDeleted" -> "erase"
                     [] OTHER                            -> "fan")
        /\ Advance(h, log[i].user, FirstStep[log[i].kind])
        /\ UNCHANGED <<tables, history>>
  BY DEF StartHandler
<1>2. /\ i \in DOMAIN log /\ deliv[i] = "queued" /\ msg[h] = 0
      /\ msg'[h] = i /\ UNCHANGED <<log, faults>> /\ deliv' = [deliv EXCEPT ![i] = "unacked"]
  BY <1>1
  DEF Deliver, AtHead, Idle, IInv, QueueInv, DeliveriesInv, QueueTypeOK
<1>3. log[i] \in [kind: Kind, user: User]
  BY <1>2, EventType DEF IInv
<1>4. pc[h] = "free" /\ chain[h] = NoChain
  BY <1>2 DEF IInv, ControlInv
<1>5. chain'[h] = [u \in User |-> IF u = log[i].user THEN FirstStep[log[i].kind] ELSE "over"]
  BY <1>1, <1>4 DEF Advance, NoChain, IInv, TypeOK
<1>6. pc'[h] = CASE log[i].kind = "budget"           -> "members"
                 [] log[i].kind = "householdDeleted" -> "erase"
                 [] OTHER                            -> "fan"
  BY <1>1 DEF Goto, IInv, TypeOK
<1>7. QED
  BY <1>1, <1>2, <1>3, <1>4, <1>5, <1>6

LEMMA ControlStep == IInv /\ [Next]_vars => ControlInv'
<1> SUFFICES ASSUME IInv, [Next]_vars PROVE ControlInv'
  OBVIOUS
<1>1. TypeOK /\ ControlInv /\ QueueInv /\ EventsKept
  BY Keeping DEF IInv
<1> DEFINE Good(g) ==
      /\ msg[g] = 0 <=> pc[g] = "free"
      /\ pc[g] \in {"free", "members", "erase"} => chain[g] = NoChain
      /\ pc[g] = "members" => event(g).kind = "budget"
      /\ pc[g] = "erase" => event(g).kind = "householdDeleted"
<1>2. ASSUME NEW g \in Handler, msg'[g] = msg[g], pc'[g] = pc[g], chain'[g] = chain[g]
      PROVE  Good(g)'
  <2>1. pc[g] # "free" => event(g)' = event(g)
    BY <1>1, <1>2, Working DEF EventsKept, event
  <2>2. QED
    BY <1>1, <1>2, <2>1 DEF ControlInv
<1>3. ASSUME NEW h \in Handler, Handle(h), Good(h)' PROVE ControlInv'
  BY <1>1, <1>2, <1>3, ActsAlone DEF Alone, ControlInv
<1>4. ASSUME NEW h \in Handler, StartHandler(h) PROVE Good(h)'
  <2>1. PICK i \in DOMAIN log :
          /\ i \in MessageId /\ log[i] \in [kind: Kind, user: User]
          /\ msg'[h] = i
          /\ pc'[h] = CASE log[i].kind = "budget"           -> "members"
                        [] log[i].kind = "householdDeleted" -> "erase"
                        [] OTHER                            -> "fan"
          /\ chain'[h] = [u \in User |-> IF u = log[i].user THEN FirstStep[log[i].kind]
                                         ELSE "over"]
          /\ UNCHANGED log
    BY <1>4, Starts
  <2>2. i # 0
    BY <2>1, BoundsAssumption DEF MessageId
  <2>3. log[i].kind \in {"budget", "householdDeleted"} => chain'[h] = NoChain
    BY <2>1 DEF FirstStep, NoChain
  <2>4. QED
    BY <2>1, <2>2, <2>3 DEF event
<1>5. ASSUME NEW h \in Handler, GetMembers(h) \/ DeleteByHousehold(h) PROVE Good(h)'
  BY <1>1, <1>5
  DEF GetMembers, DeleteByHousehold, Goto, ControlInv, TypeOK, queueVars
<1>6. ASSUME NEW h \in Handler, FinishHandler(h) PROVE Good(h)'
  BY <1>1, <1>6
  DEF FinishHandler, Goto, Ack, Throw, ControlInv, TypeOK, QueueTypeOK
<1>7. ASSUME NEW h \in Handler, NEW u \in User,
             GetPreferences(h, u) \/ Persist(h, u) \/ SendMail(h, u) \/ PersistFails(h, u)
      PROVE  Good(h)'
  <2>1. pc[h] \in {"fan", "rejected"}
    BY <1>1, <1>7, Chaining DEF GetPreferences, Persist, SendMail, PersistFails
  <2>2. pc'[h] \in {"fan", "rejected"} /\ msg'[h] = msg[h]
    BY <1>1, <1>7, <2>1
    DEF GetPreferences, Persist, SendMail, PersistFails, Goto, queueVars, TypeOK
  <2>3. QED
    BY <1>1, <2>1, <2>2 DEF ControlInv
<1>8. ASSUME NEW h \in Handler, Handle(h) PROVE ControlInv'
  BY <1>3, <1>4, <1>5, <1>6, <1>7, <1>8 DEF Handle
<1>9. CASE RestartService
  BY <1>9 DEF RestartService, Crash, ControlInv
<1>10. CASE UNCHANGED <<msg, pc, chain>>
  BY <1>2, <1>10 DEF ControlInv
<1>11. QED
  BY <1>8, <1>9, <1>10
  DEF Next, PublishEvent, Publish, LoseChannel, DropChannel, FindNotification, SaveRead,
      vars, ownVars, queueVars

\* An event is acked by a handler that has got through.
LEMMA AckedByHandler ==
  ASSUME IInv, [Next]_vars, NEW i \in MessageId, deliv'[i] = "acked", deliv[i] # "acked"
  PROVE  \E h \in Handler : pc[h] = "fan" /\ chain[h] = NoChain /\ msg[h] = i
<1> USE DEF IInv, QueueInv, QueueTypeOK
<1>1. CASE PublishEvent
  BY <1>1 DEF PublishEvent, Publish
<1>2. ASSUME NEW h \in Handler, StartHandler(h) PROVE FALSE
  <2>1. PICK j \in DOMAIN log : deliv' = [deliv EXCEPT ![j] = "unacked"]
    BY <1>2, Starts
  <2>2. QED
    BY <2>1
<1>3. ASSUME NEW h \in Handler, FinishHandler(h)
      PROVE  pc[h] = "fan" /\ chain[h] = NoChain /\ msg[h] = i
  BY <1>3 DEF FinishHandler, Ack, Throw
<1>4. CASE RestartService \/ LoseChannel
  BY <1>4 DEF RestartService, LoseChannel, Crash, DropChannel, Requeued
<1>5. CASE UNCHANGED deliv
  BY <1>5
<1>6. ASSUME NEW h \in Handler, Handle(h), ~FinishHandler(h) PROVE FALSE
  BY <1>2, <1>5, <1>6
  DEF Handle, GetMembers, DeleteByHousehold, GetPreferences, Persist, SendMail,
      PersistFails, queueVars
<1>7. QED
  BY <1>1, <1>3, <1>4, <1>5, <1>6
  DEF Next, FindNotification, SaveRead, vars, queueVars

\* What was made stays made, and so do excuses.
LEMMA HistoryGrows ==
  ASSUME IInv, [Next]_vars
  PROVE  /\ \A i \in MessageId, u \in User : made[i][u] \in Nat /\ made'[i][u] \in Nat
                                               /\ made[i][u] <= made'[i][u]
         /\ excused \subseteq excused'
<1>1. TypeOK /\ made \in [MessageId -> [User -> Nat]]
  BY DEF IInv, TypeOK
<1>2. ASSUME NEW h \in Handler, NEW u \in User, Persist(h, u)
      PROVE  /\ \A i \in MessageId, v \in User :
                  made'[i][v] \in Nat /\ made[i][v] <= made'[i][v]
             /\ excused' = excused
  <2>1. msg[h] \in MessageId
    BY <1>2, <1>1, Chaining, Working DEF IInv, Persist
  <2>2. made' = [made EXCEPT ![msg[h]][u] = @ + 1] /\ excused' = excused
    BY <1>2 DEF Persist
  <2>3. /\ made' \in [MessageId -> [User -> Nat]] /\ made'[msg[h]][u] = made[msg[h]][u] + 1
        /\ \A j \in MessageId, v \in User : j # msg[h] \/ v # u => made'[j][v] = made[j][v]
    BY ONLY <1>1, <2>1, <2>2, Counts
  <2>4. QED
    BY <1>1, <2>1, <2>2, <2>3
<1>3. CASE made' = made /\ excused \subseteq excused'
  BY <1>1, <1>3
<1>4. ASSUME NEW h \in Handler, Handle(h), \A u \in User : ~Persist(h, u)
      PROVE  made' = made /\ excused \subseteq excused'
  BY <1>4
  DEF Handle, StartHandler, GetMembers, DeleteByHousehold, FinishHandler, GetPreferences,
      SendMail, PersistFails, history
<1>5. made \in [MessageId -> [User -> Nat]] =>
        \A i \in MessageId, u \in User : made[i][u] \in Nat
  OBVIOUS
<1>6. QED
  BY <1>1, <1>2, <1>3, <1>4, <1>5
  DEF Next, PublishEvent, LoseChannel, RestartService, FindNotification, SaveRead, vars,
      ownVars, history

LEMMA ToldStep == IInv /\ [Next]_vars => ToldInv'
<1> SUFFICES ASSUME IInv, [Next]_vars PROVE ToldInv'
  OBVIOUS
<1>1. TypeOK /\ ControlInv /\ QueueInv /\ ToldInv /\ EventsKept /\ TypeOK' /\ QueueInv'
  BY Keeping, TypeStep, QueueStep DEF IInv
<1>2. ASSUME NEW i \in MessageId, NEW u \in User
      PROVE  /\ Told(i, u) => Told(i, u)'
             /\ made[i][u] > 0 => made'[i][u] > 0
  BY HistoryGrows DEF Told
<1> DEFINE Fan(h, u) ==
      pc[h] = "fan" =>
        /\ event(h).kind = "budget" /\ chain[h][u] \in {"mail", "over"} => Told(msg[h], u)
        /\ event(h).kind = "memberJoined" /\ event(h).user = u =>
             chain[h][u] = "persist" \/ made[msg[h]][u] > 0
      Settled(i, u) ==
        deliv[i] = "acked" =>
          /\ log[i].kind = "budget" => Told(i, u)
          /\ log[i].kind = "memberJoined" /\ log[i].user = u => made[i][u] > 0
<1>3. \A h \in Handler, u \in User : Fan(h, u)
  BY <1>1 DEF ToldInv
<1>4. ASSUME NEW g \in Handler, NEW u \in User, msg'[g] = msg[g], pc'[g] = pc[g],
             chain'[g] = chain[g] \/ (chain'[g][u] = chain[g][u])
      PROVE  Fan(g, u)'
  <2>1. CASE pc[g] = "fan"
    <3>1. msg[g] \in MessageId /\ event(g)' = event(g)
      BY <1>1, <1>4, <2>1, Working DEF EventsKept, event
    <3>2. QED
      BY <1>2, <1>3, <1>4, <3>1
  <2>2. QED
    BY <1>4, <2>1
<1>5. ASSUME NEW h \in Handler, NEW u \in User, StartHandler(h) PROVE Fan(h, u)'
  <2>1. PICK i \in DOMAIN log :
          /\ log[i] \in [kind: Kind, user: User]
          /\ msg'[h] = i
          /\ pc'[h] = CASE log[i].kind = "budget"           -> "members"
                        [] log[i].kind = "householdDeleted" -> "erase"
                        [] OTHER                            -> "fan"
          /\ chain'[h] = [v \in User |-> IF v = log[i].user THEN FirstStep[log[i].kind]
                                         ELSE "over"]
          /\ UNCHANGED log
    BY <1>5, Starts
  <2>2. log[i].kind = "memberJoined" => chain'[h][log[i].user] = "persist"
    BY <2>1 DEF FirstStep
  <2>3. log[i].kind = "budget" => pc'[h] # "fan"
    BY <2>1
  <2>4. QED
    BY <2>1, <2>2, <2>3 DEF event
<1>6. ASSUME NEW h \in Handler, NEW u \in User, GetMembers(h) PROVE Fan(h, u)'
  <2>1. event(h)' = event(h) /\ event(h).kind = "budget" /\ msg'[h] = msg[h]
    BY <1>1, <1>6 DEF GetMembers, ControlInv, queueVars, event
  <2>2. PICK M \in SUBSET User :
          /\ chain' = [chain EXCEPT ![h] = [v \in User |-> IF v \in M THEN "prefs" ELSE "over"]]
          /\ excused' = excused \cup ({msg[h]} \X (User \ M))
    BY <1>6 DEF GetMembers
  <2>3. chain'[h][u] \in {"mail", "over"} => <<msg[h], u>> \in excused'
    BY <1>1, <2>2 DEF TypeOK
  <2>4. QED
    BY <2>1, <2>3 DEF Told
<1>7. ASSUME NEW h \in Handler, NEW u \in User, DeleteByHousehold(h) PROVE Fan(h, u)'
  BY <1>1, <1>7 DEF DeleteByHousehold, ControlInv, queueVars, event
<1>8. ASSUME NEW h \in Handler, NEW u \in User, FinishHandler(h) PROVE Fan(h, u)'
  BY <1>1, <1>8 DEF FinishHandler, Goto, TypeOK
<1>9. ASSUME NEW h \in Handler, NEW v \in User, NEW u \in User,
             GetPreferences(h, v) \/ Persist(h, v) \/ SendMail(h, v) \/ PersistFails(h, v)
      PROVE  Fan(h, u)'
  <2>1. pc[h] \in {"fan", "rejected"} /\ msg[h] \in MessageId /\ chain[h][v] # "over"
    BY <1>1, <1>9, Chaining, Working DEF GetPreferences, Persist, SendMail, PersistFails
  <2>2. msg'[h] = msg[h] /\ log' = log /\ event(h)' = event(h)
    BY <1>9 DEF GetPreferences, Persist, SendMail, PersistFails, queueVars, event
  <2>3. u # v => chain'[h][u] = chain[h][u]
    BY <1>1, <1>9, Advances DEF GetPreferences, Persist, SendMail, PersistFails, Steps
  <2>4. CASE PersistFails(h, v)
    BY <1>1, <2>4 DEF PersistFails, Goto, TypeOK
  <2>5. CASE u # v /\ pc'[h] = pc[h]
    BY <1>4, <2>2, <2>3, <2>5
  <2>6. CASE GetPreferences(h, v) /\ u = v
    <3>1. \/ chain'[h][u] = "persist"
          \/ <<msg[h], u>> \in excused'
      BY <1>1, <2>6, Advances DEF GetPreferences, Steps
    <3>2. pc'[h] = pc[h] /\ chain[h][u] = "prefs"
      BY <2>6 DEF GetPreferences
    <3>3. QED
      BY <1>2, <1>3, <2>1, <2>2, <3>1, <3>2 DEF Told
  <2>7. CASE Persist(h, v) /\ u = v
    <3>1. made'[msg[h]][u] > 0
      <4>1. made \in [MessageId -> [User -> Nat]]
        BY <1>1 DEF TypeOK
      <4>2. made' = [made EXCEPT ![msg[h]][u] = @ + 1]
        BY <2>7 DEF Persist
      <4>3. made'[msg[h]][u] = made[msg[h]][u] + 1 /\ made[msg[h]][u] \in Nat
        BY ONLY <2>1, <4>1, <4>2, Counts
      <4>4. QED
        BY <4>3
    <3>2. QED
      BY <2>2, <3>1 DEF Told
  <2>8. CASE SendMail(h, v) /\ u = v
    <3>1. pc'[h] = pc[h] /\ chain[h][u] = "mail"
      BY <2>8 DEF SendMail
    <3>2. QED
      BY <1>2, <1>3, <2>1, <2>2, <3>1
  <2>9. QED
    BY <1>9, <2>4, <2>5, <2>6, <2>7, <2>8 DEF GetPreferences, Persist, SendMail
<1>10. ASSUME NEW h \in Handler, NEW u \in User PROVE Fan(h, u)'
  <2>1. ASSUME NEW g \in Handler, Handle(g) PROVE Fan(h, u)'
    <3>1. CASE g = h
      BY <1>5, <1>6, <1>7, <1>8, <1>9, <2>1, <3>1 DEF Handle
    <3>2. CASE g # h
      BY <1>1, <1>4, <2>1, <3>2, ActsAlone DEF Alone
    <3>3. QED
      BY <3>1, <3>2
  <2>2. CASE RestartService
    BY <2>2 DEF RestartService
  <2>3. CASE UNCHANGED <<msg, pc, chain>>
    BY <1>4, <2>3
  <2>4. QED
    BY <2>1, <2>2, <2>3
    DEF Next, PublishEvent, Publish, LoseChannel, DropChannel, FindNotification, SaveRead,
        vars, ownVars, queueVars
<1>11. ASSUME NEW i \in DOMAIN log', NEW u \in User, deliv'[i] = "acked"
       PROVE  Settled(i, u)'
  <2>1. i \in MessageId
    BY <1>1, BoundsAssumption DEF QueueInv, QueueTypeOK, MessageId
  <2>2. CASE deliv[i] = "acked"
    <3>1. i \in DOMAIN log
      BY <1>1, <2>1, <2>2 DEF QueueInv, DeliveriesInv, QueueTypeOK
    <3>2. Settled(i, u) /\ log'[i] = log[i]
      BY <1>1, <3>1 DEF ToldInv, EventsKept
    <3>3. QED
      BY <1>2, <2>1, <2>2, <3>2
  <2>3. CASE deliv[i] # "acked"
    <3>1. PICK h \in Handler : pc[h] = "fan" /\ chain[h] = NoChain /\ msg[h] = i
      BY <1>11, <2>1, <2>3, AckedByHandler
    <3>2. Fan(h, u) /\ chain[h][u] = "over" /\ i \in DOMAIN log /\ log'[i] = log[i]
      BY <1>1, <1>3, <3>1, Working DEF NoChain, EventsKept
    <3>3. QED
      BY <1>2, <2>1, <3>1, <3>2 DEF event
  <2>4. QED
    BY <2>2, <2>3
<1>12. QED
  BY <1>10, <1>11 DEF ToldInv

-----------------------------------------------------------------------------
(* Notifications and emails are counted *)

Counted(i, u) ==
  /\ IsFiniteSet(Telling(i, u))
  /\ made[i][u] + Cardinality(Telling(i, u)) + ToCome(i) <= 1 + faults

\* Nobody more is telling, and what comes back is paid for by a fault.
LEMMA CountKept ==
  ASSUME IInv, TypeOK', NEW i \in MessageId, NEW u \in User,
         Telling(i, u)' \subseteq Telling(i, u), made'[i][u] = made[i][u],
         ToCome(i)' + faults <= ToCome(i) + faults'
  PROVE  Counted(i, u)'
<1>1. IsFiniteSet(Telling(i, u))
      /\ made[i][u] + Cardinality(Telling(i, u)) + ToCome(i) <= 1 + faults
  BY DEF IInv, CountInv
<1>2. /\ IsFiniteSet(Telling(i, u)') /\ Cardinality(Telling(i, u)') \in Nat
      /\ Cardinality(Telling(i, u)) \in Nat
      /\ Cardinality(Telling(i, u)') <= Cardinality(Telling(i, u))
  BY <1>1, FS_Subset, FS_CardinalityType
<1>3. made[i][u] \in Nat /\ faults \in Nat /\ faults' \in Nat
  BY BoundsAssumption DEF IInv, TypeOK, QueueTypeOK
<1>4. ToCome(i) \in {0, 1} /\ ToCome(i)' \in {0, 1}
  BY DEF ToCome
<1>5. QED
  BY <1>1, <1>2, <1>3, <1>4 DEF Counted

\* A delivery adds the handler it goes to.
LEMMA CountDelivered ==
  ASSUME IInv, TypeOK', NEW i \in MessageId, NEW u \in User, NEW h,
         Telling(i, u)' \subseteq Telling(i, u) \cup {h}, made'[i][u] = made[i][u],
         ToCome(i) = 1, ToCome(i)' = 0, faults' = faults
  PROVE  Counted(i, u)'
<1>1. IsFiniteSet(Telling(i, u))
      /\ made[i][u] + Cardinality(Telling(i, u)) + 1 <= 1 + faults
  BY DEF IInv, CountInv
<1>2. /\ IsFiniteSet(Telling(i, u) \cup {h})
      /\ Cardinality(Telling(i, u) \cup {h}) <= Cardinality(Telling(i, u)) + 1
      /\ Cardinality(Telling(i, u)) \in Nat
  <2>1. Cardinality(Telling(i, u)) \in Nat
    BY <1>1, FS_CardinalityType
  <2>2. /\ IsFiniteSet(Telling(i, u) \cup {h})
        /\ Cardinality(Telling(i, u) \cup {h}) =
             IF h \in Telling(i, u) THEN Cardinality(Telling(i, u))
             ELSE Cardinality(Telling(i, u)) + 1
    BY <1>1, FS_AddElement
  <2>3. QED
    BY <2>1, <2>2
<1>3. /\ IsFiniteSet(Telling(i, u)')
      /\ Cardinality(Telling(i, u)') <= Cardinality(Telling(i, u) \cup {h})
      /\ Cardinality(Telling(i, u)') \in Nat /\ Cardinality(Telling(i, u) \cup {h}) \in Nat
  BY <1>2, FS_Subset, FS_CardinalityType
<1>4. made[i][u] \in Nat /\ faults \in Nat
  BY BoundsAssumption DEF IInv, TypeOK, QueueTypeOK
<1>5. QED
  BY <1>1, <1>2, <1>3, <1>4 DEF Counted

\* The notification is made by a handler that could still make it.
LEMMA CountMade ==
  ASSUME IInv, TypeOK', NEW i \in MessageId, NEW u \in User, NEW h \in Telling(i, u),
         Telling(i, u)' \subseteq Telling(i, u) \ {h}, made'[i][u] = made[i][u] + 1,
         ToCome(i)' = ToCome(i), faults' = faults
  PROVE  Counted(i, u)'
<1>1. IsFiniteSet(Telling(i, u))
      /\ made[i][u] + Cardinality(Telling(i, u)) + ToCome(i) <= 1 + faults
  BY DEF IInv, CountInv
<1>2. /\ IsFiniteSet(Telling(i, u) \ {h})
      /\ Cardinality(Telling(i, u) \ {h}) = Cardinality(Telling(i, u)) - 1
      /\ Cardinality(Telling(i, u)) \in Nat
  BY <1>1, FS_RemoveElement, FS_CardinalityType
<1>3. /\ IsFiniteSet(Telling(i, u)')
      /\ Cardinality(Telling(i, u)') <= Cardinality(Telling(i, u) \ {h})
      /\ Cardinality(Telling(i, u)') \in Nat
  BY <1>2, FS_Subset, FS_CardinalityType
<1>4. made[i][u] \in Nat /\ faults \in Nat /\ ToCome(i) \in {0, 1}
  BY BoundsAssumption DEF IInv, TypeOK, QueueTypeOK, ToCome
<1>5. QED
  BY <1>1, <1>2, <1>3, <1>4 DEF Counted

LEMMA CountStep == IInv /\ [Next]_vars => CountInv'
<1> SUFFICES ASSUME IInv, [Next]_vars, NEW i \in MessageId, NEW u \in User
             PROVE  Counted(i, u)'
  BY DEF CountInv, Counted
<1>1. /\ TypeOK /\ TypeOK' /\ ControlInv /\ QueueInv
      /\ faults \in Nat /\ faults' \in Nat /\ i # 0
      /\ ToCome(i) \in {0, 1} /\ ToCome(i)' \in {0, 1}
  <2>1. TypeOK /\ TypeOK' /\ ControlInv /\ QueueInv
    BY TypeStep DEF IInv
  <2>2. i # 0 /\ faults \in Nat /\ faults' \in Nat
    BY <2>1, BoundsAssumption DEF TypeOK, QueueTypeOK, MessageId
  <2>3. QED
    BY <2>1, <2>2 DEF ToCome
\* Everybody else counts as before.
<1>2. ASSUME NEW h \in Handler, Alone(h)
      PROVE  Telling(i, u)' \ {h} = Telling(i, u) \ {h}
  BY <1>2 DEF Alone, Telling
<1>3. CASE PublishEvent
  <2>1. ToCome(i)' = ToCome(i) /\ faults' = faults
    <3>1. Len(log) \in Nat /\ (deliv[Len(log) + 1] = "none" \/ Len(log) + 1 \notin MessageId)
      BY <1>1 DEF QueueInv, DeliveriesInv, QueueTypeOK
    <3>2. QED
      BY <1>1, <1>3, <3>1
      DEF PublishEvent, Publish, ToCome, TypeOK, QueueTypeOK
  <2>2. Telling(i, u)' = Telling(i, u) /\ made' = made
    BY <1>3 DEF PublishEvent, Publish, ownVars, Telling
  <2>3. QED
    BY <1>1, <2>1, <2>2, CountKept
<1>4. ASSUME NEW h \in Handler, StartHandler(h) PROVE Counted(i, u)'
  <2>1. PICK j \in DOMAIN log :
          /\ j \in MessageId /\ deliv[j] = "queued" /\ deliv' = [deliv EXCEPT ![j] = "unacked"]
          /\ msg[h] = 0 /\ msg'[h] = j
          /\ UNCHANGED <<log, faults, tables, history>>
    BY <1>4, Starts
  <2>2. Telling(i, u)' \ {h} = Telling(i, u) \ {h} /\ made' = made
    BY <1>1, <1>2, <1>4, <2>1, ActsAlone DEF Handle, history
  <2>3. CASE i = j
    BY <1>1, <2>1, <2>2, <2>3, CountDelivered DEF ToCome, TypeOK, QueueTypeOK
  <2>4. CASE i # j
    <3>1. h \notin Telling(i, u)' /\ ToCome(i)' = ToCome(i)
      BY <2>1, <2>4 DEF Telling, ToCome
    <3>2. QED
      BY <1>1, <2>1, <2>2, <3>1, CountKept
  <2>5. QED
    BY <2>3, <2>4
<1>5. ASSUME NEW h \in Handler, GetMembers(h) PROVE Counted(i, u)'
  <2>1. Telling(i, u)' \subseteq Telling(i, u)
    <3>1. h \in Telling(i, u)' => h \in Telling(i, u)
      BY <1>5 DEF GetMembers, queueVars, Telling
    <3>2. QED
      BY <1>1, <1>2, <1>5, <3>1, ActsAlone DEF Handle
  <2>2. made' = made /\ faults' = faults /\ ToCome(i)' = ToCome(i)
    BY <1>5 DEF GetMembers, queueVars, ToCome
  <2>3. QED
    BY <1>1, <2>1, <2>2, CountKept
<1>6. ASSUME NEW h \in Handler, DeleteByHousehold(h) \/ FinishHandler(h)
      PROVE  Counted(i, u)'
  <2>1. h \notin Telling(i, u)'
    <3>1. CASE DeleteByHousehold(h)
      BY <1>1, <3>1 DEF DeleteByHousehold, Goto, ControlInv, Telling, NoChain, TypeOK
    <3>2. CASE FinishHandler(h)
      BY <1>1, <3>2 DEF FinishHandler, Ack, Throw, Telling, TypeOK, QueueTypeOK
    <3>3. QED
      BY <1>6, <3>1, <3>2
  <2>2. Telling(i, u)' \subseteq Telling(i, u)
    BY <1>1, <1>2, <1>6, <2>1, ActsAlone DEF Handle
  <2>3. made' = made /\ faults' = faults
    BY <1>6 DEF DeleteByHousehold, FinishHandler, Ack, queueVars, history
  <2>4. deliv'[i] = deliv[i] \/ deliv'[i] = "acked"
    BY <1>1, <1>6
    DEF DeleteByHousehold, FinishHandler, Ack, Throw, queueVars, TypeOK, QueueTypeOK
  <2>5. QED
    BY <1>1, <2>2, <2>3, <2>4, CountKept DEF ToCome
<1>7. ASSUME NEW h \in Handler, NEW v \in User,
             GetPreferences(h, v) \/ Persist(h, v) \/ SendMail(h, v) \/ PersistFails(h, v)
      PROVE  Counted(i, u)'
  <2>1. pc[h] \in {"fan", "rejected"} /\ msg[h] \in MessageId /\ chain[h][v] # "over"
    BY <1>1, <1>7, Chaining, Working DEF GetPreferences, Persist, SendMail, PersistFails
  <2>2. /\ msg'[h] = msg[h] /\ pc'[h] # "members"
        /\ \A w \in User : w # v => chain'[h][w] = chain[h][w]
        /\ ToCome(i)' = ToCome(i) /\ faults <= faults'
    BY <1>1, <1>7, <2>1, Advances
    DEF GetPreferences, Persist, SendMail, PersistFails, queueVars, Goto, ToCome, Fault,
        Steps, TypeOK
  <2>3. Telling(i, u)' \ {h} = Telling(i, u) \ {h}
    BY <1>1, <1>2, <1>7, ActsAlone DEF Handle
  <2>4. chain'[h][v] \in {"prefs", "persist"} => chain[h][v] = "prefs"
    BY <1>1, <1>7, Advances DEF GetPreferences, Persist, SendMail, PersistFails, Steps
  <2>5. h \in Telling(i, u)' => h \in Telling(i, u)
    BY <2>2, <2>4 DEF Telling
  <2>6. Telling(i, u)' \subseteq Telling(i, u)
    BY <2>3, <2>5
  <2>7. CASE made' = made
    BY <1>1, <2>2, <2>6, <2>7, CountKept
  <2>8. CASE Persist(h, v)
    <3>1. made \in [MessageId -> [User -> Nat]]
          /\ made' = [made EXCEPT ![msg[h]][v] = @ + 1]
      BY <1>1, <2>8 DEF TypeOK, Persist
    <3>2. /\ made'[msg[h]][v] = made[msg[h]][v] + 1
          /\ \A j \in MessageId, w \in User : j # msg[h] \/ w # v => made'[j][w] = made[j][w]
      BY ONLY <2>1, <3>1, Counts
    <3>3. CASE i = msg[h] /\ u = v
      <4>1. h \in Telling(i, u)
        BY <2>8, <3>3 DEF Persist, Telling
      <4>2. h \notin Telling(i, u)'
        BY <1>1, <2>2, <2>8, <3>3, Advances DEF Persist, Telling, Steps
      <4>3. faults' = faults
        BY <2>8 DEF Persist, queueVars
      <4>4. QED
        BY <1>1, <2>2, <2>6, <3>2, <3>3, <4>1, <4>2, <4>3, CountMade
    <3>4. CASE i # msg[h] \/ u # v
      BY <1>1, <2>2, <2>6, <3>2, <3>4, CountKept
    <3>5. QED
      BY <3>3, <3>4
  <2>9. QED
    BY <1>7, <2>7, <2>8 DEF GetPreferences, SendMail, PersistFails, history
<1>8. CASE RestartService \/ LoseChannel
  <2>1. faults' = faults + 1 /\ made' = made
    BY <1>8 DEF RestartService, LoseChannel, Crash, DropChannel, Fault, history, ownVars
  <2>2. Telling(i, u)' \subseteq Telling(i, u)
    BY <1>8
    DEF RestartService, LoseChannel, Crash, DropChannel, Fault, ownVars, Telling, NoChain
  <2>3. QED
    BY <1>1, <2>1, <2>2, CountKept
<1>9. CASE UNCHANGED <<queueVars, pc, chain, made>>
  <2>1. Telling(i, u)' = Telling(i, u) /\ ToCome(i)' = ToCome(i)
    BY <1>9 DEF Telling, ToCome, queueVars
  <2>2. QED
    BY <1>1, <1>9, <2>1, CountKept DEF queueVars
<1>10. QED
  BY <1>3, <1>4, <1>5, <1>6, <1>7, <1>8, <1>9
  DEF Next, Handle, FindNotification, SaveRead, vars, ownVars, history

MailCounted(i, u) ==
  /\ IsFiniteSet(Mailing(i, u))
  /\ mailed[i][u] + Cardinality(Mailing(i, u)) <= made[i][u]

\* Nobody more is mailing.
LEMMA MailKept ==
  ASSUME IInv, [Next]_vars, NEW i \in MessageId, NEW u \in User, MailCounted(i, u),
         Mailing(i, u)' \subseteq Mailing(i, u), mailed'[i][u] = mailed[i][u]
  PROVE  MailCounted(i, u)'
<1>1. IsFiniteSet(Mailing(i, u))
      /\ mailed[i][u] + Cardinality(Mailing(i, u)) <= made[i][u]
  BY DEF MailCounted
<1>2. /\ IsFiniteSet(Mailing(i, u)') /\ Cardinality(Mailing(i, u)') \in Nat
      /\ Cardinality(Mailing(i, u)) \in Nat
      /\ Cardinality(Mailing(i, u)') <= Cardinality(Mailing(i, u))
  BY <1>1, FS_Subset, FS_CardinalityType
<1>3. mailed[i][u] \in Nat
  BY DEF IInv, TypeOK
<1>4. made[i][u] \in Nat /\ made'[i][u] \in Nat /\ made[i][u] <= made'[i][u]
  BY HistoryGrows
<1>5. QED
  BY <1>1, <1>2, <1>3, <1>4 DEF MailCounted

LEMMA MailStep == IInv /\ [Next]_vars => MailInv'
<1> SUFFICES ASSUME IInv, [Next]_vars, NEW i \in MessageId, NEW u \in User
             PROVE  /\ i \notin DOMAIN log' => mailed'[i][u] = 0
                    /\ i \in DOMAIN log' /\ log'[i].kind = "budget" => MailCounted(i, u)'
  BY DEF MailInv, MailCounted
<1>1. /\ TypeOK /\ ControlInv /\ QueueInv /\ EventsKept
      /\ i # 0 /\ made[i][u] \in Nat /\ mailed[i][u] \in Nat
      /\ mailed \in [MessageId -> [User -> Nat]] /\ made \in [MessageId -> [User -> Nat]]
  <2>1. TypeOK /\ ControlInv /\ QueueInv /\ EventsKept
    BY Keeping DEF IInv
  <2>2. mailed \in [MessageId -> [User -> Nat]] /\ made \in [MessageId -> [User -> Nat]]
    BY <2>1 DEF TypeOK
  <2>3. made[i][u] \in Nat /\ mailed[i][u] \in Nat
    BY <2>2
  <2>4. QED
    BY <2>1, <2>2, <2>3, BoundsAssumption DEF MessageId
<1>2. /\ i \notin DOMAIN log => mailed[i][u] = 0
      /\ i \in DOMAIN log /\ log[i].kind = "budget" => MailCounted(i, u)
      /\ i \in DOMAIN log => i \in DOMAIN log' /\ log'[i] = log[i]
  BY <1>1 DEF IInv, MailInv, MailCounted, EventsKept
\* Whatever keeps the mails, and adds to those who send them nobody who could
\* send one about a budget.
<1>3. ASSUME mailed'[i][u] = mailed[i][u],
             i \in DOMAIN log /\ log[i].kind = "budget" =>
               Mailing(i, u)' \subseteq Mailing(i, u),
             i \in DOMAIN log' /\ i \notin DOMAIN log => Mailing(i, u)' = {}
      PROVE  /\ i \notin DOMAIN log' => mailed'[i][u] = 0
             /\ i \in DOMAIN log' /\ log'[i].kind = "budget" => MailCounted(i, u)'
  <2>1. CASE i \in DOMAIN log
    BY <1>2, <1>3, <2>1, MailKept
  <2>2. CASE i \notin DOMAIN log
    <3>1. mailed'[i][u] = 0 /\ (i \in DOMAIN log' => Mailing(i, u)' = {})
      BY <1>2, <1>3, <2>2
    <3>2. IsFiniteSet({}) /\ Cardinality({}) = 0
      BY FS_EmptySet
    <3>3. made'[i][u] \in Nat
      BY HistoryGrows
    <3>4. QED
      BY <3>1, <3>2, <3>3 DEF MailCounted
  <2>3. QED
    BY <2>1, <2>2
<1>4. ASSUME NEW h \in Handler, Alone(h)
      PROVE  Mailing(i, u)' \ {h} = Mailing(i, u) \ {h}
  BY <1>4 DEF Alone, Mailing
<1>5. i \notin DOMAIN log => Mailing(i, u) = {}
  BY <1>1 DEF QueueInv, DeliveriesInv, QueueTypeOK, Mailing
<1>6. CASE PublishEvent
  <2>1. Mailing(i, u)' = Mailing(i, u) /\ mailed' = mailed
    BY <1>6 DEF PublishEvent, Publish, ownVars, Mailing
  <2>2. QED
    BY <1>3, <1>5, <2>1
<1>7. ASSUME NEW h \in Handler, Handle(h), mailed' = mailed,
             i \in DOMAIN log /\ log[i].kind = "budget" /\ h \in Mailing(i, u)'
               => h \in Mailing(i, u)
      PROVE  /\ i \notin DOMAIN log' => mailed'[i][u] = 0
             /\ i \in DOMAIN log' /\ log'[i].kind = "budget" => MailCounted(i, u)'
  BY <1>1, <1>3, <1>4, <1>7, ActsAlone
<1>8. ASSUME NEW h \in Handler, StartHandler(h)
      PROVE  /\ mailed' = mailed
             /\ i \in DOMAIN log /\ log[i].kind = "budget" => h \notin Mailing(i, u)'
  <2>1. PICK j \in DOMAIN log :
          /\ msg'[h] = j
          /\ chain'[h] = [v \in User |-> IF v = log[j].user THEN FirstStep[log[j].kind]
                                         ELSE "over"]
          /\ UNCHANGED <<log, faults, tables, history>>
    BY <1>8, Starts
  <2>2. log[j].kind = "budget" => chain'[h][u] = "over"
    BY <2>1 DEF FirstStep
  <2>3. QED
    BY <2>1, <2>2 DEF Mailing, history
<1>9. ASSUME NEW h \in Handler, GetMembers(h) \/ DeleteByHousehold(h) \/ FinishHandler(h)
      PROVE  mailed' = mailed /\ h \notin Mailing(i, u)'
  <2>1. CASE GetMembers(h)
    BY <1>1, <2>1 DEF GetMembers, TypeOK, Mailing
  <2>2. CASE DeleteByHousehold(h)
    BY <1>1, <2>2 DEF DeleteByHousehold, ControlInv, NoChain, Mailing
  <2>3. CASE FinishHandler(h)
    BY <1>1, <2>3 DEF FinishHandler, history, Ack, Throw, TypeOK, QueueTypeOK, Mailing
  <2>4. QED
    BY <1>9, <2>1, <2>2, <2>3
<1>10. ASSUME NEW h \in Handler, NEW v \in User, GetPreferences(h, v) \/ PersistFails(h, v)
       PROVE  mailed' = mailed /\ (h \in Mailing(i, u)' => h \in Mailing(i, u))
  <2>1. mailed' = mailed /\ msg'[h] = msg[h]
    BY <1>10 DEF GetPreferences, PersistFails, history, queueVars
  <2>2. chain'[h][v] # "mail" /\ (u # v => chain'[h][u] = chain[h][u])
    BY <1>1, <1>10, Advances DEF GetPreferences, PersistFails, Steps
  <2>3. QED
    BY <2>1, <2>2 DEF Mailing
<1>11. ASSUME NEW h \in Handler, NEW v \in User, Persist(h, v)
       PROVE  /\ i \notin DOMAIN log' => mailed'[i][u] = 0
              /\ i \in DOMAIN log' /\ log'[i].kind = "budget" => MailCounted(i, u)'
  <2>1. msg[h] \in MessageId /\ msg[h] \in DOMAIN log
    BY <1>1, <1>11, Chaining, Working DEF Persist
  <2>2. mailed' = mailed /\ msg'[h] = msg[h] /\ log' = log /\ Handle(h)
    BY <1>11 DEF Persist, queueVars, Handle
  <2>3. /\ chain'[h][v] = IF event(h).kind = "budget" THEN "mail" ELSE "over"
        /\ u # v => chain'[h][u] = chain[h][u]
    BY <1>1, <1>11, Advances DEF Persist, Steps
  <2>4. CASE i # msg[h] \/ u # v
    BY <1>7, <2>2, <2>3, <2>4 DEF Mailing
  <2>5. CASE i = msg[h] /\ u = v /\ log[i].kind # "budget"
    BY <1>7, <2>2, <2>5
  <2>6. CASE i = msg[h] /\ u = v /\ log[i].kind = "budget"
    <3>1. IsFiniteSet(Mailing(i, u))
          /\ mailed[i][u] + Cardinality(Mailing(i, u)) <= made[i][u]
      BY <1>2, <2>1, <2>6 DEF MailCounted
    <3>2. Mailing(i, u)' \subseteq Mailing(i, u) \cup {h}
      BY <1>1, <1>4, <2>2, ActsAlone
    <3>3. Cardinality(Mailing(i, u)) \in Nat
      BY <3>1, FS_CardinalityType
    <3>4. /\ IsFiniteSet(Mailing(i, u) \cup {h})
          /\ Cardinality(Mailing(i, u) \cup {h}) =
               IF h \in Mailing(i, u) THEN Cardinality(Mailing(i, u))
               ELSE Cardinality(Mailing(i, u)) + 1
      BY <3>1, FS_AddElement
    <3>5. /\ IsFiniteSet(Mailing(i, u)') /\ Cardinality(Mailing(i, u)') \in Nat
          /\ Cardinality(Mailing(i, u)') <= Cardinality(Mailing(i, u) \cup {h})
      BY <3>2, <3>4, FS_Subset, FS_CardinalityType
    <3>6. made' = [made EXCEPT ![i][u] = @ + 1]
      BY <1>11, <2>6 DEF Persist
    <3>7. made'[i][u] = made[i][u] + 1
      BY ONLY <1>1, <3>6, Counts
    <3>8. MailCounted(i, u)'
      BY <1>1, <2>2, <3>1, <3>3, <3>4, <3>5, <3>7 DEF MailCounted
    <3>9. QED
      BY <2>1, <2>2, <2>6, <3>8
  <2>7. QED
    BY <2>4, <2>5, <2>6
<1>12. ASSUME NEW h \in Handler, NEW v \in User, SendMail(h, v)
       PROVE  /\ i \notin DOMAIN log' => mailed'[i][u] = 0
              /\ i \in DOMAIN log' /\ log'[i].kind = "budget" => MailCounted(i, u)'
  <2>1. msg[h] \in MessageId /\ msg[h] \in DOMAIN log
    BY <1>1, <1>12, Chaining, Working DEF SendMail
  <2>2. made' = made /\ msg'[h] = msg[h] /\ log' = log /\ Handle(h)
    BY <1>12 DEF SendMail, queueVars, Handle
  <2>3. /\ chain'[h][v] = "over" /\ chain[h][v] = "mail"
        /\ u # v => chain'[h][u] = chain[h][u]
    BY <1>1, <1>12, Advances DEF SendMail, Steps
  <2>4. Mailing(i, u)' \subseteq Mailing(i, u)
    <3>1. h \in Mailing(i, u)' => h \in Mailing(i, u)
      BY <2>2, <2>3 DEF Mailing
    <3>2. QED
      BY <1>1, <1>4, <2>2, <3>1, ActsAlone
  <2>5. CASE mailed' = mailed
    BY <1>3, <1>5, <2>4, <2>5
  <2>6. CASE mailed' = [mailed EXCEPT ![msg[h]][v] = @ + 1]
    <3>1. /\ mailed'[msg[h]][v] = mailed[msg[h]][v] + 1
          /\ \A j \in MessageId, w \in User :
               j # msg[h] \/ w # v => mailed'[j][w] = mailed[j][w]
      BY ONLY <1>1, <2>1, <2>6, Counts
    <3>2. CASE i # msg[h] \/ u # v
      BY <1>3, <1>5, <2>4, <3>1, <3>2
    <3>3. CASE i = msg[h] /\ u = v /\ log[i].kind = "budget"
      <4>1. IsFiniteSet(Mailing(i, u))
            /\ mailed[i][u] + Cardinality(Mailing(i, u)) <= made[i][u]
        BY <1>2, <2>1, <3>3 DEF MailCounted
      <4>2. h \in Mailing(i, u) /\ h \notin Mailing(i, u)'
        BY <2>2, <2>3, <3>3 DEF Mailing
      <4>3. Cardinality(Mailing(i, u)) \in Nat
        BY <4>1, FS_CardinalityType
      <4>4. /\ IsFiniteSet(Mailing(i, u) \ {h})
            /\ Cardinality(Mailing(i, u) \ {h}) = Cardinality(Mailing(i, u)) - 1
        BY <4>1, <4>2, FS_RemoveElement
      <4>5. /\ IsFiniteSet(Mailing(i, u)') /\ Cardinality(Mailing(i, u)') \in Nat
            /\ Cardinality(Mailing(i, u)') <= Cardinality(Mailing(i, u) \ {h})
        BY <2>4, <4>2, <4>4, FS_Subset, FS_CardinalityType
      <4>6. MailCounted(i, u)'
        BY <1>1, <2>2, <3>1, <3>3, <4>1, <4>3, <4>4, <4>5 DEF MailCounted
      <4>7. QED
        BY <2>1, <2>2, <3>3, <4>6
    <3>4. CASE i = msg[h] /\ u = v /\ log[i].kind # "budget"
      BY <2>1, <2>2, <3>4
    <3>5. QED
      BY <3>2, <3>3, <3>4
  <2>7. QED
    BY <1>12, <2>5, <2>6 DEF SendMail
<1>13. CASE RestartService \/ LoseChannel
  <2>1. mailed' = mailed
    BY <1>13 DEF RestartService, LoseChannel, history, ownVars
  <2>2. Mailing(i, u)' \subseteq Mailing(i, u)
    BY <1>13 DEF RestartService, LoseChannel, Crash, DropChannel, ownVars, Mailing, NoChain
  <2>3. QED
    BY <1>3, <1>5, <2>1, <2>2
<1>14. CASE UNCHANGED <<queueVars, pc, chain, mailed>>
  <2>1. Mailing(i, u)' = Mailing(i, u)
    BY <1>14 DEF Mailing, queueVars
  <2>2. QED
    BY <1>3, <1>5, <1>14, <2>1
<1>15. ASSUME NEW h \in Handler, Handle(h)
       PROVE  /\ i \notin DOMAIN log' => mailed'[i][u] = 0
              /\ i \in DOMAIN log' /\ log'[i].kind = "budget" => MailCounted(i, u)'
  BY <1>7, <1>8, <1>9, <1>10, <1>11, <1>12, <1>15 DEF Handle
<1>16. QED
  BY <1>6, <1>13, <1>14, <1>15
  DEF Next, FindNotification, SaveRead, vars, ownVars, history

-----------------------------------------------------------------------------
(* What was erased is not made again *)

LEMMA ErasedStep == IInv /\ [Next]_vars => ErasedInv'
<1> SUFFICES ASSUME IInv, [Next]_vars PROVE ErasedInv'
  OBVIOUS
<1>1. TypeOK /\ ControlInv /\ QueueInv /\ ErasedInv
  BY DEF IInv
<1> DEFINE Rest(i) == deliv[i] = "acked" /\ \A h \in Handler : msg[h] # i
<1>2. /\ \A i \in settled : i \in MessageId /\ Rest(i)
      /\ \A n \in rows : n.event \in settled => n \in restored
  BY <1>1 DEF ErasedInv, ErasedForGood, TypeOK
<1>3. ASSUME NEW i \in MessageId, Rest(i) PROVE Rest(i)'
  <2>1. CASE PublishEvent
    <3>1. i \in 1..Len(log) /\ Len(log) \in Nat
      BY <1>1, <1>3 DEF QueueInv, DeliveriesInv, QueueTypeOK
    <3>2. QED
      BY <1>1, <1>3, <2>1, <3>1 DEF PublishEvent, Publish, TypeOK, QueueTypeOK
  <2>2. ASSUME NEW h \in Handler, StartHandler(h) PROVE Rest(i)'
    <3>1. PICK j \in DOMAIN log :
            /\ j \in MessageId /\ deliv[j] = "queued" /\ deliv' = [deliv EXCEPT ![j] = "unacked"]
            /\ msg[h] = 0 /\ msg'[h] = j
            /\ UNCHANGED <<log, faults, tables, history>>
      BY <2>2, Starts
    <3>2. Alone(h)
      BY <1>1, <2>2, ActsAlone DEF Handle
    <3>3. QED
      BY <1>1, <1>3, <3>1, <3>2 DEF Alone, TypeOK, QueueTypeOK
  <2>3. ASSUME NEW h \in Handler, FinishHandler(h) PROVE Rest(i)'
    BY <1>1, <1>3, <2>3, BoundsAssumption
    DEF FinishHandler, Ack, Throw, MessageId, TypeOK, QueueTypeOK
  <2>4. CASE RestartService \/ LoseChannel
    BY <1>1, <1>3, <2>4, BoundsAssumption
    DEF RestartService, LoseChannel, Crash, DropChannel, Requeued, MessageId, TypeOK,
        QueueTypeOK
  <2>5. CASE UNCHANGED <<deliv, msg>>
    BY <1>3, <2>5
  <2>6. ASSUME NEW h \in Handler, Handle(h) PROVE Rest(i)'
    BY <2>2, <2>3, <2>5, <2>6
    DEF Handle, GetMembers, DeleteByHousehold, GetPreferences, Persist, SendMail,
        PersistFails, queueVars
  <2>7. QED
    BY <2>1, <2>4, <2>5, <2>6 DEF Next, FindNotification, SaveRead, vars, queueVars
<1>4. ASSUME NEW h \in Handler, DeleteByHousehold(h) PROVE ErasedInv'
  BY <1>1, <1>4
  DEF DeleteByHousehold, ErasedInv, ErasedForGood, queueVars
<1>5. CASE UNCHANGED settled
  <2>1. \A i \in settled' : Rest(i)'
    BY <1>2, <1>3, <1>5
  <2>2. ErasedForGood'
    <3>1. ASSUME NEW h \in Handler, NEW u \in User, Persist(h, u) PROVE ErasedForGood'
      <4>1. NewRow(h, u).event \notin settled
        BY <1>2 DEF NewRow
      <4>2. QED
        BY <1>2, <3>1, <4>1 DEF Persist, ErasedForGood
    <3>2. CASE SaveRead
      BY <1>2, <3>2 DEF SaveRead, ErasedForGood
    <3>3. CASE UNCHANGED <<rows, restored>>
      BY <1>2, <1>5, <3>3 DEF ErasedForGood
    <3>4. ASSUME NEW h \in Handler, Handle(h), \A u \in User : ~Persist(h, u),
                 ~DeleteByHousehold(h)
          PROVE  UNCHANGED <<rows, restored>>
      BY <3>4
      DEF Handle, StartHandler, GetMembers, FinishHandler, GetPreferences, SendMail,
          PersistFails, tables, history
    <3>5. ASSUME NEW h \in Handler, DeleteByHousehold(h) PROVE ErasedForGood'
      BY <1>4, <3>5 DEF ErasedInv
    <3>6. QED
      BY <3>1, <3>2, <3>3, <3>4, <3>5
      DEF Next, PublishEvent, RestartService, LoseChannel, FindNotification, vars, ownVars,
          history
  <2>3. QED
    BY <2>1, <2>2 DEF ErasedInv
<1>6. ASSUME NEW h \in Handler, Handle(h), ~DeleteByHousehold(h) PROVE UNCHANGED settled
  BY <1>6
  DEF Handle, StartHandler, GetMembers, FinishHandler, GetPreferences, Persist, SendMail,
      PersistFails, history
<1>7. QED
  BY <1>4, <1>5, <1>6
  DEF Next, PublishEvent, RestartService, LoseChannel, FindNotification, SaveRead, vars,
      ownVars, history

-----------------------------------------------------------------------------
(* Theorems *)

LEMMA Initially == Init => IInv
<1> SUFFICES ASSUME Init PROVE IInv
  OBVIOUS
<1>1. QueueInv
  BY QueueInvInit DEF Init
<1>2. /\ deliv = [i \in MessageId |-> "none"] /\ msg = [h \in Handler |-> 0]
      /\ log = <<>> /\ faults = 0
      /\ pc = [h \in Handler |-> "free"] /\ chain = [h \in Handler |-> NoChain]
      /\ made = [i \in MessageId |-> [u \in User |-> 0]] /\ mailed = made
  BY DEF Init, QueueInit
<1>3. TypeOK
  BY <1>1 DEF Init, TypeOK, QueueInv, NoChain, Steps
<1>4. ControlInv /\ ToldInv
  BY <1>2 DEF ControlInv, ToldInv
<1>5. ASSUME NEW i \in MessageId, NEW u \in User
      PROVE  /\ Telling(i, u) = {} /\ Mailing(i, u) = {}
             /\ made[i][u] = 0 /\ mailed[i][u] = 0 /\ ToCome(i) = 1
  BY <1>2 DEF Telling, Mailing, NoChain, ToCome
<1>6. IsFiniteSet({}) /\ Cardinality({}) = 0
  BY FS_EmptySet
<1>7. CountInv
  <2> SUFFICES ASSUME NEW i \in MessageId, NEW u \in User
               PROVE  /\ IsFiniteSet(Telling(i, u))
                      /\ made[i][u] + Cardinality(Telling(i, u)) + ToCome(i) <= 1 + faults
    BY DEF CountInv
  <2>1. IsFiniteSet(Telling(i, u)) /\ Cardinality(Telling(i, u)) = 0
    BY <1>5, <1>6
  <2>2. made[i][u] = 0 /\ ToCome(i) = 1 /\ faults = 0
    BY <1>2, <1>5
  <2>3. QED
    BY <2>1, <2>2
<1>8. MailInv
  BY <1>2, <1>5 DEF MailInv
<1>9. ErasedInv
  BY DEF Init, ErasedInv, ErasedForGood
<1>10. QED
  BY <1>1, <1>3, <1>4, <1>7, <1>8, <1>9 DEF IInv

\* The inductive invariant holds, whatever fails and however the chains of
\* Promise.all interleave.
THEOREM Invariance == Spec => []IInv
<1>1. Init => IInv
  BY Initially
<1>2. IInv /\ [Next]_vars => IInv'
  BY TypeStep, QueueStep, ControlStep, ToldStep, CountStep, MailStep, ErasedStep DEF IInv
<1>3. QED
  BY <1>1, <1>2, PTL DEF Spec

\* Types: every notification is one of a published event for a user.
THEOREM TypeCorrect == Spec => []TypeOK
<1>1. IInv => TypeOK
  BY DEF IInv
<1>2. QED
  BY <1>1, Invariance, PTL

\* NotificationConsumer has no guard against redelivery, and still tells everybody
\* an event concerns, once per delivery of it, and mails no more than it tells.
THEOREM OncePerDelivery == Spec => []ToldOncePerDelivery
<1>1. IInv => ToldOncePerDelivery
  <2> SUFFICES ASSUME IInv, NEW i \in DOMAIN log, NEW u \in User
               PROVE  /\ deliv[i] = "acked" =>
                           /\ log[i].kind = "budget" => made[i][u] > 0 \/ <<i, u>> \in excused
                           /\ log[i].kind = "memberJoined" /\ log[i].user = u => made[i][u] > 0
                      /\ made[i][u] <= 1 + faults
                      /\ log[i].kind = "budget" => mailed[i][u] <= made[i][u]
    BY DEF ToldOncePerDelivery
  <2>1. i \in MessageId
    BY BoundsAssumption DEF IInv, QueueInv, QueueTypeOK, MessageId
  <2>2. made[i][u] \in Nat /\ mailed[i][u] \in Nat /\ faults \in Nat
    BY <2>1, BoundsAssumption DEF IInv, TypeOK, QueueTypeOK
  <2>3. made[i][u] <= 1 + faults
    <3>1. Cardinality(Telling(i, u)) \in Nat /\ ToCome(i) \in Nat
          /\ made[i][u] + Cardinality(Telling(i, u)) + ToCome(i) <= 1 + faults
      BY <2>1, FS_CardinalityType DEF IInv, CountInv, ToCome
    <3>2. QED
      BY <2>2, <3>1
  <2>4. log[i].kind = "budget" => mailed[i][u] <= made[i][u]
    <3>1. log[i].kind = "budget" =>
            /\ Cardinality(Mailing(i, u)) \in Nat
            /\ mailed[i][u] + Cardinality(Mailing(i, u)) <= made[i][u]
      BY <2>1, FS_CardinalityType DEF IInv, MailInv
    <3>2. QED
      BY <2>2, <3>1
  <2>5. QED
    BY <2>3, <2>4 DEF IInv, ToldInv, Told
<1>2. QED
  BY <1>1, Invariance, PTL

\* deleteByHousehold is final for all that was settled before it, but for the row
\* that a PATCH was about to save.
THEOREM ErasureLasts == Spec => []ErasedForGood
<1>1. IInv => ErasedForGood
  BY DEF IInv, ErasedInv
<1>2. QED
  BY <1>1, Invariance, PTL
=============================================================================
