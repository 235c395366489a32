---------------------------- MODULE AuditService ----------------------------
(***************************************************************************)
(* audit-service: the activity log.  Every handler is the same: one call   *)
(* of withIdempotency around one call of AuditService, then the ack.       *)
(*                                                                         *)
(* withIdempotency takes a connection of the pool and keeps it for its     *)
(* transaction.  The function it runs ignores that transaction: it goes    *)
(* through the repository, which takes a second connection for the time of *)
(* one statement and commits at once.  So what is logged stays logged when *)
(* the transaction around it is rolled back, and a handler needs two       *)
(* connections at the same time.  pg waits for a free one without limit.   *)
(***************************************************************************)
EXTENDS RabbitQueue, FiniteSets

CONSTANTS
  User, Household,
  None,         \* no user, no household: null or ''
  Pool          \* connections; ten by default

Acting == {"member", "reportExported", "dataExported"}
Logging == Acting \cup {"transaction", "thresholdExceeded"}
Kind == Logging \cup {"userDeleted", "householdDeleted"}

ASSUME AuditAssumption ==
  /\ Message \subseteq [kind: Kind, user: User, household: Household]
  /\ None \notin User \cup Household
  /\ Pool \in Nat \ {0}

VARIABLES
  processed,    \* processed_event_ids
  entries,      \* activity_logs
  pc,           \* what each handler waits for or is about to do
  logged,       \* history: rows inserted per event
  broken,       \* history: crashes and failing handlers
  overtaken     \* history: events logged after an erasure that came later

auditVars == <<processed, entries, pc, logged, broken, overtaken>>

\* A row of activity_logs; event and copy stand for its id.  Events carry no
\* actorName, so the name is a constant.
Entry == [event: MessageId, copy: Nat, user: User \cup {None},
          household: Household \cup {None},
          actor: {"Unknown", "System", "Deleted user"}]

AuditTypeOK ==
  /\ QueueTypeOK
  /\ processed \subseteq MessageId
  /\ entries \subseteq Entry
  /\ pc \in [Handler -> {"free", "connect", "claim", "run", "commit", "ack"}]
  /\ logged \in [MessageId -> Nat]
  /\ broken \in Nat
  /\ overtaken \subseteq MessageId

AuditInit ==
  /\ QueueInit
  /\ processed = {}
  /\ entries = {}
  /\ pc = [h \in Handler |-> "free"]
  /\ logged = [i \in MessageId |-> 0]
  /\ broken = 0
  /\ overtaken = {}

-----------------------------------------------------------------------------
event(h) == log[msg[h]]
Goto(h, step) == pc' = [pc EXCEPT ![h] = step]
Rest == <<processed, entries, logged, broken, overtaken>>

InTransaction == {"claim", "run", "commit"}
Busy == {h \in Handler : pc[h] \in InTransaction}
FreeConnections == Pool - Cardinality(Busy)

StartHandler(h) ==
  /\ \E i \in MessageId : Deliver(h, i)
  /\ Goto(h, "connect")
  /\ UNCHANGED Rest

\* createQueryRunner, connect, startTransaction
Connect(h) ==
  /\ pc[h] = "connect"
  /\ FreeConnections > 0
  /\ Goto(h, "claim")
  /\ UNCHANGED <<queueVars, Rest>>

IdTaken(h) ==
  \E g \in Handler \ {h} : msg[g] = msg[h] /\ pc[g] \in {"run", "commit"}

\* Mutant: the guard's key is made anew for each delivery.
ClaimFresh(h) ==
  /\ pc[h] = "claim"
  /\ Goto(h, "run")
  /\ UNCHANGED <<queueVars, Rest>>

\* The INSERT of 'audit:' + eventId; a duplicate is acked.
Claim(h) ==
  /\ pc[h] = "claim"
  /\ ~IdTaken(h)
  /\ Goto(h, IF msg[h] \in processed THEN "ack" ELSE "run")
  /\ UNCHANGED <<queueVars, Rest>>

\* The row log() inserts.  transaction.* events carry no userId, alerts belong
\* to nobody, and an export of user data to no household.
RowOf(i) ==
  [event     |-> i,
   copy      |-> logged[i],
   user      |-> IF log[i].kind \in Acting THEN log[i].user ELSE None,
   household |-> IF log[i].kind = "dataExported" THEN None ELSE log[i].household,
   actor     |-> IF log[i].kind = "thresholdExceeded" THEN "System" ELSE "Unknown"]

\* Would the erasure e have covered what event i logs?
Covers(e, i) ==
  \/ e.kind = "userDeleted" /\ RowOf(i).user = e.user
  \/ e.kind = "householdDeleted" /\ RowOf(i).household = e.household

Log(h) ==
  /\ event(h).kind \in Logging
  /\ entries' = entries \cup {RowOf(msg[h])}
  /\ logged' = [logged EXCEPT ![msg[h]] = @ + 1]
  /\ overtaken' = overtaken \cup
       {i \in {msg[h]} : \E j \in DOMAIN log :
          /\ Covers(log[j], i)
          /\ \/ j \in processed
             \/ \E g \in Handler : msg[g] = j /\ pc[g] = "commit"
             \/ logged[j] > 0}

\* Mutant: only the user is cleared where the name was stored.
HandleUserDeletedByName(h) ==
  /\ event(h).kind = "userDeleted"
  /\ entries' = {IF r.user = event(h).user /\ r.actor # "Unknown"
                 THEN [r EXCEPT !.user = None, !.actor = "Deleted user"]
                 ELSE r : r \in entries}
  /\ logged' = [logged EXCEPT ![msg[h]] = @ + 1]
  /\ UNCHANGED overtaken

HandleUserDeleted(h) ==
  /\ event(h).kind = "userDeleted"
  /\ entries' = {IF r.user = event(h).user
                 THEN [r EXCEPT !.user = None, !.actor = "Deleted user"]
                 ELSE r : r \in entries}
  /\ logged' = [logged EXCEPT ![msg[h]] = @ + 1]
  /\ UNCHANGED overtaken

DeleteHouseholdData(h) ==
  /\ event(h).kind = "householdDeleted"
  /\ entries' = {r \in entries : r.household # event(h).household}
  /\ logged' = [logged EXCEPT ![msg[h]] = @ + 1]
  /\ UNCHANGED overtaken

\* fn: one statement on a second connection, committed at once.
Run(h) ==
  /\ pc[h] = "run"
  /\ FreeConnections > 0
  /\ Log(h) \/ HandleUserDeleted(h) \/ DeleteHouseholdData(h)
  /\ Goto(h, "commit")
  /\ UNCHANGED <<queueVars, processed, broken>>

Commit(h) ==
  /\ pc[h] = "commit"
  /\ processed' = processed \cup {msg[h]}
  /\ Goto(h, "ack")
  /\ UNCHANGED <<queueVars, entries, logged, broken, overtaken>>

FinishHandler(h) ==
  /\ pc[h] = "ack"
  /\ Ack(h)
  /\ Goto(h, "free")
  /\ UNCHANGED Rest

\* A statement fails: the guard's transaction is rolled back, the row stays.
HandlerFails(h) ==
  /\ pc[h] \in InTransaction
  /\ Fault("throw")
  /\ Throw(h)
  /\ broken' = broken + 1
  /\ Goto(h, "free")
  /\ UNCHANGED <<processed, entries, logged, overtaken>>

RestartAudit ==
  /\ Crash
  /\ broken' = broken + 1
  /\ pc' = [h \in Handler |-> "free"]
  /\ UNCHANGED <<processed, entries, logged, overtaken>>

LoseChannel ==
  /\ DropChannel
  /\ UNCHANGED auditVars

Consumer(h) ==
  \/ StartHandler(h) \/ Connect(h) \/ Claim(h) \/ Run(h) \/ Commit(h)
  \/ FinishHandler(h)

AuditFailure == RestartAudit \/ LoseChannel \/ \E h \in Handler : HandlerFails(h)

-----------------------------------------------------------------------------
(* Reading the log *)

ListForHousehold(household) == {r \in entries : r.household = household}
ListForUser(user) == {r \in entries : r.user = user}

-----------------------------------------------------------------------------
(* Properties *)

\* What is acked was logged; and it was logged once, save once more for each
\* crash or failure that can have come between the row and the commit of the
\* guard (docs/edge-cases.md:540).
LoggedOnce ==
  \A i \in DOMAIN log :
    /\ logged[i] <= 1 + broken
    /\ deliv[i] = "acked" => logged[i] >= 1

\* Once everything is settled, a user who is gone and a household that is gone
\* have no entry left, except of events that were logged after the erasure
\* although they had been published before it, or that were published later
\* (docs/edge-cases.md:991).
ErasureHolds ==
  Quiet =>
    \A j \in DOMAIN log :
      /\ log[j].kind = "userDeleted" =>
           \A r \in ListForUser(log[j].user) : r.event \in overtaken
      /\ log[j].kind = "householdDeleted" =>
           \A r \in ListForHousehold(log[j].household) : r.event \in overtaken

\* Each connection of the pool is held by a handler that waits for a second one,
\* or for a handler that does: nothing but the end of the process helps.
Exhausted ==
  /\ Cardinality(Busy) = Pool
  /\ \A h \in Busy : pc[h] = "run" \/ (pc[h] = "claim" /\ IdTaken(h))

\* A handler has ended by an exception; its delivery waits for the channel to die.
Stranded(i) == deliv[i] = "unacked" /\ \A h \in Handler : msg[h] # i
=============================================================================
