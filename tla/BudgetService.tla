--------------------------- MODULE BudgetService ---------------------------
(***************************************************************************)
(* budget-service: spending totals kept from transaction.* events, spending *)
(* limits edited over HTTP, and the alerts raised when a total reaches 80% *)
(* or 100% of a limit.  One household.                                     *)
(*                                                                         *)
(* Every await of a handler is a step of its own.  The one exception is    *)
(* withIdempotency: its statements run in one database transaction, whose  *)
(* row locks make it take effect at its commit (Apply) or not at all.      *)
(*                                                                         *)
(* book is the producer's side (transaction-service), reduced to what      *)
(* makes the published events consistent with one another.                 *)
(***************************************************************************)
EXTENDS Postings, RabbitQueue

CONSTANTS
  Tx,           \* transactions of the household
  Limit,        \* limits a client can ask for (positive integers)
  MaxGen,       \* bound: budgets created per category, one after the other
  MaxOps,       \* bound: HTTP requests
  IntMax        \* the largest int4: spent_amount cannot exceed it

ASSUME BudgetAssumption ==
  /\ Message = Event
  /\ IsFiniteSet(Tx)
  /\ Limit \subseteq Nat \ {0}
  /\ MaxGen \in Nat \ {0}
  /\ MaxOps \in Nat
  /\ IntMax \in Nat

VARIABLES
  book,         \* transaction-service: what each transaction stands for now
  now,          \* the current month
  processed,    \* processed_event_ids
  spent,        \* budget_snapshots.spent_amount, 0 without a row
  snapRows,     \* the keys that have a row in budget_snapshots
  budgets,      \* budgets: per category the generation of its row, and limit
  gens,         \* budgets created so far, per category
  stateRows,    \* rows of budget_alert_state: <<category, generation, month>>
  warned,       \* those with warning_sent_at set
  exceeded,     \* those with exceeded_sent_at set
  pc,           \* the await each handler waits at
  view,         \* what each handler has read
  patch,        \* the PATCH request that is being served
  ops,          \* HTTP requests served
  applied,      \* history: how often each event has taken effect
  sent          \* history: alerts published per budget, month and level

rowVars    == <<processed, spent, snapRows>>
budgetVars == <<budgets, gens>>
alertVars  == <<stateRows, warned, exceeded>>
taskVars   == <<pc, view>>
httpVars   == <<patch, ops, now>>
ghostVars  == <<applied, sent>>
vars == <<queueVars, book, rowVars, budgetVars, alertVars, taskVars, httpVars,
          ghostVars>>

Level == {"warning", "exceeded"}
Gen == 1..MaxGen
StateKey == Category \X Gen \X Month
NoBudget == [gen |-> 0, limit |-> 0]
NoPatch == [step |-> "none", cat |-> Absent, gen |-> 0, limit |-> 0]
\* What a handler has read: the budget (its generation and limit), the total,
\* the alert it decided on, whether the state row it holds still exists; and,
\* for household.deleted, the ids of the budgets it found.
View == [gen: 0..MaxGen, limit: Limit \cup {0}, spent: Nat,
         level: Level \cup {"none"}, row: BOOLEAN,
         gone: SUBSET (Category \X Gen)]
Patch == [step: {"save", "reset"}, cat: Category, gen: Gen, limit: Limit]

NoView == [gen |-> 0, limit |-> 0, spent |-> 0, level |-> "none",
           row |-> FALSE, gone |-> {}]

Step == {"free", "apply", "budget", "snapshot", "state", "insertState",
         "mark", "emit", "ack",
         "list", "dropStates", "dropSnapshots", "dropBudgets"}

TypeOK ==
  /\ QueueTypeOK
  /\ book \in [Tx -> Posting]
  /\ now \in Month
  /\ processed \subseteq MessageId
  /\ spent \in [Key -> Nat]
  /\ snapRows \subseteq Key
  /\ budgets \in [Category -> {NoBudget} \cup [gen: Gen, limit: Limit]]
  /\ gens \in [Category -> 0..MaxGen]
  /\ stateRows \subseteq StateKey
  /\ warned \subseteq StateKey
  /\ exceeded \subseteq StateKey
  /\ pc \in [Handler -> Step]
  /\ view \in [Handler -> View]
  /\ patch \in Patch \cup {NoPatch}
  /\ ops \in 0..MaxOps
  /\ applied \in [MessageId -> Nat]
  /\ sent \in [StateKey \X Level -> Nat]

Init ==
  /\ QueueInit
  /\ book = [t \in Tx |-> Absent]
  /\ now = 1
  /\ processed = {}
  /\ spent = ZeroTotals
  /\ snapRows = {}
  \* limits set before the first event of the behaviour
  /\ gens \in [Category -> {0, 1}]
  /\ budgets \in [Category -> {NoBudget} \cup [gen: {1}, limit: Limit]]
  /\ \A c \in Category : budgets[c].gen = gens[c]
  /\ stateRows = {}
  /\ warned = {}
  /\ exceeded = {}
  /\ pc = [h \in Handler |-> "free"]
  /\ view = [h \in Handler |-> NoView]
  /\ patch = NoPatch
  /\ ops = 0
  /\ applied = [i \in MessageId |-> 0]
  /\ sent = [a \in StateKey \X Level |-> 0]

-----------------------------------------------------------------------------
(* The producers: transaction-service and household-service *)

PublishChange(t, kind, p) ==
  /\ Publish([kind |-> kind, prev |-> book[t], next |-> p])
  /\ book' = [book EXCEPT ![t] = p]
  /\ UNCHANGED <<rowVars, budgetVars, alertVars, taskVars, httpVars, ghostVars>>

CreateTransaction(t) ==
  /\ book[t] = Absent
  /\ \E p \in Posting \ {Absent} : PublishChange(t, "created", p)

UpdateTransaction(t) ==
  /\ book[t] # Absent
  /\ \E p \in Posting \ {Absent} : PublishChange(t, "updated", p)

DeleteTransaction(t) ==
  /\ book[t] # Absent
  /\ PublishChange(t, "deleted", Absent)

DeleteHousehold ==
  /\ \A i \in DOMAIN log : log[i].kind # "householdDeleted"
  /\ Publish([kind |-> "householdDeleted", prev |-> Absent, next |-> Absent])
  /\ UNCHANGED <<book, rowVars, budgetVars, alertVars, taskVars, httpVars,
                 ghostVars>>

-----------------------------------------------------------------------------
(* Consuming a transaction.* event *)

event(h) == log[msg[h]]
key(h) == event(h).next.key
Goto(h, step) == pc' = [pc EXCEPT ![h] = step]

FirstStep(e) ==
  IF Guarded(e) THEN "apply"
  ELSE IF e.kind = "householdDeleted" THEN "list" ELSE "ack"

StartHandler(h) ==
  \E i \in MessageId :
    /\ Deliver(h, i)
    /\ Goto(h, FirstStep(log[i]))
    /\ UNCHANGED <<book, rowVars, budgetVars, alertVars, view, httpVars,
                   ghostVars>>

\* An exception ends the handler, its delivery stays unacked.
EndByException(h) ==
  /\ Throw(h)
  /\ Goto(h, "free")
  /\ view' = [view EXCEPT ![h] = NoView]
  /\ UNCHANGED <<book, rowVars, budgetVars, alertVars, httpVars, ghostVars>>

\* checkThreshold follows unless the event only takes spending away.
AfterApply(e) == IF e.next \in Entry THEN "budget" ELSE "ack"

\* Mutant: no unique constraint on event_id.
IsNewAlways(i) == TRUE

\* The INSERT into processed_event_ids goes through.
IsNew(i) == i \notin processed

FitsInt4(total) == \A k \in Key : total[k] <= IntMax

Post(i) ==
  /\ IsNew(i)
  /\ FitsInt4(Posted(spent, log[i]))
  /\ processed' = processed \cup {i}
  /\ spent' = Posted(spent, log[i])
  /\ snapRows' = snapRows \cup (IF log[i].next \in Entry THEN {log[i].next.key}
                                ELSE {})
  /\ applied' = [applied EXCEPT ![i] = @ + 1]

\* A unique violation: somebody has processed the event, so it is safe to ack.
Skip(i) ==
  /\ ~IsNew(i)
  /\ UNCHANGED <<rowVars, applied>>

\* Mutant: checkThreshold runs only for an event that was not a duplicate.
ApplyChecksNewOnly(h) ==
  /\ pc[h] = "apply"
  /\ \/ Post(msg[h]) /\ Goto(h, AfterApply(event(h)))
     \/ Skip(msg[h]) /\ Goto(h, "ack")
  /\ UNCHANGED <<queueVars, book, budgetVars, alertVars, view, httpVars, sent>>

Apply(h) ==
  /\ pc[h] = "apply"
  /\ Post(msg[h]) \/ Skip(msg[h])
  /\ Goto(h, AfterApply(event(h)))
  /\ UNCHANGED <<queueVars, book, budgetVars, alertVars, view, httpVars, sent>>

\* PostgreSQL answers "integer out of range", at every redelivery again.
ApplyOverflows(h) ==
  /\ pc[h] = "apply"
  /\ IsNew(msg[h])
  /\ ~FitsInt4(Posted(spent, event(h)))
  /\ EndByException(h)
  /\ UNCHANGED faults

-----------------------------------------------------------------------------
(* checkThreshold *)

FindBudget(h) ==
  /\ pc[h] = "budget"
  /\ LET b == budgets[key(h).cat]
     IN  /\ view' = [view EXCEPT ![h].gen = b.gen, ![h].limit = b.limit]
         /\ Goto(h, IF b = NoBudget THEN "ack" ELSE "snapshot")
  /\ UNCHANGED <<queueVars, book, rowVars, budgetVars, alertVars, httpVars,
                 ghostVars>>

FindSnapshot(h) ==
  /\ pc[h] = "snapshot"
  /\ view' = [view EXCEPT ![h].spent = spent[key(h)]]
  /\ Goto(h, "state")
  /\ UNCHANGED <<queueVars, book, rowVars, budgetVars, alertVars, httpVars,
                 ghostVars>>

\* percentage >= percent, with percentage = spent / limit * 100
Reaches(amount, limit, percent) == amount * 100 >= limit * percent

\* The alert to raise, given which flags the state row has.
Alert(v, flags) ==
  IF Reaches(v.spent, v.limit, 100) /\ "exceeded" \notin flags THEN "exceeded"
  ELSE IF Reaches(v.spent, v.limit, 80) /\ "warning" \notin flags THEN "warning"
  ELSE "none"

AlertKey(h) == <<key(h).cat, view[h].gen, key(h).month>>

Flags(s) == (IF s \in warned THEN {"warning"} ELSE {})
            \cup (IF s \in exceeded THEN {"exceeded"} ELSE {})

\* With the state row at hand the handler decides at once.
Decide(h, flags) ==
  LET a == Alert(view[h], flags)
  IN  /\ view' = [view EXCEPT ![h].level = a, ![h].row = TRUE]
      /\ Goto(h, IF a = "none" THEN "ack" ELSE "mark")

FindState(h) ==
  /\ pc[h] = "state"
  /\ \/ /\ AlertKey(h) \in stateRows
        /\ Decide(h, Flags(AlertKey(h)))
     \/ /\ AlertKey(h) \notin stateRows
        /\ Goto(h, "insertState")
        /\ UNCHANGED view
  /\ UNCHANGED <<queueVars, book, rowVars, budgetVars, alertVars, httpVars,
                 ghostVars>>

InsertState(h) ==
  /\ pc[h] = "insertState"
  /\ AlertKey(h) \notin stateRows
  /\ stateRows' = stateRows \cup {AlertKey(h)}
  /\ Decide(h, {})
  /\ UNCHANGED <<queueVars, book, rowVars, budgetVars, warned, exceeded,
                 httpVars, ghostVars>>

\* Another handler inserted the row first: unique violation, not caught.
InsertStateFails(h) ==
  /\ pc[h] = "insertState"
  /\ AlertKey(h) \in stateRows
  /\ EndByException(h)
  /\ UNCHANGED faults

\* Mutant: the flag is never stored.
MarkSentForgets(h) ==
  /\ pc[h] = "mark"
  /\ Goto(h, "emit")
  /\ UNCHANGED <<queueVars, book, rowVars, budgetVars, alertVars, view,
                 httpVars, ghostVars>>

MarkSent(h) ==
  /\ pc[h] = "mark"
  /\ LET hit == IF view[h].row THEN {AlertKey(h)} ELSE {}
     IN  IF view[h].level = "exceeded"
         THEN exceeded' = exceeded \cup hit /\ UNCHANGED warned
         ELSE warned' = warned \cup hit /\ UNCHANGED exceeded
  /\ Goto(h, "emit")
  /\ UNCHANGED <<queueVars, book, rowVars, budgetVars, stateRows, view,
                 httpVars, ghostVars>>

\* Mutant: the exceeded branch stores its flag and forgets to emit.
EmitWarningsOnly(h) ==
  /\ pc[h] = "emit"
  /\ sent' = IF view[h].level = "exceeded" THEN sent
             ELSE [sent EXCEPT ![<<AlertKey(h), view[h].level>>] = @ + 1]
  /\ Goto(h, "ack")
  /\ UNCHANGED <<queueVars, book, rowVars, budgetVars, alertVars, view,
                 httpVars, applied>>

EmitAlert(h) ==
  /\ pc[h] = "emit"
  /\ sent' = [sent EXCEPT ![<<AlertKey(h), view[h].level>>] = @ + 1]
  /\ Goto(h, "ack")
  /\ UNCHANGED <<queueVars, book, rowVars, budgetVars, alertVars, view,
                 httpVars, applied>>

\* Mutant: the early return for an income forgets to ack.
FinishHandlerKeepsIncome(h) ==
  /\ pc[h] = "ack"
  /\ IF event(h).kind = "created" /\ event(h).next = Income
     THEN Throw(h) /\ UNCHANGED faults ELSE Ack(h)
  /\ Goto(h, "free")
  /\ view' = [view EXCEPT ![h] = NoView]
  /\ UNCHANGED <<book, rowVars, budgetVars, alertVars, httpVars, ghostVars>>

FinishHandler(h) ==
  /\ pc[h] = "ack"
  /\ Ack(h)
  /\ Goto(h, "free")
  /\ view' = [view EXCEPT ![h] = NoView]
  /\ UNCHANGED <<book, rowVars, budgetVars, alertVars, httpVars, ghostVars>>

-----------------------------------------------------------------------------
(* Consuming household.deleted: four statements, no transaction around them *)

\* Mutant: the alert states are left behind.
ListBudgetsNoStates(h) ==
  /\ pc[h] = "list"
  /\ Goto(h, "dropSnapshots")
  /\ UNCHANGED <<queueVars, book, rowVars, budgetVars, alertVars, view,
                 httpVars, ghostVars>>

ListBudgets(h) ==
  /\ pc[h] = "list"
  /\ LET ids == {<<c, budgets[c].gen>> : c \in {d \in Category :
                                                  budgets[d] # NoBudget}}
     IN  /\ view' = [view EXCEPT ![h].gone = ids]
         /\ Goto(h, IF ids = {} THEN "dropSnapshots" ELSE "dropStates")
  /\ UNCHANGED <<queueVars, book, rowVars, budgetVars, alertVars, httpVars,
                 ghostVars>>

StatesOf(ids) == {s \in StateKey : <<s[1], s[2]>> \in ids}

\* A handler that has read one of these rows keeps the id of a deleted row.
DropStates(h) ==
  /\ pc[h] = "dropStates"
  /\ LET rows == StatesOf(view[h].gone)
     IN  /\ stateRows' = stateRows \ rows
         /\ warned' = warned \ rows
         /\ exceeded' = exceeded \ rows
         /\ view' = [g \in Handler |->
                       IF pc[g] = "mark" /\ AlertKey(g) \in rows
                       THEN [view[g] EXCEPT !.row = FALSE] ELSE view[g]]
  /\ Goto(h, "dropSnapshots")
  /\ UNCHANGED <<queueVars, book, rowVars, budgetVars, httpVars, ghostVars>>

DropSnapshots(h) ==
  /\ pc[h] = "dropSnapshots"
  /\ spent' = ZeroTotals
  /\ snapRows' = {}
  /\ Goto(h, "dropBudgets")
  /\ UNCHANGED <<queueVars, book, processed, budgetVars, alertVars, view,
                 httpVars, ghostVars>>

DropBudgets(h) ==
  /\ pc[h] = "dropBudgets"
  /\ budgets' = [c \in Category |-> NoBudget]
  /\ Goto(h, "ack")
  /\ UNCHANGED <<queueVars, book, rowVars, gens, alertVars, view, httpVars,
                 ghostVars>>

-----------------------------------------------------------------------------
(* HTTP: POST, PATCH and DELETE /budgets *)

Request == ops < MaxOps /\ ops' = ops + 1

\* The unique constraint makes the check and the insert one step.
CreateBudget(c, limit) ==
  /\ Request
  /\ budgets[c] = NoBudget
  /\ gens[c] < MaxGen
  /\ gens' = [gens EXCEPT ![c] = @ + 1]
  /\ budgets' = [budgets EXCEPT ![c] = [gen |-> gens[c] + 1, limit |-> limit]]
  /\ UNCHANGED <<queueVars, book, rowVars, alertVars, taskVars, patch, now,
                 ghostVars>>

RemoveBudget(c) ==
  /\ Request
  /\ budgets[c] # NoBudget
  /\ budgets' = [budgets EXCEPT ![c] = NoBudget]
  /\ UNCHANGED <<queueVars, book, rowVars, gens, alertVars, taskVars, patch,
                 now, ghostVars>>

PatchFind(c, limit) ==
  /\ Request
  /\ patch = NoPatch
  /\ budgets[c] # NoBudget
  /\ patch' = [step |-> "save", cat |-> c, gen |-> budgets[c].gen,
               limit |-> limit]
  /\ UNCHANGED <<queueVars, book, rowVars, budgetVars, alertVars, taskVars,
                 now, ghostVars>>

\* save() updates the row, or inserts it again when it was removed meanwhile;
\* a newer budget of the category makes that insert fail.
PatchSave ==
  /\ patch.step = "save"
  /\ \/ /\ budgets[patch.cat].gen \in {0, patch.gen}
        /\ budgets' = [budgets EXCEPT ![patch.cat] =
                         [gen |-> patch.gen, limit |-> patch.limit]]
        /\ patch' = [patch EXCEPT !.step = "reset"]
     \/ /\ budgets[patch.cat].gen \notin {0, patch.gen}
        /\ patch' = NoPatch
        /\ UNCHANGED budgets
  /\ UNCHANGED <<queueVars, book, rowVars, gens, alertVars, taskVars, ops, now,
                 ghostVars>>

PatchReset ==
  /\ patch.step = "reset"
  /\ LET s == <<patch.cat, patch.gen, now>>
     IN  /\ warned' = warned \ {s}
         /\ exceeded' = exceeded \ {s}
  /\ patch' = NoPatch
  /\ UNCHANGED <<queueVars, book, rowVars, budgetVars, stateRows, taskVars,
                 ops, now, ghostVars>>

-----------------------------------------------------------------------------
(* Time and failures *)

NewMonth ==
  /\ now < MaxMonth
  /\ now' = now + 1
  /\ UNCHANGED <<queueVars, book, rowVars, budgetVars, alertVars, taskVars,
                 patch, ops, ghostVars>>

\* Nobody will ever handle message i again.
Finished(i) == deliv[i] = "acked" /\ \A h \in Handler : msg[h] # i

\* The nightly cron drops ids older than seven days.  Deliveries are assumed to
\* be over by then, as docs/edge-cases.md:543 does.
CleanProcessedEventIds ==
  /\ \E old \in SUBSET processed :
       /\ old # {}
       /\ \A i \in old : Finished(i)
       /\ processed' = processed \ old
  /\ UNCHANGED <<queueVars, book, spent, snapRows, budgetVars, alertVars,
                 taskVars, httpVars, ghostVars>>

\* A database or broker call of a handler fails (connection, deadlock victim,
\* integer out of range): the exception ends the handler.
HandlerFails(h) ==
  /\ pc[h] \notin {"free", "ack"}
  /\ Fault("throw")
  /\ EndByException(h)

Restart ==
  /\ Crash
  /\ pc' = [h \in Handler |-> "free"]
  /\ view' = [h \in Handler |-> NoView]
  /\ patch' = NoPatch
  /\ UNCHANGED <<book, rowVars, budgetVars, alertVars, ops, now, ghostVars>>

LoseChannel ==
  /\ DropChannel
  /\ UNCHANGED <<book, rowVars, budgetVars, alertVars, taskVars, httpVars,
                 ghostVars>>

-----------------------------------------------------------------------------
Producer ==
  \/ \E t \in Tx : CreateTransaction(t) \/ UpdateTransaction(t)
                   \/ DeleteTransaction(t)
  \/ DeleteHousehold

TransactionHandler(h) ==
  \/ Apply(h) \/ ApplyOverflows(h) \/ FindBudget(h) \/ FindSnapshot(h) \/ FindState(h)
  \/ InsertState(h) \/ InsertStateFails(h) \/ MarkSent(h) \/ EmitAlert(h)

HouseholdHandler(h) ==
  \/ ListBudgets(h) \/ DropStates(h) \/ DropSnapshots(h) \/ DropBudgets(h)

Consumer(h) ==
  \/ StartHandler(h) \/ TransactionHandler(h) \/ HouseholdHandler(h)
  \/ FinishHandler(h)

Http ==
  \/ \E c \in Category : RemoveBudget(c)
  \/ \E c \in Category, l \in Limit : CreateBudget(c, l) \/ PatchFind(c, l)
  \/ PatchSave \/ PatchReset

Failure == Restart \/ LoseChannel \/ \E h \in Handler : HandlerFails(h)

Next ==
  \/ Producer
  \/ \E h \in Handler : Consumer(h)
  \/ Http
  \/ NewMonth
  \/ CleanProcessedEventIds
  \/ Failure

Spec == Init /\ [][Next]_vars

-----------------------------------------------------------------------------
(* Properties *)

\* However often an event is delivered, and whatever crashes in between, it
\* takes effect at most once; and when the broker has been told to forget it,
\* it has taken effect (withIdempotency followed by channel.ack).
ExactlyOnce ==
  \A i \in DOMAIN log :
    /\ applied[i] <= 1
    /\ deliv[i] = "acked" /\ Guarded(log[i]) => applied[i] = 1

\* The whole service, alerts and HTTP included, implements the abstract ledger.
Ledger == INSTANCE OrderedLedger WITH
  done <- {i \in MessageId : applied[i] > 0},
  settled <- {i \in MessageId : deliv[i] = "acked"},
  total <- spent

ImplementsLedger == Ledger!Spec

\* When deliveries are handled one after the other and no handler throws, events
\* take effect in the order they were published, also those that a crash or a
\* lost channel has put back on the queue.
ImplementsOrderedLedger == Ledger!OrderedSpec

\* What the transactions that exist now add up to.
Expenses(k) == BookTotal(book, k)

HouseholdAlive == \A i \in DOMAIN log : log[i].kind # "householdDeleted"

\* Once every event is settled, each total is the sum of the expenses that
\* exist (docs/edge-cases.md:538, "must be exact").
TotalsExact ==
  Quiet /\ HouseholdAlive => \A k \in Key : spent[k] = Expenses(k)

\* With limits that stay as they are: once every event is settled, a budget
\* whose total is at its limit is flagged as exceeded, one that is at 80% is
\* flagged at one of the two levels (checkThreshold is never skipped for good).
NoCrossingMissed ==
  Quiet /\ ops = 0 /\ HouseholdAlive =>
    \A k \in Key :
      LET b == budgets[k.cat]
          s == <<k.cat, b.gen, k.month>>
      IN  b # NoBudget =>
            /\ Reaches(spent[k], b.limit, 100) => s \in exceeded
            /\ Reaches(spent[k], b.limit, 80) => s \in warned \cup exceeded

\* A flag that is set and that no handler is about to act on stands for an
\* alert that was published (docs/services.md:259), unless something failed:
\* the flag is stored first, and a crash before the emit loses the alert.
FlaggedAlertWasSent ==
  faults = 0 /\ (\A h \in Handler : pc[h] # "emit") =>
    \A s \in StateKey :
      /\ s \in warned => sent[<<s, "warning">>] > 0
      /\ s \in exceeded => sent[<<s, "exceeded">>] > 0

\* Each threshold fires at most once per budget and month, and once more for
\* each HTTP request that may have reset the flags (docs/services.md:264).
AlertOncePerMonth ==
  HouseholdAlive => \A a \in StateKey \X Level : sent[a] <= 1 + ops

\* When household.deleted was the last event and everything is settled, no
\* total and no alert state is left of the household (docs/services.md:252).
HouseholdErased ==
  Quiet /\ log # <<>> /\ log[Len(log)].kind = "householdDeleted" =>
    snapRows = {} /\ stateRows = {}

-----------------------------------------------------------------------------
(* Liveness.  Node's event loop resumes every handler whose await is over,  *)
(* and the broker pushes what is queued: the consumer side is weakly fair.  *)
(* Nothing is assumed of clients, of time or of failures.                   *)

Fairness == \A h \in Handler : WF_vars(Consumer(h))
FairSpec == Spec /\ Fairness

\* Every event is settled with the broker in the end: docs/services.md:424 says
\* that one which fails is dead-lettered instead of staying around.
EventuallySettled ==
  \A i \in MessageId : Published(i) ~> deliv[i] = "acked"
=============================================================================
