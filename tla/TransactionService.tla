------------------------- MODULE TransactionService -------------------------
(***************************************************************************)
(* transaction-service: the transactions and categories of one household,  *)
(* the events that announce each change of a transaction, and the erasure  *)
(* when the household is deleted.                                          *)
(*                                                                         *)
(* Requests run side by side and interleave at their awaits.  Nothing is   *)
(* done in a database transaction except what one TypeORM call does: save  *)
(* first selects the row and then inserts it or updates the columns that   *)
(* differ; remove deletes what is still there.  rmq.emit is not awaited:   *)
(* it leaves the event in the memory of the process, which sends it later. *)
(*                                                                         *)
(* BudgetService assumes that the previous values of each event are what   *)
(* the event before it announced; PreviousIsPrevious says when they are.   *)
(***************************************************************************)
EXTENDS Integers, Sequences, FiniteSets, Functions

CONSTANTS
  Request,      \* requests that can be served at the same time
  Tx,           \* ids of transactions
  Custom,       \* ids of the categories users create
  Seeded,       \* batches of the ten default categories; one stands for all ten
  Value,        \* amount, type and date of a transaction
  NoRow,
  MaxRequests,  \* bound: requests served
  MaxFaults     \* bound: crashes

Category == Custom \cup Seeded
Row == [cat: Category, value: Value]

ASSUME TransactionAssumption ==
  /\ IsFiniteSet(Tx)
  /\ Custom \cap Seeded = {}
  /\ NoRow \notin Row
  /\ MaxRequests \in Nat
  /\ MaxFaults \in Nat

VARIABLES
  rows,         \* transactions
  categories,   \* categories
  made,         \* the ids generated so far
  task,         \* what each request is doing
  outbox,       \* events emitted, not yet sent
  log,          \* events published
  erasure,      \* the household.deleted message and its handler
  served,       \* requests accepted
  faults,
  held,         \* history: the rows each transaction has had
  raced         \* history: what two requests worked on at the same time

dbVars   == <<rows, categories, made>>
envVars  == <<erasure, faults>>
vars == <<dbVars, task, outbox, log, envVars, served, held, raced>>

Maybe == Row \cup {NoRow}
Event == [tx: Tx, prev: Maybe, next: Maybe]

\* A request: the await it waits at, the rows it has read, the row it wants,
\* the columns that save found to differ, the category it is about.
Columns == {"cat", "value"}
Idle == [step |-> "free", read |-> <<>>, want |-> NoRow, diff |-> {}, cat |-> NoRow]
Steps == {"free", "insert", "category", "load", "update", "reinsert", "remove",
          "emit", "seed", "rename", "drop"}
Reading == UNION {[T -> Maybe] : T \in SUBSET Tx}
Task == [step: Steps, read: Reading, want: Maybe,
         diff: SUBSET Columns, cat: Category \cup {NoRow}]

TypeOK ==
  /\ rows \in [Tx -> Maybe]
  /\ categories \subseteq Category
  /\ made \subseteq Tx \cup Category
  /\ task \in [Request -> Task]
  /\ outbox \in Seq(Event)
  /\ log \in Seq(Event)
  /\ erasure \in {"none", "rows", "categories", "stuck", "done"}
  /\ served \in 0..MaxRequests
  /\ faults \in 0..MaxFaults
  /\ held \in [Tx -> SUBSET Row]
  /\ raced \subseteq Tx \cup {"seed"}

Init ==
  /\ rows = [t \in Tx |-> NoRow]
  \* a new household, or one that has its categories already
  /\ categories \in {{}} \cup {{s} \cup C : s \in Seeded, C \in SUBSET Custom}
  /\ made = categories
  /\ task = [r \in Request |-> Idle]
  /\ outbox = <<>>
  /\ log = <<>>
  /\ erasure = "none"
  /\ served = 0
  /\ faults = 0
  /\ held = [t \in Tx |-> {}]
  /\ raced = {}

-----------------------------------------------------------------------------
(* Requests *)

At(r, step) == task[r].step = step
Target(r) == CHOOSE t \in DOMAIN task[r].read : TRUE
Rest == <<outbox, log, envVars>>

\* A request that fails its first check changes nothing and is left out.
Accept(r, new) ==
  /\ At(r, "free")
  /\ served < MaxRequests
  /\ served' = served + 1
  /\ task' = [task EXCEPT ![r] = new]

Go(r, step) == task' = [task EXCEPT ![r].step = step]
End(r) == task' = [task EXCEPT ![r] = Idle]

\* The transactions that another request works on, too.
Raced(r, T) ==
  {t \in T : \E q \in Request \ {r} : t \in DOMAIN task[q].read}

Store(t, row) ==
  /\ rows' = [rows EXCEPT ![t] = row]
  /\ held' = [held EXCEPT ![t] = @ \cup {row}]

\* createTransaction: the category is checked, then the row is inserted.
CreateTransaction(r) ==
  /\ \E row \in Row :
       /\ row.cat \in categories
       /\ Accept(r, [Idle EXCEPT !.step = "insert", !.want = row])
  /\ UNCHANGED <<dbVars, Rest, held, raced>>

\* The foreign key makes the insert fail when the category is gone.
InsertTransaction(r) ==
  /\ At(r, "insert")
  /\ LET row == task[r].want
     IN  \/ /\ row.cat \in categories
            /\ \E t \in Tx \ made :
                 /\ made' = made \cup {t}
                 /\ Store(t, row)
                 /\ task' = [task EXCEPT ![r].step = "emit",
                                         ![r].read = [s \in {t} |-> NoRow]]
            /\ UNCHANGED categories
         \/ /\ row.cat \notin categories
            /\ End(r)
            /\ UNCHANGED <<dbVars, held>>
  /\ UNCHANGED <<Rest, served, raced>>

\* Mutant: the previous values are read after the new ones are assigned.
UpdateTransactionLatePrevious(r) ==
  /\ \E t \in Tx, row \in Row :
       /\ rows[t] # NoRow
       /\ Accept(r, [Idle EXCEPT
            !.step = IF row.cat = rows[t].cat THEN "load" ELSE "category",
            !.read = [s \in {t} |-> row], !.want = row])
       /\ raced' = raced \cup Raced(r, {t})
  /\ UNCHANGED <<dbVars, Rest, held>>

\* updateTransaction: read the row, keep it as previous*, assign what changes.
UpdateTransaction(r) ==
  /\ \E t \in Tx, row \in Row :
       /\ rows[t] # NoRow
       /\ Accept(r, [Idle EXCEPT
            !.step = IF row.cat = rows[t].cat THEN "load" ELSE "category",
            !.read = [s \in {t} |-> rows[t]], !.want = row])
       /\ raced' = raced \cup Raced(r, {t})
  /\ UNCHANGED <<dbVars, Rest, held>>

\* categoryService.findOneOrFail for a category that changes.
CheckCategory(r) ==
  /\ At(r, "category")
  /\ IF task[r].want.cat \in categories THEN Go(r, "load") ELSE End(r)
  /\ UNCHANGED <<dbVars, Rest, served, held, raced>>

\* save, first statement: it selects the row and compares it.
LoadTransaction(r) ==
  /\ At(r, "load")
  /\ LET now == rows[Target(r)]
         diff == {c \in Columns : now[c] # task[r].want[c]}
     IN  IF now = NoRow THEN Go(r, "reinsert")
         ELSE task' = [task EXCEPT ![r].diff = diff,
                         ![r].step = IF diff = {} THEN "emit" ELSE "update"]
  /\ UNCHANGED <<dbVars, Rest, served, held, raced>>

\* UPDATE sets the columns of diff only.
Merged(row, want, diff) ==
  [cat   |-> IF "cat" \in diff THEN want.cat ELSE row.cat,
   value |-> IF "value" \in diff THEN want.value ELSE row.value]

\* Mutant: an error of the update is caught and logged.
SaveTransactionSwallows(r) ==
  /\ At(r, "update")
  /\ LET t == Target(r)
         want == task[r].want
         diff == task[r].diff
     IN  \/ /\ rows[t] = NoRow
            /\ Go(r, "emit")
            /\ UNCHANGED <<rows, held>>
         \/ /\ rows[t] # NoRow
            /\ "cat" \in diff => want.cat \in categories
            /\ Store(t, Merged(rows[t], want, diff))
            /\ Go(r, "emit")
         \/ /\ rows[t] # NoRow
            /\ "cat" \in diff /\ want.cat \notin categories
            /\ Go(r, "emit")
            /\ UNCHANGED <<rows, held>>
  /\ UNCHANGED <<categories, made, Rest, served, raced>>

\* save, second statement: UPDATE of the columns that differed; it affects no
\* row when the row is gone, and fails when the new category is.
SaveTransaction(r) ==
  /\ At(r, "update")
  /\ LET t == Target(r)
         want == task[r].want
         diff == task[r].diff
     IN  \/ /\ rows[t] = NoRow
            /\ Go(r, "emit")
            /\ UNCHANGED <<rows, held>>
         \/ /\ rows[t] # NoRow
            /\ "cat" \in diff => want.cat \in categories
            /\ Store(t, Merged(rows[t], want, diff))
            /\ Go(r, "emit")
         \/ /\ rows[t] # NoRow
            /\ "cat" \in diff /\ want.cat \notin categories
            /\ End(r)
            /\ UNCHANGED <<rows, held>>
  /\ UNCHANGED <<categories, made, Rest, served, raced>>

\* save, second statement, when the row was gone: INSERT with the old id.
ReinsertTransaction(r) ==
  /\ At(r, "reinsert")
  /\ LET t == Target(r)
         want == task[r].want
     IN  \/ /\ rows[t] = NoRow /\ want.cat \in categories
            /\ Store(t, want)
            /\ Go(r, "emit")
         \/ /\ rows[t] # NoRow \/ want.cat \notin categories
            /\ End(r)
            /\ UNCHANGED <<rows, held>>
  /\ UNCHANGED <<categories, made, Rest, served, raced>>

\* deleteTransaction (one id) and bulkDelete (the ids that are found).
DeleteTransactions(r) ==
  /\ \E T \in SUBSET {t \in Tx : rows[t] # NoRow} :
       /\ T # {}
       /\ Accept(r, [Idle EXCEPT !.step = "remove",
                                 !.read = [t \in T |-> rows[t]]])
       /\ raced' = raced \cup Raced(r, T)
  /\ UNCHANGED <<dbVars, Rest, held>>

\* Rows that somebody else has removed meanwhile are no error.
RemoveTransactions(r) ==
  /\ At(r, "remove")
  /\ rows' = [t \in Tx |-> IF t \in DOMAIN task[r].read THEN NoRow ELSE rows[t]]
  /\ Go(r, "emit")
  /\ UNCHANGED <<categories, made, Rest, served, held, raced>>

EventsOf(r) ==
  {[tx |-> t, prev |-> task[r].read[t], next |-> task[r].want] :
     t \in DOMAIN task[r].read}

\* Mutant: bulkDelete announces the first removal only.
EmitOne(r) ==
  /\ At(r, "emit")
  /\ \E e \in EventsOf(r) : outbox' = Append(outbox, e)
  /\ End(r)
  /\ UNCHANGED <<dbVars, log, envVars, served, held, raced>>

Emit(r) ==
  /\ At(r, "emit")
  /\ \E order \in Bijection(1..Cardinality(EventsOf(r)), EventsOf(r)) :
       outbox' = outbox \o order
  /\ End(r)
  /\ UNCHANGED <<dbVars, log, envVars, served, held, raced>>

\* The RabbitMQ client sends what was emitted, in order.
Send ==
  /\ outbox # <<>>
  /\ log' = Append(log, Head(outbox))
  /\ outbox' = Tail(outbox)
  /\ UNCHANGED <<dbVars, task, envVars, served, held, raced>>

-----------------------------------------------------------------------------
(* Categories *)

\* Mutant: listCategories seeds without counting.
CountCategoriesNot(r) ==
  /\ Accept(r, [Idle EXCEPT !.step = "seed"])
  /\ raced' = raced \cup (IF \E q \in Request : At(q, "seed") THEN {"seed"} ELSE {})
  /\ UNCHANGED <<dbVars, Rest, held>>

\* listCategories seeds a household that has no category at all.
CountCategories(r) ==
  /\ categories = {}
  /\ Accept(r, [Idle EXCEPT !.step = "seed"])
  /\ raced' = raced \cup (IF \E q \in Request : At(q, "seed") THEN {"seed"} ELSE {})
  /\ UNCHANGED <<dbVars, Rest, held>>

SeedForHousehold(r) ==
  /\ At(r, "seed")
  /\ \E s \in Seeded \ made :
       /\ made' = made \cup {s}
       /\ categories' = categories \cup {s}
  /\ End(r)
  /\ UNCHANGED <<rows, Rest, served, held, raced>>

CreateCategory(r) ==
  /\ Accept(r, Idle)
  /\ \E c \in Custom \ made :
       /\ made' = made \cup {c}
       /\ categories' = categories \cup {c}
  /\ UNCHANGED <<rows, Rest, held, raced>>

\* updateCategory and deleteCategory refuse a category that has a key.
RenameCategory(r) ==
  /\ \E c \in categories \cap Custom :
       Accept(r, [Idle EXCEPT !.step = "rename", !.cat = c])
  /\ UNCHANGED <<dbVars, Rest, held, raced>>

\* save inserts the category again when it was removed meanwhile.
SaveCategory(r) ==
  /\ At(r, "rename")
  /\ categories' = categories \cup {task[r].cat}
  /\ End(r)
  /\ UNCHANGED <<rows, made, Rest, served, held, raced>>

DeleteCategory(r) ==
  /\ \E c \in categories \cap Custom :
       Accept(r, [Idle EXCEPT !.step = "drop", !.cat = c])
  /\ UNCHANGED <<dbVars, Rest, held, raced>>

InUse(c) == \E t \in Tx : rows[t] # NoRow /\ rows[t].cat = c

\* ON DELETE RESTRICT: the removal of a category that is in use fails.
RemoveCategory(r) ==
  /\ At(r, "drop")
  /\ categories' = IF InUse(task[r].cat) THEN categories
                   ELSE categories \ {task[r].cat}
  /\ End(r)
  /\ UNCHANGED <<rows, made, Rest, served, held, raced>>

-----------------------------------------------------------------------------
(* household.deleted: two statements, then the ack *)

DeleteHousehold ==
  /\ erasure = "none"
  /\ erasure' = "rows"
  /\ UNCHANGED <<dbVars, task, outbox, log, served, faults, held, raced>>

EraseTransactions ==
  /\ erasure = "rows"
  /\ rows' = [t \in Tx |-> NoRow]
  /\ erasure' = "categories"
  /\ UNCHANGED <<categories, made, task, outbox, log, served, faults, held, raced>>

\* A transaction that was created in between makes the second statement fail:
\* the exception leaves the message unacked.
EraseCategories ==
  /\ erasure = "categories"
  /\ IF \E t \in Tx : rows[t] # NoRow
     THEN erasure' = "stuck" /\ UNCHANGED categories
     ELSE erasure' = "done" /\ categories' = {}
  /\ UNCHANGED <<rows, made, task, outbox, log, served, faults, held, raced>>

\* Requests and events in memory are lost; household.deleted is delivered again.
Crash ==
  /\ faults < MaxFaults
  /\ faults' = faults + 1
  /\ task' = [r \in Request |-> Idle]
  /\ outbox' = <<>>
  /\ erasure' = IF erasure \in {"none", "done"} THEN erasure ELSE "rows"
  /\ UNCHANGED <<dbVars, log, served, held, raced>>

-----------------------------------------------------------------------------
TransactionRequest(r) ==
  \/ CreateTransaction(r) \/ InsertTransaction(r)
  \/ UpdateTransaction(r) \/ CheckCategory(r) \/ LoadTransaction(r)
  \/ SaveTransaction(r) \/ ReinsertTransaction(r)
  \/ DeleteTransactions(r) \/ RemoveTransactions(r)
  \/ Emit(r)

CategoryRequest(r) ==
  \/ CountCategories(r) \/ SeedForHousehold(r)
  \/ CreateCategory(r)
  \/ RenameCategory(r) \/ SaveCategory(r)
  \/ DeleteCategory(r) \/ RemoveCategory(r)

Erasure == EraseTransactions \/ EraseCategories

Next ==
  \/ \E r \in Request : TransactionRequest(r) \/ CategoryRequest(r)
  \/ Send
  \/ DeleteHousehold \/ Erasure
  \/ Crash

Spec == Init /\ [][Next]_vars

-----------------------------------------------------------------------------
(* Properties *)

\* What the first n of some events say a transaction is.
Announced(events, t, n) ==
  LET about == {i \in 1..n : events[i].tx = t}
  IN  IF about = {} THEN NoRow
      ELSE events[CHOOSE i \in about : \A j \in about : j <= i].next

Undoes(events, i) == events[i].prev = Announced(events, events[i].tx, i - 1)

\* The previous values of an event are what the event before it announced, so
\* that a consumer undoes exactly what it has done
\* (libs/contracts/src/events/transaction.events.ts:20): for a transaction that
\* was never handled by two requests at once, unless a crash has lost an event.
PreviousIsPrevious ==
  faults = 0 => \A i \in DOMAIN log : log[i].tx \in raced \/ Undoes(log, i)

Quiet == outbox = <<>> /\ \A r \in Request : At(r, "free")

\* When every request is over and every event is sent, consumers have been told
\* what the rows are: transactions are neither lost nor left behind in the
\* totals of others (same conditions).
RowsAnnounced ==
  Quiet /\ faults = 0 /\ erasure = "none" =>
    \A t \in Tx \ raced : rows[t] = Announced(log, t, Len(log))

\* Whatever is interleaved, lost or removed in between, an event undoes values
\* the transaction has had, and (save that of a row that somebody else changed
\* or erased under way) announces values that were stored before it.
NoPhantomEvents ==
  \A i \in DOMAIN log :
    LET e == log[i]
    IN  /\ e.prev \in held[e.tx] \cup {NoRow}
        /\ erasure = "none" /\ e.tx \notin raced
             => e.next \in held[e.tx] \cup {NoRow}

\* A household gets the default categories once, unless two first requests
\* count at the same time or it is erased in between
\* (apps/transaction-service/test/transaction.integration.spec.ts:75).
SeededOnce ==
  raced = {} /\ erasure = "none" =>
    \A s1, s2 \in categories \cap Seeded : s1 = s2

\* Seeded categories go with their household only: a request can neither delete
\* one nor, by a stale read, take one along.
SeededCategoriesStay ==
  [][categories \cap Seeded \subseteq categories' \/ erasure = "categories"]_categories
=============================================================================
