--------------------- MODULE TransactionService_proofs ---------------------
(***************************************************************************)
(* For any number of requests, transactions, categories and crashes: the   *)
(* events of transaction-service undo one another, name values that were   *)
(* stored and leave consumers with the rows of the database, under the     *)
(* conditions the properties state; default categories are seeded once and *)
(* stay.                                                                   *)
(*                                                                         *)
(* From this, for the whole pipeline: a consumer that takes the events in  *)
(* order never subtracts more than a total holds, and ends with the sums   *)
(* of the rows.                                                            *)
(***************************************************************************)
EXTENDS SpendingPipeline, SequenceTheorems, FiniteSetTheorems,
        WellFoundedInduction, TLAPS

Reads(r) == DOMAIN task[r].read
Updating == {"category", "load", "update", "reinsert"}

\* What was published and what will be, in order.
events == log \o outbox
Latest(t) == Announced(events, t, Len(events))

\* What the await a request waits at says of what it has read and wants.
Sound(k) ==
  /\ k.step \in {"free", "insert", "seed", "rename", "drop"} => DOMAIN k.read = {}
  /\ k.step = "insert" => k.want \in Row
  /\ k.step \in Updating => (\E t \in Tx : DOMAIN k.read = {t}) /\ k.want \in Row
  /\ k.step \in Updating \cup {"remove"} => \A t \in DOMAIN k.read : k.read[t] \in Row
  /\ k.step = "remove" => k.want = NoRow
  /\ k.step \in {"rename", "drop"} => k.cat \in Custom

ControlInv == \A r \in Request : Sound(task[r]) /\ Reads(r) \subseteq made

\* Ids are generated before rows are stored under them.
StoredInv == \A t \in Tx : rows[t] # NoRow => t \in made

\* Rows, what requests have read and what events undo: all of it was stored.
PastInv ==
  /\ \A t \in Tx : rows[t] # NoRow => rows[t] \in held[t]
  /\ \A r \in Request : \A t \in Reads(r) : task[r].read[t] \in held[t] \cup {NoRow}
  /\ \A i \in 1..Len(events) :
       /\ events[i].tx \in made
       /\ events[i].prev \in held[events[i].tx] \cup {NoRow}
       /\ erasure = "none" /\ events[i].tx \notin raced
            => events[i].next \in held[events[i].tx] \cup {NoRow}

\* household.deleted has taken the row.
Erased(t) == erasure # "none" /\ rows[t] = NoRow

\* Two requests that work on one transaction are noticed.
SharedInv ==
  \A r, q \in Request : \A t \in Reads(r) \cap Reads(q) : r # q => t \in raced

\* A transaction that nobody else works on is as its request believes, unless
\* household.deleted has erased it.
Own(r, t) ==
  /\ task[r].step \in Updating \cup {"remove"} =>
       rows[t] = task[r].read[t] \/ Erased(t)
  /\ task[r].step = "update" =>
       task[r].diff = {c \in Columns : task[r].read[t][c] # task[r].want[c]}
  /\ task[r].step = "reinsert" => Erased(t)
  /\ task[r].step = "emit" => rows[t] = task[r].want \/ Erased(t)

OwnInv == \A r \in Request : \A t \in Reads(r) \ raced : Own(r, t)

\* A row is what the latest event says, or its request is about to say it.
ToldOrTelling(t) ==
  \/ rows[t] = Latest(t)
  \/ \E r \in Request : At(r, "emit") /\ t \in Reads(r) /\ rows[t] = task[r].want

AnnouncedInv ==
  faults = 0 =>
    /\ \A r \in Request : \A t \in Reads(r) \ raced : task[r].read[t] = Latest(t)
    /\ \A t \in Tx \ raced :
         rows[t] # NoRow \/ erasure = "none" => ToldOrTelling(t)
    /\ \A i \in 1..Len(events) : events[i].tx \in raced \/ Undoes(events, i)

\* Whoever is about to seed is alone and finds nothing seeded.
SeedInv ==
  raced = {} /\ erasure = "none" =>
    \A r \in Request : At(r, "seed") =>
      /\ categories \cap Seeded = {}
      /\ \A q \in Request : At(q, "seed") => q = r

IInv == /\ TypeOK /\ ControlInv /\ StoredInv /\ PastInv
        /\ SharedInv /\ OwnInv /\ AnnouncedInv
        /\ SeedInv /\ SeededOnce

-----------------------------------------------------------------------------
(* What events announce *)

\* Among the first n events that satisfy something there is a last one.
LEMMA HasLast ==
  ASSUME NEW n \in Nat, NEW S \in SUBSET (1..n), S # {}
  PROVE  \E i \in S : \A j \in S : j <= i
<1> DEFINE Bounds == {k \in Nat : \A j \in S : j <= k}
<1>1. n \in Bounds
  OBVIOUS
<1>2. PICK k \in Bounds : \A b \in Bounds : ~ (<<b, k>> \in OpToRel(<, Nat))
  BY <1>1, NatLessThanWellFounded, WFMin, Zenon
<1>3. \A b \in Bounds : ~ (b < k)
  BY <1>2, Zenon DEF OpToRel
<1>4. k \in S
  <2>1. SUFFICES ASSUME k \notin S PROVE FALSE
    OBVIOUS
  <2>2. k - 1 \in Bounds
    <3>1. PICK j \in S : TRUE
      OBVIOUS
    <3>2. j \in 1..n /\ j <= k /\ j # k
      BY <2>1, <3>1
    <3>3. QED
      BY <2>1, <3>2
  <2>3. QED
    BY <1>3, <2>2
<1>5. QED
  BY <1>4

\* The latest event that names t decides.
LEMMA AnnouncedLast ==
  ASSUME NEW s, NEW t, NEW n \in Nat, NEW i \in 1..n, s[i].tx = t,
         \A j \in (i + 1)..n : s[j].tx # t
  PROVE  Announced(s, t, n) = s[i].next
<1> DEFINE about == {j \in 1..n : s[j].tx = t}
<1>1. i \in about /\ \A j \in about : j <= i
  OBVIOUS
<1>2. \A k \in about : (\A j \in about : j <= k) => k = i
  BY <1>1
<1>3. (CHOOSE k \in about : \A j \in about : j <= k) = i
  BY <1>1, <1>2
<1>4. QED
  BY <1>1, <1>3 DEF Announced

\* Events of other transactions that come later change nothing.
LEMMA AnnouncedSame ==
  ASSUME NEW s, NEW z, NEW t, NEW m \in Nat, NEW n \in Nat, m <= n,
         \A j \in 1..m : z[j] = s[j], \A j \in (m + 1)..n : z[j].tx # t
  PROVE  Announced(z, t, n) = Announced(s, t, m)
<1> DEFINE about == {j \in 1..m : s[j].tx = t}
<1>1. {j \in 1..n : z[j].tx = t} = about
  OBVIOUS
<1>2. CASE about = {}
  BY <1>1, <1>2 DEF Announced
<1>3. CASE about # {}
  <2>1. PICK i \in about : \A j \in about : j <= i
    <3>1. PICK k \in about : TRUE
      BY <1>3
    <3>2. about \in SUBSET (1..m)
      OBVIOUS
    <3>3. QED
      BY <1>3, <3>2, HasLast
  <2>2. (CHOOSE k \in about : \A j \in about : j <= k) \in about
    BY <2>1
  <2> DEFINE latest == CHOOSE k \in about : \A j \in about : j <= k
  <2>3. Announced(s, t, m) = s[latest].next
    BY <1>3 DEF Announced
  <2>4. Announced(z, t, n) = z[latest].next
    BY <1>1, <1>3, Zenon DEF Announced
  <2>5. QED
    BY <2>2, <2>3, <2>4
<1>4. QED
  BY <1>2, <1>3

-----------------------------------------------------------------------------
(* Types *)

\* What a request has read is a function on some transactions.
LEMMA ReadingType ==
  /\ \A f \in Reading : DOMAIN f \subseteq Tx /\ \A t \in DOMAIN f : f[t] \in Maybe
  /\ \A T \in SUBSET Tx : \A f \in [T -> Maybe] : f \in Reading
  /\ <<>> \in Reading /\ DOMAIN <<>> = {}
<1>1. \A f \in Reading : DOMAIN f \subseteq Tx /\ \A t \in DOMAIN f : f[t] \in Maybe
  BY DEF Reading
<1>2. \A T \in SUBSET Tx : \A f \in [T -> Maybe] : f \in Reading
  BY Zenon DEF Reading
<1>3. DOMAIN <<>> = {}
  OBVIOUS
<1>4. <<>> \in [{} -> Maybe]
  BY <1>3
<1>5. QED
  BY <1>1, <1>2, <1>3, <1>4

LEMMA IdleType == Idle \in Task /\ DOMAIN Idle.read = {}
BY ReadingType DEF Idle, Task, Steps, Maybe

\* The updated columns of a row make a row.
LEMMA MergedType ==
  ASSUME NEW row \in Row, NEW want \in Row, NEW diff
  PROVE  Merged(row, want, diff) \in Row
BY DEF Merged, Row

\* A target is the transaction that was read.
LEMMA TargetType ==
  ASSUME TypeOK, ControlInv, NEW r \in Request, task[r].step \in Updating
  PROVE  Target(r) \in Tx /\ task[r].want \in Row /\ Reads(r) = {Target(r)}
<1>1. PICK t \in Tx : DOMAIN task[r].read = {t}
  BY DEF ControlInv, Sound
<1>2. Target(r) = t
  BY <1>1 DEF Target
<1>3. QED
  BY <1>1, <1>2 DEF ControlInv, Sound, Reads

LEMMA EventsType ==
  ASSUME TypeOK, NEW r \in Request
  PROVE  /\ EventsOf(r) \subseteq Event
         /\ Cardinality(EventsOf(r)) \in Nat
<1>1. task[r].read \in Reading /\ task[r].want \in Maybe
  BY DEF TypeOK, Task
<1>2. EventsOf(r) \subseteq Event
  BY <1>1, ReadingType DEF EventsOf, Event
<1>3. IsFiniteSet(DOMAIN task[r].read)
  BY <1>1, ReadingType, TransactionAssumption, FS_Subset
<1>4. IsFiniteSet(EventsOf(r))
  <2> DEFINE E(t) == [tx |-> t, prev |-> task[r].read[t], next |-> task[r].want]
             f == [t \in DOMAIN task[r].read |-> E(t)]
  <2>1. EventsOf(r) = {f[t] : t \in DOMAIN f}
    BY DEF EventsOf
  <2>2. f \in Surjection(DOMAIN task[r].read, EventsOf(r))
    BY <2>1 DEF Surjection
  <2>3. QED
    BY <1>3, <2>2, FS_Surjection
<1>5. QED
  BY <1>2, <1>4, FS_CardinalityType

\* A request's new task has the type of a task.
LEMMA TaskType ==
  ASSUME TypeOK, NEW r \in Request
  PROVE  /\ \A step \in Steps : Go(r, step) => task' \in [Request -> Task]
         /\ End(r) => task' \in [Request -> Task]
         /\ \A new \in Task : Accept(r, new) =>
              task' \in [Request -> Task] /\ served' \in 0..MaxRequests
         /\ \A step \in Steps, row \in Maybe, T \in SUBSET Tx :
              \A f \in [T -> Maybe] :
                /\ [Idle EXCEPT !.step = step, !.want = row] \in Task
                /\ [Idle EXCEPT !.step = step, !.read = f] \in Task
                /\ [Idle EXCEPT !.step = step, !.read = f, !.want = row] \in Task
         /\ \A step \in Steps :
              /\ [Idle EXCEPT !.step = step] \in Task
              /\ \A c \in Category : [Idle EXCEPT !.step = step, !.cat = c] \in Task
<1> USE TransactionAssumption
<1>1. ASSUME NEW step \in Steps, Go(r, step) PROVE task' \in [Request -> Task]
  <2>1. task[r] \in Task
    BY DEF TypeOK
  <2>2. [task[r] EXCEPT !.step = step] \in Task
    BY <2>1 DEF Task
  <2>3. task' = [task EXCEPT ![r] = [task[r] EXCEPT !.step = step]]
    BY <1>1 DEF Go
  <2>4. QED
    BY <2>2, <2>3 DEF TypeOK
<1>2. End(r) => task' \in [Request -> Task]
  BY IdleType DEF TypeOK, End
<1>3. ASSUME NEW new \in Task, Accept(r, new)
      PROVE  task' \in [Request -> Task] /\ served' \in 0..MaxRequests
  BY <1>3 DEF TypeOK, Accept
<1>4. ASSUME NEW step \in Steps, NEW row \in Maybe, NEW T \in SUBSET Tx,
             NEW f \in [T -> Maybe]
      PROVE  /\ [Idle EXCEPT !.step = step, !.want = row] \in Task
             /\ [Idle EXCEPT !.step = step, !.read = f] \in Task
             /\ [Idle EXCEPT !.step = step, !.read = f, !.want = row] \in Task
  <2>1. f \in Reading
    BY ReadingType
  <2>2. QED
    BY <2>1, IdleType DEF Idle, Task
<1>5. ASSUME NEW step \in Steps
      PROVE  /\ [Idle EXCEPT !.step = step] \in Task
             /\ \A c \in Category : [Idle EXCEPT !.step = step, !.cat = c] \in Task
  BY IdleType DEF Idle, Task
<1>6. QED
  BY <1>1, <1>2, <1>3, <1>4, <1>5, Zenon

LEMMA TypeStep ==
  ASSUME TypeOK, ControlInv, [Next]_vars
  PROVE  TypeOK'
<1> USE TransactionAssumption DEF TypeOK, Rest, envVars, dbVars
<1>1. ASSUME NEW r \in Request, CreateTransaction(r) PROVE TypeOK'
  <2>1. "insert" \in Steps /\ Row \subseteq Maybe
    BY DEF Steps, Maybe
  <2>2. QED
    BY <1>1, <2>1, TaskType DEF CreateTransaction
<1>2. ASSUME NEW r \in Request, InsertTransaction(r) PROVE TypeOK'
  <2>1. CASE task[r].want.cat \in categories
    <3>1. PICK t \in Tx \ made :
            /\ made' = made \cup {t}
            /\ Store(t, task[r].want)
            /\ task' = [task EXCEPT ![r].step = "emit", ![r].read = [s \in {t} |-> NoRow]]
      BY <1>2, <2>1 DEF InsertTransaction
    <3>2. task[r].want \in Row
      BY <1>2 DEF ControlInv, Sound, InsertTransaction, At
    <3>3. [s \in {t} |-> NoRow] \in Reading
      BY ReadingType DEF Maybe
    <3>4. task' \in [Request -> Task]
      <4> DEFINE f == [s \in {t} |-> NoRow]
      <4>1. task[r] \in Task /\ f \in Reading /\ "emit" \in Steps
        BY <3>3 DEF Steps
      <4> HIDE DEF f
      <4>2. [task[r] EXCEPT !.step = "emit", !.read = f] \in Task
        BY <4>1 DEF Task
      <4>3. task' = [task EXCEPT ![r] = [task[r] EXCEPT !.step = "emit", !.read = f]]
        BY <3>1 DEF f
      <4>4. QED
        BY <4>2, <4>3
    <3>5. QED
      BY <1>2, <2>1, <3>1, <3>2, <3>4 DEF InsertTransaction, Store, Maybe
  <2>2. CASE task[r].want.cat \notin categories
    BY <1>2, <2>2, TaskType DEF InsertTransaction
  <2>3. QED
    BY <2>1, <2>2
<1>3. ASSUME NEW r \in Request, UpdateTransaction(r) PROVE TypeOK'
  <2>1. PICK t \in Tx, row \in Row :
          /\ Accept(r, [Idle EXCEPT
               !.step = IF row.cat = rows[t].cat THEN "load" ELSE "category",
               !.read = [s \in {t} |-> rows[t]], !.want = row])
          /\ raced' = raced \cup Raced(r, {t})
    BY <1>3 DEF UpdateTransaction
  <2>2. /\ (IF row.cat = rows[t].cat THEN "load" ELSE "category") \in Steps
        /\ row \in Maybe
        /\ [s \in {t} |-> rows[t]] \in [{t} -> Maybe]
    BY DEF Steps, Maybe
  <2>3. [Idle EXCEPT
               !.step = IF row.cat = rows[t].cat THEN "load" ELSE "category",
               !.read = [s \in {t} |-> rows[t]], !.want = row] \in Task
    <3> DEFINE step == IF row.cat = rows[t].cat THEN "load" ELSE "category"
               f == [s \in {t} |-> rows[t]]
    <3>1. f \in Reading /\ step \in Steps /\ row \in Maybe
      BY <2>2, ReadingType
    <3> HIDE DEF f, step
    <3>2. [Idle EXCEPT !.step = step, !.read = f, !.want = row] \in Task
      BY <3>1, IdleType DEF Idle, Task
    <3>3. QED
      BY <3>2 DEF f, step
  <2>4. Raced(r, {t}) \subseteq Tx
    BY DEF Raced
  <2>5. QED
    BY <1>3, <2>1, <2>3, <2>4, TaskType DEF UpdateTransaction
<1>4. ASSUME NEW r \in Request, CheckCategory(r) PROVE TypeOK'
  BY <1>4, TaskType DEF CheckCategory, Steps
<1>5. ASSUME NEW r \in Request, LoadTransaction(r) PROVE TypeOK'
  <2> DEFINE now == rows[Target(r)]
             diff == {c \in Columns : now[c] # task[r].want[c]}
             step == IF diff = {} THEN "emit" ELSE "update"
  <2>1. CASE now = NoRow
    BY <1>5, <2>1, TaskType DEF LoadTransaction, Steps
  <2>2. CASE now # NoRow
    <3>1. task' = [task EXCEPT ![r].diff = diff, ![r].step = step]
      BY <1>5, <2>2 DEF LoadTransaction
    <3>2. task[r] \in Task /\ diff \in SUBSET Columns /\ step \in Steps
      BY DEF Steps
    <3> HIDE DEF diff, step
    <3>3. [task[r] EXCEPT !.diff = diff, !.step = step] \in Task
      BY <3>2 DEF Task
    <3>4. task' = [task EXCEPT ![r] = [task[r] EXCEPT !.diff = diff, !.step = step]]
      BY <3>1
    <3>5. QED
      BY <1>5, <3>3, <3>4 DEF LoadTransaction
  <2>3. QED
    BY <2>1, <2>2
<1>6. ASSUME NEW r \in Request, SaveTransaction(r) PROVE TypeOK'
  <2>1. Target(r) \in Tx /\ task[r].want \in Row
    BY <1>6, TargetType DEF SaveTransaction, At, Updating
  <2>2. task' \in [Request -> Task]
    BY <1>6, TaskType DEF SaveTransaction, Steps
  <2>3. rows[Target(r)] # NoRow
          => Merged(rows[Target(r)], task[r].want, task[r].diff) \in Row
    BY <2>1, MergedType DEF Maybe
  <2>4. QED
    BY <1>6, <2>1, <2>2, <2>3 DEF SaveTransaction, Store, Maybe
<1>7. ASSUME NEW r \in Request, ReinsertTransaction(r) PROVE TypeOK'
  <2>1. Target(r) \in Tx /\ task[r].want \in Row
    BY <1>7, TargetType DEF ReinsertTransaction, At, Updating
  <2>2. task' \in [Request -> Task]
    BY <1>7, TaskType DEF ReinsertTransaction, Steps
  <2>3. QED
    BY <1>7, <2>1, <2>2 DEF ReinsertTransaction, Store, Maybe
<1>8. ASSUME NEW r \in Request, DeleteTransactions(r) PROVE TypeOK'
  <2>1. PICK T \in SUBSET {t \in Tx : rows[t] # NoRow} :
          /\ Accept(r, [Idle EXCEPT !.step = "remove", !.read = [t \in T |-> rows[t]]])
          /\ raced' = raced \cup Raced(r, T)
    BY <1>8 DEF DeleteTransactions
  <2>2. [t \in T |-> rows[t]] \in Reading
    BY ReadingType
  <2>3. [Idle EXCEPT !.step = "remove", !.read = [t \in T |-> rows[t]]] \in Task
    BY <2>2, IdleType DEF Idle, Task, Steps
  <2>4. Raced(r, T) \subseteq Tx
    BY DEF Raced
  <2>5. QED
    BY <1>8, <2>1, <2>3, <2>4, TaskType DEF DeleteTransactions
<1>9. ASSUME NEW r \in Request, RemoveTransactions(r) PROVE TypeOK'
  BY <1>9, TaskType DEF RemoveTransactions, Steps, Maybe
<1>10. ASSUME NEW r \in Request, Emit(r) PROVE TypeOK'
  <2>1. PICK order \in Bijection(1..Cardinality(EventsOf(r)), EventsOf(r)) :
          outbox' = outbox \o order
    BY <1>10 DEF Emit
  <2>2. order \in [1..Cardinality(EventsOf(r)) -> EventsOf(r)]
    BY DEF Bijection, Injection
  <2>3. order \in Seq(Event)
    <3> DEFINE n == Cardinality(EventsOf(r))
               S == EventsOf(r)
    <3>1. n \in Nat /\ S \subseteq Event
      BY EventsType
    <3>2. order \in [1..n -> S]
      BY <2>2
    <3> HIDE DEF n, S
    <3> HIDE DEF TypeOK, ControlInv
    <3>3. order \in [1..n -> Event]
      BY <3>1, <3>2, Zenon
    <3> QED
      BY <3>1, <3>3
  <2>4. outbox' \in Seq(Event)
    BY <2>1, <2>3, ConcatProperties
  <2>5. QED
    BY <1>10, <2>4, TaskType DEF Emit
<1>11. CASE Send
  BY <1>11 DEF Send
<1>12. ASSUME NEW r \in Request, CategoryRequest(r) PROVE TypeOK'
  <2>1. CASE CountCategories(r)
    BY <2>1, TaskType DEF CountCategories, Steps, Maybe
  <2>2. CASE SeedForHousehold(r)
    BY <2>2, TaskType DEF SeedForHousehold, Category
  <2>3. CASE CreateCategory(r)
    BY <2>3, TaskType, IdleType DEF CreateCategory, Category
  <2>4. CASE RenameCategory(r)
    BY <2>4, TaskType DEF RenameCategory, Steps, Category
  <2>5. CASE SaveCategory(r)
    <3>1. task[r].cat \in Category
      BY <2>5 DEF SaveCategory, ControlInv, Sound, At, Category
    <3>2. QED
      BY <2>5, <3>1, TaskType DEF SaveCategory
  <2>6. CASE DeleteCategory(r)
    BY <2>6, TaskType DEF DeleteCategory, Steps, Category
  <2>7. CASE RemoveCategory(r)
    BY <2>7, TaskType DEF RemoveCategory
  <2>8. QED
    BY <1>12, <2>1, <2>2, <2>3, <2>4, <2>5, <2>6, <2>7 DEF CategoryRequest
<1>13. CASE DeleteHousehold
  BY <1>13 DEF DeleteHousehold
<1>14. CASE EraseTransactions
  BY <1>14 DEF EraseTransactions, Maybe
<1>15. CASE EraseCategories
  BY <1>15 DEF EraseCategories
<1>16. CASE Crash
  BY <1>16, IdleType DEF Crash
<1>17. CASE UNCHANGED vars
  BY <1>17 DEF vars
<1>18. QED
  BY <1>1, <1>2, <1>3, <1>4, <1>5, <1>6, <1>7, <1>8, <1>9, <1>10, <1>11, <1>12,
     <1>13, <1>14, <1>15, <1>16, <1>17 DEF Next, TransactionRequest, Erasure

-----------------------------------------------------------------------------
(* Control *)

\* A request that goes from one sound task to another leaves the others alone.
LEMMA ControlKept ==
  ASSUME TypeOK, ControlInv, made \subseteq made', NEW r \in Request, NEW new,
         task' = [task EXCEPT ![r] = new], Sound(new), DOMAIN new.read \subseteq made'
  PROVE  ControlInv'
BY DEF ControlInv, Sound, Reads, TypeOK

\* Requests that are over, or have just begun with something to insert, to seed
\* or to do to a category.
LEMMA SoundTasks ==
  /\ Sound(Idle)
  /\ Sound([Idle EXCEPT !.step = "seed"])
  /\ \A row \in Row : Sound([Idle EXCEPT !.step = "insert", !.want = row])
  /\ \A c \in Custom : /\ Sound([Idle EXCEPT !.step = "rename", !.cat = c])
                       /\ Sound([Idle EXCEPT !.step = "drop", !.cat = c])
BY ReadingType DEF Sound, Idle, Updating

\* A request goes on to an await that asks no more than the one before.
LEMMA SoundGo ==
  ASSUME NEW k \in Task, Sound(k), NEW step \in Steps,
         step = "emit" \/ (k.step \in Updating /\ step \in Updating)
  PROVE  Sound([k EXCEPT !.step = step])
BY DEF Sound, Updating, Task

LEMMA ControlStep ==
  ASSUME TypeOK, ControlInv, StoredInv, [Next]_vars
  PROVE  ControlInv'
<1> USE TransactionAssumption DEF Rest, envVars, dbVars
<1>1. ASSUME NEW r \in Request, CreateTransaction(r) PROVE ControlInv'
  <2>1. PICK row \in Row : Accept(r, [Idle EXCEPT !.step = "insert", !.want = row])
    BY <1>1 DEF CreateTransaction
  <2>2. DOMAIN [Idle EXCEPT !.step = "insert", !.want = row].read = {}
    BY IdleType DEF Idle
  <2>3. QED
    BY <1>1, <2>1, <2>2, SoundTasks, ControlKept DEF CreateTransaction, Accept
<1>2. ASSUME NEW r \in Request, InsertTransaction(r) PROVE ControlInv'
  <2>1. CASE task[r].want.cat \in categories
    <3>1. PICK t \in Tx \ made :
            /\ made' = made \cup {t}
            /\ task' = [task EXCEPT ![r].step = "emit", ![r].read = [s \in {t} |-> NoRow]]
      BY <1>2, <2>1 DEF InsertTransaction
    <3> DEFINE new == [task[r] EXCEPT !.step = "emit", !.read = [s \in {t} |-> NoRow]]
    <3>2. task' = [task EXCEPT ![r] = new]
      BY <3>1
    <3>3. Sound(new) /\ DOMAIN new.read = {t}
      BY DEF Sound, Updating, TypeOK, Task
    <3>4. QED
      BY <3>1, <3>2, <3>3, ControlKept
  <2>2. CASE task[r].want.cat \notin categories
    BY <1>2, <2>2, SoundTasks, IdleType, ControlKept DEF InsertTransaction, End
  <2>3. QED
    BY <2>1, <2>2
<1>3. ASSUME NEW r \in Request, UpdateTransaction(r) PROVE ControlInv'
  <2>1. PICK t \in Tx, row \in Row :
          /\ rows[t] # NoRow
          /\ Accept(r, [Idle EXCEPT
               !.step = IF row.cat = rows[t].cat THEN "load" ELSE "category",
               !.read = [s \in {t} |-> rows[t]], !.want = row])
    BY <1>3 DEF UpdateTransaction
  <2> DEFINE step == IF row.cat = rows[t].cat THEN "load" ELSE "category"
             f == [s \in {t} |-> rows[t]]
             new == [Idle EXCEPT !.step = step, !.read = f, !.want = row]
  <2>2. DOMAIN f = {t} /\ f[t] \in Row /\ step \in {"load", "category"}
    BY <2>1 DEF TypeOK, Maybe
  <2>3. Sound(new) /\ new.read = f
    <3> HIDE DEF step, f
    <3>1. QED
      BY <2>2 DEF Sound, Idle, Updating
  <2>4. t \in made
    BY <2>1 DEF StoredInv
  <2>5. task' = [task EXCEPT ![r] = new] /\ made' = made
    BY <1>3, <2>1 DEF UpdateTransaction, Accept
  <2>6. DOMAIN new.read \subseteq made'
    BY <2>2, <2>3, <2>4, <2>5
  <2> HIDE DEF new
  <2>7. QED
    BY <2>3, <2>5, <2>6, ControlKept
<1>4. ASSUME NEW r \in Request, NEW step \in Steps, Go(r, step), UNCHANGED made,
             step = "emit" \/ (task[r].step \in Updating /\ step \in Updating)
      PROVE  ControlInv'
  <2>1. task[r] \in Task /\ task' = [task EXCEPT ![r] = [task[r] EXCEPT !.step = step]]
    BY <1>4 DEF Go, TypeOK
  <2>2. Sound([task[r] EXCEPT !.step = step])
    BY <1>4, <2>1, SoundGo DEF ControlInv
  <2>3. DOMAIN [task[r] EXCEPT !.step = step].read \subseteq made
    BY <2>1 DEF ControlInv, Reads, Task
  <2>4. QED
    BY <1>4, <2>1, <2>2, <2>3, ControlKept
<1>5. ASSUME NEW r \in Request, End(r), made \subseteq made' PROVE ControlInv'
  BY <1>5, SoundTasks, IdleType, ControlKept DEF End
<1>6. ASSUME NEW r \in Request, CheckCategory(r) PROVE ControlInv'
  BY <1>6, <1>4, <1>5 DEF CheckCategory, At, Updating, Steps
<1>7. ASSUME NEW r \in Request, LoadTransaction(r) PROVE ControlInv'
  <2> DEFINE now == rows[Target(r)]
             diff == {c \in Columns : now[c] # task[r].want[c]}
             step == IF diff = {} THEN "emit" ELSE "update"
             new == [task[r] EXCEPT !.diff = diff, !.step = step]
  <2>1. CASE now = NoRow
    BY <1>7, <2>1, <1>4 DEF LoadTransaction, At, Updating, Steps
  <2>2. CASE now # NoRow
    <3>1. task[r].step = "load" /\ step \in {"emit", "update"}
      BY <1>7 DEF LoadTransaction, At
    <3>2. task' = [task EXCEPT ![r] = new]
      BY <1>7, <2>2 DEF LoadTransaction
    <3> HIDE DEF diff, step
    <3>3. task[r] \in Task /\ Sound(task[r]) /\ Reads(r) \subseteq made
      BY DEF TypeOK, ControlInv
    <3>4. Sound(new) /\ DOMAIN new.read \subseteq made
      BY <3>1, <3>3 DEF Sound, Updating, Task, Reads
    <3>5. QED
      BY <1>7, <3>2, <3>4, ControlKept DEF LoadTransaction
  <2>3. QED
    BY <2>1, <2>2
<1>8. ASSUME NEW r \in Request, SaveTransaction(r) PROVE ControlInv'
  BY <1>8, <1>4, <1>5 DEF SaveTransaction, Steps
<1>9. ASSUME NEW r \in Request, ReinsertTransaction(r) PROVE ControlInv'
  BY <1>9, <1>4, <1>5 DEF ReinsertTransaction, Steps
<1>10. ASSUME NEW r \in Request, DeleteTransactions(r) PROVE ControlInv'
  <2>1. PICK T \in SUBSET {t \in Tx : rows[t] # NoRow} :
          Accept(r, [Idle EXCEPT !.step = "remove", !.read = [t \in T |-> rows[t]]])
    BY <1>10 DEF DeleteTransactions
  <2> DEFINE new == [Idle EXCEPT !.step = "remove", !.read = [t \in T |-> rows[t]]]
  <2>2. Sound(new) /\ DOMAIN new.read = T
    BY DEF Sound, Idle, Updating, TypeOK, Maybe
  <2>3. T \subseteq made
    BY DEF StoredInv
  <2>4. QED
    BY <1>10, <2>1, <2>2, <2>3, ControlKept DEF DeleteTransactions, Accept
<1>11. ASSUME NEW r \in Request, RemoveTransactions(r) PROVE ControlInv'
  BY <1>11, <1>4 DEF RemoveTransactions, Steps
<1>12. ASSUME NEW r \in Request, Emit(r) PROVE ControlInv'
  BY <1>12, <1>5 DEF Emit
<1>13. ASSUME NEW r \in Request, CategoryRequest(r) PROVE ControlInv'
  <2>1. \A k : Accept(r, k) => task' = [task EXCEPT ![r] = k]
    BY DEF Accept
  <2>2. CASE CountCategories(r)
    <3>1. DOMAIN [Idle EXCEPT !.step = "seed"].read = {}
      BY IdleType DEF Idle
    <3>2. QED
      BY <2>1, <2>2, <3>1, SoundTasks, ControlKept DEF CountCategories
  <2>3. CASE SeedForHousehold(r)
    BY <2>3, <1>5 DEF SeedForHousehold
  <2>4. CASE CreateCategory(r)
    BY <2>1, <2>4, SoundTasks, IdleType, ControlKept DEF CreateCategory
  <2>5. \A c : /\ DOMAIN [Idle EXCEPT !.step = "rename", !.cat = c].read = {}
               /\ DOMAIN [Idle EXCEPT !.step = "drop", !.cat = c].read = {}
    BY IdleType DEF Idle
  <2>6. CASE RenameCategory(r)
    <3>1. PICK c \in Custom : Accept(r, [Idle EXCEPT !.step = "rename", !.cat = c])
      BY <2>6 DEF RenameCategory
    <3> DEFINE new == [Idle EXCEPT !.step = "rename", !.cat = c]
    <3>2. Sound(new) /\ DOMAIN new.read = {}
      BY <2>5, SoundTasks
    <3>3. task' = [task EXCEPT ![r] = new] /\ made' = made
      BY <2>1, <2>6, <3>1 DEF RenameCategory
    <3> HIDE DEF new
    <3>4. QED
      BY <3>2, <3>3, ControlKept
  <2>7. CASE SaveCategory(r)
    BY <2>7, <1>5 DEF SaveCategory
  <2>8. CASE DeleteCategory(r)
    <3>1. PICK c \in Custom : Accept(r, [Idle EXCEPT !.step = "drop", !.cat = c])
      BY <2>8 DEF DeleteCategory
    <3> DEFINE new == [Idle EXCEPT !.step = "drop", !.cat = c]
    <3>2. Sound(new) /\ DOMAIN new.read = {}
      BY <2>5, SoundTasks
    <3>3. task' = [task EXCEPT ![r] = new] /\ made' = made
      BY <2>1, <2>8, <3>1 DEF DeleteCategory
    <3> HIDE DEF new
    <3>4. QED
      BY <3>2, <3>3, ControlKept
  <2>9. CASE RemoveCategory(r)
    BY <2>9, <1>5 DEF RemoveCategory
  <2>10. QED
    BY <1>13, <2>2, <2>3, <2>4, <2>6, <2>7, <2>8, <2>9 DEF CategoryRequest
<1>14. CASE Crash
  BY <1>14, SoundTasks, IdleType DEF Crash, ControlInv, Reads
<1>15. CASE UNCHANGED <<task, made>>
  BY <1>15 DEF ControlInv, Reads
<1>16. QED
  BY <1>1, <1>2, <1>3, <1>6, <1>7, <1>8, <1>9, <1>10, <1>11, <1>12, <1>13, <1>14, <1>15
  DEF Next, TransactionRequest, Erasure, Send, DeleteHousehold, EraseTransactions,
      EraseCategories, vars

LEMMA StoredStep ==
  ASSUME TypeOK, ControlInv, StoredInv, [Next]_vars
  PROVE  StoredInv'
<1> USE DEF TypeOK, StoredInv, dbVars, Rest, envVars
<1>1. ASSUME NEW r \in Request, InsertTransaction(r) PROVE StoredInv'
  BY <1>1 DEF InsertTransaction, Store
<1>2. ASSUME NEW r \in Request, SaveTransaction(r) PROVE StoredInv'
  BY <1>2 DEF SaveTransaction, Store
<1>3. ASSUME NEW r \in Request, ReinsertTransaction(r) PROVE StoredInv'
  <2>1. Target(r) \in made
    BY <1>3, TargetType DEF ReinsertTransaction, At, Updating, ControlInv
  <2>2. QED
    BY <1>3, <2>1 DEF ReinsertTransaction, Store
<1>4. ASSUME NEW r \in Request, RemoveTransactions(r) PROVE StoredInv'
  BY <1>4 DEF RemoveTransactions
<1>5. CASE EraseTransactions
  BY <1>5 DEF EraseTransactions
<1>6. CASE UNCHANGED rows /\ made \subseteq made'
  BY <1>6
<1>7. QED
  BY <1>1, <1>2, <1>3, <1>4, <1>5, <1>6
  DEF Next, TransactionRequest, CategoryRequest, Erasure, CreateTransaction,
      UpdateTransaction, CheckCategory, LoadTransaction, DeleteTransactions, Emit,
      CountCategories, SeedForHousehold, CreateCategory, RenameCategory, SaveCategory,
      DeleteCategory, RemoveCategory, Send, DeleteHousehold, EraseCategories, Crash, vars

-----------------------------------------------------------------------------
(* What a step leaves alone *)

\* Ids, stored rows and doubts accumulate; a household is erased once.
Grows ==
  /\ made \subseteq made'
  /\ raced \subseteq raced'
  /\ \A t \in Tx : held[t] \subseteq held'[t]
  /\ erasure' = "none" => erasure = "none"
  /\ faults' = 0 => faults = 0

LEMMA GrowsStep ==
  ASSUME TypeOK, [Next]_vars
  PROVE  Grows
<1> USE TransactionAssumption DEF TypeOK, Grows, Rest, envVars, dbVars, Store
<1>1. ASSUME NEW r \in Request, TransactionRequest(r) PROVE Grows
  <2>1. CASE InsertTransaction(r)
    <3>1. CASE task[r].want.cat \in categories
      <4>1. PICK t \in Tx : /\ made' = made \cup {t}
                            /\ held' = [held EXCEPT ![t] = @ \cup {task[r].want}]
        BY <2>1, <3>1 DEF InsertTransaction
      <4>2. UNCHANGED <<raced, erasure, faults>>
        BY <2>1 DEF InsertTransaction
      <4>3. QED
        BY <4>1, <4>2
    <3>2. CASE task[r].want.cat \notin categories
      BY <2>1, <3>2 DEF InsertTransaction
    <3>3. QED
      BY <3>1, <3>2
  <2>2. CASE SaveTransaction(r)
    BY <2>2 DEF SaveTransaction
  <2>3. CASE ReinsertTransaction(r)
    BY <2>3 DEF ReinsertTransaction
  <2>4. CASE UNCHANGED <<made, held, erasure, faults>> /\ raced \subseteq raced'
    BY <2>4
  <2>5. QED
    BY <1>1, <2>1, <2>2, <2>3, <2>4
    DEF TransactionRequest, CreateTransaction, UpdateTransaction, CheckCategory,
        LoadTransaction, DeleteTransactions, RemoveTransactions, Emit
<1>2. ASSUME NEW r \in Request, CategoryRequest(r) PROVE Grows
  BY <1>2 DEF CategoryRequest, CountCategories, SeedForHousehold, CreateCategory,
     RenameCategory, SaveCategory, DeleteCategory, RemoveCategory
<1>3. CASE Crash
  BY <1>3 DEF Crash
<1>4. CASE Send \/ DeleteHousehold \/ Erasure \/ UNCHANGED vars
  BY <1>4 DEF Send, DeleteHousehold, Erasure, EraseTransactions, EraseCategories, vars
<1>5. QED
  BY <1>1, <1>2, <1>3, <1>4 DEF Next

\* Sending moves an event from the memory of the process to the broker.
LEMMA SendKeeps ==
  ASSUME TypeOK, Send
  PROVE  events' = events
<1>1. outbox = <<Head(outbox)>> \o Tail(outbox)
  BY DEF TypeOK, Send
<1>2. QED
  BY <1>1 DEF TypeOK, Send, events

\* Events come by Emit and are lost by Crash, which leaves the published ones.
LEMMA EventsStep ==
  ASSUME TypeOK, [Next]_vars
  PROVE  \/ events' = events
         \/ \E r \in Request : Emit(r)
         \/ Crash /\ log' = log /\ events' = log
<1> USE DEF Rest, envVars, dbVars
<1>1. ASSUME NEW r \in Request, TransactionRequest(r), ~Emit(r)
      PROVE  events' = events
  BY <1>1 DEF TransactionRequest, CreateTransaction, InsertTransaction, UpdateTransaction,
     CheckCategory, LoadTransaction, SaveTransaction, ReinsertTransaction,
     DeleteTransactions, RemoveTransactions, events
<1>2. ASSUME NEW r \in Request, CategoryRequest(r) PROVE events' = events
  BY <1>2 DEF CategoryRequest, CountCategories, SeedForHousehold, CreateCategory,
     RenameCategory, SaveCategory, DeleteCategory, RemoveCategory, events
<1>3. CASE Crash
  <2>1. log \o <<>> = log
    BY DEF TypeOK
  <2>2. QED
    BY <1>3, <2>1 DEF Crash, events
<1>4. CASE DeleteHousehold \/ Erasure \/ UNCHANGED vars
  BY <1>4 DEF DeleteHousehold, Erasure, EraseTransactions, EraseCategories, vars, events
<1>5. QED
  BY <1>1, <1>2, <1>3, <1>4, SendKeeps DEF Next

\* What is emitted: one event for each transaction that was read, at the end.
LEMMA EmitAppends ==
  ASSUME TypeOK, NEW r \in Request, Emit(r)
  PROVE  LET E(t) == [tx |-> t, prev |-> task[r].read[t], next |-> task[r].want]
             n == Len(events)
             new == (n + 1)..Len(events')
         IN  /\ n \in Nat /\ Len(events') \in Nat /\ n <= Len(events')
             /\ \A i \in 1..n : events'[i] = events[i]
             /\ \A i \in new : \E t \in Reads(r) :
                  events'[i] = E(t) /\ \A j \in new \ {i} : events'[j].tx # t
             /\ \A t \in Reads(r) : \E i \in new : events'[i] = E(t)
<1> DEFINE E(t) == [tx |-> t, prev |-> task[r].read[t], next |-> task[r].want]
           S == EventsOf(r)
           k == Cardinality(S)
           n == Len(events)
           new == (n + 1)..Len(events')
<1>1. PICK order \in Bijection(1..k, S) : outbox' = outbox \o order
  BY DEF Emit
<1>2. k \in Nat /\ S \subseteq Event
  BY EventsType
<1>3. order \in [1..k -> S]
  BY <1>1 DEF Bijection, Injection
<1>4. \A i, j \in 1..k : order[i] = order[j] => i = j
  BY <1>1 DEF Bijection, Injection, IsInjective
<1>5. \A e \in S : \E i \in 1..k : order[i] = e
  BY <1>1 DEF Bijection, Surjection
<1>6. order \in Seq(Event) /\ Len(order) = k
  BY <1>2, <1>3
<1>7. events \in Seq(Event) /\ outbox \in Seq(Event) /\ log \in Seq(Event)
  BY DEF TypeOK, events
<1>8. events' = events \o order
  <2>1. log' = log
    BY DEF Emit
  <2>2. log \o (outbox \o order) = (log \o outbox) \o order
    BY <1>6, <1>7
  <2>3. QED
    BY <1>1, <2>1, <2>2 DEF events
<1>9. /\ n \in Nat /\ Len(events') = n + k
      /\ \A i \in 1..n : events'[i] = events[i]
      /\ \A i \in 1..k : events'[n + i] = order[i]
  <2>1. Len(events) \in Nat
    BY <1>7
  <2>2. /\ Len(events') = n + k
        /\ \A i \in 1..(n + k) : events'[i] = IF i <= n THEN events[i] ELSE order[i - n]
    BY <1>6, <1>7, <1>8, ConcatProperties
  <2>3. ASSUME NEW i \in 1..n PROVE events'[i] = events[i]
    BY <1>2, <2>1, <2>2
  <2>4. ASSUME NEW i \in 1..k PROVE events'[n + i] = order[i]
    <3>1. n + i \in 1..(n + k) /\ ~(n + i <= n) /\ (n + i) - n = i
      BY <1>2, <2>1
    <3>2. QED
      BY <2>2, <3>1
  <2>5. QED
    BY <2>1, <2>2, <2>3, <2>4
<1>10. \A e \in S : \E t \in Reads(r) : e = E(t)
  BY DEF EventsOf, Reads
<1>11. \A t \in Reads(r) : E(t) \in S
  BY DEF EventsOf, Reads
<1>12. ASSUME NEW i \in new
       PROVE  \E t \in Reads(r) :
                events'[i] = E(t) /\ \A j \in new \ {i} : events'[j].tx # t
  <2>1. i - n \in 1..k /\ events'[i] = order[i - n]
    BY <1>2, <1>9
  <2>2. PICK t \in Reads(r) : order[i - n] = E(t)
    BY <1>3, <1>10, <2>1
  <2>3. ASSUME NEW j \in new \ {i} PROVE events'[j].tx # t
    <3>1. j - n \in 1..k /\ events'[j] = order[j - n] /\ j - n # i - n
      BY <1>2, <1>9
    <3>2. PICK u \in Reads(r) : order[j - n] = E(u)
      BY <1>3, <1>10, <3>1
    <3>3. u # t
      BY <1>4, <2>1, <2>2, <3>1, <3>2
    <3>4. QED
      BY <3>1, <3>2, <3>3
  <2>4. QED
    BY <2>1, <2>2, <2>3
<1>13. ASSUME NEW t \in Reads(r) PROVE \E i \in new : events'[i] = E(t)
  <2>1. PICK i \in 1..k : order[i] = E(t)
    BY <1>5, <1>11
  <2>2. n + i \in new /\ events'[n + i] = E(t)
    BY <1>2, <1>9, <2>1
  <2>3. QED
    BY <2>2
<1>14. n <= Len(events') /\ Len(events') \in Nat
  BY <1>2, <1>9
<1>15. QED
  BY <1>9, <1>12, <1>13, <1>14

\* Afterwards, the latest event is the one just emitted, or what it was.
LEMMA EmitLatest ==
  ASSUME TypeOK, NEW r \in Request, Emit(r)
  PROVE  /\ \A t \in Reads(r) : Latest(t)' = task[r].want
         /\ \A t \in Tx \ Reads(r) : Latest(t)' = Latest(t)
         /\ \A i \in 1..Len(events) : Undoes(events, i) => Undoes(events', i)
         /\ \A i \in (Len(events) + 1)..Len(events') :
              /\ events'[i].tx \in Reads(r)
              /\ events'[i].next = task[r].want
              /\ events'[i].prev = task[r].read[events'[i].tx]
              /\ events'[i].prev = Latest(events'[i].tx) => Undoes(events', i)
<1> DEFINE E(t) == [tx |-> t, prev |-> task[r].read[t], next |-> task[r].want]
           n == Len(events)
           m == Len(events')
           new == (n + 1)..m
<1>1. /\ n \in Nat /\ m \in Nat /\ n <= m
      /\ \A i \in 1..n : events'[i] = events[i]
  BY EmitAppends
<1>2. \A i \in new : \E t \in Reads(r) :
        events'[i] = E(t) /\ \A j \in new \ {i} : events'[j].tx # t
  BY EmitAppends
<1>3. \A t \in Reads(r) : \E i \in new : events'[i] = E(t)
  BY EmitAppends
<1> HIDE DEF n, m
<1>4. ASSUME NEW t \in Reads(r) PROVE Announced(events', t, m) = task[r].want
  <2>1. PICK i \in new : events'[i] = E(t)
    BY <1>3
  <2>2. \A j \in new \ {i} : events'[j].tx # t
    <3>1. PICK u \in Reads(r) : events'[i] = E(u) /\ \A j \in new \ {i} : events'[j].tx # u
      BY <1>2
    <3>2. u = events'[i].tx
      BY <3>1
    <3>3. t = events'[i].tx
      BY <2>1
    <3>4. QED
      BY <3>1, <3>2, <3>3
  <2>3. i \in 1..m /\ \A j \in (i + 1)..m : events'[j].tx # t
    BY <1>1, <2>2
  <2>4. Announced(events', t, m) = events'[i].next
    BY <1>1, <2>1, <2>3, AnnouncedLast
  <2>5. QED
    BY <2>1, <2>4
<1>5. ASSUME NEW t, t \notin Reads(r)
      PROVE  Announced(events', t, m) = Announced(events, t, n)
  <2>1. ASSUME NEW j \in new PROVE events'[j].tx # t
    <3>1. PICK u \in Reads(r) : events'[j] = E(u)
      BY <1>2
    <3>2. u = events'[j].tx
      BY <3>1
    <3>3. QED
      BY <1>5, <3>2
  <2>2. QED
    BY <1>1, <2>1, AnnouncedSame
<1>6. ASSUME NEW i \in 1..n, Undoes(events, i) PROVE Undoes(events', i)
  <2>1. events'[i] = events[i] /\ i - 1 \in Nat
    BY <1>1
  <2>2. \A j \in 1..(i - 1) : events'[j] = events[j]
    BY <1>1
  <2>3. Announced(events', events[i].tx, i - 1) = Announced(events, events[i].tx, i - 1)
    BY <2>1, <2>2, AnnouncedSame
  <2>4. QED
    BY <1>6, <2>1, <2>3 DEF Undoes
<1>7. ASSUME NEW i \in new
      PROVE  /\ events'[i].tx \in Reads(r)
             /\ events'[i].next = task[r].want
             /\ events'[i].prev = task[r].read[events'[i].tx]
             /\ events'[i].prev = Announced(events, events'[i].tx, n)
                  => Undoes(events', i)
  <2>1. PICK t \in Reads(r) :
          events'[i] = E(t) /\ \A j \in new \ {i} : events'[j].tx # t
    BY <1>2
  <2>2. i - 1 \in Nat /\ n <= i - 1 /\ \A j \in (n + 1)..(i - 1) : events'[j].tx # t
    BY <1>1, <2>1
  <2>3. Announced(events', t, i - 1) = Announced(events, t, n)
    BY <1>1, <2>2, AnnouncedSame
  <2>4. QED
    BY <2>1, <2>3 DEF Undoes
<1>8. \A t : Latest(t) = Announced(events, t, n) /\ Latest(t)' = Announced(events', t, m)
  BY DEF Latest, n, m
<1>9. QED
  BY <1>4, <1>5, <1>6, <1>7, <1>8 DEF n, m

-----------------------------------------------------------------------------
(* Past *)

\* Who reads a transaction: somebody who did before, a request that begins, or
\* the one that has just inserted it.
Began(r, t) ==
  /\ task[r].step = "free"
  /\ task'[r].step \in {"category", "load", "remove"}
  /\ rows[t] # NoRow /\ task'[r].read[t] = rows[t]
  /\ \A q \in Request \ {r} : task'[q] = task[q]
  /\ Raced(r, {t}) \subseteq raced'
  /\ UNCHANGED <<rows, erasure, log, outbox>>

Inserted(r, t) ==
  /\ t \in Tx \ made
  /\ task'[r].step = "emit"
  /\ task'[r].read[t] = NoRow /\ rows' = [rows EXCEPT ![t] = task[r].want]
  /\ task'[r].want = task[r].want
  /\ \A q \in Request \ {r} : task'[q] = task[q]
  /\ UNCHANGED <<erasure, log, outbox>>

LEMMA ReadsStep ==
  ASSUME TypeOK, ControlInv, [Next]_vars, NEW q \in Request, NEW t \in Reads(q)'
  PROVE  \/ t \in Reads(q) /\ task'[q].read[t] = task[q].read[t]
         \/ Began(q, t)
         \/ Inserted(q, t)
<1> USE DEF TypeOK, Reads, Rest, envVars, dbVars, At
<1> DEFINE Same == t \in Reads(q) /\ task'[q].read[t] = task[q].read[t]
<1>1. ASSUME NEW r \in Request, TransactionRequest(r), r # q PROVE Same
  <2>1. task'[q] = task[q]
    BY <1>1 DEF TransactionRequest, CreateTransaction, InsertTransaction,
       UpdateTransaction, CheckCategory, LoadTransaction, SaveTransaction,
       ReinsertTransaction, DeleteTransactions, RemoveTransactions, Emit, Accept, Go, End
  <2>2. QED
    BY <2>1
<1>2. ASSUME NEW r \in Request, CategoryRequest(r) PROVE Same
  <2>1. DOMAIN Idle.read = {} /\ (\A k : DOMAIN [Idle EXCEPT !.step = k].read = {})
        /\ \A k, c : DOMAIN [Idle EXCEPT !.step = k, !.cat = c].read = {}
    BY IdleType DEF Idle
  <2>2. \A k : DOMAIN k.read = {} /\ task' = [task EXCEPT ![r] = k]
               => task'[q] = task[q] \/ DOMAIN task'[q].read = {}
    OBVIOUS
  <2>3. CASE CountCategories(r)
    BY <2>1, <2>2, <2>3 DEF CountCategories, Accept
  <2>4. CASE CreateCategory(r)
    BY <2>1, <2>2, <2>4 DEF CreateCategory, Accept
  <2>5. CASE RenameCategory(r)
    BY <2>1, <2>2, <2>5 DEF RenameCategory, Accept
  <2>6. CASE DeleteCategory(r)
    BY <2>1, <2>2, <2>6 DEF DeleteCategory, Accept
  <2>7. CASE SeedForHousehold(r) \/ SaveCategory(r) \/ RemoveCategory(r)
    BY <2>1, <2>2, <2>7 DEF SeedForHousehold, SaveCategory, RemoveCategory, End
  <2>8. QED
    BY <1>2, <2>3, <2>4, <2>5, <2>6, <2>7 DEF CategoryRequest
<1>3. CASE CreateTransaction(q)
  <2>1. PICK row : Accept(q, [Idle EXCEPT !.step = "insert", !.want = row])
    BY <1>3 DEF CreateTransaction
  <2>2. DOMAIN task'[q].read = {}
    BY <2>1, IdleType DEF Accept, Idle
  <2>3. QED
    BY <2>2
<1>4. CASE InsertTransaction(q)
  <2>1. CASE task[q].want.cat \in categories
    <3>1. PICK u \in Tx \ made :
            /\ Store(u, task[q].want)
            /\ task' = [task EXCEPT ![q].step = "emit", ![q].read = [s \in {u} |-> NoRow]]
      BY <1>4, <2>1 DEF InsertTransaction
    <3>2. u = t
      BY <3>1 DEF Task
    <3>3. /\ task'[q].step = "emit" /\ task'[q].read[t] = NoRow
          /\ task'[q].want = task[q].want
          /\ \A p \in Request \ {q} : task'[p] = task[p]
      BY <3>1, <3>2 DEF Task
    <3>4. QED
      BY <1>4, <3>1, <3>2, <3>3 DEF Inserted, Store, InsertTransaction
  <2>2. CASE task[q].want.cat \notin categories
    BY <1>4, <2>2, IdleType DEF InsertTransaction, End
  <2>3. QED
    BY <2>1, <2>2
<1>5. CASE UpdateTransaction(q)
  <2>1. PICK u \in Tx, row \in Row :
          /\ rows[u] # NoRow
          /\ Accept(q, [Idle EXCEPT
               !.step = IF row.cat = rows[u].cat THEN "load" ELSE "category",
               !.read = [s \in {u} |-> rows[u]], !.want = row])
          /\ raced' = raced \cup Raced(q, {u})
    BY <1>5 DEF UpdateTransaction
  <2>2. /\ task'[q].read = [s \in {u} |-> rows[u]]
        /\ task'[q].step \in {"load", "category"}
        /\ task[q].step = "free"
        /\ \A p \in Request \ {q} : task'[p] = task[p]
    BY <2>1 DEF Accept, Idle
  <2>3. u = t
    BY <2>2
  <2>4. QED
    BY <1>5, <2>1, <2>2, <2>3 DEF Began, UpdateTransaction
<1>6. CASE DeleteTransactions(q)
  <2>1. PICK T \in SUBSET {u \in Tx : rows[u] # NoRow} :
          /\ Accept(q, [Idle EXCEPT !.step = "remove", !.read = [u \in T |-> rows[u]]])
          /\ raced' = raced \cup Raced(q, T)
    BY <1>6 DEF DeleteTransactions
  <2>2. /\ task'[q].read = [u \in T |-> rows[u]]
        /\ task'[q].step = "remove" /\ task[q].step = "free"
        /\ \A p \in Request \ {q} : task'[p] = task[p]
    BY <2>1 DEF Accept, Idle
  <2>3. t \in T
    BY <2>2
  <2>4. Raced(q, {t}) \subseteq Raced(q, T)
    BY <2>3 DEF Raced
  <2>5. QED
    BY <1>6, <2>1, <2>2, <2>3, <2>4 DEF Began, DeleteTransactions
<1>7. CASE CheckCategory(q) \/ LoadTransaction(q) \/ SaveTransaction(q)
             \/ ReinsertTransaction(q) \/ RemoveTransactions(q) \/ Emit(q)
  <2>1. task'[q].read = task[q].read \/ task'[q] = Idle
    BY <1>7 DEF CheckCategory, LoadTransaction, SaveTransaction, ReinsertTransaction,
       RemoveTransactions, Emit, Go, End, Task
  <2>2. QED
    BY <2>1, IdleType
<1>8. CASE Crash
  BY <1>8, IdleType DEF Crash
<1>9. CASE Send \/ DeleteHousehold \/ Erasure \/ UNCHANGED vars
  BY <1>9 DEF Send, DeleteHousehold, Erasure, EraseTransactions, EraseCategories, vars
<1>10. QED
  BY <1>1, <1>2, <1>3, <1>4, <1>5, <1>6, <1>7, <1>8, <1>9 DEF Next, TransactionRequest

\* How rows change: by a request on what it has read, by an insert under a new
\* id, and by the erasure.
LEMMA RowsStep ==
  ASSUME TypeOK, ControlInv, [Next]_vars, NEW t \in Tx, rows'[t] # rows[t]
  PROVE  \/ rows'[t] = NoRow /\ erasure' # "none"
         \/ \E r \in Request :
              /\ t \in Reads(r) /\ At(r, "remove") /\ rows'[t] = NoRow
              /\ RemoveTransactions(r)
         \/ \E r \in Request :
              /\ t \in Reads(r) /\ task[r].step \in {"update", "reinsert"}
              /\ task'[r] = [task[r] EXCEPT !.step = "emit"]
              /\ rows'[t] \in held'[t]
              /\ SaveTransaction(r) \/ ReinsertTransaction(r)
         \/ \E r \in Request :
              /\ t \in Reads(r)' /\ Inserted(r, t)
              /\ task[r].step = "insert"
              /\ rows'[t] = task[r].want /\ rows'[t] \in held'[t]
<1> USE DEF TypeOK, Rest, envVars, dbVars, At
<1>1. ASSUME NEW r \in Request, InsertTransaction(r)
      PROVE  /\ t \in Reads(r)' /\ Inserted(r, t)
             /\ task[r].step = "insert"
             /\ rows'[t] = task[r].want /\ rows'[t] \in held'[t]
  <2>1. PICK u \in Tx \ made :
          /\ Store(u, task[r].want)
          /\ task' = [task EXCEPT ![r].step = "emit", ![r].read = [s \in {u} |-> NoRow]]
    BY <1>1 DEF InsertTransaction
  <2>2. u = t
    BY <2>1 DEF Store
  <2>3. /\ task'[r].step = "emit" /\ task'[r].read = [s \in {t} |-> NoRow]
        /\ task'[r].want = task[r].want
        /\ \A p \in Request \ {r} : task'[p] = task[p]
    BY <2>1, <2>2 DEF Task
  <2>4. task'[r].read[t] = NoRow /\ t \in DOMAIN task'[r].read
    BY <2>3
  <2>5. rows' = [rows EXCEPT ![t] = task[r].want] /\ task[r].want \in held'[t]
    BY <2>1, <2>2 DEF Store
  <2>6. QED
    BY <1>1, <2>1, <2>2, <2>3, <2>4, <2>5 DEF Inserted, InsertTransaction, Reads
<1>2. ASSUME NEW r \in Request, SaveTransaction(r) \/ ReinsertTransaction(r)
      PROVE  /\ t \in Reads(r) /\ task[r].step \in {"update", "reinsert"}
             /\ task'[r] = [task[r] EXCEPT !.step = "emit"]
             /\ rows'[t] \in held'[t]
  <2>1. PICK row : Store(Target(r), row) /\ Go(r, "emit")
    BY <1>2 DEF SaveTransaction, ReinsertTransaction
  <2>2. t = Target(r) /\ rows'[t] \in held'[t]
    BY <2>1 DEF Store
  <2>3. task[r].step \in {"update", "reinsert"}
    BY <1>2 DEF SaveTransaction, ReinsertTransaction
  <2>4. QED
    BY <2>1, <2>2, <2>3, TargetType DEF Go, Updating
<1>3. ASSUME NEW r \in Request, RemoveTransactions(r)
      PROVE  t \in Reads(r) /\ At(r, "remove") /\ rows'[t] = NoRow
  BY <1>3 DEF RemoveTransactions, Reads
<1>4. CASE EraseTransactions
  BY <1>4 DEF EraseTransactions
<1>5. ASSUME NEW r \in Request, TransactionRequest(r), ~InsertTransaction(r),
             ~SaveTransaction(r), ~ReinsertTransaction(r), ~RemoveTransactions(r)
      PROVE  FALSE
  BY <1>5 DEF TransactionRequest, CreateTransaction, UpdateTransaction, CheckCategory,
     LoadTransaction, DeleteTransactions, Emit
<1>6. ASSUME NEW r \in Request, CategoryRequest(r) PROVE FALSE
  BY <1>6 DEF CategoryRequest, CountCategories, SeedForHousehold, CreateCategory,
     RenameCategory, SaveCategory, DeleteCategory, RemoveCategory
<1>7. ~(Send \/ DeleteHousehold \/ EraseCategories \/ Crash \/ UNCHANGED vars)
  BY DEF Send, DeleteHousehold, EraseCategories, Crash, vars
<1>8. QED
  BY <1>1, <1>2, <1>3, <1>4, <1>5, <1>6, <1>7 DEF Next, Erasure

LEMMA PastStep ==
  ASSUME TypeOK, ControlInv, StoredInv, PastInv, OwnInv, [Next]_vars
  PROVE  PastInv'
<1>1. Grows
  BY GrowsStep
<1>2. ASSUME NEW t \in Tx, rows'[t] # NoRow PROVE rows'[t] \in held'[t]
  <2>1. CASE rows'[t] = rows[t]
    BY <1>1, <1>2, <2>1 DEF PastInv, Grows
  <2>2. CASE rows'[t] # rows[t]
    BY <1>2, <2>2, RowsStep
  <2>3. QED
    BY <2>1, <2>2
<1>3. ASSUME NEW r \in Request, NEW t \in Reads(r)'
      PROVE  task'[r].read[t] \in held'[t] \cup {NoRow}
  <2>1. CASE t \in Reads(r) /\ task'[r].read[t] = task[r].read[t]
    <3>1. t \in Tx
      BY <2>1, ReadingType DEF TypeOK, Task, Reads
    <3>2. QED
      BY <1>1, <2>1, <3>1 DEF PastInv, Grows
  <2>2. CASE Began(r, t)
    <3>1. TypeOK'
      BY TypeStep
    <3>2. t \in Tx
      BY <3>1, ReadingType DEF TypeOK, Task, Reads
    <3>3. QED
      BY <1>1, <2>2, <3>2 DEF PastInv, Grows, Began
  <2>3. CASE Inserted(r, t)
    BY <2>3 DEF Inserted
  <2>4. QED
    BY <2>1, <2>2, <2>3, ReadsStep
<1> DEFINE Fine(e) ==
      /\ e.tx \in made'
      /\ e.prev \in held'[e.tx] \cup {NoRow}
      /\ erasure' = "none" /\ e.tx \notin raced' => e.next \in held'[e.tx] \cup {NoRow}
<1>4. ASSUME NEW i \in 1..Len(events) PROVE Fine(events[i])
  <2>1. events \in Seq(Event)
    BY DEF TypeOK, events
  <2>2. events[i] \in Event
    BY <2>1
  <2>3. events[i].tx \in Tx
    BY <2>2 DEF Event
  <2>4. QED
    BY <1>1, <2>3 DEF PastInv, Grows
<1>5. ASSUME NEW i \in 1..Len(events') PROVE Fine(events'[i])
  <2>1. CASE events' = events
    BY <1>4, <2>1
  <2>2. CASE events' = log
    <3>1. Len(log) <= Len(events) /\ i \in 1..Len(log) /\ events[i] = log[i]
          /\ Len(events) \in Nat /\ Len(log) \in Nat
      BY <2>2, ConcatProperties DEF TypeOK, events
    <3>2. QED
      BY <1>4, <2>2, <3>1
  <2>3. ASSUME NEW r \in Request, Emit(r) PROVE Fine(events'[i])
    <3>1. /\ Len(events) \in Nat /\ Len(events') \in Nat
          /\ \A j \in 1..Len(events) : events'[j] = events[j]
      BY <2>3, EmitAppends
    <3>2. CASE i \in 1..Len(events)
      BY <1>4, <3>1, <3>2
    <3>3. CASE i \notin 1..Len(events)
      <4> DEFINE t == events'[i].tx
      <4>1. i \in (Len(events) + 1)..Len(events')
        BY <3>1, <3>3
      <4>2. /\ t \in Reads(r) /\ events'[i].next = task[r].want
            /\ events'[i].prev = task[r].read[t]
        BY <2>3, <4>1, EmitLatest
      <4>3. t \in Tx /\ t \in made
        BY <4>2, ReadingType DEF TypeOK, Task, Reads, ControlInv
      <4>4. events'[i].prev \in held'[t] \cup {NoRow}
        BY <1>1, <4>2, <4>3 DEF PastInv, Grows
      <4>5. ASSUME erasure' = "none", t \notin raced'
            PROVE  events'[i].next \in held'[t] \cup {NoRow}
        <5>1. rows[t] = task[r].want
          BY <1>1, <2>3, <4>2, <4>5 DEF Grows, OwnInv, Own, Erased, Emit, At
        <5>2. QED
          BY <1>1, <4>2, <4>3, <5>1 DEF PastInv, Grows
      <4>6. QED
        BY <1>1, <4>3, <4>4, <4>5 DEF Grows
    <3>4. QED
      BY <3>2, <3>3
  <2>4. QED
    BY <2>1, <2>2, <2>3, EventsStep
<1>6. QED
  BY <1>2, <1>3, <1>5 DEF PastInv

-----------------------------------------------------------------------------
(* Requests on one transaction *)

LEMMA SharedStep ==
  ASSUME TypeOK, ControlInv, SharedInv, [Next]_vars
  PROVE  SharedInv'
<1>1. SUFFICES ASSUME NEW r \in Request, NEW q \in Request, r # q,
                      NEW t \in Reads(r)' \cap Reads(q)'
               PROVE  t \in raced'
  BY DEF SharedInv
<1>2. Grows
  BY GrowsStep
<1>3. ASSUME NEW a \in Request, NEW b \in Request, a # b, t \in Reads(a)', t \in Reads(b)',
             Began(a, t) \/ Inserted(a, t)
      PROVE  t \in raced'
  <2>1. t \in Reads(b)
    BY <1>3 DEF Began, Inserted, Reads
  <2>2. t \in made
    BY <2>1 DEF ControlInv
  <2>3. Began(a, t)
    BY <1>3, <2>2 DEF Inserted
  <2>4. t \in Raced(a, {t})
    BY <1>3, <2>1 DEF Raced, Reads
  <2>5. QED
    BY <2>3, <2>4 DEF Began
<1>4. CASE Began(r, t) \/ Inserted(r, t) \/ Began(q, t) \/ Inserted(q, t)
  BY <1>1, <1>3, <1>4
<1>5. CASE t \in Reads(r) /\ t \in Reads(q)
  BY <1>1, <1>2, <1>5 DEF SharedInv, Grows
<1>6. QED
  BY <1>4, <1>5, ReadsStep

\* The columns that differ are those to be assigned.
LEMMA MergedIsWanted ==
  ASSUME NEW row \in Row, NEW want \in Row, NEW diff,
         diff = {c \in Columns : row[c] # want[c]}
  PROVE  /\ Merged(row, want, diff) = want
         /\ diff = {} => row = want
<1>1. /\ "cat" \in diff <=> row.cat # want.cat
      /\ "value" \in diff <=> row.value # want.value
  BY DEF Columns
<1>2. Merged(row, want, diff) = want
  BY <1>1 DEF Merged, Row
<1>3. diff = {} => row = want
  BY <1>1 DEF Row
<1>4. QED
  BY <1>2, <1>3

\* The request that works on t goes on.
LEMMA OwnGoesOn ==
  ASSUME TypeOK, ControlInv, NEW r \in Request, TransactionRequest(r),
         NEW t \in Reads(r), t \in Reads(r)', Own(r, t), Grows,
         task[r].step # "free"
  PROVE  Own(r, t)'
<1> USE DEF At, Rest, envVars, dbVars
<1>1. /\ task \in [Request -> Task] /\ rows \in [Tx -> Maybe]
      /\ task[r] \in Task /\ Sound(task[r]) /\ t \in Tx
  BY ReadingType DEF TypeOK, ControlInv, Reads, Task
<1>2. \A step \in Steps : Go(r, step) => task'[r] = [task[r] EXCEPT !.step = step]
  BY <1>1 DEF Go
<1>3. ~End(r)
  BY <1>1, IdleType DEF End, Reads
<1>4. ~ Accept(r, Idle) /\ task[r].step # "insert"
  BY <1>1 DEF Accept, Sound, Reads
<1>5. Erased(t) /\ rows'[t] = rows[t] => Erased(t)'
  BY DEF Erased, Grows
<1>6. CASE CheckCategory(r)
  <2>1. task'[r] = [task[r] EXCEPT !.step = "load"]
    BY <1>2, <1>3, <1>6 DEF CheckCategory, Steps
  <2>2. rows' = rows /\ task[r].step = "category"
    BY <1>6 DEF CheckCategory
  <2>3. QED
    BY <1>1, <1>5, <2>1, <2>2 DEF Own, Updating, Task
<1>7. CASE LoadTransaction(r)
  <2>1. t = Target(r) /\ task[r].want \in Row /\ task[r].read[t] \in Row
        /\ task[r].step = "load" /\ rows' = rows
    BY <1>1, <1>7, TargetType DEF LoadTransaction, Updating, Sound, Reads
  <2>2. rows[t] = task[r].read[t] \/ Erased(t)
    BY <2>1 DEF Own, Updating
  <2>3. CASE rows[t] = NoRow
    <3>1. Erased(t)
      BY <2>1, <2>2, <2>3, TransactionAssumption
    <3>2. task'[r] = [task[r] EXCEPT !.step = "reinsert"]
      BY <1>2, <1>7, <2>1, <2>3 DEF LoadTransaction, Steps
    <3>3. QED
      BY <1>1, <1>5, <2>1, <3>1, <3>2 DEF Own, Updating, Task
  <2>4. CASE rows[t] # NoRow
    <3> DEFINE diff == {c \in Columns : rows[t][c] # task[r].want[c]}
    <3>1. rows[t] = task[r].read[t]
      BY <2>2, <2>4 DEF Erased
    <3>2. /\ task'[r].diff = diff
          /\ task'[r].step = IF diff = {} THEN "emit" ELSE "update"
          /\ task'[r].read = task[r].read /\ task'[r].want = task[r].want
      BY <1>1, <1>7, <2>1, <2>4 DEF LoadTransaction, Task
    <3>3. diff = {} => rows[t] = task[r].want
      <4>1. rows[t] \in Row
        BY <2>1, <3>1
      <4> DEFINE d == diff
      <4>2. d = {c \in Columns : rows[t][c] # task[r].want[c]}
        OBVIOUS
      <4> HIDE DEF d
      <4>3. d = {} => rows[t] = task[r].want
        BY <2>1, <4>1, <4>2, MergedIsWanted
      <4>4. QED
        BY <4>3 DEF d
    <3>4. CASE diff = {}
      BY <2>1, <3>2, <3>3, <3>4 DEF Own, Updating
    <3>5. CASE diff # {}
      BY <2>1, <3>1, <3>2, <3>5 DEF Own, Updating
    <3>6. QED
      BY <3>4, <3>5
  <2>5. QED
    BY <2>3, <2>4
<1>8. CASE SaveTransaction(r)
  <2>1. t = Target(r) /\ task[r].want \in Row /\ task[r].read[t] \in Row
        /\ task[r].step = "update"
    BY <1>1, <1>8, TargetType DEF SaveTransaction, Updating, Sound, Reads
  <2>2. task'[r] = [task[r] EXCEPT !.step = "emit"]
    BY <1>2, <1>3, <1>8 DEF SaveTransaction, Steps
  <2>3. rows[t] = task[r].read[t] \/ Erased(t)
    BY <2>1 DEF Own, Updating
  <2>4. CASE rows[t] = NoRow
    <3>1. Erased(t) /\ rows' = rows
      BY <1>8, <2>1, <2>3, <2>4, TransactionAssumption DEF SaveTransaction
    <3>2. QED
      BY <1>1, <1>5, <2>2, <3>1 DEF Own, Updating, Task
  <2>5. CASE rows[t] # NoRow
    <3>1. rows[t] = task[r].read[t]
      BY <2>3, <2>5 DEF Erased
    <3>2. task[r].diff = {c \in Columns : rows[t][c] # task[r].want[c]}
      BY <2>1, <3>1 DEF Own
    <3>3. Merged(rows[t], task[r].want, task[r].diff) = task[r].want
      BY <2>1, <3>1, <3>2, MergedIsWanted
    <3>4. rows' = [rows EXCEPT ![t] = Merged(rows[t], task[r].want, task[r].diff)]
      BY <1>3, <1>8, <2>1, <2>5 DEF SaveTransaction, Store
    <3>5. rows'[t] = task[r].want
      BY <1>1, <3>3, <3>4
    <3>6. QED
      BY <1>1, <2>2, <3>5 DEF Own, Updating, Task
  <2>6. QED
    BY <2>4, <2>5
<1>9. CASE ReinsertTransaction(r)
  <2>1. t = Target(r) /\ task[r].step = "reinsert"
    BY <1>9, TargetType DEF ReinsertTransaction, Updating
  <2>2. task'[r] = [task[r] EXCEPT !.step = "emit"] /\ rows'[t] = task[r].want
    BY <1>1, <1>2, <1>3, <1>9, <2>1 DEF ReinsertTransaction, Store, Steps
  <2>3. QED
    BY <1>1, <2>2 DEF Own, Updating, Task
<1>10. CASE RemoveTransactions(r)
  <2>1. task[r].step = "remove" /\ task[r].want = NoRow
    BY <1>1, <1>10 DEF RemoveTransactions, Sound
  <2>2. task'[r] = [task[r] EXCEPT !.step = "emit"] /\ rows'[t] = NoRow
    BY <1>1, <1>2, <1>10 DEF RemoveTransactions, Steps, Reads
  <2>3. QED
    BY <1>1, <2>1, <2>2 DEF Own, Updating, Task
<1>11. ~CreateTransaction(r) /\ ~UpdateTransaction(r) /\ ~DeleteTransactions(r)
  BY DEF CreateTransaction, UpdateTransaction, DeleteTransactions, Accept
<1>12. ~InsertTransaction(r) /\ ~Emit(r)
  BY <1>3, <1>4 DEF InsertTransaction, Emit
<1>13. QED
  BY <1>6, <1>7, <1>8, <1>9, <1>10, <1>11, <1>12 DEF TransactionRequest

\* Somebody else's step: the task stays, and so does the row unless it is erased.
LEMMA OwnIsLeft ==
  ASSUME NEW r \in Request, NEW t \in Tx, Own(r, t), Grows, task'[r] = task[r],
         rows'[t] = rows[t] \/ (rows'[t] = NoRow /\ erasure' # "none")
  PROVE  Own(r, t)'
BY DEF Own, Erased, Grows

\* Whose step it is.
LEMMA WhoseStep ==
  ASSUME TypeOK, [Next]_vars
  PROVE  \/ \E p \in Request : /\ TransactionRequest(p) \/ CategoryRequest(p)
                               /\ \A q \in Request \ {p} : task'[q] = task[q]
         \/ Crash
         \/ task' = task
<1> USE DEF Accept, Go, End, TypeOK
<1>1. ASSUME NEW p \in Request, TransactionRequest(p), NEW q \in Request \ {p}
      PROVE  task'[q] = task[q]
  BY <1>1 DEF TransactionRequest, CreateTransaction, InsertTransaction,
     UpdateTransaction, CheckCategory, LoadTransaction, SaveTransaction,
     ReinsertTransaction, DeleteTransactions, RemoveTransactions, Emit
<1>2. ASSUME NEW p \in Request, CategoryRequest(p), NEW q \in Request \ {p}
      PROVE  task'[q] = task[q]
  BY <1>2 DEF CategoryRequest, CountCategories, SeedForHousehold, CreateCategory,
     RenameCategory, SaveCategory, DeleteCategory, RemoveCategory
<1>3. Send \/ DeleteHousehold \/ Erasure \/ UNCHANGED vars => task' = task
  BY DEF Send, DeleteHousehold, Erasure, EraseTransactions, EraseCategories, vars
<1>4. QED
  BY <1>1, <1>2, <1>3 DEF Next

\* A request that is free or whose step is about categories has read nothing.
LEMMA CategoryReads ==
  ASSUME TypeOK, ControlInv, NEW r \in Request, CategoryRequest(r)
  PROVE  Reads(r) = {}
BY DEF CategoryRequest, CountCategories, SeedForHousehold, CreateCategory,
   RenameCategory, SaveCategory, DeleteCategory, RemoveCategory, Accept, At,
   ControlInv, Sound, Reads

LEMMA OwnStep ==
  ASSUME TypeOK, ControlInv, SharedInv, OwnInv, [Next]_vars
  PROVE  OwnInv'
<1>1. SUFFICES ASSUME NEW r \in Request, NEW t \in Reads(r)', t \notin raced'
               PROVE  Own(r, t)'
  BY DEF OwnInv
<1>2. Grows /\ TypeOK'
  BY GrowsStep, TypeStep
<1>3. CASE Began(r, t)
  BY <1>3 DEF Own, Began, Updating
<1>4. CASE Inserted(r, t)
  BY <1>4 DEF Own, Inserted, Updating, TypeOK
<1>5. CASE t \in Reads(r) /\ task'[r].read[t] = task[r].read[t]
  <2>1. Own(r, t) /\ t \in Tx
    BY <1>1, <1>2, <1>5, ReadingType DEF OwnInv, Grows, TypeOK, Task, Reads
  <2>2. task[r].step # "free"
    BY <1>5 DEF ControlInv, Sound, Reads
  <2>3. CASE TransactionRequest(r)
    BY <1>1, <1>2, <1>5, <2>1, <2>2, <2>3, OwnGoesOn
  <2>4. CASE task'[r] = task[r] /\ ~TransactionRequest(r)
    <3>1. rows'[t] = rows[t] \/ (rows'[t] = NoRow /\ erasure' # "none")
      <4>1. SUFFICES ASSUME rows'[t] # rows[t], ~(rows'[t] = NoRow /\ erasure' # "none")
                     PROVE  FALSE
        OBVIOUS
      <4>2. ASSUME NEW p \in Request, t \in Reads(p), TransactionRequest(p)
            PROVE  FALSE
        BY <1>1, <1>2, <1>5, <2>4, <4>2 DEF SharedInv, Grows
      <4>3. t \in made
        BY <1>5 DEF ControlInv
      <4>4. QED
        BY <2>1, <4>1, <4>2, <4>3, RowsStep DEF TransactionRequest, Inserted
    <3>2. QED
      BY <1>2, <2>1, <2>4, <3>1, OwnIsLeft
  <2>5. ~CategoryRequest(r)
    BY <1>5, CategoryReads
  <2>6. ~Crash
    BY <1>1, IdleType DEF Crash, Reads
  <2>7. QED
    BY <2>3, <2>4, <2>5, <2>6, WhoseStep
<1>6. QED
  BY <1>3, <1>4, <1>5, ReadsStep

\* A request that is about to emit does that, unless the process dies.
LEMMA EmitNext ==
  ASSUME TypeOK, [Next]_vars, NEW r \in Request, At(r, "emit")
  PROVE  task'[r] = task[r] \/ Emit(r) \/ Crash
<1>1. CASE TransactionRequest(r)
  BY <1>1 DEF TransactionRequest, CreateTransaction, InsertTransaction,
     UpdateTransaction, CheckCategory, LoadTransaction, SaveTransaction,
     ReinsertTransaction, DeleteTransactions, RemoveTransactions, Accept, At
<1>2. CASE CategoryRequest(r)
  BY <1>2 DEF CategoryRequest, CountCategories, SeedForHousehold, CreateCategory,
     RenameCategory, SaveCategory, DeleteCategory, RemoveCategory, Accept, At
<1>3. QED
  BY <1>1, <1>2, WhoseStep

\* Nothing was ever announced of an id that was not generated.
LEMMA NewIsUnannounced ==
  ASSUME TypeOK, PastInv, NEW t \in Tx \ made
  PROVE  Latest(t) = NoRow
<1>1. {i \in 1..Len(events) : events[i].tx = t} = {}
  BY DEF PastInv
<1>2. QED
  BY <1>1 DEF Latest, Announced

LEMMA AnnouncedStep ==
  ASSUME TypeOK, ControlInv, PastInv, SharedInv, OwnInv, OwnInv', AnnouncedInv,
         [Next]_vars
  PROVE  AnnouncedInv'
<1> SUFFICES ASSUME faults' = 0 PROVE AnnouncedInv'
  BY DEF AnnouncedInv
<1>1. Grows /\ TypeOK' /\ faults = 0 /\ ~Crash
  BY GrowsStep, TypeStep DEF Grows, Crash, TypeOK
<1>2. \A r \in Request : \A t \in Reads(r) : t \in Tx
  BY ReadingType DEF TypeOK, Task, Reads
<1>3. events' = events \/ \E r \in Request : Emit(r)
  BY <1>1, EventsStep
<1>4. ASSUME NEW t \in Tx, ~ \E r \in Request : Emit(r) /\ t \in Reads(r)
      PROVE  Latest(t)' = Latest(t)
  <2>1. CASE events' = events
    BY <2>1 DEF Latest
  <2>2. ASSUME NEW r \in Request, Emit(r) PROVE Latest(t)' = Latest(t)
    BY <1>4, <2>2, EmitLatest
  <2>3. QED
    BY <1>3, <2>1, <2>2
<1>5. ASSUME NEW r \in Request, NEW t \in Reads(r)', t \notin raced'
      PROVE  task'[r].read[t] = Latest(t)'
  <2>1. t \notin raced
    BY <1>1, <1>5 DEF Grows
  <2>2. t \in Tx
    BY <1>1, ReadingType DEF TypeOK, Task, Reads
  <2>3. CASE t \in Reads(r) /\ task'[r].read[t] = task[r].read[t]
    <3>1. ASSUME NEW p \in Request, Emit(p), t \in Reads(p) PROVE FALSE
      <4>1. p = r
        BY <2>1, <2>3, <3>1 DEF SharedInv
      <4>2. Reads(r)' = {}
        BY <3>1, <4>1, IdleType DEF Emit, End, Reads, TypeOK
      <4>3. QED
        BY <4>2
    <3>2. Latest(t)' = Latest(t)
      BY <1>4, <2>2, <3>1
    <3>3. QED
      BY <1>1, <2>1, <2>3, <3>2 DEF AnnouncedInv
  <2>4. CASE Began(r, t)
    <3>1. events' = events
      BY <2>4 DEF Began, events
    <3>2. ToldOrTelling(t)
      BY <1>1, <2>1, <2>2, <2>4 DEF AnnouncedInv, Began
    <3>3. ASSUME NEW q \in Request, At(q, "emit"), t \in Reads(q) PROVE FALSE
      BY <1>5, <2>4, <3>3 DEF Began, Raced, Reads, At
    <3>4. QED
      BY <2>4, <3>1, <3>2, <3>3 DEF ToldOrTelling, Began, Latest
  <2>5. CASE Inserted(r, t)
    <3>1. events' = events
      BY <2>5 DEF Inserted, events
    <3>2. Latest(t) = NoRow
      BY <2>5, NewIsUnannounced DEF Inserted
    <3>3. QED
      BY <2>5, <3>1, <3>2 DEF Inserted, Latest
  <2>6. QED
    BY <2>3, <2>4, <2>5, ReadsStep
<1>6. ASSUME NEW t \in Tx, t \notin raced', rows'[t] # NoRow \/ erasure' = "none"
      PROVE  ToldOrTelling(t)'
  <2>1. t \notin raced
    BY <1>1, <1>6 DEF Grows
  <2>2. CASE rows'[t] # rows[t]
    <3>1. ASSUME NEW r \in Request, t \in Reads(r), task'[r].step = "emit",
                 task'[r].read = task[r].read
          PROVE  ToldOrTelling(t)'
      <4>1. Own(r, t)' /\ t \in Reads(r)'
        BY <1>6, <3>1 DEF OwnInv, Reads
      <4>2. rows'[t] = task'[r].want
        BY <1>6, <3>1, <4>1 DEF Own, Erased
      <4>3. QED
        BY <3>1, <4>1, <4>2 DEF ToldOrTelling, At
    <3>2. ASSUME NEW r \in Request, t \in Reads(r), RemoveTransactions(r)
          PROVE  ToldOrTelling(t)'
      <4>1. task'[r].step = "emit" /\ task'[r].read = task[r].read
        BY <3>2 DEF RemoveTransactions, Go, TypeOK, Task
      <4>2. QED
        BY <3>1, <3>2, <4>1
    <3>3. ASSUME NEW r \in Request, t \in Reads(r),
                 task'[r] = [task[r] EXCEPT !.step = "emit"]
          PROVE  ToldOrTelling(t)'
      <4>1. task'[r].step = "emit" /\ task'[r].read = task[r].read
        BY <3>3 DEF TypeOK, Task
      <4>2. QED
        BY <3>1, <3>3, <4>1
    <3>4. ASSUME NEW r \in Request, t \in Reads(r)', Inserted(r, t)
          PROVE  ToldOrTelling(t)'
      BY <3>4 DEF ToldOrTelling, Inserted, At, TypeOK
    <3>5. QED
      BY <1>6, <2>2, <3>2, <3>3, <3>4, RowsStep
  <2>3. CASE rows'[t] = rows[t]
    <3>1. ToldOrTelling(t)
      BY <1>1, <1>6, <2>1, <2>3 DEF AnnouncedInv, Grows
    <3>2. ASSUME NEW r \in Request, Emit(r), t \in Reads(r) PROVE ToldOrTelling(t)'
      <4>1. rows[t] = task[r].want
        <5>1. Own(r, t)
          BY <2>1, <3>2 DEF OwnInv
        <5>2. ~Erased(t)
          BY <1>1, <1>6, <2>3 DEF Erased, Grows
        <5>3. QED
          BY <3>2, <5>1, <5>2 DEF Own, Emit, At
      <4>2. Latest(t)' = task[r].want
        BY <3>2, EmitLatest
      <4>3. QED
        BY <2>3, <4>1, <4>2 DEF ToldOrTelling
    <3>3. CASE ~ \E r \in Request : Emit(r) /\ t \in Reads(r)
      <4>1. Latest(t)' = Latest(t)
        BY <1>4, <3>3
      <4>2. CASE rows[t] = Latest(t)
        BY <2>3, <4>1, <4>2 DEF ToldOrTelling
      <4>3. ASSUME NEW r \in Request, At(r, "emit"), t \in Reads(r), rows[t] = task[r].want
            PROVE  ToldOrTelling(t)'
        <5>1. task'[r] = task[r]
          BY <1>1, <3>3, <4>3, EmitNext
        <5>2. QED
          BY <2>3, <4>3, <5>1 DEF ToldOrTelling, At, Reads
      <4>4. QED
        BY <3>1, <4>2, <4>3 DEF ToldOrTelling
    <3>4. QED
      BY <3>2, <3>3
  <2>4. QED
    BY <2>2, <2>3
<1>7. ASSUME NEW i \in 1..Len(events'), events'[i].tx \notin raced'
      PROVE  Undoes(events', i)
  <2>1. CASE events' = events
    BY <1>1, <1>7, <2>1 DEF AnnouncedInv, Grows
  <2>2. ASSUME NEW r \in Request, Emit(r) PROVE Undoes(events', i)
    <3>1. /\ Len(events) \in Nat /\ Len(events') \in Nat
          /\ \A j \in 1..Len(events) : events'[j] = events[j]
      BY <2>2, EmitAppends
    <3>2. CASE i \in 1..Len(events)
      <4>1. Undoes(events, i)
        BY <1>1, <1>7, <3>1, <3>2 DEF AnnouncedInv, Grows
      <4>2. QED
        BY <2>2, <3>2, <4>1, EmitLatest
    <3>3. CASE i \in (Len(events) + 1)..Len(events')
      <4> DEFINE t == events'[i].tx
      <4>1. t \in Reads(r) /\ events'[i].prev = task[r].read[t]
        BY <2>2, <3>3, EmitLatest
      <4>2. task[r].read[t] = Latest(t)
        BY <1>1, <1>7, <4>1 DEF AnnouncedInv, Grows
      <4>3. QED
        BY <2>2, <3>3, <4>1, <4>2, EmitLatest
    <3>4. QED
      BY <3>1, <3>2, <3>3
  <2>3. QED
    BY <1>3, <2>1, <2>2
<1>8. QED
  BY <1>5, <1>6, <1>7 DEF AnnouncedInv

-----------------------------------------------------------------------------
(* Categories *)

\* Default categories come by seeding and go with the household.
LEMMA SeededStep ==
  ASSUME TypeOK, ControlInv, [Next]_vars
  PROVE  /\ categories \cap Seeded \subseteq categories' \/ erasure = "categories"
         /\ categories' \cap Seeded \subseteq categories
              \/ \E r \in Request : SeedForHousehold(r)
<1> USE TransactionAssumption DEF TypeOK, Rest, envVars, dbVars
<1>1. ASSUME NEW r \in Request, TransactionRequest(r) PROVE categories' = categories
  BY <1>1 DEF TransactionRequest, CreateTransaction, InsertTransaction,
     UpdateTransaction, CheckCategory, LoadTransaction, SaveTransaction,
     ReinsertTransaction, DeleteTransactions, RemoveTransactions, Emit
<1>2. ASSUME NEW r \in Request, CategoryRequest(r)
      PROVE  /\ categories \cap Seeded \subseteq categories'
             /\ categories' \cap Seeded \subseteq categories \/ SeedForHousehold(r)
  <2>1. CASE SaveCategory(r)
    <3>1. task[r].cat \in Custom
      BY <2>1 DEF SaveCategory, ControlInv, Sound, At
    <3>2. QED
      BY <2>1, <3>1 DEF SaveCategory
  <2>2. CASE RemoveCategory(r)
    <3>1. task[r].cat \in Custom
      BY <2>2 DEF RemoveCategory, ControlInv, Sound, At
    <3>2. QED
      BY <2>2, <3>1 DEF RemoveCategory
  <2>3. CASE CreateCategory(r)
    BY <2>3 DEF CreateCategory
  <2>4. CASE SeedForHousehold(r)
    BY <2>4 DEF SeedForHousehold
  <2>5. CASE CountCategories(r) \/ RenameCategory(r) \/ DeleteCategory(r)
    BY <2>5 DEF CountCategories, RenameCategory, DeleteCategory
  <2>6. QED
    BY <1>2, <2>1, <2>2, <2>3, <2>4, <2>5 DEF CategoryRequest
<1>3. CASE EraseCategories
  BY <1>3 DEF EraseCategories
<1>4. Send \/ DeleteHousehold \/ EraseTransactions \/ Crash \/ UNCHANGED vars
        => categories' = categories
  BY DEF Send, DeleteHousehold, EraseTransactions, Crash, vars
<1>5. QED
  BY <1>1, <1>2, <1>3, <1>4 DEF Next, Erasure

\* How a request comes to seed.
LEMMA SeedNext ==
  ASSUME TypeOK, [Next]_vars, NEW r \in Request, At(r, "seed")'
  PROVE  (task'[r] = task[r] /\ ~SeedForHousehold(r)) \/ CountCategories(r)
<1> USE DEF At
<1>1. /\ \A step : ~(Go(r, step) /\ step # "seed")
      /\ ~End(r)
      /\ \A k : ~(Accept(r, k) /\ k.step # "seed")
  BY DEF Go, End, Accept, Idle, TypeOK, Task
<1>2. ASSUME TransactionRequest(r) PROVE FALSE
  <2>1. ~CreateTransaction(r) /\ ~DeleteTransactions(r)
    <3>1. \A row : [Idle EXCEPT !.step = "insert", !.want = row].step # "seed"
      BY DEF Idle
    <3>2. \A f : [Idle EXCEPT !.step = "remove", !.read = f].step # "seed"
      BY DEF Idle
    <3>3. QED
      BY <1>1, <3>1, <3>2 DEF CreateTransaction, DeleteTransactions
  <2>2. ~UpdateTransaction(r)
    <3>1. SUFFICES ASSUME NEW t \in Tx, NEW row \in Row,
                     Accept(r, [Idle EXCEPT
                       !.step = IF row.cat = rows[t].cat THEN "load" ELSE "category",
                       !.read = [s \in {t} |-> rows[t]], !.want = row])
                   PROVE  FALSE
      BY DEF UpdateTransaction
    <3>2. QED
      BY <3>1 DEF Accept, Idle, TypeOK
  <2>3. ~InsertTransaction(r)
    BY <1>1 DEF InsertTransaction, TypeOK, Task
  <2>4. ~LoadTransaction(r)
    BY <1>1 DEF LoadTransaction, TypeOK, Task
  <2>5. ~CheckCategory(r) /\ ~SaveTransaction(r) /\ ~ReinsertTransaction(r)
        /\ ~RemoveTransactions(r) /\ ~Emit(r)
    BY <1>1 DEF CheckCategory, SaveTransaction, ReinsertTransaction, RemoveTransactions, Emit
  <2>6. QED
    BY <1>2, <2>1, <2>2, <2>3, <2>4, <2>5 DEF TransactionRequest
<1>3. CASE CategoryRequest(r)
  <2>1. \A c : /\ [Idle EXCEPT !.step = "rename", !.cat = c].step # "seed"
               /\ [Idle EXCEPT !.step = "drop", !.cat = c].step # "seed"
    BY DEF Idle
  <2>2. Idle.step # "seed"
    BY DEF Idle
  <2>3. QED
    BY <1>1, <1>3, <2>1, <2>2 DEF CategoryRequest, SeedForHousehold, CreateCategory,
       RenameCategory, SaveCategory, DeleteCategory, RemoveCategory
<1>4. ~Crash
  BY DEF Crash, Idle
<1>5. ~SeedForHousehold(r)
  BY <1>1 DEF SeedForHousehold
<1>6. QED
  BY <1>2, <1>3, <1>4, <1>5, WhoseStep

LEMMA SeedStep ==
  ASSUME TypeOK, ControlInv, SeedInv, SeededOnce, [Next]_vars
  PROVE  SeedInv' /\ SeededOnce'
<1>1. SUFFICES ASSUME raced' = {}, erasure' = "none" PROVE SeedInv' /\ SeededOnce'
  BY DEF SeedInv, SeededOnce
<1>2. raced = {} /\ erasure = "none"
  BY <1>1, GrowsStep DEF Grows
<1>3. ASSUME NEW r \in Request, SeedForHousehold(r)
      PROVE  /\ \A s1, s2 \in categories' \cap Seeded : s1 = s2
             /\ ~ \E q \in Request : At(q, "seed")'
  <2>1. At(r, "seed") /\ categories \cap Seeded = {}
    BY <1>2, <1>3 DEF SeedInv, SeedForHousehold
  <2>2. \A s1, s2 \in categories' \cap Seeded : s1 = s2
    BY <1>3, <2>1 DEF SeedForHousehold
  <2>3. ASSUME NEW q \in Request, At(q, "seed")' PROVE FALSE
    <3>1. task'[r] = Idle /\ q # r
      BY <1>3, <2>3 DEF SeedForHousehold, End, TypeOK, At, Idle
    <3>2. task'[q] = task[q]
      BY <1>3, <3>1 DEF SeedForHousehold, End, TypeOK
    <3>3. QED
      BY <1>2, <2>1, <2>3, <3>1, <3>2 DEF SeedInv, At
  <2>4. QED
    BY <2>2, <2>3
<1>4. CASE ~ \E r \in Request : SeedForHousehold(r)
  <2>1. categories' \cap Seeded \subseteq categories
    BY <1>4, SeededStep
  <2>2. SeededOnce'
    BY <1>2, <2>1 DEF SeededOnce
  <2>3. ASSUME NEW r \in Request, CountCategories(r)
        PROVE  /\ categories = {}
               /\ \A q \in Request \ {r} : ~At(q, "seed")
    BY <1>1, <2>3 DEF CountCategories, Accept, At
  <2>4. ASSUME NEW r \in Request, At(r, "seed")'
        PROVE  /\ categories' \cap Seeded = {}
               /\ \A q \in Request : At(q, "seed")' => q = r
    <3>1. \A q \in Request : At(q, "seed")' => At(q, "seed") \/ CountCategories(q)
      BY SeedNext DEF At
    <3>2. \A q \in Request : CountCategories(q) => ~At(q, "seed")
      BY DEF CountCategories, Accept, At
    <3>3. CASE CountCategories(r)
      <4>1. ASSUME NEW q \in Request \ {r}, CountCategories(q) PROVE FALSE
        BY <3>3, <4>1 DEF CountCategories, Accept, TypeOK, At, Idle
      <4>2. QED
        BY <2>1, <2>3, <2>4, <3>1, <3>3, <4>1
    <3>4. CASE At(r, "seed")
      <4>1. categories \cap Seeded = {}
        BY <1>2, <3>4 DEF SeedInv
      <4>2. ASSUME NEW q \in Request, At(q, "seed")' PROVE q = r
        BY <1>2, <2>3, <3>1, <3>4, <4>2 DEF SeedInv
      <4>3. QED
        BY <2>1, <4>1, <4>2
    <3>5. QED
      BY <2>4, <3>1, <3>3, <3>4
  <2>5. QED
    BY <2>2, <2>4 DEF SeedInv
<1>5. CASE \E r \in Request : SeedForHousehold(r)
  BY <1>3, <1>5 DEF SeedInv, SeededOnce
<1>6. QED
  BY <1>4, <1>5

-----------------------------------------------------------------------------
(* Theorems *)

LEMMA InitInv == Init => IInv
<1> SUFFICES ASSUME Init PROVE IInv
  OBVIOUS
<1> USE TransactionAssumption
<1>1. TypeOK
  <2>1. categories \subseteq Category
    BY DEF Init, Category
  <2>2. QED
    BY <2>1, IdleType DEF Init, TypeOK, Maybe
<1>2. events = <<>> /\ Len(events) = 0
  BY DEF Init, events
<1>3. \A r \in Request : Reads(r) = {} /\ task[r] = Idle
  BY IdleType DEF Init, Reads
<1>4. ControlInv
  BY <1>3, SoundTasks DEF ControlInv
<1>5. StoredInv /\ PastInv /\ SharedInv /\ OwnInv
  BY <1>2, <1>3 DEF Init, StoredInv, PastInv, SharedInv, OwnInv
<1>6. AnnouncedInv
  <2>1. \A t \in Tx : Latest(t) = NoRow
    BY <1>2 DEF Latest, Announced
  <2>2. QED
    BY <1>2, <1>3, <2>1 DEF Init, AnnouncedInv, ToldOrTelling
<1>7. SeedInv
  BY <1>3 DEF SeedInv, At, Idle
<1>8. SeededOnce
  BY DEF Init, SeededOnce
<1>9. QED
  BY <1>1, <1>4, <1>5, <1>6, <1>7, <1>8 DEF IInv

LEMMA NextInv == IInv /\ [Next]_vars => IInv'
<1> SUFFICES ASSUME IInv, [Next]_vars PROVE IInv'
  OBVIOUS
<1> USE DEF IInv
<1>1. TypeOK' /\ ControlInv' /\ StoredInv'
  BY TypeStep, ControlStep, StoredStep
<1>2. PastInv' /\ SharedInv' /\ OwnInv'
  BY PastStep, SharedStep, OwnStep
<1>3. AnnouncedInv'
  BY <1>2, AnnouncedStep
<1>4. SeedInv' /\ SeededOnce'
  BY SeedStep
<1>5. QED
  BY <1>1, <1>2, <1>3, <1>4

LEMMA Invariance == Spec => []IInv
BY InitInv, NextInv, PTL DEF Spec

\* What is published is the beginning of what is published and emitted.
LEMMA LogIsPrefix ==
  ASSUME TypeOK
  PROVE  /\ Len(log) \in Nat /\ Len(events) \in Nat /\ DOMAIN log = 1..Len(log)
         /\ Len(log) <= Len(events)
         /\ \A i \in 1..Len(log) : events[i] = log[i]
         /\ outbox = <<>> => events = log
<1>1. log \in Seq(Event) /\ outbox \in Seq(Event)
  BY DEF TypeOK
<1>2. Len(events) = Len(log) + Len(outbox) /\ Len(log) \in Nat /\ Len(outbox) \in Nat
  BY <1>1 DEF events
<1>3. \A i \in 1..Len(log) : events[i] = log[i]
  BY <1>1, <1>2, ConcatProperties DEF events
<1>4. outbox = <<>> => events = log
  BY <1>1 DEF events
<1>5. QED
  BY <1>1, <1>2, <1>3, <1>4

\* Types: no request stores a row without a category, whatever it races.
THEOREM TypeCorrect == Spec => []TypeOK
BY Invariance, PTL DEF IInv

\* In a state of the invariant, the published events undo one another.
LEMMA UndoesInState ==
  ASSUME IInv
  PROVE  PreviousIsPrevious
<1> SUFFICES ASSUME faults = 0, NEW i \in DOMAIN log, log[i].tx \notin raced
             PROVE  Undoes(log, i)
  BY DEF PreviousIsPrevious
<1>1. /\ Len(log) \in Nat /\ i \in 1..Len(log) /\ i \in 1..Len(events)
      /\ \A j \in 1..i : events[j] = log[j]
  BY LogIsPrefix DEF IInv
<1>2. Undoes(events, i)
  BY <1>1 DEF IInv, AnnouncedInv
<1>3. Announced(events, log[i].tx, i - 1) = Announced(log, log[i].tx, i - 1)
  <2>1. i - 1 \in Nat /\ \A j \in 1..(i - 1) : events[j] = log[j]
    BY <1>1
  <2>2. QED
    BY <2>1, AnnouncedSame
<1>4. QED
  BY <1>1, <1>2, <1>3 DEF Undoes

\* updateTransaction, deleteTransaction and bulkDelete announce what the event
\* before announced, for every transaction that one request at a time works on.
THEOREM EventsUndoOneAnother == Spec => []PreviousIsPrevious
<1>1. IInv => PreviousIsPrevious
  BY UndoesInState
<1>2. QED
  BY <1>1, Invariance, PTL

\* In a quiet state of the invariant, the published events tell the rows.
LEMMA AnnouncedInState ==
  ASSUME IInv
  PROVE  RowsAnnounced
<1> SUFFICES ASSUME Quiet, faults = 0, erasure = "none", NEW t \in Tx \ raced
             PROVE  rows[t] = Announced(log, t, Len(log))
  BY DEF RowsAnnounced
<1>1. events = log
  BY LogIsPrefix DEF IInv, Quiet
<1>2. ToldOrTelling(t)
  BY DEF IInv, AnnouncedInv
<1>3. QED
  BY <1>1, <1>2 DEF ToldOrTelling, Latest, Quiet, At

\* When every request is over, consumers know the rows as they are.
THEOREM ConsumersKnowTheRows == Spec => []RowsAnnounced
<1>1. IInv => RowsAnnounced
  BY AnnouncedInState
<1>2. QED
  BY <1>1, Invariance, PTL

\* No event undoes values that were never stored, nor announces such values
\* unless two requests or the erasure have met on the transaction.
THEOREM EventsNameStoredRows == Spec => []NoPhantomEvents
<1>1. ASSUME IInv PROVE NoPhantomEvents
  <2> SUFFICES ASSUME NEW i \in DOMAIN log
               PROVE  /\ log[i].prev \in held[log[i].tx] \cup {NoRow}
                      /\ erasure = "none" /\ log[i].tx \notin raced
                           => log[i].next \in held[log[i].tx] \cup {NoRow}
    BY DEF NoPhantomEvents
  <2>1. i \in 1..Len(events) /\ events[i] = log[i]
    BY <1>1, LogIsPrefix DEF IInv
  <2>2. QED
    BY <1>1, <2>1 DEF IInv, PastInv
<1>2. QED
  BY <1>1, Invariance, PTL

\* listCategories seeds a household once, unless two of them count at once.
THEOREM DefaultsComeOnce == Spec => []SeededOnce
BY Invariance, PTL DEF IInv

\* No request takes a default category away.
THEOREM DefaultsStay == Spec => SeededCategoriesStay
<1>1. IInv /\ [Next]_vars
        => [categories \cap Seeded \subseteq categories' \/ erasure = "categories"]_categories
  BY SeededStep DEF IInv
<1>2. QED
  BY <1>1, Invariance, PTL DEF Spec, SeededCategoriesStay
-----------------------------------------------------------------------------
(***************************************************************************)
(* The pipeline: what events do to the totals of a consumer that takes     *)
(* them in order.  After the first n events the totals are those of the    *)
(* book in which each transaction is what the latest of these events says. *)
(***************************************************************************)
Facts == INSTANCE Consumer_proofs WITH
  Handler <- {}, Message <- {}, MaxLog <- 0, FaultKinds <- {}, MaxFaults <- 0,
  log <- <<>>, deliv <- <<>>, msg <- <<>>, live <- <<>>, faults <- 0

Book(s, n) == [t \in Tx |-> PostingOf(Announced(s, t, n))]
BookAt(s, n, k) == Ledger!BookTotal(Book(s, n), k)

LEMMA PostingType ==
  /\ \A row \in Maybe : PostingOf(row) \in Ledger!Posting
  /\ PostingOf(NoRow) = Absent
<1>1. PostingOf(NoRow) = Absent
  BY DEF PostingOf
<1>2. ASSUME NEW row \in Row PROVE PostingOf(row) \in Ledger!Posting
  <2> DEFINE f == Figures[row.value]
  <2>1. f \in {Income} \cup [month: Ledger!Month, amount: Amount]
    BY PipelineAssumption DEF Row
  <2>2. row # NoRow /\ row.cat \in Category
    BY TransactionAssumption DEF Row
  <2>3. CASE f = Income
    BY <2>2, <2>3 DEF PostingOf, Ledger!Posting
  <2>4. CASE f # Income
    <3>1. f.month \in Ledger!Month /\ f.amount \in Amount
      BY <2>1, <2>4
    <3>2. PostingOf(row) = [key |-> [cat |-> row.cat, month |-> f.month], amount |-> f.amount]
      BY <2>2, <2>4 DEF PostingOf
    <3> HIDE DEF f
    <3>3. PostingOf(row) \in Ledger!Entry
      BY <2>2, <3>1, <3>2 DEF Ledger!Entry, Ledger!Key
    <3> QED
      BY <3>3 DEF Ledger!Posting
  <2> QED
    BY <2>3, <2>4
<1> QED
  BY <1>1, <1>2 DEF Maybe, Ledger!Posting

LEMMA EntryType ==
  ASSUME NEW p \in Ledger!Entry
  PROVE  p.key \in Ledger!Key /\ p.amount \in Nat
  BY PipelineAssumption DEF Ledger!Entry

LEMMA AmountType ==
  ASSUME NEW p, NEW k
  PROVE  Ledger!Amount0(p, k) \in Nat
  BY EntryType DEF Ledger!Amount0

\* An event the consumer does not guard says nothing about a total.
LEMMA ReceivedEffect ==
  ASSUME NEW e \in Event, NEW k
  PROVE  /\ Received(e).prev = PostingOf(e.prev) /\ Received(e).next = PostingOf(e.next)
         /\ Ledger!Effect(Received(e), k)
              = Ledger!Amount0(PostingOf(e.next), k) - Ledger!Amount0(PostingOf(e.prev), k)
         /\ Ledger!Effect(Received(e), k) \in Int
         /\ ~Ledger!Guarded(Received(e))
              => Ledger!Effect(Received(e), k) = 0 /\ Ledger!Amount0(Received(e).prev, k) = 0
<1>1. Received(e).prev = PostingOf(e.prev) /\ Received(e).next = PostingOf(e.next)
  BY DEF Received
<1>2. /\ Ledger!Amount0(PostingOf(e.next), k) \in Nat
      /\ Ledger!Amount0(PostingOf(e.prev), k) \in Nat
  BY AmountType
<1>3. Ledger!Effect(Received(e), k)
        = Ledger!Amount0(PostingOf(e.next), k) - Ledger!Amount0(PostingOf(e.prev), k)
  BY <1>1 DEF Ledger!Effect
<1>4. ASSUME ~Ledger!Guarded(Received(e))
      PROVE  Ledger!Effect(Received(e), k) = 0 /\ Ledger!Amount0(Received(e).prev, k) = 0
  <2>1. Received(e).kind = KindOf(e) /\ KindOf(e) \in {"created", "updated", "deleted"}
    BY DEF Received, KindOf
  <2>2. KindOf(e) = "created" /\ PostingOf(e.next) \notin Ledger!Entry
    BY <1>1, <1>4, <2>1 DEF Ledger!Guarded
  <2>3. e.prev = NoRow
    BY <2>2 DEF KindOf
  <2>4. PostingOf(e.prev) \notin Ledger!Entry
    BY <2>3, PostingType, PipelineAssumption
  <2> QED
    BY <1>1, <1>3, <2>2, <2>4 DEF Ledger!Amount0
<1> QED
  BY <1>1, <1>2, <1>3, <1>4

LEMMA AnnouncedType ==
  ASSUME NEW s \in Seq(Event), NEW n \in 0..Len(s), NEW t
  PROVE  Announced(s, t, n) \in Maybe
<1> DEFINE about == {j \in 1..n : s[j].tx = t}
<1>1. CASE about = {}
  BY <1>1 DEF Announced, Maybe
<1>2. CASE about # {}
  <2>1. n \in Nat /\ about \in SUBSET (1..n)
    OBVIOUS
  <2>2. PICK i \in about : \A j \in about : j <= i
    BY <1>2, <2>1, HasLast
  <2>3. i \in 1..n /\ s[i].tx = t /\ \A j \in (i + 1)..n : s[j].tx # t
    <3>1. i \in 1..n /\ s[i].tx = t
      OBVIOUS
    <3>2. ASSUME NEW j \in (i + 1)..n, s[j].tx = t PROVE FALSE
      <4>1. j \in about /\ ~(j <= i)
        BY <3>1, <3>2
      <4> QED
        BY <2>2, <4>1
    <3> QED
      BY <3>1, <3>2
  <2>4. Announced(s, t, n) = s[i].next
    BY <2>1, <2>3, AnnouncedLast
  <2>5. s[i] \in Event
    BY <2>3
  <2> QED
    BY <2>4, <2>5 DEF Event
<1> QED
  BY <1>1, <1>2

\* One more event: the transaction it names is what it says, the others stay.
LEMMA AnnouncedNext ==
  ASSUME NEW s \in Seq(Event), NEW n \in 1..Len(s), NEW t
  PROVE  Announced(s, t, n) = IF s[n].tx = t THEN s[n].next ELSE Announced(s, t, n - 1)
<1>1. n \in Nat /\ n - 1 \in Nat /\ n \in 1..n /\ n - 1 <= n
  OBVIOUS
<1>2. CASE s[n].tx = t
  <2>1. \A j \in (n + 1)..n : s[j].tx # t
    OBVIOUS
  <2> QED
    BY <1>1, <1>2, <2>1, AnnouncedLast
<1>3. CASE s[n].tx # t
  <2>1. \A j \in ((n - 1) + 1)..n : s[j].tx # t
    BY <1>1, <1>3
  <2> QED
    BY <1>1, <1>3, <2>1, AnnouncedSame
<1> QED
  BY <1>2, <1>3
\* A book is the sum of what its transactions contribute.
Terms(s, n, k) == [t \in Tx |-> Ledger!Amount0(PostingOf(Announced(s, t, n)), k)]

LEMMA BookIsSum ==
  ASSUME NEW s, NEW n, NEW k
  PROVE  /\ BookAt(s, n, k) = Facts!SumOver(Terms(s, n, k), Tx)
         /\ Facts!IsFiniteSet(Tx)
         /\ Facts!Natural(Terms(s, n, k), Tx) /\ Facts!Integral(Terms(s, n, k), Tx)
         /\ BookAt(s, n, k) \in Nat
<1>1. DOMAIN Book(s, n) = Tx /\ \A t \in Tx : Book(s, n)[t] = PostingOf(Announced(s, t, n))
  BY DEF Book
<1>2. [t \in Tx |-> Ledger!Amount0(Book(s, n)[t], k)] = Terms(s, n, k)
  BY <1>1 DEF Terms
<1>3. BookAt(s, n, k) = Ledger!SumOver(Terms(s, n, k), Tx)
  BY <1>1, <1>2, Zenon DEF BookAt, Ledger!BookTotal
<1>4. BookAt(s, n, k) = Facts!SumOver(Terms(s, n, k), Tx)
  BY <1>3 DEF Ledger!SumOver, Ledger!MapThenSumSet, Ledger!MapThenFoldSet,
              Facts!SumOver, Facts!MapThenSumSet, Facts!MapThenFoldSet
<1>5. \A t \in Tx : Terms(s, n, k)[t] \in Nat
  BY AmountType DEF Terms
<1>6. Facts!Natural(Terms(s, n, k), Tx) /\ Facts!Integral(Terms(s, n, k), Tx)
  BY <1>5 DEF Facts!Natural, Facts!Integral
<1>7. Facts!IsFiniteSet(Tx)
  BY TransactionAssumption DEF IsFiniteSet, Facts!IsFiniteSet
<1>8. Facts!SumOver(Terms(s, n, k), Tx) \in Nat
  BY <1>6, <1>7, Facts!SumNatural
<1> QED
  BY <1>4, <1>6, <1>7, <1>8

\* Books of the same announcements are the same.
LEMMA BookSame ==
  ASSUME NEW s, NEW z, NEW m, NEW n, NEW k,
         \A t \in Tx : Announced(s, t, m) = Announced(z, t, n)
  PROVE  BookAt(s, m, k) = BookAt(z, n, k)
<1>1. Book(s, m) = Book(z, n)
  BY DEF Book
<1> QED
  BY <1>1 DEF BookAt

\* Nothing is announced yet.
LEMMA BookEmpty ==
  ASSUME NEW s, NEW k
  PROVE  BookAt(s, 0, k) = 0
<1>1. ASSUME NEW t PROVE Announced(s, t, 0) = NoRow
  BY DEF Announced
<1>2. \A t \in Tx : Terms(s, 0, k)[t] = 0
  BY <1>1, PostingType, PipelineAssumption DEF Terms, Ledger!Amount0
<1>3. Facts!SumOver(Terms(s, 0, k), Tx) = 0
  BY <1>2, BookIsSum, Facts!SumZero
<1> QED
  BY <1>3, BookIsSum

\* An event that undoes what was announced moves the book on by its effect, and
\* the book holds what it undoes.
LEMMA BookNext ==
  ASSUME NEW s \in Seq(Event), NEW n \in 1..Len(s), Undoes(s, n), NEW k
  PROVE  /\ BookAt(s, n, k) = BookAt(s, n - 1, k) + Ledger!Effect(Received(s[n]), k)
         /\ BookAt(s, n - 1, k) >= Ledger!Amount0(Received(s[n]).prev, k)
<1> DEFINE f == Terms(s, n - 1, k)  g == Terms(s, n, k)  a == s[n].tx
<1>1. s[n] \in Event /\ a \in Tx
  <2>1. s[n] \in Event
    OBVIOUS
  <2> QED
    BY <2>1 DEF Event
<1>2. f[a] = Ledger!Amount0(PostingOf(s[n].prev), k)
  BY <1>1 DEF Terms, Undoes
<1>3. g[a] = Ledger!Amount0(PostingOf(s[n].next), k)
  <2>1. Announced(s, a, n) = s[n].next
    BY AnnouncedNext
  <2> QED
    BY <1>1, <2>1 DEF Terms
<1>4. ASSUME NEW t \in Tx, t # a PROVE f[t] = g[t]
  <2>1. Announced(s, t, n) = Announced(s, t, n - 1)
    BY <1>4, AnnouncedNext
  <2> QED
    BY <2>1 DEF Terms
<1>5. Facts!IsFiniteSet(Tx) /\ Facts!Integral(f, Tx) /\ Facts!Integral(g, Tx) /\ Facts!Natural(f, Tx)
  BY BookIsSum
<1>6. /\ BookAt(s, n - 1, k) = Facts!SumOver(f, Tx) /\ BookAt(s, n - 1, k) \in Nat
      /\ BookAt(s, n, k) = Facts!SumOver(g, Tx)
  BY BookIsSum
<1>7. /\ Ledger!Effect(Received(s[n]), k) = g[a] - f[a]
      /\ Received(s[n]).prev = PostingOf(s[n].prev)
  BY <1>1, <1>2, <1>3, ReceivedEffect
<1> HIDE DEF f, g, a
<1>8. Facts!SumOver(g, Tx) = Facts!SumOver(f, Tx) + (g[a] - f[a])
  BY <1>1, <1>4, <1>5, Facts!SumChange
<1>9. Facts!SumOver(f, Tx) >= f[a]
  BY <1>1, <1>5, Facts!SumAtLeast
<1> QED
  BY <1>2, <1>6, <1>7, <1>8, <1>9

\* Events the consumer does not guard leave the book as it is.
LEMMA BookUnguarded ==
  ASSUME NEW s \in Seq(Event), NEW m \in Nat, NEW n \in Nat, m <= n, n <= Len(s),
         \A i \in (m + 1)..n : Undoes(s, i) /\ ~Ledger!Guarded(Received(s[i])),
         NEW k
  PROVE  BookAt(s, n, k) = BookAt(s, m, k)
<1> DEFINE T == {d \in Nat : m + d <= n => BookAt(s, m + d, k) = BookAt(s, m, k)}
<1>1. 0 \in T
  <2>1. m + 0 = m
    OBVIOUS
  <2> QED
    BY <2>1, Zenon
<1>2. ASSUME NEW d \in T PROVE d + 1 \in T
  <2> SUFFICES ASSUME m + (d + 1) <= n
               PROVE  BookAt(s, m + (d + 1), k) = BookAt(s, m, k)
    OBVIOUS
  <2> DEFINE i == m + (d + 1)
  <2>1. i \in (m + 1)..n /\ i \in 1..Len(s) /\ i - 1 = m + d /\ m + d <= n
    OBVIOUS
  <2>2. Undoes(s, i) /\ ~Ledger!Guarded(Received(s[i])) /\ s[i] \in Event
    BY <2>1
  <2>3. BookAt(s, m + d, k) = BookAt(s, m, k)
    BY <2>1
  <2>4. Ledger!Effect(Received(s[i]), k) = 0
    BY <2>2, ReceivedEffect
  <2> HIDE DEF i
  <2>5. BookAt(s, i, k) = BookAt(s, m + d, k) + 0
    BY <2>1, <2>2, <2>4, BookNext
  <2>6. BookAt(s, m + d, k) \in Nat
    BY BookIsSum
  <2> QED
    BY <2>3, <2>5, <2>6 DEF i
<1>3. T = Nat
  <2>1. T \in SUBSET Nat
    OBVIOUS
  <2> HIDE DEF T
  <2> QED
    BY <1>1, <1>2, <2>1, Facts!CountingUp
<1> DEFINE d == n - m
<1>4. d \in Nat /\ m + d = n
  OBVIOUS
<1>5. m + d <= n => BookAt(s, m + d, k) = BookAt(s, m, k)
  <2> HIDE DEF d
  <2> QED
    BY <1>3, <1>4
<1> HIDE DEF d
<1> QED
  BY <1>4, <1>5

\* What a handler does to a total that holds what it subtracts.
LEMMA PostedEffect ==
  ASSUME NEW f \in [Ledger!Key -> Nat], NEW e, NEW k \in Ledger!Key
  PROVE  /\ Ledger!Posted(f, e) \in [Ledger!Key -> Nat]
         /\ f[k] >= Ledger!Amount0(e.prev, k)
              => Ledger!Posted(f, e)[k] = f[k] + Ledger!Effect(e, k)
<1> DEFINE less == Ledger!SubtractFromTotal(f, e.prev)
<1>1. /\ less \in [Ledger!Key -> Nat]
      /\ f[k] >= Ledger!Amount0(e.prev, k) => less[k] = f[k] - Ledger!Amount0(e.prev, k)
  BY EntryType DEF Ledger!SubtractFromTotal, Ledger!Amount0
<1>2. Ledger!Posted(f, e) = Ledger!AddToTotal(less, e.next)
  BY DEF Ledger!Posted
<1> HIDE DEF less
<1>3. /\ Ledger!AddToTotal(less, e.next) \in [Ledger!Key -> Nat]
      /\ Ledger!AddToTotal(less, e.next)[k] = less[k] + Ledger!Amount0(e.next, k)
  BY <1>1, EntryType DEF Ledger!AddToTotal, Ledger!Amount0
<1>4. Ledger!Amount0(e.next, k) \in Nat /\ Ledger!Amount0(e.prev, k) \in Nat
  BY AmountType
<1> QED
  BY <1>1, <1>2, <1>3, <1>4 DEF Ledger!Effect
-----------------------------------------------------------------------------
(* The consumer's totals *)

\* The consumer has taken the guarded ones of the first n events, and no other.
Frontier(n) == TakenBefore(n + 1) /\ done \subseteq 1..n

TakenInv == \A i \in done : Ledger!Guarded(received[i]) /\ TakenBefore(i)

TotalsInv ==
  Undisturbed =>
    \A n \in 0..Len(log), k \in Ledger!Key :
      Frontier(n) => total[k] = BookAt(log, n, k)

PInv == IInv /\ PipelineTypeOK /\ TakenInv /\ TotalsInv

\* The log as the consumer reads it.
LEMMA ReceivedLog ==
  ASSUME TypeOK
  PROVE  /\ Len(log) \in Nat /\ DOMAIN log = 1..Len(log)
         /\ DOMAIN received = 1..Len(log) /\ Len(received) = Len(log)
         /\ \A i \in 1..Len(log) : log[i] \in Event /\ received[i] = Received(log[i])
<1>1. log \in Seq(Event)
  BY DEF TypeOK
<1>2. Len(log) \in Nat /\ DOMAIN log = 1..Len(log) /\ \A i \in 1..Len(log) : log[i] \in Event
  BY <1>1
<1>3. DOMAIN received = 1..Len(log) /\ \A i \in 1..Len(log) : received[i] = Received(log[i])
  BY <1>2 DEF received
<1>4. received = [i \in 1..Len(log) |-> Received(log[i])]
  BY <1>2 DEF received
<1>5. Len(received) = Len(log)
  BY <1>2, <1>4
<1> QED
  BY <1>2, <1>3, <1>5

\* Events are published one at a time and stay.
LEMMA LogStep ==
  ASSUME TypeOK, [Next]_vars
  PROVE  log' = log \/ \E e \in Event : log' = Append(log, e)
<1> USE DEF Rest, envVars, dbVars
<1>1. ASSUME NEW r \in Request, TransactionRequest(r) PROVE log' = log
  BY <1>1 DEF TransactionRequest, CreateTransaction, InsertTransaction, UpdateTransaction,
     CheckCategory, LoadTransaction, SaveTransaction, ReinsertTransaction,
     DeleteTransactions, RemoveTransactions, Emit
<1>2. ASSUME NEW r \in Request, CategoryRequest(r) PROVE log' = log
  BY <1>2 DEF CategoryRequest, CountCategories, SeedForHousehold, CreateCategory,
     RenameCategory, SaveCategory, DeleteCategory, RemoveCategory
<1>3. CASE Crash \/ DeleteHousehold \/ Erasure \/ UNCHANGED vars
  BY <1>3 DEF Crash, DeleteHousehold, Erasure, EraseTransactions, EraseCategories, vars
<1>4. CASE Send
  <2>1. Head(outbox) \in Event
    BY <1>4 DEF Send, TypeOK
  <2> QED
    BY <1>4, <2>1 DEF Send
<1>5. QED
  BY <1>1, <1>2, <1>3, <1>4 DEF Next

\* In an undisturbed pipeline every event undoes what was announced.
LEMMA AllUndo == IInv /\ Undisturbed => \A i \in 1..Len(log) : Undoes(log, i)
<1> SUFFICES ASSUME IInv, Undisturbed PROVE \A i \in 1..Len(log) : Undoes(log, i)
  OBVIOUS
<1>1. PreviousIsPrevious
  BY UndoesInState
<1>2. DOMAIN log = 1..Len(log) /\ \A i \in 1..Len(log) : log[i].tx \in Tx
  BY ReceivedLog DEF IInv, Event
<1> QED
  BY <1>1, <1>2 DEF PreviousIsPrevious, Undisturbed

\* Before a guarded event that is next to be taken, nothing later was taken.
LEMMA NextIsFrontier ==
  ASSUME PInv, NEW i \in 1..Len(log), i \notin done, Ledger!Guarded(received[i]),
         TakenBefore(i)
  PROVE  Frontier(i - 1)
<1>1. Len(log) \in Nat /\ done \subseteq 1..Len(log)
  BY ReceivedLog DEF PInv, PipelineTypeOK
<1>2. ASSUME NEW j \in done PROVE j \in 1..(i - 1)
  <2>1. j \in 1..Len(log) /\ j # i
    BY <1>1, <1>2
  <2>2. CASE j > i
    <3>1. i \in 1..(j - 1)
      BY <1>1, <2>1, <2>2
    <3>2. TakenBefore(j)
      BY DEF PInv, TakenInv
    <3> QED
      BY <3>1, <3>2 DEF TakenBefore
  <2> QED
    BY <1>1, <2>1, <2>2
<1>3. (i - 1) + 1 = i
  BY <1>1
<1> QED
  BY <1>2, <1>3 DEF Frontier

LEMMA PipelineInitInv == PipelineInit => PInv
<1> SUFFICES ASSUME PipelineInit PROVE PInv
  OBVIOUS
<1>1. Init /\ done = {} /\ total = [k \in Ledger!Key |-> 0] /\ log = <<>>
  <2>1. Init /\ done = {} /\ total = Ledger!ZeroTotals
    BY DEF PipelineInit
  <2>2. total = [k \in Ledger!Key |-> 0]
    BY <2>1, Zenon DEF Ledger!ZeroTotals
  <2>3. log = <<>>
    BY <2>1, Zenon DEF Init
  <2> QED
    BY <2>1, <2>2, <2>3, Zenon
<1>2. IInv
  BY <1>1, InitInv
<1>3. PipelineTypeOK
  BY <1>1, <1>2 DEF IInv, PipelineTypeOK
<1>4. TotalsInv
  <2> SUFFICES ASSUME NEW n \in 0..Len(log), NEW k \in Ledger!Key
               PROVE  total[k] = BookAt(log, n, k)
    BY DEF TotalsInv
  <2>1. n = 0
    BY <1>1
  <2> QED
    BY <1>1, <2>1, BookEmpty
<1> QED
  BY <1>1, <1>2, <1>3, <1>4 DEF PInv, TakenInv

\* A disturbed pipeline stays so.
LEMMA StaysDisturbed ==
  ASSUME TypeOK, [Next]_vars, Undisturbed'
  PROVE  Undisturbed
BY GrowsStep DEF Grows, Undisturbed

\* transaction-service goes on: what it publishes is not taken yet.
LEMMA ProduceKeeps ==
  ASSUME PInv, [Next]_vars, UNCHANGED <<done, total>>
  PROVE  PInv'
<1> DEFINE n == Len(log)
<1>1. TypeOK /\ IInv /\ IInv' /\ TypeOK'
  BY NextInv DEF PInv, IInv
<1>2. /\ n \in Nat /\ DOMAIN log = 1..n /\ log \in Seq(Event)
      /\ \A i \in 1..n : log[i] \in Event /\ received[i] = Received(log[i])
  BY <1>1, ReceivedLog DEF TypeOK
<1>3. /\ Len(log') \in n..(n + 1) /\ DOMAIN log' = 1..Len(log')
      /\ log' \in Seq(Event)
      /\ \A i \in 1..n : log'[i] = log[i]
  <2>1. CASE log' = log
    BY <1>1, <1>2, <2>1 DEF TypeOK
  <2>2. ASSUME NEW e \in Event, log' = Append(log, e)
        PROVE  /\ Len(log') = n + 1 /\ DOMAIN log' = 1..Len(log') /\ log' \in Seq(Event)
               /\ \A i \in 1..n : log'[i] = log[i]
    BY <1>2, <2>2
  <2> QED
    BY <1>1, <1>2, <2>1, <2>2, LogStep
<1> HIDE DEF n
<1>4. \A i \in 1..Len(log') : received'[i] = Received(log'[i]) /\ log'[i] \in Event
  <2>1. \A i \in 1..Len(log') : log'[i] \in Event
    BY <1>3
  <2>2. received' = [i \in 1..Len(log') |-> Received(log'[i])]
    BY <1>3 DEF received, Received, KindOf, PostingOf
  <2> QED
    BY <2>1, <2>2
<1>5. \A i \in 1..n : received'[i] = received[i]
  BY <1>2, <1>3, <1>4
<1>6. \A i \in 1..(n + 1) : TakenBefore(i)' <=> TakenBefore(i)
  <2> SUFFICES ASSUME NEW i \in 1..(n + 1) PROVE TakenBefore(i)' <=> TakenBefore(i)
    OBVIOUS
  <2>1. \A j \in 1..(i - 1) : received'[j] = received[j]
    BY <1>2, <1>5
  <2>2. TakenBefore(i)' <=> \A j \in 1..(i - 1) : Ledger!Guarded(received'[j]) => j \in done
    BY Zenon DEF TakenBefore, Ledger!Guarded
  <2> QED
    BY <2>1, <2>2, Zenon DEF TakenBefore
<1>7. done \subseteq 1..n /\ done' = done /\ total' = total
  BY <1>2 DEF PInv, PipelineTypeOK
<1>8. PipelineTypeOK'
  BY <1>1, <1>2, <1>3, <1>7 DEF PInv, PipelineTypeOK
<1>9. TakenInv'
  <2>1. ASSUME NEW i \in done PROVE Ledger!Guarded(received'[i]) /\ TakenBefore(i)'
    <3>1. i \in 1..n /\ i \in 1..(n + 1) /\ received'[i] = received[i]
      BY <1>2, <1>5, <1>7, <2>1
    <3>2. Ledger!Guarded(received[i]) /\ TakenBefore(i)
      BY <2>1 DEF PInv, TakenInv
    <3> QED
      BY <1>6, <3>1, <3>2, Zenon
  <2> QED
    BY <1>7, <2>1, Zenon DEF TakenInv, Ledger!Guarded
<1>10. TotalsInv'
  <2> SUFFICES ASSUME Undisturbed', NEW m \in 0..Len(log'), NEW k \in Ledger!Key,
                      Frontier(m)'
               PROVE  total[k] = BookAt(log', m, k)
    BY <1>7 DEF TotalsInv
  <2>0. TotalsInv /\ Undisturbed
    BY <1>1, StaysDisturbed DEF PInv
  <2>1. ASSUME NEW j \in 0..n, Frontier(j) PROVE total[k] = BookAt(log', j, k)
    <3>1. total[k] = BookAt(log, j, k)
      BY <2>0, <2>1 DEF TotalsInv, n
    <3>2. ASSUME NEW t PROVE Announced(log', t, j) = Announced(log, t, j)
      <4>1. j \in Nat /\ \A i \in 1..j : log'[i] = log[i]
        BY <1>2, <1>3
      <4>2. \A i \in (j + 1)..j : log'[i].tx # t
        BY <4>1
      <4> QED
        BY <4>1, <4>2, AnnouncedSame
    <3>3. BookAt(log, j, k) = BookAt(log', j, k)
      BY <3>2, BookSame
    <3> QED
      BY <3>1, <3>3
  <2>2. CASE m <= n
    <3>1. m \in 0..n /\ m + 1 \in 1..(n + 1)
      BY <1>2, <1>3, <2>2
    <3>2. Frontier(m)
      BY <1>6, <1>7, <3>1 DEF Frontier
    <3> QED
      BY <2>1, <3>1, <3>2
  <2>3. CASE ~(m <= n)
    <3>1. m = n + 1 /\ m \in 1..Len(log') /\ m - 1 = n /\ (m + 1) - 1 = m
      BY <1>2, <1>3, <2>3
    <3>2. \A j \in 1..m : Ledger!Guarded(received'[j]) => j \in done
      BY <1>7, <3>1 DEF Frontier, TakenBefore, Ledger!Guarded
    <3>3. ~Ledger!Guarded(received'[m])
      BY <1>2, <1>7, <3>1, <3>2
    <3>4. TakenBefore(m)
      <4>1. \A j \in 1..(m - 1) : Ledger!Guarded(received'[j]) => j \in done
        BY <1>2, <3>1, <3>2
      <4>2. \A j \in 1..(m - 1) : received'[j] = received[j]
        BY <1>5, <3>1
      <4> QED
        BY <4>1, <4>2, Zenon DEF TakenBefore
    <3>5. Frontier(n)
      BY <1>7, <3>1, <3>4 DEF Frontier
    <3>6. total[k] = BookAt(log', n, k)
      BY <1>2, <2>1, <3>5
    <3>7. Undoes(log', m)
      <4>1. (\A i \in 1..Len(log) : Undoes(log, i))'
        BY <1>1, AllUndo, PTL
      <4> QED
        BY <3>1, <4>1
    <3>8. Ledger!Effect(Received(log'[m]), k) = 0
      <4>1. ~Ledger!Guarded(Received(log'[m])) /\ log'[m] \in Event
        BY <1>4, <3>1, <3>3, Zenon
      <4> QED
        BY <4>1, ReceivedEffect
    <3>9. BookAt(log', m, k) = BookAt(log', n, k) + 0 /\ BookAt(log', n, k) \in Nat
      BY <1>3, <3>1, <3>7, <3>8, BookNext, BookIsSum
    <3> QED
      BY <3>6, <3>9
  <2> QED
    BY <2>2, <2>3
<1> QED
  BY <1>1, <1>8, <1>9, <1>10 DEF PInv

\* Only guarded events at the frontier are taken, and none is taken twice.
LEMMA ConsumeTakes ==
  ASSUME PInv, NEW i \in DOMAIN log, Consume(i)
  PROVE  /\ UNCHANGED vars /\ received' = received
         /\ i \in 1..Len(log) /\ i \notin done /\ Ledger!Guarded(received[i])
         /\ done' = done \cup {i} /\ total' = Ledger!Posted(total, received[i])
         /\ TakenBefore(i) /\ Frontier(i - 1)
<1>1. UNCHANGED vars /\ log' = log /\ i \in 1..Len(log)
  BY ReceivedLog DEF Consume, vars, PInv, IInv
<1>2. received' = received
  BY <1>1 DEF received, Received, KindOf, PostingOf
<1>3. /\ Ledger!Guarded(received[i]) /\ i \notin done /\ done' = done \cup {i}
      /\ total' = Ledger!Posted(total, received[i])
  BY DEF Consume, Ledger!Post
<1>4. TakenBefore(i)
  <2>1. i \in done' \ done
    BY <1>3
  <2>2. \A j \in 1..(i - 1) : Ledger!Guarded(received[j]) => j \in done
    BY <2>1 DEF Consume, Ledger!TakenInOrder
  <2> QED
    BY <2>2, Zenon DEF TakenBefore
<1>5. Frontier(i - 1)
  BY <1>1, <1>3, <1>4, NextIsFrontier
<1> QED
  BY <1>1, <1>2, <1>3, <1>4, <1>5

\* The consumer takes its next event: the book moves on by what the event says,
\* and so do the totals, which hold what it undoes.
LEMMA ConsumeKeeps ==
  ASSUME PInv, NEW i \in DOMAIN log, Consume(i)
  PROVE  PInv'
<1>1. /\ UNCHANGED vars /\ received' = received
      /\ i \in 1..Len(log) /\ i \notin done /\ Ledger!Guarded(received[i])
      /\ done' = done \cup {i} /\ total' = Ledger!Posted(total, received[i])
      /\ TakenBefore(i) /\ Frontier(i - 1)
  BY ConsumeTakes
<1>2. TypeOK /\ IInv /\ IInv' /\ TypeOK' /\ log' = log
  BY <1>1, NextInv DEF PInv, IInv, vars
<1>3. /\ Len(log) \in Nat /\ DOMAIN log = 1..Len(log) /\ log \in Seq(Event)
      /\ \A j \in 1..Len(log) : log[j] \in Event /\ received[j] = Received(log[j])
  BY <1>2, ReceivedLog DEF TypeOK
<1>4. total \in [Ledger!Key -> Nat] /\ done \subseteq 1..Len(log)
  BY <1>3 DEF PInv, PipelineTypeOK
<1>5. total' \in [Ledger!Key -> Nat]
  <2>1. CASE Ledger!Key = {}
    BY <1>1, <1>4, <2>1
    DEF Ledger!Posted, Ledger!AddToTotal, Ledger!SubtractFromTotal, Ledger!Entry
  <2>2. CASE Ledger!Key # {}
    <3>1. PICK k \in Ledger!Key : TRUE
      BY <2>2
    <3> QED
      BY <1>1, <1>4, <3>1, PostedEffect
  <2> QED
    BY <2>1, <2>2
<1>6. PipelineTypeOK'
  BY <1>1, <1>2, <1>3, <1>4, <1>5 DEF PipelineTypeOK
<1>7. \A j \in done' : Ledger!Guarded(received[j]) /\ \A x \in 1..(j - 1) :
                          Ledger!Guarded(received[x]) => x \in done'
  BY <1>1 DEF PInv, TakenInv, TakenBefore
<1>8. TakenInv'
  BY <1>1, <1>7 DEF TakenInv, TakenBefore, Ledger!Guarded
<1>9. TotalsInv'
  <2> SUFFICES ASSUME Undisturbed', NEW n \in 0..Len(log), NEW k \in Ledger!Key,
                      Frontier(n)'
               PROVE  total'[k] = BookAt(log, n, k)
    BY <1>2 DEF TotalsInv
  <2>1. TotalsInv /\ Undisturbed
    BY <1>1 DEF PInv, Undisturbed, vars, envVars
  <2>2. \A j \in 1..Len(log) : Undoes(log, j)
    BY <1>2, <2>1, AllUndo
  <2>3. i - 1 \in 0..Len(log) /\ i - 1 \in Nat /\ i \in Nat /\ n \in Nat
    BY <1>1, <1>3
  <2>4. total[k] = BookAt(log, i - 1, k)
    BY <1>1, <2>1, <2>3 DEF TotalsInv
  <2>5. /\ BookAt(log, i, k) = BookAt(log, i - 1, k) + Ledger!Effect(received[i], k)
        /\ BookAt(log, i - 1, k) >= Ledger!Amount0(received[i].prev, k)
    BY <1>1, <1>3, <2>2, BookNext
  <2>6. total'[k] = BookAt(log, i, k)
    <3>1. Ledger!Posted(total, received[i])[k] = total[k] + Ledger!Effect(received[i], k)
      <4>1. total[k] >= Ledger!Amount0(received[i].prev, k)
        BY <2>4, <2>5
      <4> QED
        BY <1>4, <4>1, PostedEffect
    <3> QED
      BY <1>1, <2>4, <2>5, <3>1
  <2>7. /\ \A j \in 1..n : Ledger!Guarded(received[j]) => j \in done'
        /\ done' \subseteq 1..n
    <3>1. (n + 1) - 1 = n
      BY <2>3
    <3> QED
      BY <1>1, <3>1 DEF Frontier, TakenBefore, Ledger!Guarded
  <2>8. i <= n
    BY <1>1, <2>7
  <2>9. \A j \in (i + 1)..n : Undoes(log, j) /\ ~Ledger!Guarded(Received(log[j]))
    <3> SUFFICES ASSUME NEW j \in (i + 1)..n
                 PROVE  Undoes(log, j) /\ ~Ledger!Guarded(Received(log[j]))
      OBVIOUS
    <3>1. j \in 1..n /\ j \in 1..Len(log) /\ j # i /\ j \notin 1..(i - 1)
      BY <1>3, <2>3
    <3>2. j \notin done
      BY <1>1, <3>1 DEF Frontier
    <3> QED
      BY <1>1, <1>3, <2>2, <2>7, <3>1, <3>2
  <2>10. BookAt(log, n, k) = BookAt(log, i, k)
    <3>1. n <= Len(log)
      OBVIOUS
    <3> QED
      BY <1>3, <2>3, <2>8, <2>9, <3>1, BookUnguarded
  <2> QED
    BY <2>6, <2>10
<1> QED
  BY <1>2, <1>6, <1>8, <1>9 DEF PInv

LEMMA PipelineNextInv == PInv /\ [PipelineNext]_pipelineVars => PInv'
<1> SUFFICES ASSUME PInv, [PipelineNext]_pipelineVars PROVE PInv'
  OBVIOUS
<1>1. CASE Produce \/ UNCHANGED pipelineVars
  <2>1. [Next]_vars /\ UNCHANGED <<done, total>>
    BY <1>1 DEF Produce, pipelineVars
  <2> QED
    BY <2>1, ProduceKeeps
<1>2. ASSUME NEW i \in DOMAIN log, Consume(i) PROVE PInv'
  BY <1>2, ConsumeKeeps
<1>3. CASE DropTotals
  <2>1. UNCHANGED <<vars, done>> /\ erasure # "none" /\ total' = [k \in Ledger!Key |-> 0]
    BY <1>3 DEF DropTotals, Ledger!ZeroTotals
  <2>2. IInv' /\ log' = log /\ erasure' # "none" /\ TypeOK'
    BY <2>1, NextInv DEF PInv, IInv, vars, envVars
  <2>3. received' = received
    BY <2>2 DEF received, Received, KindOf, PostingOf
  <2>4. PipelineTypeOK'
    BY <2>1, <2>2 DEF PInv, PipelineTypeOK
  <2>5. TakenInv'
    BY <2>1, <2>3 DEF PInv, TakenInv, TakenBefore, Ledger!Guarded
  <2>6. TotalsInv'
    BY <2>2 DEF TotalsInv, Undisturbed
  <2> QED
    BY <2>2, <2>4, <2>5, <2>6 DEF PInv
<1> QED
  BY <1>1, <1>2, <1>3 DEF PipelineNext

LEMMA PipelineInvariance == PipelineSpec => []PInv
BY PipelineInitInv, PipelineNextInv, PTL DEF PipelineSpec

\* Types: totals of an ordered consumer are amounts, and it takes what was
\* published.
THEOREM PipelineTypeCorrect == PipelineSpec => []PipelineTypeOK
BY PipelineInvariance, PTL DEF PInv

\* applyTransaction never subtracts more than a total holds when the events come
\* in order from transactions that one request at a time worked on.
THEOREM NothingIsCutShort == PipelineSpec => []SubtractionsCovered
<1>1. ASSUME PInv PROVE SubtractionsCovered
  <2> SUFFICES ASSUME Undisturbed, NEW i \in DOMAIN log \ done, NEW k \in Ledger!Key,
                      TakenBefore(i)
               PROVE  total[k] >= Ledger!Amount0(received[i].prev, k)
    BY DEF SubtractionsCovered
  <2>1. /\ Len(log) \in Nat /\ i \in 1..Len(log) /\ log \in Seq(Event)
        /\ log[i] \in Event /\ received[i] = Received(log[i])
    BY <1>1, ReceivedLog DEF PInv, IInv, TypeOK
  <2>2. total[k] \in Nat
    BY <1>1 DEF PInv, PipelineTypeOK
  <2>3. CASE ~Ledger!Guarded(received[i])
    <3>1. Ledger!Amount0(received[i].prev, k) = 0
      BY <2>1, <2>3, ReceivedEffect
    <3> QED
      BY <2>2, <3>1
  <2>4. CASE Ledger!Guarded(received[i])
    <3>1. Frontier(i - 1)
      BY <1>1, <2>1, <2>4, NextIsFrontier
    <3>2. i - 1 \in 0..Len(log)
      BY <2>1
    <3>3. total[k] = BookAt(log, i - 1, k)
      BY <1>1, <3>1, <3>2 DEF PInv, TotalsInv
    <3>4. Undoes(log, i)
      BY <1>1, <2>1, AllUndo DEF PInv
    <3> QED
      BY <2>1, <3>3, <3>4, BookNext
  <2> QED
    BY <2>3, <2>4
<1>2. QED
  BY <1>1, PipelineInvariance, PTL

\* The totals of budget-service are what transaction-service has stored, once
\* the requests are over and the events are taken.
THEOREM BudgetsAgreeWithRows == PipelineSpec => []TotalsFollowRows
<1>1. ASSUME PInv PROVE TotalsFollowRows
  <2> SUFFICES ASSUME Quiet, TakenBefore(Len(log) + 1), Undisturbed, NEW k \in Ledger!Key
               PROVE  total[k] = Ledger!BookTotal([t \in Tx |-> PostingOf(rows[t])], k)
    BY DEF TotalsFollowRows
  <2>1. Len(log) \in Nat /\ done \subseteq 1..Len(log)
    BY <1>1, ReceivedLog DEF PInv, IInv, PipelineTypeOK
  <2>2. total[k] = BookAt(log, Len(log), k)
    BY <1>1, <2>1 DEF PInv, TotalsInv, Frontier
  <2>3. \A t \in Tx : rows[t] = Announced(log, t, Len(log))
    BY <1>1, AnnouncedInState DEF PInv, RowsAnnounced, Undisturbed
  <2>4. Book(log, Len(log)) = [t \in Tx |-> PostingOf(rows[t])]
    BY <2>3 DEF Book
  <2> QED
    BY <2>2, <2>4 DEF BookAt
<1>2. QED
  BY <1>1, PipelineInvariance, PTL
=============================================================================
