------------------------------ MODULE Postings ------------------------------
(***************************************************************************)
(* The data of transaction.* events and what they do to spending totals.   *)
(* budget-service and report-service each keep such totals.  A total is    *)
(* kept per category and month; the household is fixed, since every query  *)
(* of both services filters on its id.                                     *)
(***************************************************************************)
EXTENDS Sums

CONSTANTS
  Category,
  MaxMonth,     \* bound: months a date can lie in
  Amount,       \* amounts of a transaction, in the smallest currency unit
  Income,       \* a transaction of type income: it has no spending effect
  Absent        \* no transaction

Month == 1..MaxMonth
Key == [cat: Category, month: Month]

\* An expense as the event handlers see it; the day of its date is dropped.
Entry == [key: Key, amount: Amount]
Posting == Entry \cup {Income, Absent}

\* created: prev is Absent; deleted: next is Absent; updated: both are there.
Event == [kind: {"created", "updated", "deleted", "householdDeleted"},
          prev: Posting, next: Posting]

ASSUME PostingsAssumption ==
  /\ MaxMonth \in Nat \ {0}
  /\ Amount \subseteq Nat \ {0}
  /\ Income \notin Entry
  /\ Absent \notin Entry

\* addToTotal: the upsert that adds an expense to its row.
AddToTotal(total, p) ==
  IF p \in Entry THEN [total EXCEPT ![p.key] = @ + p.amount] ELSE total

\* subtractFromTotal: GREATEST(0, spent_amount - amount).
SubtractFromTotal(total, p) ==
  IF p \in Entry
  THEN [total EXCEPT ![p.key] = IF @ > p.amount THEN @ - p.amount ELSE 0]
  ELSE total

\* Mutant: an update adds its new value and leaves the previous one in.
PostedWithoutUndo(total, e) == AddToTotal(total, e.next)

\* The two statements a transaction.* handler runs in its database transaction.
Posted(total, e) == AddToTotal(SubtractFromTotal(total, e.prev), e.next)

ZeroTotals == [k \in Key |-> 0]

\* What p contributes to the total of k, and what an event adds to it.
Amount0(p, k) == IF p \in Entry /\ p.key = k THEN p.amount ELSE 0
Effect(e, k) == Amount0(e.next, k) - Amount0(e.prev, k)

\* What a book of transactions adds up to.
BookTotal(book, k) == SumOver([t \in DOMAIN book |-> Amount0(book[t], k)], DOMAIN book)

\* Is the event guarded by withIdempotency?  A created income is acked at once.
Guarded(e) ==
  /\ e.kind # "householdDeleted"
  /\ e.kind = "created" => e.next \in Entry
=============================================================================
