--------------------------- MODULE ReportService ---------------------------
(***************************************************************************)
(* report-service: the totals its reports are made of, kept from           *)
(* transaction.* events, and the reports.  One household.  A total is kept *)
(* per category, type and month: a category of Postings is such a pair     *)
(* here, and an income is an entry like an expense.  The events carry no   *)
(* userId, so every total has the user ''.                                 *)
(*                                                                         *)
(* withIdempotency is modelled statement by statement here.  PostgreSQL    *)
(* runs its transaction at READ COMMITTED: a statement that writes a row   *)
(* waits until whoever has written it commits or rolls back, and then goes *)
(* on from what was committed; an UPDATE does not see, and does not wait   *)
(* for, a row that another transaction has inserted but not committed.     *)
(***************************************************************************)
EXTENDS Postings, RabbitQueue

CONSTANTS
  Tx,             \* transactions of the household
  Cat,            \* its categories
  MonthsPerYear,  \* twelve
  IntMax          \* the largest int4

Type == {"income", "expense"}

ASSUME ReportAssumption ==
  /\ Message = Event
  /\ Category = Cat \X Type
  /\ IsFiniteSet(Category) /\ IsFiniteSet(Tx)
  /\ MonthsPerYear \in Nat \ {0}
  /\ IntMax \in Nat

VARIABLES
  book,       \* transaction-service: what each transaction stands for now
  processed,  \* processed_event_ids
  rows,       \* the keys that have a row in report_snapshots
  total,      \* report_snapshots.total_amount, 0 without a row
  pc,         \* the statement each handler is about to run
  held,       \* rows its database transaction has written, not yet committed
  draft,      \* their uncommitted totals
  applied,    \* history: how often each event was committed
  net,        \* history: what the committed events add up to, per key
  late,       \* history: events that found less to subtract than they should
  aborted     \* history: events of which a handler ended by an exception

rowVars    == <<processed, rows, total>>
taskVars   == <<pc, held, draft>>
ghostVars  == <<applied, net, late, aborted>>
vars == <<queueVars, book, rowVars, taskVars, ghostVars>>

Step == {"free", "claim", "subtract", "add", "commit", "ack",
         "dropSnapshots", "dropHistory"}

TypeOK ==
  /\ QueueTypeOK
  /\ book \in [Tx -> Entry \cup {Absent}]
  /\ processed \subseteq MessageId
  /\ rows \subseteq Key
  /\ total \in [Key -> Nat]
  /\ pc \in [Handler -> Step]
  /\ held \in [Handler -> SUBSET Key]
  /\ draft \in [Handler -> [Key -> Nat]]
  /\ applied \in [MessageId -> Nat]
  /\ net \in [Key -> Int]
  /\ late \subseteq MessageId
  /\ aborted \subseteq MessageId

\* What the transactions that exist now add up to.
Booked(k) == BookTotal(book, k)

Init ==
  /\ QueueInit
  \* transactions whose events were consumed before the behaviour starts
  /\ book \in [Tx -> Entry \cup {Absent}]
  /\ processed = {}
  /\ rows = {book[t].key : t \in {u \in Tx : book[u] \in Entry}}
  /\ total = [k \in Key |-> Booked(k)]
  /\ pc = [h \in Handler |-> "free"]
  /\ held = [h \in Handler |-> {}]
  /\ draft = [h \in Handler |-> ZeroTotals]
  /\ applied = [i \in MessageId |-> 0]
  /\ net = total
  /\ late = {}
  /\ aborted = {}

-----------------------------------------------------------------------------
(* The producers: transaction-service and household-service *)

PublishChange(t, kind, p) ==
  /\ Publish([kind |-> kind, prev |-> book[t], next |-> p])
  /\ book' = [book EXCEPT ![t] = p]
  /\ UNCHANGED <<rowVars, taskVars, ghostVars>>

ChangeTransaction(t) ==
  \/ /\ book[t] = Absent
     /\ \E p \in Entry : PublishChange(t, "created", p)
  \/ /\ book[t] # Absent
     /\ \E p \in Entry : PublishChange(t, "updated", p)
  \/ /\ book[t] # Absent
     /\ PublishChange(t, "deleted", Absent)

HouseholdAlive == \A i \in DOMAIN log : log[i].kind # "householdDeleted"

DeleteHousehold ==
  /\ HouseholdAlive
  /\ Publish([kind |-> "householdDeleted", prev |-> Absent, next |-> Absent])
  /\ UNCHANGED <<book, rowVars, taskVars, ghostVars>>

-----------------------------------------------------------------------------
(* ReportConsumer *)

event(h) == log[msg[h]]
Goto(h, step) == pc' = [pc EXCEPT ![h] = step]

StartHandler(h) ==
  \E i \in MessageId :
    /\ Deliver(h, i)
    /\ Goto(h, IF log[i].kind = "householdDeleted" THEN "dropSnapshots"
               ELSE "claim")
    /\ UNCHANGED <<book, rowVars, held, draft, ghostVars>>

\* The transaction's writes are gone and its locks released.
EndTransaction(h) ==
  /\ held' = [held EXCEPT ![h] = {}]
  /\ draft' = [draft EXCEPT ![h] = ZeroTotals]

\* rollbackTransaction, and the exception is thrown on: nothing is acked.
EndByException(h) ==
  /\ Throw(h)
  /\ Goto(h, "free")
  /\ EndTransaction(h)
  /\ aborted' = aborted \cup {msg[h]}
  /\ UNCHANGED <<book, rowVars, applied, net, late>>

Others(h) == Handler \ {h}
LockedByOther(h, k) == \E g \in Others(h) : k \in held[g]

\* Another transaction has inserted the event id and not ended yet.
IdTaken(h) == \E g \in Others(h) : msg[g] = msg[h] /\ pc[g] \in {"subtract", "add", "commit"}

Write(h, k, n) ==
  /\ held' = [held EXCEPT ![h] = @ \cup {k}]
  /\ draft' = [draft EXCEPT ![h][k] = n]

\* Mutant: no unique constraint on event_id.
ClaimAlways(h) ==
  /\ pc[h] = "claim"
  /\ Goto(h, IF event(h).prev \in Entry THEN "subtract" ELSE "add")
  /\ UNCHANGED <<queueVars, book, rowVars, held, draft, ghostVars>>

\* INSERT INTO processed_event_ids: it waits for a running transaction that has
\* the id; a unique violation rolls back and returns, and the handler acks.
Claim(h) ==
  /\ pc[h] = "claim"
  /\ ~IdTaken(h)
  /\ Goto(h, IF msg[h] \in processed THEN "ack"
             ELSE IF event(h).prev \in Entry THEN "subtract" ELSE "add")
  /\ UNCHANGED <<queueVars, book, rowVars, held, draft, ghostVars>>

AfterSubtract(h) == IF event(h).next \in Entry THEN "add" ELSE "commit"

\* Mutant: read and write are two statements, without the row lock.
SubtractUnlocked(h) ==
  /\ pc[h] = "subtract"
  /\ LET p == event(h).prev
     IN  /\ IF p.key \in rows
            THEN Write(h, p.key, SubtractFromTotal(total, p)[p.key])
            ELSE UNCHANGED <<held, draft>>
         /\ late' = IF total[p.key] < p.amount THEN late \cup {msg[h]} ELSE late
  /\ Goto(h, AfterSubtract(h))
  /\ UNCHANGED <<queueVars, book, rowVars, applied, net, aborted>>

\* subtractFromSnapshot: UPDATE ... GREATEST(0, total_amount - amount).
SubtractFromSnapshot(h) ==
  /\ pc[h] = "subtract"
  /\ LET p == event(h).prev
     IN  /\ \/ /\ p.key \in rows
               /\ ~LockedByOther(h, p.key)
               /\ Write(h, p.key, SubtractFromTotal(total, p)[p.key])
            \/ /\ p.key \notin rows
               /\ UNCHANGED <<held, draft>>
         /\ late' = IF total[p.key] < p.amount THEN late \cup {msg[h]} ELSE late
  /\ Goto(h, AfterSubtract(h))
  /\ UNCHANGED <<queueVars, book, rowVars, applied, net, aborted>>

Current(h, k) == IF k \in held[h] THEN draft[h][k] ELSE total[k]

\* addToSnapshot: INSERT ... ON CONFLICT DO UPDATE.  It waits for a row that
\* another transaction has inserted or updated.
AddToSnapshot(h) ==
  /\ pc[h] = "add"
  /\ LET p == event(h).next
         sum == Current(h, p.key) + p.amount
     IN  /\ ~LockedByOther(h, p.key)
         /\ \/ /\ sum <= IntMax
               /\ Write(h, p.key, sum)
               /\ Goto(h, "commit")
               /\ UNCHANGED <<queueVars, book, rowVars, ghostVars>>
            \/ /\ sum > IntMax  \* integer out of range
               /\ EndByException(h)
               /\ UNCHANGED faults

\* Mutant: the new total is taken from before the transaction.
CommitStale(h) ==
  /\ pc[h] = "commit"
  /\ processed' = processed \cup {msg[h]}
  /\ rows' = rows \cup held[h]
  /\ total' = [k \in Key |-> IF k \in held[h] THEN Amount0(event(h).next, k) ELSE total[k]]
  /\ applied' = [applied EXCEPT ![msg[h]] = @ + 1]
  /\ net' = [k \in Key |-> net[k] + Effect(event(h), k)]
  /\ EndTransaction(h)
  /\ Goto(h, "ack")
  /\ UNCHANGED <<queueVars, book, late, aborted>>

\* Mutant: the query runner is not released.
CommitKeepsLocks(h) ==
  /\ pc[h] = "commit"
  /\ processed' = processed \cup {msg[h]}
  /\ rows' = rows \cup held[h]
  /\ total' = [k \in Key |-> IF k \in held[h] THEN draft[h][k] ELSE total[k]]
  /\ applied' = [applied EXCEPT ![msg[h]] = @ + 1]
  /\ net' = [k \in Key |-> net[k] + Effect(event(h), k)]
  /\ UNCHANGED <<held, draft>>
  /\ Goto(h, "ack")
  /\ UNCHANGED <<queueVars, book, late, aborted>>

Commit(h) ==
  /\ pc[h] = "commit"
  /\ processed' = processed \cup {msg[h]}
  /\ rows' = rows \cup held[h]
  /\ total' = [k \in Key |-> IF k \in held[h] THEN draft[h][k] ELSE total[k]]
  /\ applied' = [applied EXCEPT ![msg[h]] = @ + 1]
  /\ net' = [k \in Key |-> net[k] + Effect(event(h), k)]
  /\ EndTransaction(h)
  /\ Goto(h, "ack")
  /\ UNCHANGED <<queueVars, book, late, aborted>>

FinishHandler(h) ==
  /\ pc[h] = "ack"
  /\ Ack(h)
  /\ Goto(h, "free")
  /\ UNCHANGED <<book, rowVars, held, draft, ghostVars>>

\* deleteHouseholdData, two statements with no transaction around them.  The
\* first one waits for the rows that others are writing; it does not see those
\* that are not committed yet.
DropSnapshots(h) ==
  /\ pc[h] = "dropSnapshots"
  /\ \A k \in rows : ~LockedByOther(h, k)
  /\ rows' = {}
  /\ total' = ZeroTotals
  /\ net' = ZeroTotals
  /\ Goto(h, "dropHistory")
  /\ UNCHANGED <<queueVars, book, processed, held, draft, applied,
                 late, aborted>>

\* The second statement is about export_history (see ReportExport).
DropHistory(h) ==
  /\ pc[h] = "dropHistory"
  /\ Goto(h, "ack")
  /\ UNCHANGED <<queueVars, book, rowVars, held, draft, ghostVars>>

-----------------------------------------------------------------------------
(* The reports, each from the rows the database has at that moment *)

SumOf(K) == SumOver(total, K)
RowsOf(m) == {k \in rows : k.month = m}
Of(K, type) == {k \in K : k.cat[2] = type}

CategoryBreakdown(K) ==
  [c \in {k.cat[1] : k \in K} |->
     [income  |-> SumOf({k \in Of(K, "income") : k.cat[1] = c}),
      expense |-> SumOf({k \in Of(K, "expense") : k.cat[1] = c})]]

PreviousMonth(m) == m - 1

Totals(m) == [income  |-> SumOf(Of(RowsOf(m), "income")),
              expense |-> SumOf(Of(RowsOf(m), "expense"))]

GetMonthly(m) == [totals    |-> Totals(m),
                  net       |-> Totals(m).income - Totals(m).expense,
                  breakdown |-> CategoryBreakdown(RowsOf(m)),
                  previous  |-> Totals(PreviousMonth(m))]

YearOf(m) == (m - 1) \div MonthsPerYear

GetYearly(y) ==
  LET K == {k \in rows : YearOf(k.month) = y}
  IN  [totals |-> [income  |-> SumOf(Of(K, "income")),
                   expense |-> SumOf(Of(K, "expense"))],
       months |-> [m \in {k.month : k \in K} |-> Totals(m)]]

\* A line per user that has rows; all of them belong to the user ''.
GetMember(m) ==
  {[totals |-> Totals(m), breakdown |-> CategoryBreakdown(K)] :
     K \in {RowsOf(m)} \ {{}}}

-----------------------------------------------------------------------------
(* Failures *)

WaitsFor(h, g) ==
  \/ pc[h] = "subtract" /\ event(h).prev.key \in rows \cap held[g]
  \/ pc[h] = "add" /\ event(h).next.key \in held[g]

\* PostgreSQL ends one of the transactions that wait for one another.
DeadlockVictim(h) ==
  /\ \E S \in SUBSET Handler :
       /\ h \in S
       /\ \A g \in S : \E f \in S \ {g} : WaitsFor(g, f)
  /\ EndByException(h)
  /\ UNCHANGED faults

\* The nightly cron; deliveries are assumed to be over after seven days.
CleanProcessedEventIds ==
  /\ \E i \in processed :
       /\ deliv[i] = "acked"
       /\ \A h \in Handler : msg[h] # i
       /\ processed' = processed \ {i}
  /\ UNCHANGED <<queueVars, book, rows, total, taskVars, ghostVars>>

Restart ==
  /\ Crash
  /\ pc' = [h \in Handler |-> "free"]
  /\ held' = [h \in Handler |-> {}]
  /\ draft' = [h \in Handler |-> ZeroTotals]
  /\ UNCHANGED <<book, rowVars, ghostVars>>

LoseChannel ==
  /\ DropChannel
  /\ UNCHANGED <<book, rowVars, taskVars, ghostVars>>

-----------------------------------------------------------------------------
Producer == DeleteHousehold \/ \E t \in Tx : ChangeTransaction(t)

Consumer(h) ==
  \/ StartHandler(h)
  \/ Claim(h) \/ SubtractFromSnapshot(h) \/ AddToSnapshot(h) \/ Commit(h)
  \/ DeadlockVictim(h)
  \/ DropSnapshots(h) \/ DropHistory(h)
  \/ FinishHandler(h)

Failure == Restart \/ LoseChannel

Next ==
  \/ Producer
  \/ \E h \in Handler : Consumer(h)
  \/ CleanProcessedEventIds
  \/ Failure

Spec == Init /\ [][Next]_vars

-----------------------------------------------------------------------------
(* Properties *)

\* However often an event is delivered, its totals are committed at most once,
\* and before the broker forgets it (withIdempotency and channel.ack).
CommittedOnce ==
  \A i \in DOMAIN log :
    /\ applied[i] <= 1
    /\ deliv[i] = "acked" /\ log[i].kind # "householdDeleted" => applied[i] = 1

\* Transactions that run side by side lose none of each other's writes: a total
\* is never less than what the committed events add up to.  Out of order it can
\* be more, since GREATEST(0, ...) and a missing row cut a subtraction short.
NeverUnderreported == \A k \in Key : total[k] >= net[k]

\* A subtraction is cut short only when the events of its key were not committed
\* in the order they were published.
Touches(i, k) ==
  (log[i].prev \in Entry /\ log[i].prev.key = k)
    \/ (log[i].next \in Entry /\ log[i].next.key = k)

Reordered(i, k) ==
  \E j \in DOMAIN log \ {i} :
    /\ Touches(j, k)
    /\ (j < i) = (applied[j] = 0)

LateOnlyWhenReordered ==
  [][\A i \in late' \ late : HouseholdAlive => Reordered(i, log[i].prev.key)]_late

\* The reports agree with one another: a month's totals are those of its
\* categories and of its members, a year's are those of its months, and the month
\* before is the month before.  When every event is settled and no subtraction was
\* cut short, they say what the transactions that exist add up to
\* (docs/edge-cases.md:538).
BookedTotals(m) ==
  LET booked(type) == SumOver([k \in Key |-> Booked(k)],
                              {k \in Key : k.month = m /\ k.cat[2] = type})
  IN  [income |-> booked("income"), expense |-> booked("expense")]

\* The totals of the lines of a report, added up.
AddedUp(lines) ==
  [income  |-> SumOver([x \in DOMAIN lines |-> lines[x].income], DOMAIN lines),
   expense |-> SumOver([x \in DOMAIN lines |-> lines[x].expense], DOMAIN lines)]

ReportsExact ==
  /\ \A m \in Month :
       LET r == GetMonthly(m)
       IN  /\ r.totals = AddedUp(r.breakdown)
           /\ \A u \in GetMember(m) : u.totals = r.totals /\ u.breakdown = r.breakdown
           /\ m > 1 => r.previous = GetMonthly(m - 1).totals
           /\ Quiet /\ HouseholdAlive /\ late = {} => r.totals = BookedTotals(m)
  /\ \A y \in {YearOf(m) : m \in Month} :
       LET r == GetYearly(y)
       IN  r.totals = AddedUp(r.months)

\* Transactions take effect as if each ran alone at its commit, however their
\* statements interleave: report-service implements the abstract ledger, with one
\* exception.  An UPDATE that finds no row locks nothing; the row may be there when
\* its transaction commits, and is left as it is.
Ledger == INSTANCE SpendingLedger WITH
  done <- {i \in MessageId : applied[i] > 0},
  settled <- {i \in MessageId : deliv[i] = "acked"}

CutShort(i) ==
  /\ i \in MessageId
  /\ applied[i] = 0 /\ applied'[i] = 1
  /\ \A j \in MessageId \ {i} : applied'[j] = applied[j]
  /\ total' = AddToTotal(total, log[i].next)
  /\ UNCHANGED <<log, deliv>>

CommitsSerialize == [][Ledger!Next \/ \E i \in late : CutShort(i)]_Ledger!ledgerVars

\* As long as a handler is under way some handler can go on: transactions that
\* wait for one another end by the deadlock detection, and by nothing else.
NobodyWaitsForever ==
  (\E h \in Handler : pc[h] # "free") => \E h \in Handler : ENABLED Consumer(h)

\* A delivery that nobody works on and nobody has settled belongs to a handler
\* that ended by an exception (docs/services.md:424 expects it to be rejected).
StuckOnlyIfAborted ==
  \A i \in MessageId :
    deliv[i] = "unacked" /\ (\A h \in Handler : msg[h] # i) => i \in aborted
=============================================================================
