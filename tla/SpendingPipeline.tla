-------------------------- MODULE SpendingPipeline --------------------------
(***************************************************************************)
(* From a row of transaction-service to a total of budget-service: the     *)
(* transactions, the events that announce their changes, and a consumer    *)
(* that takes the events in the order they were published.  The consumer   *)
(* is what BudgetService implements when deliveries are handled one after  *)
(* the other (ImplementsOrderedLedger).  BudgetService and ReportService   *)
(* assume that the events fit together (`book`); here they are those of    *)
(* TransactionService.                                                     *)
(***************************************************************************)
EXTENDS TransactionService

CONSTANTS
  MaxMonth,  \* bound: months a date can lie in
  Amount,    \* amounts of a transaction
  Income,    \* a transaction of type income
  Absent,    \* no transaction
  Figures    \* what a value says: income, or the month and amount of an expense

VARIABLES
  done,      \* the events the consumer has taken
  total      \* its totals per category and month

pipelineVars == <<vars, done, total>>

\* An event as the consumer reads it.
PostingOf(row) ==
  IF row = NoRow THEN Absent
  ELSE LET f == Figures[row.value]
       IN  IF f = Income THEN Income
           ELSE [key |-> [cat |-> row.cat, month |-> f.month], amount |-> f.amount]

\* createTransaction has no previous values, deleteTransaction no new ones.
KindOf(e) ==
  IF e.prev = NoRow THEN "created" ELSE IF e.next = NoRow THEN "deleted" ELSE "updated"

Received(e) == [kind |-> KindOf(e), prev |-> PostingOf(e.prev), next |-> PostingOf(e.next)]

received == [i \in DOMAIN log |-> Received(log[i])]

Ledger == INSTANCE OrderedLedger WITH log <- received, settled <- {}

ASSUME PipelineAssumption ==
  /\ MaxMonth \in Nat \ {0}
  /\ Amount \subseteq Nat \ {0}
  /\ Income \notin Ledger!Entry
  /\ Absent \notin Ledger!Entry
  /\ Figures \in [Value -> {Income} \cup [month: Ledger!Month, amount: Amount]]
  /\ Income \notin [month: Ledger!Month, amount: Amount]

PipelineInit ==
  /\ Init
  /\ done = {}
  /\ total = Ledger!ZeroTotals

\* transaction-service goes on.
Produce == Next /\ UNCHANGED <<done, total>>

Consume(i) ==
  /\ UNCHANGED vars
  /\ Ledger!Post(i)
  /\ Ledger!TakenInOrder

\* The consumer has been told that the household is gone.
DropTotals ==
  /\ erasure # "none"
  /\ total' = Ledger!ZeroTotals
  /\ UNCHANGED <<vars, done>>

PipelineNext ==
  \/ Produce
  \/ \E i \in DOMAIN log : Consume(i)
  \/ DropTotals

PipelineSpec == PipelineInit /\ [][PipelineNext]_pipelineVars

-----------------------------------------------------------------------------
(* Properties *)

PipelineTypeOK ==
  /\ TypeOK
  /\ done \subseteq DOMAIN log
  /\ total \in [Ledger!Key -> Nat]

\* No event was lost, no transaction was worked on by two requests at once, and
\* the household exists.
Undisturbed == faults = 0 /\ erasure = "none" /\ raced \cap Tx = {}

\* All guarded events before i have been taken.
TakenBefore(i) == \A j \in 1..(i - 1) : Ledger!Guarded(received[j]) => j \in done

\* An event that is next to be taken undoes no more than the totals hold: the
\* GREATEST(0, ...) of applyTransaction never cuts a subtraction short.
SubtractionsCovered ==
  Undisturbed =>
    \A i \in DOMAIN log \ done, k \in Ledger!Key :
      TakenBefore(i) => total[k] >= Ledger!Amount0(received[i].prev, k)

\* When the requests are over and their events are taken, each total is the sum of
\* the expenses in transaction-service's table (docs/edge-cases.md:538).
TotalsFollowRows ==
  Quiet /\ TakenBefore(Len(log) + 1) /\ Undisturbed =>
    \A k \in Ledger!Key :
      total[k] = Ledger!BookTotal([t \in Tx |-> PostingOf(rows[t])], k)
=============================================================================
