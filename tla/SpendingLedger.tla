--------------------------- MODULE SpendingLedger ---------------------------
(***************************************************************************)
(* What a consumer of transaction.* events promises of its totals, whatever *)
(* crashes, redeliveries and interleavings there are: each event takes     *)
(* effect at most once, in one step, and the broker is told that an event  *)
(* is settled only after it has taken effect.  docs/edge-cases.md:433-547  *)
(* asks for this ("must be exact").                                        *)
(***************************************************************************)
EXTENDS Postings, Sequences

VARIABLES
  log,      \* the events published so far
  done,     \* the events that have taken effect
  settled,  \* the events the broker may forget
  total     \* spending per category and month

ledgerVars == <<log, done, settled, total>>

Init ==
  /\ log = <<>>
  /\ done = {}
  /\ settled = {}
  /\ total = ZeroTotals

Publish ==
  /\ \E e \in Event : log' = Append(log, e)
  /\ UNCHANGED <<done, settled, total>>

Post(i) ==
  /\ i \in 1..Len(log)
  /\ Guarded(log[i])
  /\ i \notin done
  /\ done' = done \cup {i}
  /\ total' = Posted(total, log[i])
  /\ UNCHANGED <<log, settled>>

Settle(i) ==
  /\ i \in 1..Len(log)
  /\ i \notin settled
  /\ Guarded(log[i]) => i \in done
  /\ settled' = settled \cup {i}
  /\ UNCHANGED <<log, done, total>>

\* The household is gone: its totals are dropped.
Erase ==
  /\ \E i \in 1..Len(log) : log[i].kind = "householdDeleted"
  /\ total' = ZeroTotals
  /\ UNCHANGED <<log, done, settled>>

Next ==
  \/ Publish
  \/ \E i \in 1..Len(log) : Post(i) \/ Settle(i)
  \/ Erase

Spec == Init /\ [][Next]_ledgerVars
=============================================================================
