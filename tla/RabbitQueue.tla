---------------------------- MODULE RabbitQueue ----------------------------
(***************************************************************************)
(* One service's durable queue (`<service>.queue`) on the topic exchange   *)
(* `familieoya`, and the invocations of that service's @EventPattern       *)
(* handlers.  The consumers connect with noAck: false and no prefetchCount *)
(* (apps/budget-service/src/main.ts and its four siblings), so the broker  *)
(* keeps pushing while earlier handlers wait at an await: any number of    *)
(* handlers run side by side and interleave at their awaits.               *)
(*                                                                         *)
(* A handler settles its delivery with channel.ack as its last statement.  *)
(* One that throws neither acks nor nacks: its delivery stays unacked      *)
(* until the channel dies.  The broker then requeues every unacked         *)
(* delivery at its old place in the queue.  The channel dies with the      *)
(* process (Crash: every handler is lost) or alone (DropChannel: the       *)
(* handlers run on, but the acks they send go nowhere).                    *)
(*                                                                         *)
(* Services extend this module, give each invocation a program counter of  *)
(* their own, and conjoin their statements with the actions below.         *)
(***************************************************************************)
EXTENDS Integers, Sequences

CONSTANTS
  Handler,      \* invocations that can run at the same time
  Message,      \* what publishers can put on the queue
  MaxLog,       \* bound: messages published in a behaviour
  FaultKinds,   \* which of them happen: "crash", "channel", "throw"
  MaxFaults     \* bound: crashes, lost channels and failing handlers

ASSUME BoundsAssumption == MaxLog \in Nat /\ MaxFaults \in Nat

VARIABLES
  log,      \* the messages published so far, in the order of the queue
  deliv,    \* where each of them is: the broker's bookkeeping
  msg,      \* the message each invocation handles, 0 when it is free
  live,     \* is the channel an invocation was started from still open?
  faults

queueVars == <<log, deliv, msg, live, faults>>

MessageId == 1..MaxLog

QueueTypeOK ==
  /\ log \in Seq(Message)
  /\ Len(log) <= MaxLog
  /\ deliv \in [MessageId -> {"none", "queued", "unacked", "acked"}]
  /\ msg \in [Handler -> MessageId \cup {0}]
  /\ live \in [Handler -> BOOLEAN]
  /\ faults \in 0..MaxFaults

QueueInit ==
  /\ log = <<>>
  /\ deliv = [i \in MessageId |-> "none"]
  /\ msg = [h \in Handler |-> 0]
  /\ live = [h \in Handler |-> FALSE]
  /\ faults = 0

Idle(h) == msg[h] = 0
Published(i) == i \in 1..Len(log)

Publish(m) ==
  /\ Len(log) < MaxLog
  /\ log' = Append(log, m)
  /\ deliv' = [deliv EXCEPT ![Len(log) + 1] = "queued"]
  /\ UNCHANGED <<msg, live, faults>>

\* Mutant: a broker that does not keep the order.
AtHeadAny(i) == deliv[i] = "queued"

\* The broker pushes in queue order; what handlers do with it is up to them.
AtHead(i) ==
  /\ deliv[i] = "queued"
  /\ \A j \in MessageId : j < i => deliv[j] # "queued"

\* Mutant: noAck: true, the broker forgets a message when it hands it out.
DeliverAutoAck(h, i) ==
  /\ Idle(h)
  /\ AtHead(i)
  /\ deliv' = [deliv EXCEPT ![i] = "acked"]
  /\ msg' = [msg EXCEPT ![h] = i]
  /\ live' = [live EXCEPT ![h] = TRUE]
  /\ UNCHANGED <<log, faults>>

Deliver(h, i) ==
  /\ Idle(h)
  /\ AtHead(i)
  /\ deliv' = [deliv EXCEPT ![i] = "unacked"]
  /\ msg' = [msg EXCEPT ![h] = i]
  /\ live' = [live EXCEPT ![h] = TRUE]
  /\ UNCHANGED <<log, faults>>

\* channel.ack(message), after which the handler returns.
Ack(h) ==
  /\ ~Idle(h)
  /\ deliv' = [deliv EXCEPT ![msg[h]] = IF live[h] THEN "acked" ELSE @]
  /\ msg' = [msg EXCEPT ![h] = 0]
  /\ live' = [live EXCEPT ![h] = FALSE]
  /\ UNCHANGED <<log, faults>>

\* The handler ends by an exception: nothing is acked, nothing is nacked.
Throw(h) ==
  /\ ~Idle(h)
  /\ msg' = [msg EXCEPT ![h] = 0]
  /\ live' = [live EXCEPT ![h] = FALSE]
  /\ UNCHANGED <<log, deliv>>

Fault(kind) ==
  /\ kind \in FaultKinds
  /\ faults < MaxFaults
  /\ faults' = faults + 1

Requeued == [i \in MessageId |-> IF deliv[i] = "unacked" THEN "queued" ELSE deliv[i]]

Crash ==
  /\ Fault("crash")
  /\ deliv' = Requeued
  /\ msg' = [h \in Handler |-> 0]
  /\ live' = [h \in Handler |-> FALSE]
  /\ UNCHANGED log

DropChannel ==
  /\ Fault("channel")
  /\ deliv' = Requeued
  /\ live' = [h \in Handler |-> FALSE]
  /\ UNCHANGED <<log, msg>>

\* Nothing is on its way: what was published is settled and nobody is working.
Quiet ==
  /\ \A i \in MessageId : deliv[i] \in {"none", "acked"}
  /\ \A h \in Handler : Idle(h)
=============================================================================
