-------------------------- MODULE Consumer_proofs --------------------------
(***************************************************************************)
(* What every consumer of the broker may rely on, however many handlers,   *)
(* messages and faults there are: each delivery is of a message that was   *)
(* published, and what was published is never changed; and the facts about *)
(* sums that those which keep totals need.                                 *)
(***************************************************************************)
EXTENDS RabbitQueue, Sums, FiniteSetTheorems, WellFoundedInduction, TLAPS

\* What a service can do to its queue.
QueueNext ==
  \/ \E m \in Message : Publish(m)
  \/ \E h \in Handler : \/ \E i \in MessageId : Deliver(h, i)
                        \/ Ack(h)
                        \/ Throw(h) /\ faults' \in 0..MaxFaults
  \/ Crash \/ DropChannel
  \/ UNCHANGED queueVars

\* What is settled, queued or worked on was published.
DeliveriesInv ==
  /\ \A i \in MessageId : deliv[i] # "none" <=> i \in 1..Len(log)
  /\ \A h \in Handler : msg[h] # 0 => deliv[msg[h]] # "none"

QueueInv == QueueTypeOK /\ DeliveriesInv

\* The log only grows.
LogGrows ==
  /\ Len(log') \in Nat /\ Len(log) <= Len(log')
  /\ \A i \in 1..Len(log) : log'[i] = log[i]

\* The broker's side of each step.
LEMMA QueueTypeStep ==
  ASSUME QueueTypeOK
  PROVE  /\ \A m \in Message : Publish(m) => QueueTypeOK'
         /\ \A h \in Handler, i \in MessageId : Deliver(h, i) => QueueTypeOK'
         /\ \A h \in Handler : Ack(h) => QueueTypeOK'
         /\ \A h \in Handler : Throw(h) /\ faults' \in 0..MaxFaults
                                 => QueueTypeOK'
         /\ Crash => QueueTypeOK'
         /\ DropChannel => QueueTypeOK'
         /\ UNCHANGED queueVars => QueueTypeOK'
<1> USE BoundsAssumption DEF QueueTypeOK, MessageId
<1>1. ASSUME NEW m \in Message, Publish(m) PROVE QueueTypeOK'
  BY <1>1 DEF Publish
<1>2. ASSUME NEW h \in Handler, NEW i \in MessageId, Deliver(h, i)
      PROVE  QueueTypeOK'
  BY <1>2 DEF Deliver
<1>3. ASSUME NEW h \in Handler, Ack(h) PROVE QueueTypeOK'
  BY <1>3 DEF Ack, Idle
<1>4. ASSUME NEW h \in Handler, Throw(h), faults' \in 0..MaxFaults
      PROVE  QueueTypeOK'
  BY <1>4 DEF Throw
<1>5. ASSUME Crash PROVE QueueTypeOK'
  BY <1>5 DEF Crash, Fault, Requeued
<1>6. ASSUME DropChannel PROVE QueueTypeOK'
  BY <1>6 DEF DropChannel, Fault, Requeued
<1>7. UNCHANGED queueVars => QueueTypeOK'
  BY DEF queueVars
<1> QED
  BY <1>1, <1>2, <1>3, <1>4, <1>5, <1>6, <1>7

LEMMA QueueInvInit == QueueInit => QueueInv
  BY BoundsAssumption DEF QueueInit, QueueInv, QueueTypeOK, DeliveriesInv, MessageId

LEMMA QueueInvStep ==
  ASSUME QueueInv, QueueNext
  PROVE  QueueInv' /\ LogGrows
<1>0. QueueTypeOK /\ QueueTypeOK'
  BY QueueTypeStep DEF QueueInv, QueueNext
<1>1. LogGrows
  <2>1. Len(log) \in Nat /\ Len(log') \in Nat
    BY <1>0 DEF QueueTypeOK
  <2>2. ASSUME NEW m \in Message, Publish(m) PROVE LogGrows
    BY <1>0, <2>1, <2>2 DEF LogGrows, Publish, QueueTypeOK
  <2>3. CASE log' = log
    BY <2>1, <2>3 DEF LogGrows
  <2> QED
    BY <2>2, <2>3
    DEF QueueNext, Deliver, Ack, Throw, Crash, DropChannel, queueVars
<1>2. DeliveriesInv'
  <2> USE <1>0, BoundsAssumption DEF QueueInv, QueueTypeOK, DeliveriesInv, MessageId
  <2>1. ASSUME NEW m \in Message, Publish(m) PROVE DeliveriesInv'
    BY <2>1 DEF Publish
  <2>2. ASSUME NEW h \in Handler, NEW i \in MessageId, Deliver(h, i) PROVE DeliveriesInv'
    BY <2>2 DEF Deliver, AtHead
  <2>3. ASSUME NEW h \in Handler, Ack(h) PROVE DeliveriesInv'
    BY <2>3 DEF Ack, Idle
  <2>4. ASSUME NEW h \in Handler, Throw(h) PROVE DeliveriesInv'
    BY <2>4 DEF Throw
  <2>5. CASE Crash
    BY <2>5 DEF Crash, Fault, Requeued
  <2>6. CASE DropChannel
    BY <2>6 DEF DropChannel, Fault, Requeued
  <2>7. CASE UNCHANGED queueVars
    BY <2>7 DEF queueVars
  <2> QED
    BY <2>1, <2>2, <2>3, <2>4, <2>5, <2>6, <2>7 DEF QueueNext
<1> QED
  BY <1>0, <1>1, <1>2 DEF QueueInv

-----------------------------------------------------------------------------
(***************************************************************************)
(* Sums.  The recursion of a sum is along the subsets of S, by picking an  *)
(* element at a time; what is proved by induction is proved for the        *)
(* subsets of each cardinality.                                            *)
(***************************************************************************)
LEMMA CountingUp ==
    ASSUME NEW T \in SUBSET Nat, 0 \in T, \A n \in T : n + 1 \in T
    PROVE  T = Nat
<1> DEFINE Less == {ss \in Nat \X Nat : ss[1] < ss[2]}
<1>1. IsWellFoundedOn(Less, Nat)
  BY NatLessThanWellFounded DEF OpToRel
<1> HIDE DEF Less
<1> SUFFICES ASSUME Nat \ T # {} PROVE FALSE
  OBVIOUS
<1>2. PICK n \in Nat \ T : \A m \in Nat \ T : ~(<<m, n>> \in Less)
  BY <1>1, WFMin
<1>3. \A m \in Nat \ T : ~(m < n)
  BY <1>2 DEF Less
<1>4. n - 1 \in T
  BY <1>3
<1> QED
  BY <1>4

Picked(U) == CHOOSE x \in U : TRUE

Remaining(U) == U \ {Picked(U)}

Unfolds(s, f, D) ==
    s = [U \in D |-> IF U = {} THEN 0 ELSE f[Picked(U)] + s[Remaining(U)]]

LEMMA Picking ==
    ASSUME NEW U, IsFiniteSet(U)
    PROVE  /\ Cardinality(U) \in Nat
           /\ U # {} => /\ Picked(U) \in U /\ IsFiniteSet(Remaining(U))
                        /\ Cardinality(Remaining(U)) = Cardinality(U) - 1
                        /\ Cardinality(U) >= 1
           /\ U = {} => Cardinality(U) = 0
<1>1. U # {} => Picked(U) \in U
  BY DEF Picked
<1>2. Cardinality(U) \in Nat
  BY FS_CardinalityType
<1>3. U # {} => IsFiniteSet(Remaining(U)) /\ Cardinality(Remaining(U)) = Cardinality(U) - 1
  BY <1>1, FS_RemoveElement DEF Remaining
<1>4. U # {} => Cardinality(U) # 0
  BY FS_EmptySet
<1> QED
  BY <1>1, <1>2, <1>3, <1>4, FS_EmptySet

Sized(S, n) == {U \in SUBSET S : Cardinality(U) <= n}

LEMMA SumsExist ==
    ASSUME NEW f, NEW S, IsFiniteSet(S)
    PROVE  \E s : Unfolds(s, f, SUBSET S)
<1> DEFINE T == {n \in Nat : \E s : Unfolds(s, f, Sized(S, n))}
<1>0. \A U \in SUBSET S : IsFiniteSet(U) /\ Remaining(U) \in SUBSET S
  BY FS_Subset DEF Remaining
<1>1. 0 \in T
  <2>1. \A U \in Sized(S, 0) : U = {}
    BY <1>0, Picking DEF Sized
  <2>2. Unfolds([U \in Sized(S, 0) |-> 0], f, Sized(S, 0))
    BY <2>1 DEF Unfolds
  <2> QED
    BY <2>2
<1>2. ASSUME NEW n \in T PROVE n + 1 \in T
  <2>1. PICK r : Unfolds(r, f, Sized(S, n))
    OBVIOUS
  <2> DEFINE s == [U \in Sized(S, n + 1) |-> IF U = {} THEN 0 ELSE f[Picked(U)] + r[Remaining(U)]]
  <2>2. \A U \in Sized(S, n) : U \in Sized(S, n + 1)
    BY <1>0, Picking DEF Sized
  <2>3. \A U \in Sized(S, n) : s[U] = r[U]
    <3> SUFFICES ASSUME NEW U \in Sized(S, n) PROVE s[U] = r[U]
      OBVIOUS
    <3>1. r[U] = IF U = {} THEN 0 ELSE f[Picked(U)] + r[Remaining(U)]
      BY <2>1 DEF Unfolds
    <3> QED
      BY <2>2, <3>1
  <2>4. \A U \in Sized(S, n + 1) : U # {} => Remaining(U) \in Sized(S, n)
    BY <1>0, Picking DEF Sized
  <2>5. \A U \in Sized(S, n + 1) : U # {} => s[Remaining(U)] = r[Remaining(U)]
    <3> HIDE DEF s
    <3> QED BY <2>3, <2>4
  <2>6. Unfolds(s, f, Sized(S, n + 1))
    BY <2>5 DEF Unfolds
  <2> HIDE DEF s
  <2> QED
    BY <2>6
<1>3. Cardinality(S) \in T
  <2> HIDE DEF T
  <2>1. T = Nat
    BY <1>1, <1>2, CountingUp DEF T
  <2> QED
    BY <2>1, Picking
<1>4. Sized(S, Cardinality(S)) = SUBSET S
  BY FS_Subset DEF Sized
<1> QED
  BY <1>3, <1>4

Alike(f, g, S) == \A x \in S : f[x] = g[x]

\* A sum is the same whatever larger sum it is part of.
LEMMA SumsAgree ==
  \A S, T, f, g, s, r :
    /\ IsFiniteSet(S) /\ T \subseteq S /\ Alike(f, g, T)
    /\ Unfolds(s, f, SUBSET S) /\ Unfolds(r, g, SUBSET T)
    => s[T] = r[T]
<1> TAKE S, T, f, g, s, r
<1> HAVE /\ IsFiniteSet(S) /\ T \subseteq S /\ Alike(f, g, T)
         /\ Unfolds(s, f, SUBSET S) /\ Unfolds(r, g, SUBSET T)
<1> DEFINE N == {n \in Nat : \A U \in SUBSET T : Cardinality(U) = n => s[U] = r[U]}
<1>0. \A U \in SUBSET T : /\ IsFiniteSet(U) /\ Cardinality(U) \in Nat
                          /\ Remaining(U) \in SUBSET T
  BY FS_Subset, Picking DEF Remaining
<1>1. \A U \in SUBSET T : /\ s[U] = IF U = {} THEN 0 ELSE f[Picked(U)] + s[Remaining(U)]
                          /\ r[U] = IF U = {} THEN 0 ELSE g[Picked(U)] + r[Remaining(U)]
  <2> SUFFICES ASSUME NEW U \in SUBSET T
               PROVE  /\ s[U] = IF U = {} THEN 0 ELSE f[Picked(U)] + s[Remaining(U)]
                      /\ r[U] = IF U = {} THEN 0 ELSE g[Picked(U)] + r[Remaining(U)]
    OBVIOUS
  <2>1. U \in SUBSET S
    OBVIOUS
  <2> QED BY <2>1 DEF Unfolds
<1>2. 0 \in N
  BY <1>0, <1>1, FS_EmptySet
<1>3. ASSUME NEW n \in N PROVE n + 1 \in N
  <2> SUFFICES ASSUME NEW U \in SUBSET T, Cardinality(U) = n + 1 PROVE s[U] = r[U]
    OBVIOUS
  <2>1. /\ U # {} /\ Picked(U) \in U /\ Remaining(U) \in SUBSET T /\ Cardinality(Remaining(U)) = n
    BY <1>0, Picking
  <2>2. s[Remaining(U)] = r[Remaining(U)]
    BY <2>1
  <2> QED
    BY <1>1, <2>1, <2>2 DEF Alike
<1>4. N = Nat
  <2> HIDE DEF N
  <2> QED BY <1>2, <1>3, CountingUp DEF N
<1> QED
  BY <1>0, <1>4

LEMMA SumUnfolded ==
    ASSUME NEW f, NEW S, IsFiniteSet(S)
    PROVE  \E s : Unfolds(s, f, SUBSET S) /\ SumOver(f, S) = s[S]
<1>1. SumOver(f, S) = (CHOOSE s : Unfolds(s, f, SUBSET S))[S]
  BY DEF SumOver, MapThenSumSet, MapThenFoldSet, Unfolds, Picked, Remaining
<1> QED
  BY <1>1, SumsExist

LEMMA SumSame ==
    ASSUME NEW S, IsFiniteSet(S), NEW f, NEW g, \A x \in S : f[x] = g[x]
    PROVE  SumOver(f, S) = SumOver(g, S)
<1>1. PICK s : Unfolds(s, f, SUBSET S) /\ SumOver(f, S) = s[S]
  BY SumUnfolded
<1>2. PICK r : Unfolds(r, g, SUBSET S) /\ SumOver(g, S) = r[S]
  BY SumUnfolded
<1>3. Alike(f, g, S)
  BY DEF Alike
<1>4. s[S] = r[S]
  BY <1>1, <1>2, <1>3, SumsAgree
<1> QED
  BY <1>1, <1>2, <1>4

LEMMA SumSteps ==
    ASSUME NEW S, IsFiniteSet(S), NEW f
    PROVE  SumOver(f, S) = IF S = {} THEN 0 ELSE f[Picked(S)] + SumOver(f, Remaining(S))
<1>1. PICK s : Unfolds(s, f, SUBSET S) /\ SumOver(f, S) = s[S]
  BY SumUnfolded
<1>2. s[S] = IF S = {} THEN 0 ELSE f[Picked(S)] + s[Remaining(S)]
  BY <1>1 DEF Unfolds
<1>3. CASE S # {}
  <2>1. IsFiniteSet(Remaining(S)) /\ Remaining(S) \subseteq S
    BY <1>3, Picking DEF Remaining
  <2>2. PICK r : Unfolds(r, f, SUBSET Remaining(S)) /\ SumOver(f, Remaining(S)) = r[Remaining(S)]
    BY <2>1, SumUnfolded
  <2>3. Alike(f, f, Remaining(S))
    BY DEF Alike
  <2>4. s[Remaining(S)] = r[Remaining(S)]
    BY <1>1, <2>1, <2>2, <2>3, SumsAgree
  <2> QED
    BY <1>1, <1>2, <1>3, <2>2, <2>4
<1> QED
  BY <1>1, <1>2, <1>3
\* What holds of the empty set and goes on to hold when an element is added.
LEMMA AddingUp ==
    ASSUME NEW S, IsFiniteSet(S), NEW F, {} \in F,
           \A T \in F : \A x \in S : x \notin T => T \cup {x} \in F
    PROVE  S \in F
<1> DEFINE N == {n \in Nat : \A T \in SUBSET S : Cardinality(T) = n => T \in F}
<1>1. \A T \in SUBSET S : /\ IsFiniteSet(T) /\ Cardinality(T) \in Nat
                           /\ Remaining(T) \in SUBSET S
  BY FS_Subset, FS_CardinalityType DEF Remaining
<1>2. 0 \in N
  BY <1>1, FS_EmptySet
<1>3. ASSUME NEW n \in N PROVE n + 1 \in N
  <2> SUFFICES ASSUME NEW T \in SUBSET S, Cardinality(T) = n + 1 PROVE T \in F
    OBVIOUS
  <2>1. /\ Picked(T) \in T /\ Remaining(T) \in SUBSET S /\ Cardinality(Remaining(T)) = n
    BY <1>1, Picking
  <2>2. Remaining(T) \in F /\ Picked(T) \notin Remaining(T) /\ T = Remaining(T) \cup {Picked(T)}
    BY <2>1 DEF Remaining
  <2> QED
    BY <2>1, <2>2
<1>4. N = Nat
  <2> HIDE DEF N
  <2> QED BY <1>2, <1>3, CountingUp DEF N
<1>5. Cardinality(S) \in Nat
  BY FS_CardinalityType
<1> QED
  BY <1>4, <1>5

Integral(f, S) == \A x \in S : f[x] \in Int

LEMMA SumType ==
    ASSUME NEW S, IsFiniteSet(S), NEW f, Integral(f, S)
    PROVE  SumOver(f, S) \in Int
<1> DEFINE N == {n \in Nat : \A T \in SUBSET S : Cardinality(T) = n => SumOver(f, T) \in Int}
<1>1. \A T \in SUBSET S : /\ IsFiniteSet(T) /\ Cardinality(T) \in Nat
                           /\ Remaining(T) \in SUBSET S
  BY FS_Subset, FS_CardinalityType DEF Remaining
<1>2. 0 \in N
  <2>1. SumOver(f, {}) = 0
    BY FS_EmptySet, SumSteps
  <2> QED
    BY <1>1, <2>1, FS_EmptySet
<1>3. ASSUME NEW n \in N PROVE n + 1 \in N
  <2> SUFFICES ASSUME NEW T \in SUBSET S, Cardinality(T) = n + 1 PROVE SumOver(f, T) \in Int
    OBVIOUS
  <2>1. /\ T # {} /\ Picked(T) \in T /\ Remaining(T) \in SUBSET S /\ Cardinality(Remaining(T)) = n
    BY <1>1, Picking
  <2>2. SumOver(f, T) = f[Picked(T)] + SumOver(f, Remaining(T))
    BY <1>1, <2>1, SumSteps
  <2>3. SumOver(f, Remaining(T)) \in Int /\ f[Picked(T)] \in Int
    BY <2>1 DEF Integral
  <2> QED
    BY <2>2, <2>3
<1>4. N = Nat
  <2> HIDE DEF N
  <2> QED BY <1>2, <1>3, CountingUp DEF N
<1>5. Cardinality(S) \in Nat
  BY FS_CardinalityType
<1> QED
  BY <1>4, <1>5

\* The elements may be summed in any order.
LEMMA SumRemove ==
    ASSUME NEW S, IsFiniteSet(S), NEW f, Integral(f, S), NEW a \in S
    PROVE  SumOver(f, S) = f[a] + SumOver(f, S \ {a})
<1> DEFINE Good(T) == \A x \in T : SumOver(f, T) = f[x] + SumOver(f, T \ {x})
           N == {n \in Nat : \A T \in SUBSET S : Cardinality(T) = n => Good(T)}
<1>1. \A T \in SUBSET S : IsFiniteSet(T) /\ SumOver(f, T) \in Int
  BY FS_Subset, SumType DEF Integral
<1>2. 0 \in N
  BY <1>1, Picking
<1>3. ASSUME NEW n \in N PROVE n + 1 \in N
  <2> SUFFICES ASSUME NEW T \in SUBSET S, Cardinality(T) = n + 1, NEW x \in T
               PROVE  SumOver(f, T) = f[x] + SumOver(f, T \ {x})
    OBVIOUS
  <2> DEFINE p == Picked(T)
  <2>1. /\ T # {} /\ p \in T /\ T \ {p} = Remaining(T)
        /\ SumOver(f, T) = f[p] + SumOver(f, T \ {p})
    BY <1>1, Picking, SumSteps DEF Remaining
  <2>2. ASSUME NEW y \in T PROVE Cardinality(T \ {y}) = n
    <3>1. Cardinality(T \ {y}) = Cardinality(T) - 1
      BY <1>1, FS_RemoveElement
    <3> QED
      BY <3>1
  <2>3. CASE x # p
    <3>1. x \in T \ {p} /\ p \in T \ {x} /\ (T \ {x}) \ {p} = (T \ {p}) \ {x}
      BY <2>1, <2>3
    <3>2. /\ SumOver(f, T \ {p}) = f[x] + SumOver(f, (T \ {p}) \ {x})
          /\ SumOver(f, T \ {x}) = f[p] + SumOver(f, (T \ {x}) \ {p})
      BY <2>1, <2>2, <3>1
    <3>3. /\ f[p] \in Int /\ f[x] \in Int
          /\ SumOver(f, (T \ {p}) \ {x}) \in Int
      BY <1>1, <2>1 DEF Integral
    <3> DEFINE rest == SumOver(f, (T \ {p}) \ {x})
    <3>4. /\ SumOver(f, T) = f[p] + (f[x] + rest) /\ SumOver(f, T \ {x}) = f[p] + rest
          /\ rest \in Int
      BY <2>1, <3>1, <3>2, <3>3
    <3> HIDE DEF p, rest
    <3> QED
      BY <3>3, <3>4
  <2> QED
    BY <2>1, <2>3
<1>4. N = Nat
  <2> HIDE DEF N
  <2> QED BY <1>2, <1>3, CountingUp DEF N
<1>5. Cardinality(S) \in Nat
  BY FS_CardinalityType
<1> QED
  BY <1>4, <1>5

LEMMA SumEmpty == \A f : SumOver(f, {}) = 0
<1> TAKE f
<1> QED
  BY FS_EmptySet, SumSteps

LEMMA SumInsert ==
    ASSUME NEW S, IsFiniteSet(S), NEW f, Integral(f, S), NEW a, a \notin S, f[a] \in Int
    PROVE  SumOver(f, S \cup {a}) = f[a] + SumOver(f, S)
<1>1. IsFiniteSet(S \cup {a}) /\ (S \cup {a}) \ {a} = S /\ Integral(f, S \cup {a})
  BY FS_AddElement DEF Integral
<1> QED
  BY <1>1, SumRemove

LEMMA SumZero ==
    ASSUME NEW S, IsFiniteSet(S), NEW f, \A x \in S : f[x] = 0
    PROVE  SumOver(f, S) = 0
<1> DEFINE F == {T \in SUBSET S : SumOver(f, T) = 0}
<1>1. {} \in F
  BY SumEmpty
<1>2. ASSUME NEW T \in F, NEW x \in S, x \notin T PROVE T \cup {x} \in F
  <2>1. IsFiniteSet(T) /\ Integral(f, T) /\ f[x] = 0
    BY FS_Subset DEF Integral
  <2>2. SumOver(f, T \cup {x}) = f[x] + SumOver(f, T)
    <3> HIDE DEF F
    <3> QED BY <1>2, <2>1, SumInsert
  <2> QED
    BY <2>1, <2>2
<1> HIDE DEF F
<1>3. S \in F
  BY <1>1, <1>2, AddingUp
<1> QED
  BY <1>3 DEF F

Natural(f, S) == \A x \in S : f[x] \in Nat

LEMMA SumNatural ==
    ASSUME NEW S, IsFiniteSet(S), NEW f, Natural(f, S)
    PROVE  SumOver(f, S) \in Nat
<1> DEFINE F == {T \in SUBSET S : SumOver(f, T) \in Nat}
<1>1. {} \in F
  BY SumEmpty
<1>2. ASSUME NEW T \in F, NEW x \in S, x \notin T PROVE T \cup {x} \in F
  <2>1. IsFiniteSet(T) /\ Integral(f, T) /\ f[x] \in Nat
    BY FS_Subset DEF Integral, Natural
  <2>2. SumOver(f, T \cup {x}) = f[x] + SumOver(f, T)
    <3> HIDE DEF F
    <3> QED BY <1>2, <2>1, SumInsert
  <2> QED
    BY <2>1, <2>2
<1> HIDE DEF F
<1>3. S \in F
  BY <1>1, <1>2, AddingUp
<1> QED
  BY <1>3 DEF F

LEMMA SumAtLeast ==
    ASSUME NEW S, IsFiniteSet(S), NEW f, Natural(f, S), NEW a \in S
    PROVE  SumOver(f, S) >= f[a]
<1>1. IsFiniteSet(S \ {a}) /\ Natural(f, S \ {a}) /\ Integral(f, S)
  BY FS_Subset DEF Natural, Integral
<1>2. SumOver(f, S) = f[a] + SumOver(f, S \ {a}) /\ SumOver(f, S \ {a}) \in Nat /\ f[a] \in Nat
  BY <1>1, SumRemove, SumNatural DEF Natural
<1> QED
  BY <1>2

\* One term changes.
LEMMA SumChange ==
    ASSUME NEW S, IsFiniteSet(S), NEW f, NEW g, Integral(f, S), Integral(g, S), NEW a \in S,
           \A x \in S : x # a => f[x] = g[x]
    PROVE  SumOver(g, S) = SumOver(f, S) + (g[a] - f[a])
<1>1. IsFiniteSet(S \ {a}) /\ Integral(f, S \ {a}) /\ \A x \in S \ {a} : f[x] = g[x]
  BY FS_Subset DEF Integral
<1>2. SumOver(f, S \ {a}) = SumOver(g, S \ {a}) /\ SumOver(f, S \ {a}) \in Int
  BY <1>1, SumSame, SumType
<1>3. SumOver(f, S) = f[a] + SumOver(f, S \ {a}) /\ SumOver(g, S) = g[a] + SumOver(g, S \ {a})
  BY SumRemove
<1>4. f[a] \in Int /\ g[a] \in Int
  BY DEF Integral
<1> QED
  BY <1>2, <1>3, <1>4

LEMMA SumUnion ==
    ASSUME NEW S, IsFiniteSet(S), NEW T, IsFiniteSet(T), S \cap T = {}, NEW f,
           Integral(f, S \cup T)
    PROVE  SumOver(f, S \cup T) = SumOver(f, S) + SumOver(f, T)
<1> DEFINE F == {U \in SUBSET T : SumOver(f, S \cup U) = SumOver(f, S) + SumOver(f, U)}
<1>1. {} \in F
  <2>1. SumOver(f, S) \in Int /\ SumOver(f, {}) = 0 /\ S \cup {} = S
    BY SumEmpty, SumType DEF Integral
  <2> QED
    BY <2>1
<1>2. ASSUME NEW U \in F, NEW x \in T, x \notin U PROVE U \cup {x} \in F
  <2>1. /\ IsFiniteSet(U) /\ Integral(f, U) /\ IsFiniteSet(S \cup U) /\ Integral(f, S \cup U)
        /\ x \notin S \cup U /\ f[x] \in Int /\ (S \cup U) \cup {x} = S \cup (U \cup {x})
    <3>1. IsFiniteSet(U)
      BY FS_Subset
    <3>2. IsFiniteSet(S \cup U)
      BY <3>1, FS_Union
    <3>3. x \notin S \cup U /\ (S \cup U) \cup {x} = S \cup (U \cup {x})
      BY <1>2
    <3>4. Integral(f, U) /\ Integral(f, S \cup U) /\ f[x] \in Int
      BY DEF Integral
    <3> QED
      BY <3>1, <3>2, <3>3, <3>4
  <2>2. /\ SumOver(f, U \cup {x}) = f[x] + SumOver(f, U)
        /\ SumOver(f, S \cup (U \cup {x})) = f[x] + SumOver(f, S \cup U)
    <3>1. SumOver(f, (S \cup U) \cup {x}) = f[x] + SumOver(f, S \cup U)
      BY <2>1, SumInsert
    <3>2. SumOver(f, U \cup {x}) = f[x] + SumOver(f, U)
      BY <2>1, SumInsert
    <3> QED
      BY <2>1, <3>1, <3>2
  <2>3. SumOver(f, U) \in Int /\ SumOver(f, S) \in Int
    BY <2>1, SumType DEF Integral
  <2> QED
    BY <2>1, <2>2, <2>3
<1> HIDE DEF F
<1>3. T \in F
  BY <1>1, <1>2, AddingUp
<1> QED
  BY <1>3 DEF F

\* Terms that are 0 do not matter.
LEMMA SumSubset ==
    ASSUME NEW S, IsFiniteSet(S), NEW T, T \subseteq S, NEW f, Integral(f, T),
           \A x \in S \ T : f[x] = 0
    PROVE  SumOver(f, S) = SumOver(f, T)
<1>1. /\ IsFiniteSet(T) /\ IsFiniteSet(S \ T) /\ T \cap (S \ T) = {} /\ S = T \cup (S \ T)
      /\ Integral(f, T \cup (S \ T))
  BY FS_Subset DEF Integral
<1>2. SumOver(f, S) = SumOver(f, T) + SumOver(f, S \ T)
  BY <1>1, SumUnion
<1>3. SumOver(f, S \ T) = 0 /\ SumOver(f, T) \in Int
  BY <1>1, SumZero, SumType
<1> QED
  BY <1>2, <1>3

\* Only one term matters.
LEMMA SumOfOne ==
    ASSUME NEW S, IsFiniteSet(S), NEW f, NEW a \in S, f[a] \in Int,
           \A x \in S : x # a => f[x] = 0
    PROVE  SumOver(f, S) = f[a]
<1>1. Integral(f, S) /\ IsFiniteSet(S \ {a}) /\ \A x \in S \ {a} : f[x] = 0
  BY FS_Subset DEF Integral
<1>2. SumOver(f, S) = f[a] + SumOver(f, S \ {a}) /\ SumOver(f, S \ {a}) = 0
  BY <1>1, SumRemove, SumZero
<1> QED
  BY <1>2

\* A sum is the sum of the sums of its parts; p says which part a term is of.
LEMMA SumOfParts ==
    ASSUME NEW S, IsFiniteSet(S), NEW f, Integral(f, S), NEW p, NEW C, IsFiniteSet(C),
           \A x \in S : p[x] \in C,
           NEW g, \A c \in C : g[c] = SumOver(f, {x \in S : p[x] = c})
    PROVE  SumOver(f, S) = SumOver(g, C)
<1> DEFINE Part(D) == {x \in S : p[x] \in D}
           F == {D \in SUBSET C : SumOver(f, Part(D)) = SumOver(g, D)}
<1>0. \A D : IsFiniteSet(Part(D)) /\ Integral(f, Part(D))
  BY FS_Subset DEF Integral
<1>1. {} \in F
  <2>1. Part({}) = {}
    OBVIOUS
  <2>2. SumOver(f, {}) = 0 /\ SumOver(g, {}) = 0
    BY SumEmpty
  <2> QED
    BY <2>1, <2>2
<1>2. ASSUME NEW D \in F, NEW c \in C, c \notin D PROVE D \cup {c} \in F
  <2>1. /\ Part(D \cup {c}) = Part(D) \cup Part({c}) /\ Part(D) \cap Part({c}) = {}
        /\ Part({c}) = {x \in S : p[x] = c}
    BY <1>2
  <2>2. g[c] = SumOver(f, Part({c})) /\ SumOver(f, Part({c})) \in Int
    BY <1>0, <2>1, SumType
  <2>3. Integral(g, D)
    <3> SUFFICES ASSUME NEW d \in D PROVE g[d] \in Int
      BY DEF Integral
    <3>1. IsFiniteSet({x \in S : p[x] = d}) /\ Integral(f, {x \in S : p[x] = d})
      BY FS_Subset DEF Integral
    <3> QED
      BY <3>1, SumType
  <2>4. SumOver(f, Part(D \cup {c})) = SumOver(f, Part(D)) + SumOver(f, Part({c}))
    <3>1. Integral(f, Part(D) \cup Part({c}))
      BY DEF Integral
    <3>2. IsFiniteSet(Part(D)) /\ IsFiniteSet(Part({c}))
      BY <1>0
    <3>3. Part(D) \cap Part({c}) = {}
      BY <2>1
    <3> HIDE DEF Part, F
    <3>4. ASSUME NEW A, NEW B, IsFiniteSet(A), IsFiniteSet(B), A \cap B = {},
                 Integral(f, A \cup B)
          PROVE  SumOver(f, A \cup B) = SumOver(f, A) + SumOver(f, B)
      BY <3>4, SumUnion
    <3>5. SumOver(f, Part(D) \cup Part({c})) = SumOver(f, Part(D)) + SumOver(f, Part({c}))
      BY <3>1, <3>2, <3>3, <3>4
    <3> QED
      BY <2>1, <3>5
  <2>5. IsFiniteSet(D) /\ SumOver(g, D \cup {c}) = g[c] + SumOver(g, D)
    <3>1. IsFiniteSet(D) /\ g[c] \in Int
      BY <2>2, FS_Subset
    <3> HIDE DEF F
    <3> QED
      BY <1>2, <2>3, <3>1, SumInsert
  <2>6. SumOver(g, D) \in Int
    BY <2>3, <2>5, SumType
  <2> HIDE DEF Part
  <2> QED
    BY <2>2, <2>4, <2>5, <2>6
<1>3. C \in F
  <2> HIDE DEF F
  <2> QED BY <1>1, <1>2, AddingUp
<1>4. Part(C) = S
  OBVIOUS
<1> HIDE DEF Part
<1> QED
  BY <1>3, <1>4
=============================================================================
