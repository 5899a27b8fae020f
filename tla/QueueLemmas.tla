----------------------------- MODULE QueueLemmas ----------------------------
(***************************************************************************)
(* Sequences as the queues of the player use them: what is in one, how     *)
(* much, and in which order, when a number is appended or the head taken.  *)
(***************************************************************************)
EXTENDS Integers, Sequences, FiniteSets, FiniteSetTheorems, SequenceTheorems, TLAPS

Elems(q) == {q[i] : i \in DOMAIN q}

Sorted(q) == \A i, j \in DOMAIN q : i < j => q[i] < q[j]

\* A sequence over a set is one over any larger set, and its elements are in the set.
LEMMA SeqOfSubset ==
  ASSUME NEW S, NEW T, S \subseteq T, NEW q \in Seq(S)
  PROVE  q \in Seq(T) /\ Elems(q) \subseteq S
<1>1. DOMAIN q = 1..Len(q) /\ Len(q) \in Nat /\ \A i \in 1..Len(q) : q[i] \in S
  OBVIOUS
<1>2. q \in [1..Len(q) -> T]
  BY <1>1
<1> QED
  BY <1>1, <1>2 DEF Elems

\* A queue holds no more things than it is long,
LEMMA ElemsFinite ==
  ASSUME NEW S, NEW q \in Seq(S)
  PROVE  Cardinality(Elems(q)) \in Nat /\ Cardinality(Elems(q)) <= Len(q)
<1>1. /\ Len(q) \in Nat /\ DOMAIN q = 1..Len(q)
      /\ q \in [1..Len(q) -> Elems(q)]
  BY DEF Elems
<1>2. \A y \in Elems(q) : \E i \in 1..Len(q) : q[i] = y
  BY <1>1 DEF Elems
<1>3. ExistsSurjection(1..Len(q), Elems(q))
  BY <1>1, <1>2 DEF ExistsSurjection, Surjection
<1> QED
  BY <1>1, <1>3, FS_NatSurjection, FS_SurjCardinalityBound, FS_CardinalityType

\* one more when one is pushed,
LEMMA AppendElems ==
  ASSUME NEW S, NEW q \in Seq(S), NEW x \in S
  PROVE  Elems(Append(q, x)) = Elems(q) \cup {x}
<1>1. /\ Append(q, x) \in Seq(S)
      /\ Len(Append(q, x)) = Len(q) + 1
      /\ \A i \in 1..Len(q) : Append(q, x)[i] = q[i]
      /\ Append(q, x)[Len(q) + 1] = x
  OBVIOUS
<1>2. /\ DOMAIN q = 1..Len(q) /\ Len(q) \in Nat
      /\ DOMAIN Append(q, x) = 1..(Len(q) + 1)
  BY <1>1
<1>3. 1..(Len(q) + 1) = 1..Len(q) \cup {Len(q) + 1}
  BY <1>2
<1> QED
  BY <1>1, <1>2, <1>3 DEF Elems

\* and stays sorted when that one is the greatest.
LEMMA AppendSorted ==
  ASSUME NEW q \in Seq(Nat), NEW x \in Nat, Sorted(q), \A y \in Elems(q) : y < x
  PROVE  Sorted(Append(q, x))
<1>1. /\ DOMAIN q = 1..Len(q) /\ Len(q) \in Nat
      /\ DOMAIN Append(q, x) = 1..(Len(q) + 1)
      /\ \A i \in 1..Len(q) : Append(q, x)[i] = q[i]
      /\ Append(q, x)[Len(q) + 1] = x
  OBVIOUS
<1>2. \A i \in 1..Len(q) : q[i] < x
  BY <1>1 DEF Elems
<1> QED
  BY <1>1, <1>2 DEF Sorted

(* The head of a sorted sequence comes before everything in its tail. *)
LEMMA TailOfSorted ==
  ASSUME NEW q \in Seq(Nat), q # <<>>, Sorted(q)
  PROVE  /\ Elems(q) = {Head(q)} \cup Elems(Tail(q))
         /\ Sorted(Tail(q))
         /\ \A y \in Elems(Tail(q)) : Head(q) < y
<1>1. /\ DOMAIN q = 1..Len(q) /\ Len(q) \in Nat \ {0}
      /\ Head(q) = q[1]
  OBVIOUS
<1>2. /\ DOMAIN Tail(q) = 1..(Len(q) - 1)
      /\ \A i \in 1..(Len(q) - 1) : Tail(q)[i] = q[i + 1]
  BY <1>1, HeadTailProperties
<1>3. Sorted(Tail(q))
  BY <1>1, <1>2, SMTT(30) DEF Sorted
<1>4. \A y \in Elems(Tail(q)) : Head(q) < y
  BY <1>1, <1>2 DEF Sorted, Elems
<1>5. Elems(q) \subseteq {Head(q)} \cup Elems(Tail(q))
  <2> SUFFICES ASSUME NEW i \in 1..Len(q), i # 1 PROVE q[i] \in Elems(Tail(q))
    BY <1>1 DEF Elems
  <2>1. i - 1 \in 1..(Len(q) - 1) /\ (i - 1) + 1 = i
    BY <1>1
  <2>2. Tail(q)[i - 1] = q[i]
    BY <1>2, <2>1
  <2> QED
    BY <1>2, <2>1, <2>2 DEF Elems
<1>6. {Head(q)} \cup Elems(Tail(q)) \subseteq Elems(q)
  BY <1>1, <1>2 DEF Elems
<1> QED
  BY <1>3, <1>4, <1>5, <1>6

(* The first n things in a sorted queue are the n least of them. *)
LEMMA FirstOfSorted ==
  ASSUME NEW q \in Seq(Nat), Sorted(q), NEW n \in 1..Len(q)
  PROVE  Cardinality({y \in Elems(q) : y <= q[n]}) = n
<1>1. /\ DOMAIN q = 1..Len(q) /\ Len(q) \in Nat /\ n \in Nat
      /\ \A i \in 1..Len(q) : q[i] \in Nat
      /\ \A i \in 1..n : i \in 1..Len(q)
  OBVIOUS
<1>2. PICK S : S = {y \in Elems(q) : y <= q[n]}
  OBVIOUS
<1>3. PICK f : f = [i \in 1..n |-> q[i]]
  OBVIOUS
<1>4. \A i, j \in 1..Len(q) : q[i] <= q[j] => i <= j
  BY <1>1, SMTT(30) DEF Sorted
<1>5. f \in [1..n -> S]
  <2>1. ASSUME NEW i \in 1..n PROVE q[i] <= q[n]
    <3>1. CASE i = n
      BY <1>1, <3>1
    <3>2. CASE i < n
      <4>1. q[i] < q[n] /\ q[i] \in Nat /\ q[n] \in Nat
        BY <1>1, <3>2 DEF Sorted
      <4> QED
        BY <4>1
    <3>3. i \in Nat /\ i <= n
      BY <1>1
    <3> QED
      BY <1>1, <3>1, <3>2, <3>3
  <2> QED
    BY <1>1, <1>2, <1>3, <2>1 DEF Elems
<1>6. \A i, j \in 1..n : f[i] = f[j] => i = j
  <2> SUFFICES ASSUME NEW i \in 1..n, NEW j \in 1..n, q[i] = q[j] PROVE i = j
    BY <1>3
  <2> QED
    BY <1>1, <1>4
<1>7. \A y \in S : \E i \in 1..n : f[i] = y
  <2> SUFFICES ASSUME NEW i \in 1..Len(q), q[i] <= q[n] PROVE i \in 1..n
    BY <1>1, <1>2, <1>3 DEF Elems
  <2> QED
    BY <1>1, <1>4
<1>8. ExistsBijection(1..n, S)
  <2>1. f \in Bijection(1..n, S)
    BY <1>5, <1>6, <1>7 DEF Bijection, Injection, Surjection, IsInjective
  <2> QED
    BY <2>1 DEF ExistsBijection
<1> QED
  BY <1>1, <1>2, <1>8, FS_CountingElements
=============================================================================
