-------------------------- MODULE FrameQueueProofs --------------------------
(* Proofs about FrameQueue: each frame once, and in order without delay.   *)
EXTENDS FrameQueue, SequenceTheorems, TLAPS

QueueType ==
  /\ ordered \in BOOLEAN
  /\ fed \in Nat
  /\ pending \subseteq 1 .. fed
  /\ received \in Seq(Nat)

QueueInv == QueueType /\ DeliveredOnce /\ InOrder

-----------------------------------------------------------------------------
\* A packet takes fresh numbers: nothing already delivered is pending again.
LEMMA AcceptKeeps ==
  ASSUME QueueInv, NEW n \in Nat, Accept(n)
  PROVE  QueueInv'
<1> USE DEF Accept
<1>1. QueueType'
  BY DEF QueueInv, QueueType
<1>2. DeliveredOnce'
  BY DEF QueueInv, QueueType, DeliveredOnce
<1>3. InOrder'
  BY DEF QueueInv, QueueType, DeliveredOnce, InOrder
<1> QED BY <1>1, <1>2, <1>3 DEF QueueInv

\* Units that are given up disturb no order.
LEMMA GiveUpKeeps ==
  ASSUME QueueInv, NEW S, GiveUp(S)
  PROVE  QueueInv'
<1> USE DEF GiveUp, QueueInv, QueueType
<1>1. QueueType'
  OBVIOUS
<1>2. DeliveredOnce'
  BY DEF DeliveredOnce
<1>3. InOrder'
  BY DEF InOrder
<1> QED BY <1>1, <1>2, <1>3

\* A delivery keeps the order of those before it.
LEMMA DeliverKeeps ==
  ASSUME QueueInv, NEW f \in pending, NEW S, Deliver(f, S)
  PROVE  QueueInv'
<1> USE DEF Deliver, QueueInv, QueueType
<1>1. f \in Nat /\ received' \in Seq(Nat)
  OBVIOUS
<1>2. /\ DOMAIN received = 1 .. Len(received)
      /\ DOMAIN received' = 1 .. (Len(received) + 1)
      /\ \A i \in DOMAIN received : received'[i] = received[i]
      /\ received'[Len(received) + 1] = f
      /\ Len(received) \in Nat
  BY <1>1
<1>3. QueueType'
  BY <1>1
<1>4. DeliveredOnce'
  BY <1>2 DEF DeliveredOnce
<1>5. InOrder'
  BY <1>1, <1>2 DEF InOrder, DeliveredOnce
<1> QED BY <1>3, <1>4, <1>5

(* A queue of frames delivers each accepted unit at most once, and in the  *)
(* order of its input when the codec does not reorder.                     *)
THEOREM QueueDelivers ==
  ASSUME MaxPacketUnits \in Nat
  PROVE  Spec => [](DeliveredOnce /\ InOrder)
<1>1. Init => QueueInv
  BY DEF Init, QueueInv, QueueType, DeliveredOnce, InOrder
<1>2. QueueInv /\ [Next]_vars => QueueInv'
  <2> SUFFICES ASSUME QueueInv, [Next]_vars PROVE QueueInv'
    OBVIOUS
  <2>1. CASE UNCHANGED vars
    BY <2>1 DEF vars, QueueInv, QueueType, DeliveredOnce, InOrder
  <2>2. CASE Next
    <3>1. 1 .. MaxPacketUnits \subseteq Nat
      OBVIOUS
    <3> QED BY <2>2, <3>1, AcceptKeeps, GiveUpKeeps, DeliverKeeps DEF Next
  <2> QED BY <2>1, <2>2
<1>3. QueueInv => DeliveredOnce /\ InOrder
  BY DEF QueueInv
<1> QED BY <1>1, <1>2, <1>3, PTL DEF Spec
=============================================================================
