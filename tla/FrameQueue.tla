----------------------------- MODULE FrameQueue -----------------------------
(***************************************************************************)
(* What a decoder promises to the thread that feeds it: every unit of      *)
(* compressed data it accepts becomes at most one frame, is delivered or   *)
(* settled without a frame exactly once, and, when the codec does not      *)
(* reorder, comes out in the order it went in.  DecodeApi implements it.   *)
(***************************************************************************)
EXTENDS Integers, Sequences

CONSTANT MaxPacketUnits    \* units in the largest packet

VARIABLES
  ordered,    \* whether the codec delivers frames in the order they are fed
  fed,        \* how many units were accepted; units are numbered 1 .. fed
  pending,    \* accepted units that were neither delivered nor given up
  received    \* the units whose frames were delivered, in order

vars == <<ordered, fed, pending, received>>

Init ==
  /\ ordered \in BOOLEAN
  /\ fed = 0
  /\ pending = {}
  /\ received = <<>>

\* A packet of n units enters.
Accept(n) ==
  /\ fed' = fed + n
  /\ pending' = pending \cup (fed + 1) .. (fed + n)
  /\ UNCHANGED <<ordered, received>>

\* Units end without a frame: skipped by the codec, or lost to an error.
GiveUp(S) ==
  /\ pending' = pending \ S
  /\ UNCHANGED <<ordered, fed, received>>

\* The frame of unit f is delivered while the units S are given up.
Deliver(f, S) ==
  /\ f \notin S
  /\ ordered => \A g \in pending \ S : f <= g
  /\ received' = Append(received, f)
  /\ pending' = pending \ (S \cup {f})
  /\ UNCHANGED <<ordered, fed>>

Next ==
  \/ \E n \in 1 .. MaxPacketUnits : Accept(n)
  \/ \E S \in SUBSET pending : GiveUp(S)
  \/ \E f \in pending, S \in SUBSET pending : Deliver(f, S)

Spec == Init /\ [][Next]_vars

-----------------------------------------------------------------------------
(* No frame is delivered twice, and none before its unit was accepted.     *)
DeliveredOnce ==
  /\ \A i \in DOMAIN received : received[i] \in (1 .. fed) \ pending
  /\ \A i, j \in DOMAIN received : received[i] = received[j] => i = j

(* A codec that does not reorder delivers frames in the order of its       *)
(* input, and never one that precedes a frame already delivered.           *)
InOrder ==
  ordered =>
    /\ \A i, j \in DOMAIN received : i < j => received[i] < received[j]
    /\ \A i \in DOMAIN received, u \in pending : received[i] < u
=============================================================================
