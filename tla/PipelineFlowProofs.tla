------------------------- MODULE PipelineFlowProofs -------------------------
(***************************************************************************)
(* What happens to the packets of Pipeline, for every file and capacity:   *)
(* each is owned once and reaches its decoder in file order, and the       *)
(* threads implement the two bounded FIFO channels of PacketFlow.          *)
(***************************************************************************)
EXTENDS PipelineProofs, QueueLemmas

(* The parts of ControlInv about packets, and what they make of the numbers. *)
LEMMA PacketFacts ==
  ASSUME ControlInv
  PROVE  /\ demuxed \in Seq(Kinds) /\ Len(demuxed) \in Nat
         /\ Packets = 1..Len(demuxed) /\ Packets \subseteq Nat
         /\ NoPacket \notin Packets /\ NoPacket \in Nat
         /\ freed \subseteq Packets
         /\ rpkt \in Packets \cup {NoPacket}
         /\ rpkt # NoPacket <=> pc["reader"] = "Push"
         /\ rpkt # NoPacket => rpkt = Len(demuxed)
         /\ \A c \in Streams :
              /\ cpkt[c] \in Packets \cup {NoPacket}
              /\ cpkt[c] # NoPacket <=> pc[c] \in {"Decode", "Free"}
              /\ queue[c] \in Seq(Packets) /\ queue[c] \in Seq(Nat)
              /\ Queued(c) = Elems(queue[c]) /\ Queued(c) \subseteq Packets
<1>1. demuxed \in Seq(Kinds) /\ Len(demuxed) \in Nat /\ Packets = 1..Len(demuxed)
  BY DEF ControlInv, TypeOK, Packets
<1>2. Packets \subseteq Nat /\ NoPacket \notin Packets /\ NoPacket \in Nat
  BY <1>1 DEF NoPacket
<1>3. \A c \in Streams : queue[c] \in Seq(Packets) /\ cpkt[c] \in Packets \cup {NoPacket}
  BY DEF ControlInv, TypeOK
<1>4. ASSUME NEW c \in Streams
      PROVE  /\ queue[c] \in Seq(Nat)
             /\ Queued(c) = Elems(queue[c]) /\ Queued(c) \subseteq Packets
  <2>1. queue[c] \in Seq(Packets)
    BY <1>3
  <2>2. queue[c] \in Seq(Nat) /\ Elems(queue[c]) \subseteq Packets
    BY <1>2, <2>1, SeqOfSubset
  <2> QED
    BY <2>2 DEF Queued, Elems
<1>5. /\ freed \subseteq Packets /\ rpkt \in Packets \cup {NoPacket}
      /\ rpkt # NoPacket <=> pc["reader"] = "Push"
      /\ rpkt # NoPacket => rpkt = Len(demuxed)
      /\ \A c \in Streams : cpkt[c] # NoPacket <=> pc[c] \in {"Decode", "Free"}
  BY DEF ControlInv, TypeOK, Hands
<1> QED
  BY <1>1, <1>2, <1>3, <1>4, <1>5

(* OwnedOnce in its parts: nothing is lost; what a stream holds is its own
   and nobody else's.                                                      *)
Accounted ==
  \A p \in Packets : p \in freed \/ p = rpkt \/ \E c \in Streams : p \in Queued(c) \cup {cpkt[c]}

Own(c) ==
  /\ cpkt[c] \notin freed \cup Queued(c)
  /\ Queued(c) \cap freed = {}
  /\ rpkt \notin Queued(c)
  /\ rpkt # NoPacket => cpkt[c] # rpkt
  /\ \A p \in Queued(c) \cup ({cpkt[c]} \ {NoPacket}) : p \in Packets /\ demuxed[p] = c

\* OwnedOnce, stream by stream.
LEMMA OwnedParts ==
  OwnedOnce <=> Accounted /\ rpkt \notin freed /\ \A c \in Streams : Own(c)
BY DEF OwnedOnce, Accounted, Own

(* InFileOrder for one stream. *)
Ordered(c) == Sorted(queue[c]) /\ \A p \in Handed(c), q \in Queued(c) : p < q

\* InFileOrder, stream by stream.
LEMMA OrderParts == InFileOrder <=> \A c \in Streams : Ordered(c)
BY DEF InFileOrder, Ordered, Sorted

(* OwnedOnce and InFileOrder are inductive together, given ControlInv. *)
FlowInv == OwnedOnce /\ InFileOrder

\* The invariant holds at the start.
LEMMA FlowInit == Init => FlowInv
<1> SUFFICES ASSUME Init PROVE FlowInv
  OBVIOUS
<1>1. Packets = {} /\ freed = {} /\ rpkt = NoPacket
  BY DEF Init, Packets
<1>2. \A c \in Streams : queue[c] = <<>> /\ DOMAIN queue[c] = {} /\ cpkt[c] = NoPacket
  BY DEF Init
<1>3. \A c \in Streams : Queued(c) = {} /\ Handed(c) = {}
  BY <1>1, <1>2 DEF Queued, Handed
<1> QED
  BY <1>1, <1>2, <1>3 DEF FlowInv, OwnedOnce, InFileOrder

(* A step that changes neither queues nor packets changes nothing here. *)
LEMMA FlowFrame ==
  ASSUME FlowInv, UNCHANGED <<queue, data>>
  PROVE  FlowInv'
BY DEF FlowInv, OwnedOnce, InFileOrder, Queued, Handed, Packets, data

\* Every step keeps it, with the locks of ControlInv.
LEMMA FlowStep == ControlInv /\ ControlInv' /\ FlowInv /\ [Next]_vars => FlowInv'
<1> SUFFICES ASSUME ControlInv, ControlInv', FlowInv, [Next]_vars PROVE FlowInv'
  OBVIOUS
<1> USE DEF FlowInv, data
<1>1. ASSUME NEW k \in Kinds, ReaderRead(k) PROVE FlowInv'
  <2>1. /\ rpkt = NoPacket /\ rpkt' = Len(demuxed) + 1
        /\ Packets' = Packets \cup {rpkt'} /\ rpkt' \notin Packets
        /\ \A p \in Packets : demuxed'[p] = demuxed[p]
        /\ UNCHANGED <<queue, cpkt, freed>>
    BY <1>1, PacketFacts DEF ReaderRead, Goto, Packets
  <2>2. \A c \in Streams : Queued(c)' = Queued(c) /\ Handed(c)' = Handed(c)
    BY <2>1, PacketFacts DEF Queued, Handed
  <2>3. OwnedOnce'
    BY <2>1, <2>2, PacketFacts DEF OwnedOnce
  <2>4. InFileOrder'
    BY <2>1, <2>2 DEF InFileOrder
  <2> QED
    BY <2>3, <2>4
<1>2. ASSUME NEW c \in Streams, ReaderPush(c) PROVE FlowInv'
  <2>1. /\ rpkt \in Packets /\ rpkt = Len(demuxed) /\ demuxed[rpkt] = c /\ rpkt' = NoPacket
        /\ UNCHANGED <<demuxed, cpkt, freed>> /\ Packets' = Packets
    BY <1>2, PacketFacts DEF ReaderPush, Packets
  <2>2. /\ queue'[c] = Append(queue[c], rpkt)
        /\ \A d \in Streams \ {c} : queue'[d] = queue[d]
    BY <1>2 DEF ReaderPush, Pushed, ControlInv, TypeOK
  <2>3. \A p \in Queued(c) : p < rpkt
    BY <2>1, PacketFacts DEF OwnedOnce
  <2>4. Elems(queue[c]) = Queued(c) /\ Sorted(queue[c]) /\ queue[c] \in Seq(Nat)
    BY PacketFacts DEF InFileOrder, Sorted
  <2>5. Queued(c)' = Queued(c) \cup {rpkt} /\ Sorted(queue'[c])
    <3>1. Elems(Append(queue[c], rpkt)) = Elems(queue[c]) \cup {rpkt}
      BY <2>1, PacketFacts, AppendElems
    <3>2. Sorted(Append(queue[c], rpkt))
      BY <2>1, <2>3, <2>4, PacketFacts, AppendSorted
    <3> QED
      BY <2>2, <2>4, <3>1, <3>2 DEF Queued, Elems
  <2>6. /\ \A d \in Streams \ {c} : Queued(d)' = Queued(d)
        /\ \A d \in Streams : Handed(d)' = Handed(d)
    BY <2>1, <2>2 DEF Queued, Handed
  <2>7. OwnedOnce'
    BY <2>1, <2>5, <2>6, PacketFacts, SMTT(30) DEF OwnedOnce
  <2>8. \A p \in Handed(c) : p < rpkt
    BY <2>1, PacketFacts DEF OwnedOnce, Handed
  <2>9. InFileOrder'
    BY <2>2, <2>5, <2>6, <2>8 DEF InFileOrder, Sorted
  <2> QED
    BY <2>7, <2>9
<1>3. CASE ReaderDiscard
  <2>1. /\ rpkt \in Packets /\ demuxed[rpkt] = "other" /\ rpkt' = NoPacket
        /\ freed' = freed \cup {rpkt}
        /\ UNCHANGED <<queue, demuxed, cpkt>> /\ Packets' = Packets
    BY <1>3, PacketFacts DEF ReaderDiscard, Packets
  <2>2. \A d \in Streams : Queued(d)' = Queued(d) /\ Handed(d)' = Handed(d)
    BY <2>1 DEF Queued, Handed, Streams
  <2>3. OwnedOnce'
    BY <2>1, <2>2, PacketFacts DEF OwnedOnce, Streams
  <2>4. InFileOrder'
    BY <2>1, <2>2 DEF InFileOrder
  <2> QED
    BY <2>3, <2>4
<1>4. ASSUME NEW c \in Streams, DecoderTake(c) PROVE FlowInv'
  <2> DEFINE h == Head(queue[c])
  <2>1. /\ queue[c] # <<>> /\ cpkt[c] = NoPacket /\ cpkt'[c] = h
        /\ queue'[c] = Tail(queue[c])
        /\ \A d \in Streams \ {c} : queue'[d] = queue[d] /\ cpkt'[d] = cpkt[d]
        /\ UNCHANGED <<demuxed, rpkt, freed>> /\ Packets' = Packets
    BY <1>4, PacketFacts DEF DecoderTake, Goto, ControlInv, TypeOK, Packets
  <2>2. Elems(queue[c]) = Queued(c) /\ Sorted(queue[c]) /\ queue[c] \in Seq(Nat)
    BY PacketFacts DEF InFileOrder, Sorted
  <2>3. /\ Queued(c) = {h} \cup Queued(c)' /\ Sorted(queue'[c])
        /\ \A y \in Queued(c)' : h < y
    <3>1. /\ Elems(queue[c]) = {h} \cup Elems(Tail(queue[c]))
          /\ Sorted(Tail(queue[c]))
          /\ \A y \in Elems(Tail(queue[c])) : h < y
      BY <2>1, <2>2, TailOfSorted
    <3>2. Queued(c)' = Elems(Tail(queue[c]))
      BY <2>1 DEF Queued, Elems
    <3> QED
      BY <2>1, <2>2, <3>1, <3>2
  <2>4. h \in Queued(c) /\ h \in Packets /\ demuxed[h] = c /\ h # NoPacket /\ h \notin Queued(c)'
    BY <2>3, PacketFacts DEF OwnedOnce
  <2>5. Handed(c)' = Handed(c) \cup {h}
    BY <2>1, <2>4 DEF Handed
  <2>6. \A d \in Streams \ {c} : Queued(d)' = Queued(d) /\ Handed(d)' = Handed(d)
    BY <2>1 DEF Queued, Handed
  <2>7. OwnedOnce'
    <3>1. Accounted /\ rpkt \notin freed /\ \A d \in Streams : Own(d)
      BY OwnedParts
    <3>2. Accounted'
      <4> SUFFICES ASSUME NEW p \in Packets, p \notin freed, p # rpkt
                   PROVE  \E d \in Streams : p \in Queued(d)' \cup {cpkt'[d]}
        BY <2>1 DEF Accounted
      <4>1. PICK d \in Streams : p \in Queued(d) \cup {cpkt[d]}
        BY <3>1 DEF Accounted
      <4>2. CASE d = c
        BY <2>1, <2>3, <4>1, <4>2, PacketFacts
      <4>3. CASE d # c
        BY <2>1, <2>6, <4>1, <4>3
      <4> QED
        BY <4>2, <4>3
    <3>3. Own(c)'
      BY <2>1, <2>3, <2>4, <3>1 DEF Own
    <3>4. \A d \in Streams \ {c} : Own(d)'
      BY <2>1, <2>6, <3>1 DEF Own
    <3>5. (OwnedOnce <=> Accounted /\ rpkt \notin freed /\ \A d \in Streams : Own(d))'
      BY DEF OwnedOnce, Accounted, Own
    <3> QED
      BY <2>1, <3>1, <3>2, <3>3, <3>4, <3>5
  <2>8. InFileOrder'
    <3>1. \A d \in Streams : Ordered(d)
      BY OrderParts
    <3>2. Ordered(c)'
      BY <2>3, <2>5, <3>1 DEF Ordered
    <3>3. \A d \in Streams \ {c} : Ordered(d)'
      BY <2>1, <2>6, <3>1 DEF Ordered
    <3>4. (InFileOrder <=> \A d \in Streams : Ordered(d))'
      BY DEF InFileOrder, Ordered, Sorted
    <3> QED
      BY <3>2, <3>3, <3>4
  <2> QED
    BY <2>7, <2>8
<1>5. ASSUME NEW c \in Streams, DecoderFree(c) PROVE FlowInv'
  <2>1. /\ cpkt[c] \in Packets /\ cpkt'[c] = NoPacket /\ freed' = freed \cup {cpkt[c]}
        /\ \A d \in Streams \ {c} : cpkt'[d] = cpkt[d]
        /\ UNCHANGED <<queue, demuxed, rpkt>> /\ Packets' = Packets
    BY <1>5, PacketFacts DEF DecoderFree, Goto, ControlInv, TypeOK, Packets
  <2>2. demuxed[cpkt[c]] = c
    BY <2>1, PacketFacts DEF OwnedOnce
  <2>3. \A d \in Streams : Queued(d)' = Queued(d) /\ Handed(d)' = Handed(d)
    BY <2>1, <2>2, PacketFacts DEF Queued, Handed
  <2>4. OwnedOnce'
    <3>1. Accounted /\ rpkt \notin freed /\ \A d \in Streams : Own(d)
      BY OwnedParts
    <3>2. Accounted'
      BY <2>1, <2>3, <3>1 DEF Accounted
    <3>3. rpkt' \notin freed'
      BY <2>1, <3>1, PacketFacts DEF Own
    <3>4. Own(c)'
      BY <2>1, <2>3, <3>1, PacketFacts DEF Own
    <3>5. ASSUME NEW d \in Streams \ {c} PROVE Own(d)'
      BY <2>1, <2>2, <2>3, <3>1, PacketFacts DEF Own
    <3>6. (OwnedOnce <=> Accounted /\ rpkt \notin freed /\ \A d \in Streams : Own(d))'
      BY DEF OwnedOnce, Accounted, Own
    <3> QED
      BY <3>2, <3>3, <3>4, <3>5, <3>6
  <2>5. InFileOrder'
    BY <2>1, <2>3 DEF InFileOrder
  <2> QED
    BY <2>4, <2>5
<1>6. CASE UNCHANGED <<queue, data>>
  BY <1>6, FlowFrame
<1> QED
  BY <1>1, <1>2, <1>3, <1>4, <1>5, <1>6
     DEF Next, Reader, Decoder, Main, Terminated, vars, ReaderLoop, ReaderLockAudio,
         ReaderLockVideo, ReaderCheck, ReaderReadFails, SetQuit, NotifyAudio, NotifyVideo,
         DecoderLoop, DecoderLock, DecoderTest, DecoderBlock, SpuriousWake, DecoderBreak,
         DecoderDecode, MainLoop, MainUserQuits, MainNoEvent, MainJoins, MainJoin, MainCleanup

\* So it holds always.
LEMMA FlowInvariance == Spec => [](ControlInv /\ FlowInv)
<1> QED
  BY ControlInvariance, FlowInit, FlowStep, PTL DEF Spec

(* Whatever the file, the queues' capacity and the interleaving, no packet is
   lost on its way to a decoder, freed twice, or freed under its user.     *)
THEOREM PacketsOwnedOnce == Spec => []OwnedOnce
<1>1. FlowInv => OwnedOnce
  BY DEF FlowInv
<1> QED
  BY FlowInvariance, <1>1, PTL

(* The packets of a stream reach its decoder in file order. *)
THEOREM PacketsInFileOrder == Spec => []InFileOrder
<1>1. FlowInv => InFileOrder
  BY DEF FlowInv
<1> QED
  BY FlowInvariance, <1>1, PTL
-----------------------------------------------------------------------------
(* What PacketFlow calls pending: what is queued, and a packet in the
   reader's hands.                                                         *)
LEMMA PendingIs ==
  ASSUME ControlInv, FlowInv, NEW c \in Streams
  PROVE  Flow!Pending(c) =
           Queued(c) \cup {p \in {rpkt} : p # NoPacket /\ demuxed[p] = c}
<1> DEFINE P == {p \in Packets : demuxed[p] = c} \ Handed(c)
           Q == Queued(c) \cup {p \in {rpkt} : p # NoPacket /\ demuxed[p] = c}
<1>1. Flow!Pending(c) = P
  BY DEF Flow!Pending, Packets
<1>2. Accounted /\ rpkt \notin freed /\ \A d \in Streams : Own(d)
  BY OwnedParts DEF FlowInv
<1>3. ASSUME NEW p \in P PROVE p \in Q
  <2>1. p \in Packets /\ p # NoPacket /\ demuxed[p] = c /\ p \notin freed /\ p # cpkt[c]
    BY <1>3, PacketFacts DEF Handed
  <2>2. CASE p = rpkt
    BY <2>1, <2>2
  <2>3. CASE p # rpkt
    <3>1. PICK d \in Streams : p \in Queued(d) \cup {cpkt[d]}
      BY <1>2, <2>1, <2>3 DEF Accounted
    <3>2. d = c
      BY <1>2, <2>1, <3>1 DEF Own
    <3> QED
      BY <2>1, <3>1, <3>2
  <2> QED
    BY <2>2, <2>3
<1>4. ASSUME NEW p \in Q PROVE p \in P
  <2>1. CASE p \in Queued(c)
    BY <1>2, <2>1, PacketFacts DEF Own, Handed
  <2>2. CASE p = rpkt /\ p # NoPacket /\ demuxed[p] = c
    BY <1>2, <2>2, PacketFacts DEF Own, Handed
  <2> QED
    BY <1>4, <2>1, <2>2
<1> QED
  BY <1>1, <1>3, <1>4

\* The refinement: initial states.
LEMMA FlowInitRefined == Init => Flow!Init
<1> SUFFICES ASSUME Init PROVE Flow!Init
  OBVIOUS
<1>1. \A c \in Streams : Handed(c) = {}
  BY DEF Init, Handed
<1> QED
  BY <1>1 DEF Init, Flow!Init, Flow!Streams, Streams

\* The refinement: each step is a step of PacketFlow or a stutter.
LEMMA FlowStepRefined ==
  ControlInv /\ ControlInv' /\ FlowInv /\ FlowInv' /\ [Next]_vars => [Flow!Next]_(Flow!vars)
<1> SUFFICES ASSUME ControlInv, ControlInv', FlowInv, FlowInv', [Next]_vars
             PROVE  [Flow!Next]_(Flow!vars)
  OBVIOUS
<1> USE DEF data
<1>s. ASSUME UNCHANGED demuxed, \A c \in Streams : Handed(c)' = Handed(c)
      PROVE  UNCHANGED (Flow!vars)
  BY <1>s DEF Flow!vars
<1>1. ASSUME NEW k \in Kinds, ReaderRead(k) PROVE Flow!Next
  <2>1. /\ rpkt = NoPacket /\ demuxed' = Append(demuxed, k)
        /\ \A p \in Packets : demuxed'[p] = demuxed[p]
        /\ UNCHANGED <<cpkt, freed>>
    BY <1>1, PacketFacts DEF ReaderRead, Goto, Packets
  <2>2. \A c \in Streams : Handed(c)' = Handed(c)
    BY <2>1, PacketFacts DEF Handed
  <2>3. ASSUME NEW c \in Streams PROVE Cardinality(Flow!Pending(c)) < MaxQueue
    <3>1. Flow!Pending(c) = Elems(queue[c])
      BY <2>1, PendingIs, PacketFacts, ZenonT(40)
    <3>2. Cardinality(Elems(queue[c])) \in Nat /\ Cardinality(Elems(queue[c])) <= Len(queue[c])
      BY PacketFacts, ElemsFinite
    <3>3. Len(queue[c]) < MaxQueue /\ Len(queue[c]) \in Nat /\ MaxQueue \in Nat
      BY <1>1, PacketFacts, MaxQueueAssumption DEF ReaderRead, Goto, ControlInv, RoomToPush
    <3> QED
      BY <3>1, <3>2, <3>3
  <2>4. Flow!Produce(k)
    <3>1. [c \in Streams |-> Handed(c)]' = [c \in Streams |-> Handed(c)]
      BY <2>2
    <3>2. \A c \in Flow!Streams : Flow!Cardinality(Flow!Pending(c)) < MaxQueue
      BY <2>3 DEF Flow!Streams, Streams, Flow!Cardinality, Cardinality
    <3> QED
      BY <2>1, <3>1, <3>2 DEF Flow!Produce
  <2> QED
    BY <2>4 DEF Flow!Next, Flow!Kinds, Flow!Streams, Kinds, Streams
<1>2. ASSUME NEW c \in Streams, DecoderTake(c) PROVE Flow!Next
  <2> DEFINE h == Head(queue[c])
  <2>1. /\ queue[c] # <<>> /\ cpkt[c] = NoPacket /\ cpkt'[c] = h
        /\ \A d \in Streams \ {c} : cpkt'[d] = cpkt[d]
        /\ UNCHANGED <<demuxed, rpkt, freed>>
    BY <1>2, PacketFacts DEF DecoderTake, Goto, ControlInv, TypeOK
  <2>2. /\ Elems(queue[c]) = {h} \cup Elems(Tail(queue[c]))
        /\ \A y \in Elems(Tail(queue[c])) : h < y
    <3>1. Sorted(queue[c]) /\ queue[c] \in Seq(Nat)
      BY PacketFacts DEF FlowInv, InFileOrder, Sorted
    <3> QED
      BY <2>1, <3>1, TailOfSorted
  <2>3. /\ h \in Queued(c) /\ h \in Nat /\ h # NoPacket /\ demuxed[h] = c
        /\ \A q \in Queued(c) : h <= q
    <3>1. Queued(c) = Elems(queue[c]) /\ Queued(c) \subseteq Packets
      BY PacketFacts
    <3>2. h \in Queued(c)
      BY <2>2, <3>1
    <3>3. h \in Packets /\ demuxed[h] = c
      BY <3>1, <3>2 DEF FlowInv, OwnedOnce
    <3>4. h \in Nat /\ h # NoPacket
      BY <3>3, PacketFacts
    <3>5. \A q \in Queued(c) : h <= q
      BY <2>2, <3>1, <3>4, PacketFacts
    <3> QED
      BY <3>2, <3>3, <3>4, <3>5
  <2>4. h \in Flow!Pending(c) /\ \A q \in Flow!Pending(c) : h <= q
    <3>1. \A p \in {rpkt} : p # NoPacket => h <= p
      BY <2>3, PacketFacts
    <3> QED
      BY <2>3, <3>1, PendingIs
  <2>5. /\ Handed(c)' = Handed(c) \cup {h}
        /\ \A d \in Streams \ {c} : Handed(d)' = Handed(d)
    BY <2>1, <2>3 DEF Handed
  <2>6. Flow!Deliver(c, h)
    BY <2>1, <2>4, <2>5 DEF Flow!Deliver
  <2> QED
    BY <2>4, <2>6 DEF Flow!Next, Flow!Streams, Streams
<1>3. CASE ReaderDiscard
  <2>1. rpkt \in Packets /\ demuxed[rpkt] = "other" /\ freed' = freed \cup {rpkt}
    BY <1>3, PacketFacts DEF ReaderDiscard
  <2>2. \A c \in Streams : Handed(c)' = Handed(c)
    BY <1>3, <2>1 DEF ReaderDiscard, Handed, Streams
  <2> QED
    BY <1>3, <1>s, <2>2 DEF ReaderDiscard
<1>4. ASSUME NEW c \in Streams, DecoderFree(c) PROVE UNCHANGED (Flow!vars)
  <2>1. /\ cpkt[c] \in Packets /\ cpkt'[c] = NoPacket /\ freed' = freed \cup {cpkt[c]}
        /\ \A d \in Streams \ {c} : cpkt'[d] = cpkt[d]
        /\ UNCHANGED demuxed
    BY <1>4, PacketFacts DEF DecoderFree, Goto, ControlInv, TypeOK
  <2>2. demuxed[cpkt[c]] = c
    BY <2>1, PacketFacts DEF FlowInv, OwnedOnce
  <2>3. \A d \in Streams : Handed(d)' = Handed(d)
    BY <2>1, <2>2, PacketFacts DEF Handed
  <2> QED
    BY <1>s, <2>1, <2>3
<1>5. CASE UNCHANGED <<demuxed, cpkt, freed>>
  BY <1>5, <1>s DEF Handed
<1> QED
  BY <1>1, <1>2, <1>3, <1>4, <1>5
     DEF Next, Reader, Decoder, Main, Terminated, vars, ReaderLoop, ReaderLockAudio,
         ReaderLockVideo, ReaderCheck, ReaderReadFails, ReaderPush, SetQuit, NotifyAudio,
         NotifyVideo, DecoderLoop, DecoderLock, DecoderTest, DecoderBlock, SpuriousWake,
         DecoderBreak, DecoderDecode, MainLoop, MainUserQuits, MainNoEvent, MainJoins,
         MainJoin, MainCleanup

(* The four threads, with their queues, locks and condition variables,
   implement two bounded FIFO channels from the demuxer to the decoders.   *)
THEOREM FlowImplemented == Spec => FlowSpec
<1> QED
  BY FlowInvariance, FlowInitRefined, FlowStepRefined, PTL DEF Spec, FlowSpec, Flow!Spec
-----------------------------------------------------------------------------
(* The packets of stream c that its thread takes before packet n. *)
Ahead(c, n) == {m \in Queued(c) : m < n}

WaitsItsTurn ==
  [][\A c \in Streams : \A n \in Queued(c) :
       /\ Ahead(c, n)' \subseteq Ahead(c, n)
       /\ DecoderTake(c) =>
            \/ cpkt'[c] = n
            \/ n \in Queued(c)' /\ Ahead(c, n)' # Ahead(c, n)
       /\ ~ DecoderTake(c) => n \in Queued(c)']_vars

(* No packet is overtaken in its queue: whatever the threads do, those ahead
   of it only become fewer, by one each time its thread takes a packet, and
   it leaves the queue for its thread's hands alone.                       *)
THEOREM NoPacketIsOvertaken == Spec => WaitsItsTurn
<1>1. ControlInv /\ FlowInv /\ [Next]_vars
        => [\A c \in Streams : \A n \in Queued(c) :
              /\ Ahead(c, n)' \subseteq Ahead(c, n)
              /\ DecoderTake(c) =>
                   \/ cpkt'[c] = n
                   \/ n \in Queued(c)' /\ Ahead(c, n)' # Ahead(c, n)
              /\ ~ DecoderTake(c) => n \in Queued(c)']_vars
  <2> SUFFICES ASSUME ControlInv, FlowInv, [Next]_vars,
                      NEW c \in Streams, NEW n \in Queued(c)
               PROVE  /\ Ahead(c, n)' \subseteq Ahead(c, n)
                      /\ DecoderTake(c) =>
                           \/ cpkt'[c] = n
                           \/ n \in Queued(c)' /\ Ahead(c, n)' # Ahead(c, n)
                      /\ ~ DecoderTake(c) => n \in Queued(c)'
    OBVIOUS
  <2>n. Queued(c) \subseteq Packets /\ Packets \subseteq Nat /\ n \in Packets
    BY PacketFacts
  <2>1. CASE DecoderTake(c)
    <3>1. PICK h : h = Head(queue[c])
      OBVIOUS
    <3>2. queue[c] # <<>> /\ cpkt'[c] = h /\ queue'[c] = Tail(queue[c])
      BY <2>1, <3>1 DEF DecoderTake, ControlInv, TypeOK
    <3>3. Elems(queue[c]) = Queued(c) /\ Sorted(queue[c]) /\ queue[c] \in Seq(Nat)
      BY PacketFacts DEF FlowInv, InFileOrder, Sorted
    <3>4. /\ Elems(queue[c]) = {h} \cup Elems(Tail(queue[c]))
          /\ \A y \in Elems(Tail(queue[c])) : h < y
      BY <3>1, <3>2, <3>3, TailOfSorted
    <3>5. Queued(c)' = Elems(Tail(queue[c]))
      BY <3>2 DEF Queued, Elems
    <3>6. Queued(c) = {h} \cup Queued(c)' /\ \A y \in Queued(c)' : h < y
      BY <3>3, <3>4, <3>5
    <3>7. Ahead(c, n)' \subseteq Ahead(c, n)
      BY <3>6 DEF Ahead
    <3>8. ASSUME n # h PROVE n \in Queued(c)' /\ Ahead(c, n)' # Ahead(c, n)
      <4>1. n \in Queued(c)' /\ h < n /\ h \in Nat
        BY <2>n, <3>6, <3>8
      <4>2. h \in Ahead(c, n)
        BY <3>6, <4>1 DEF Ahead
      <4>3. h \notin Queued(c)'
        BY <3>6, <4>1
      <4> QED
        BY <4>1, <4>2, <4>3 DEF Ahead
    <3> QED
      BY <2>1, <3>2, <3>7, <3>8
  <2>2. CASE ReaderPush(c)
    <3>1. rpkt \in Packets /\ rpkt = Len(demuxed) /\ queue'[c] = Append(queue[c], rpkt)
      BY <2>2, PacketFacts DEF ReaderPush, Pushed, ControlInv, TypeOK
    <3>2. Elems(Append(queue[c], rpkt)) = Elems(queue[c]) \cup {rpkt}
      <4>1. queue[c] \in Seq(Packets)
        BY PacketFacts
      <4> QED
        BY <3>1, <4>1, AppendElems
    <3>3. Queued(c)' = Queued(c) \cup {rpkt}
      BY <3>1, <3>2, PacketFacts DEF Queued, Elems
    <3>4. ~ (rpkt < n)
      BY <2>n, <3>1, PacketFacts
    <3>5. ~ DecoderTake(c)
      <4>1. rpkt' = NoPacket /\ rpkt # NoPacket
        BY <2>2 DEF ReaderPush
      <4> QED
        BY <4>1 DEF DecoderTake
    <3> QED
      BY <3>3, <3>4, <3>5 DEF Ahead
  <2>3. CASE queue'[c] = queue[c] /\ ~ DecoderTake(c)
    <3>1. Queued(c)' = Queued(c)
      BY <2>3 DEF Queued
    <3> QED
      BY <2>3, <3>1 DEF Ahead
  <2>4. CASE \E d \in Streams \ {c} : ReaderPush(d) \/ DecoderTake(d)
    <3>1. PICK d \in Streams \ {c} : ReaderPush(d) \/ DecoderTake(d)
      BY <2>4
    <3>2. queue'[c] = queue[c]
      BY <3>1 DEF ReaderPush, DecoderTake, ControlInv, TypeOK
    <3>3. CASE DecoderTake(c)
      BY <2>1, <3>3
    <3> QED
      BY <2>3, <3>2, <3>3
  <2>5. CASE UNCHANGED queue
    <3>1. CASE DecoderTake(c)
      BY <2>1, <3>1
    <3> QED
      BY <2>3, <2>5, <3>1
  <2> QED
    BY <2>1, <2>2, <2>4, <2>5
       DEF Next, Reader, Decoder, Main, Terminated, vars, ReaderLoop, ReaderLockAudio,
           ReaderLockVideo, ReaderCheck, ReaderRead, ReaderReadFails, ReaderDiscard, SetQuit,
           NotifyAudio, NotifyVideo, DecoderLoop, DecoderLock, DecoderTest, DecoderBlock,
           SpuriousWake, DecoderBreak, DecoderDecode, DecoderFree, MainLoop, MainUserQuits,
           MainNoEvent, MainJoins, MainJoin, MainCleanup
<1> QED
  BY FlowInvariance, <1>1, PTL DEF Spec, WaitsItsTurn
-----------------------------------------------------------------------------
(* What is never freed is what is left in the queues when the three threads
   have returned, and that is what two queues can hold.                    *)
Unfreed == Packets \ freed

LeaksOnlyQueues ==
  (\A t \in Threads \ {"main"} : pc[t] = "Done") =>
    /\ Unfreed = Queued("audio") \cup Queued("video")
    /\ Cardinality(Unfreed) <= 2 * MaxQueue

(* AllPacketsFreed fails in a run; this is by how much, whatever the file:
   no packet is lost on any way but in a queue that nobody empties (a decoder
   thread that sees `quit` at the head of its loop leaves its queue as it is,
   lines 251 and 294), so no more than 2 * MAX_QUEUE_SIZE are.             *)
THEOREM OnlyQueuesLeak == Spec => []LeaksOnlyQueues
<1>1. ControlInv /\ FlowInv => LeaksOnlyQueues
  <2> SUFFICES ASSUME ControlInv, FlowInv, \A t \in Threads \ {"main"} : pc[t] = "Done"
               PROVE  /\ Unfreed = Queued("audio") \cup Queued("video")
                      /\ Cardinality(Unfreed) <= 2 * MaxQueue
    BY DEF LeaksOnlyQueues
  <2>1. pc["reader"] = "Done" /\ \A c \in Streams : pc[c] = "Done"
    BY DEF Threads, Streams
  <2>2. rpkt = NoPacket /\ \A c \in Streams : cpkt[c] = NoPacket
    BY <2>1, PacketFacts
  <2>3. Accounted /\ \A c \in Streams : Own(c)
    BY OwnedParts DEF FlowInv
  <2>4. Unfreed = Queued("audio") \cup Queued("video")
    <3>1. ASSUME NEW p \in Unfreed PROVE p \in Queued("audio") \cup Queued("video")
      <4>1. PICK c \in Streams : p \in Queued(c) \cup {cpkt[c]}
        BY <2>2, <2>3, <3>1, PacketFacts DEF Accounted, Unfreed
      <4>2. p \in Queued(c)
        BY <2>2, <3>1, <4>1, PacketFacts DEF Unfreed
      <4> QED
        BY <4>2 DEF Streams
    <3>2. \A c \in Streams : Queued(c) \subseteq Unfreed
      BY <2>3, PacketFacts DEF Own, Unfreed
    <3> QED
      BY <3>1, <3>2 DEF Streams
  <2>5. ASSUME NEW c \in Streams
        PROVE  /\ IsFiniteSet(Queued(c)) /\ Cardinality(Queued(c)) \in Nat
               /\ Cardinality(Queued(c)) <= MaxQueue
    <3>1. queue[c] \in Seq(Nat) /\ Queued(c) = Elems(queue[c]) /\ Queued(c) \subseteq Packets
      BY PacketFacts
    <3>2. IsFiniteSet(Queued(c))
      <4>1. IsFiniteSet(Packets)
        <5>1. Packets = 1..Len(demuxed) /\ Len(demuxed) \in Nat
          BY PacketFacts
        <5> QED
          BY <5>1, FS_Interval
      <4> QED
        BY <3>1, <4>1, FS_Subset
    <3>3. Cardinality(Queued(c)) \in Nat /\ Cardinality(Queued(c)) <= Len(queue[c])
      BY <3>1, ElemsFinite
    <3>4. Len(queue[c]) <= MaxQueue /\ Len(queue[c]) \in Nat /\ MaxQueue \in Nat
      BY <3>1, MaxQueueAssumption DEF ControlInv, QueueBound
    <3> QED
      BY <3>2, <3>3, <3>4
  <2>6. Cardinality(Unfreed) <= 2 * MaxQueue
    <3>1. PICK A, V : A = Queued("audio") /\ V = Queued("video")
      OBVIOUS
    <3>2. /\ IsFiniteSet(A) /\ Cardinality(A) \in Nat /\ Cardinality(A) <= MaxQueue
          /\ IsFiniteSet(V) /\ Cardinality(V) \in Nat /\ Cardinality(V) <= MaxQueue
      BY <2>5, <3>1 DEF Streams
    <3>3. /\ IsFiniteSet(A \cap V)
          /\ Cardinality(A \cup V) = Cardinality(A) + Cardinality(V) - Cardinality(A \cap V)
      BY <3>2, FS_Union, FS_Intersection
    <3>4. Cardinality(A \cap V) \in Nat
      BY <3>3, FS_CardinalityType
    <3>5. Unfreed = A \cup V
      BY <2>4, <3>1
    <3> QED
      BY <3>2, <3>3, <3>4, <3>5, MaxQueueAssumption
  <2> QED
    BY <2>4, <2>6
<1> QED
  BY FlowInvariance, <1>1, PTL
=============================================================================
