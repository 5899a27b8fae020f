---------------------------- MODULE DecodeProofs ----------------------------
(***************************************************************************)
(* Proofs about DecodeApi and the player as its caller, for packets of any *)
(* number of units and codecs of any delay.                                *)
(***************************************************************************)
EXTENDS PlayerDecode, FiniteSetTheorems, SequenceTheorems, WellFoundedInduction, TLAPS

\* A set of units that is not empty has a first one.
LEMMA FirstUnit ==
  ASSUME NEW S, S \subseteq Nat, S # {}
  PROVE  First(S) \in S /\ \A v \in S : First(S) <= v
<1>1. PICK x \in S : \A y \in S : ~(<<y, x>> \in OpToRel(<, Nat))
  BY WFMin, NatLessThanWellFounded
<1>2. \A y \in S : ~(y < x)
  BY <1>1 DEF OpToRel
<1>3. \A y \in S : x <= y
  BY <1>2
<1> QED
  BY <1>3 DEF First

-----------------------------------------------------------------------------
\* What a call may assume, and what draining means.
Protocol ==
  /\ call # "none" => buffer_frame = {}
  /\ draining => eof /\ superframe = {} /\ in_pkt = {}
  /\ draining_done => draining /\ (inside = {} \/ nb_draining_errors > MaxDrainingErrors)
  /\ nb_draining_errors > MaxDrainingErrors => draining_done
  /\ answer.call = "receive" /\ answer.ret \in {"again", "eof"} => buffer_frame = {} \/ call # "none"

DecodeInv ==
  /\ TypeOK
  /\ Protocol
  /\ StagesInOrder
  /\ UnitsAccounted
  /\ ReceiveEagainMeansRoom
  /\ EofMeansDrained

\* The codec's frames are few, and with no delay there are none between steps.
LEMMA InsideFinite ==
  ASSUME TypeOK
  PROVE  /\ IsFiniteSet(inside)
         /\ delay = 0 => inside = {}
         /\ delay \in Nat
<1>1. Units \subseteq Nat /\ \A u \in Units : u <= MaxFed
  BY ApiAssumption DEF Units
<1>2. inside \in SUBSET Nat /\ \A u \in inside : u <= MaxFed
  BY <1>1 DEF TypeOK, CodecTypes
<1>3. IsFiniteSet(inside)
  BY <1>2, ApiAssumption, FS_BoundedSetOfNaturals
<1>4. delay \in Nat /\ Cardinality(inside) <= delay
  BY ApiAssumption DEF TypeOK, CodecTypes
<1>5. delay = 0 => Cardinality(inside) = 0
  BY <1>3, <1>4, FS_CardinalityType
<1> QED
  BY <1>3, <1>4, <1>5, FS_EmptySet

-----------------------------------------------------------------------------
(* Types.                                                                  *)

\* Taking a frame out of the codec's frames, with at most one put in.
LEMMA PoolTypes ==
  ASSUME TypeOK, NEW pool,
         pool = inside \/ \E u \in Units : pool = inside \cup {u}
  PROVE  /\ pool \subseteq Units
         /\ \A f \in pool : /\ pool \ {f} \subseteq Units
                           /\ Cardinality(pool \ {f}) <= delay
<1>1. IsFiniteSet(inside) /\ Cardinality(inside) <= delay /\ inside \subseteq Units /\ delay \in Nat
  BY InsideFinite DEF TypeOK, CodecTypes
<1>2. IsFiniteSet(pool) /\ Cardinality(pool) <= delay + 1 /\ pool \subseteq Units
  <2>1. CASE pool = inside
    BY <2>1, <1>1, FS_CardinalityType
  <2>2. CASE \E u \in Units : pool = inside \cup {u}
    <3>1. PICK u \in Units : pool = inside \cup {u}
      BY <2>2
    <3>2. Cardinality(inside) \in Nat
      BY <1>1, FS_CardinalityType
    <3> QED BY <3>1, <3>2, <1>1, FS_AddElement
  <2> QED BY <2>1, <2>2
<1>3. ASSUME NEW f \in pool PROVE Cardinality(pool \ {f}) <= delay
  <2>1. Cardinality(pool) \in Nat
    BY <1>2, FS_CardinalityType
  <2>2. Cardinality(pool \ {f}) = Cardinality(pool) - 1
    BY <1>2, FS_RemoveElement
  <2> QED BY <1>1, <1>2, <2>1, <2>2
<1> QED BY <1>2, <1>3

\* The flags keep their types.
LEMMA FlagStep ==
  ASSUME FlagTypes, Next
  PROVE  FlagTypes'
<1> USE DEF FlagTypes, config, filter, drain
<1>1. CASE Send
  BY <1>1 DEF Send, SendPacket
<1>2. CASE SendEmpty \/ SendHollow
  BY <1>2 DEF SendEmpty, SendHollow
<1>3. CASE Receive
  BY <1>3 DEF Receive
<1>4. CASE Fetch
  BY <1>4 DEF Fetch, FetchPiece, FetchPacket, FetchEnd, FetchNothing
<1>5. CASE Decode
  BY <1>5 DEF Decode
<1>6. CASE Drain
  <2>1. eof' = eof /\ draining' = draining
    BY <1>6 DEF Drain
  <2>2. draining_done' \in {draining_done, TRUE, nb_draining_errors >= MaxDrainingErrors}
    BY <1>6 DEF Drain, DrainError
  <2>3. (nb_draining_errors >= MaxDrainingErrors) \in BOOLEAN
    OBVIOUS
  <2> QED BY <2>1, <2>2, <2>3, Zenon
<1> QED
  BY <1>1, <1>2, <1>3, <1>4, <1>5, <1>6 DEF Next, Step

\* So do call and answer,
LEMMA CallStep ==
  ASSUME TypeOK, Protocol, Next
  PROVE  CallTypes'
<1> USE ApiAssumption DEF TypeOK, CallTypes, Answers, Said, Returns, config, filter, drain
<1>1. CASE Send
  BY <1>1 DEF Send, SendPacket, DecodeAhead, Refusal
<1>2. CASE SendEmpty \/ SendHollow
  BY <1>2 DEF SendEmpty, SendHollow, DecodeAhead
<1>3. CASE Receive
  BY <1>3 DEF Receive, HandOver
<1>4. CASE Fetch
  BY <1>4 DEF Fetch, FetchPiece, FetchPacket, FetchEnd, FetchNothing, Fetched, Return
<1>5. CASE Decode
  BY <1>5 DEF Decode, CodecGives, Produce, HandOver, Return
<1>6. CASE Drain
  BY <1>6 DEF Drain, DrainError, Produce, HandOver, Return, Protocol
<1> QED
  BY <1>1, <1>2, <1>3, <1>4, <1>5, <1>6 DEF Next, Step

\* Every step but the codec's leaves inside alone; the codec's takes a frame
\* out of a pool of one more, or keeps a pool that fits its delay.
LEMMA CodecStep ==
  ASSUME TypeOK, Next
  PROVE  CodecTypes'
<1>1. kind' = kind /\ delay' = delay
  BY DEF Next, Send, SendPacket, SendEmpty, SendHollow, Receive, Step, Fetch, Decode, Drain, config
<1>2. Units \subseteq Nat
  BY DEF Units
<1>3. inside' \subseteq Units /\ Cardinality(inside') <= delay
  <2>1. CASE inside' = inside
    BY <2>1 DEF TypeOK, CodecTypes
  <2>2. ASSUME NEW pool, NEW hidden, CodecGives(pool, hidden),
               pool = inside \/ \E u \in Units : pool = inside \cup {u}
        PROVE  inside' \subseteq Units /\ Cardinality(inside') <= delay
    BY <2>2, PoolTypes DEF CodecGives
  <2>3. CASE Decode
    <3>1. in_pkt # {} => First(in_pkt) \in Units
      BY <1>2, FirstUnit DEF TypeOK, PlaceTypes
    <3> QED BY <2>1, <2>2, <2>3, <3>1 DEF Decode
  <2>4. CASE Drain
    <3>1. ASSUME NEW f \in inside, inside' = inside \ {f}
          PROVE  inside' \subseteq Units /\ Cardinality(inside') <= delay
      BY <3>1, PoolTypes
    <3>2. ASSUME NEW S, inside' = inside \ S
          PROVE  inside' \subseteq Units /\ Cardinality(inside') <= delay
      <4>1. IsFiniteSet(inside) /\ Cardinality(inside) <= delay /\ delay \in Nat /\ inside \subseteq Units
        BY InsideFinite DEF TypeOK, CodecTypes
      <4>2. inside' \in SUBSET inside
        BY <3>2
      <4>3. Cardinality(inside') <= Cardinality(inside) /\ IsFiniteSet(inside')
        BY <4>1, <4>2, FS_Subset
      <4>4. Cardinality(inside') \in Nat /\ Cardinality(inside) \in Nat
        BY <4>1, <4>3, FS_CardinalityType
      <4> QED BY <4>1, <4>2, <4>3, <4>4
    <3> QED BY <2>1, <2>4, <3>1, <3>2 DEF Drain, DrainError
  <2>5. CASE Send \/ SendEmpty \/ SendHollow \/ Receive \/ Fetch
    BY <2>1, <2>5 DEF Send, SendPacket, SendEmpty, SendHollow, Receive, Fetch
  <2> QED BY <2>3, <2>4, <2>5 DEF Next, Step
<1> QED
  BY <1>1, <1>3 DEF CodecTypes, TypeOK, Kinds, Units

\* and the places where units wait.
LEMMA PlaceStep ==
  ASSUME TypeOK, Next
  PROVE  PlaceTypes'
<1>1. \A f : Cardinality({f}) = 1
  BY FS_Singleton
<1>2. Cardinality({}) = 0
  BY FS_EmptySet
<1>3. /\ in_pkt # {} => First(in_pkt) \in Units
      /\ superframe # {} => First(superframe) \in Units
      /\ bsf_pkt # {} => First(bsf_pkt) \in Units
  <2>1. Units \subseteq Nat
    BY DEF Units
  <2>2. \A S \in SUBSET Units : S # {} => First(S) \in Units
    BY <2>1, FirstUnit
  <2> QED BY <2>2 DEF TypeOK, PlaceTypes
<1>4. inside \subseteq Units
  BY DEF TypeOK, CodecTypes
<1>5. PlaceTypes
  BY DEF TypeOK
<1> HIDE DEF First
<1> USE ApiAssumption, <1>1, <1>2, <1>3, <1>4, <1>5 DEF PlaceTypes, Units, config, filter, drain
<1>6. CASE Send
  <2>1. PICK n \in 1 .. MaxPacketUnits : SendPacket(n)
    BY <1>6 DEF Send
  <2>2. n \in Nat
    OBVIOUS
  <2>3. CASE fed' = fed /\ bsf_pkt' = bsf_pkt
    BY <2>1, <2>3 DEF SendPacket
  <2>4. CASE fed + n <= MaxFed /\ fed' = fed + n /\ bsf_pkt' = (fed + 1) .. (fed + n)
    <3>1. fed' \in 0 .. MaxFed /\ bsf_pkt' \subseteq 1 .. MaxFed
      BY <2>2, <2>4
    <3> QED BY <2>1, <3>1 DEF SendPacket
  <2> QED BY <2>1, <2>3, <2>4 DEF SendPacket
<1>7. CASE SendEmpty \/ SendHollow
  BY <1>7 DEF SendEmpty, SendHollow
<1>8. \A f \in Units : Append(received, f) \in Seq(Units)
  OBVIOUS
<1>9. ASSUME NEW f \in Units, HandOver(f)
       PROVE  received' \in Seq(Units) /\ lost' \subseteq Units
  BY <1>8, <1>9 DEF HandOver
<1>10. CASE Receive
  <2>1. CASE UNCHANGED <<received, lost, buffer_frame>>
    BY <1>10, <2>1 DEF Receive
  <2>2. CASE buffer_frame' = {} /\ \E f \in buffer_frame : HandOver(f)
    BY <1>10, <2>2, <1>9 DEF Receive
  <2> QED BY <1>10, <2>1, <2>2 DEF Receive
<1>11. CASE Fetch
  <2>1. CASE FetchPiece
    BY <1>11, <2>1 DEF Fetch, FetchPiece, Fetched
  <2>2. CASE FetchPacket
    BY <1>11, <2>2 DEF Fetch, FetchPacket, Fetched
  <2>3. CASE FetchEnd \/ FetchNothing
    BY <1>11, <2>3 DEF Fetch, FetchEnd, FetchNothing
  <2> QED BY <1>11, <2>1, <2>2, <2>3 DEF Fetch
<1>12. ASSUME NEW f \in Units, Produce(f)
       PROVE  /\ buffer_frame' \subseteq Units /\ Cardinality(buffer_frame') <= 1
              /\ received' \in Seq(Units) /\ lost' \subseteq Units
  <2>1. CASE buffer_frame' = {f} /\ UNCHANGED <<received, lost>>
    <3>1. {f} \subseteq Units
      OBVIOUS
    <3>2. Cardinality(buffer_frame') = 1
      BY <2>1, <1>1, Zenon
    <3> QED BY <2>1, <3>1, <3>2
  <2>2. CASE HandOver(f) /\ UNCHANGED buffer_frame
    BY <2>2, <1>9
  <2> QED BY <1>12, <2>1, <2>2 DEF Produce
<1>13. ASSUME NEW pool \in SUBSET Units, NEW hidden \in SUBSET Units, CodecGives(pool, hidden)
       PROVE  /\ buffer_frame' \subseteq Units /\ Cardinality(buffer_frame') <= 1
              /\ received' \in Seq(Units) /\ lost' \subseteq Units /\ skipped' \subseteq Units
  BY <1>12, <1>13 DEF CodecGives
<1>14. CASE Decode
  BY <1>13, <1>14 DEF Decode
<1>15. CASE Drain
  BY <1>12, <1>15 DEF Drain, DrainError
<1> QED
  BY <1>6, <1>7, <1>10, <1>11, <1>14, <1>15 DEF Next, Step

\* Together: the type invariant is kept.
LEMMA TypeStep ==
  ASSUME TypeOK, Protocol, Next
  PROVE  TypeOK'
BY FlagStep, CallStep, CodecStep, PlaceStep DEF TypeOK

-----------------------------------------------------------------------------
(* The protocol, and what the answers of a receive mean.                   *)

\* What the flags say of one another is kept.
LEMMA ProtocolStep ==
  ASSUME TypeOK, Protocol, Next
  PROVE  Protocol'
<1>1. delay = 0 => inside = {}
  BY InsideFinite
<1> USE <1>1, ApiAssumption DEF Protocol, TypeOK, CallTypes, Said, config, filter, drain
<1>2. CASE Send
  BY <1>2 DEF Send, SendPacket, DecodeAhead
<1>3. CASE SendEmpty \/ SendHollow
  BY <1>3 DEF SendEmpty, SendHollow, DecodeAhead
<1>4. CASE Receive
  BY <1>4 DEF Receive, HandOver
<1>5. CASE Fetch
  BY <1>5 DEF Fetch, FetchPiece, FetchPacket, FetchEnd, FetchNothing, Fetched, Return
<1>6. CASE Decode
  BY <1>6 DEF Decode, CodecGives, Produce, HandOver, Return
<1>7. CASE Drain
  <2>1. ASSUME DrainError, ~draining_done
        PROVE  /\ nb_draining_errors' > MaxDrainingErrors <=> draining_done'
               /\ buffer_frame' = buffer_frame /\ call' = "none" /\ answer'.ret = "error"
    <3>1. nb_draining_errors \in Nat /\ nb_draining_errors' = nb_draining_errors + 1
      BY <2>1 DEF DrainError
    <3>2. CASE nb_draining_errors >= MaxDrainingErrors
      <4>1. draining_done'
        BY <2>1, <3>2 DEF DrainError
      <4>2. nb_draining_errors' > MaxDrainingErrors
        BY <3>1, <3>2
      <4> QED BY <2>1, <4>1, <4>2 DEF DrainError, Return
    <3>3. CASE ~(nb_draining_errors >= MaxDrainingErrors)
      <4>1. ~draining_done'
        BY <2>1, <3>3 DEF DrainError
      <4>2. ~(nb_draining_errors' > MaxDrainingErrors)
        BY <3>1, <3>3
      <4> QED BY <2>1, <4>1, <4>2 DEF DrainError, Return
    <3> QED BY <3>2, <3>3
  <2>2. CASE DrainError /\ ~draining_done
    BY <1>7, <2>1, <2>2 DEF Drain
  <2>3. CASE ~(DrainError /\ ~draining_done)
    BY <1>7, <2>3 DEF Drain, Produce, HandOver, Return
  <2> QED BY <2>2, <2>3
<1> QED
  BY <1>2, <1>3, <1>4, <1>5, <1>6, <1>7 DEF Next, Step

\* What EAGAIN and EOF say of the places is true when they are said.
LEMMA AnswerStep ==
  ASSUME TypeOK, Protocol, ReceiveEagainMeansRoom, EofMeansDrained, Next
  PROVE  ReceiveEagainMeansRoom' /\ EofMeansDrained'
<1>1. delay = 0 => inside = {}
  BY InsideFinite
<1> USE <1>1, ApiAssumption
    DEF Protocol, TypeOK, CallTypes, Said, config, filter, drain,
        ReceiveEagainMeansRoom, EofMeansDrained, Answered, Refusal, Held
<1>2. CASE Send
  BY <1>2 DEF Send, SendPacket, DecodeAhead
<1>3. CASE SendEmpty \/ SendHollow
  BY <1>3 DEF SendEmpty, SendHollow, DecodeAhead
<1>4. CASE Receive
  BY <1>4 DEF Receive, HandOver
<1>5. CASE Fetch
  BY <1>5 DEF Fetch, FetchPiece, FetchPacket, FetchEnd, FetchNothing, Fetched, Return
<1>6. CASE Decode
  BY <1>6 DEF Decode, CodecGives, Produce, HandOver, Return
<1>7. CASE Drain
  BY <1>7 DEF Drain, DrainError, Produce, HandOver, Return
<1> QED
  BY <1>2, <1>3, <1>4, <1>5, <1>6, <1>7 DEF Next, Step

-----------------------------------------------------------------------------
(* Where the units are.                                                    *)

\* The numbers in the places: all of them sent, and the first ones of the
\* sets a step takes from.
LEMMA Numbers ==
  ASSUME TypeOK
  PROVE  /\ bsf_pkt \subseteq Nat /\ superframe \subseteq Nat /\ in_pkt \subseteq Nat
         /\ inside \subseteq Nat /\ buffer_frame \subseteq Nat /\ fed \in Nat
         /\ \A S \in {bsf_pkt, superframe, in_pkt} :
              S # {} => First(S) \in S /\ \A v \in S : First(S) <= v
<1>1. Units \subseteq Nat
  BY DEF Units
<1>2. /\ bsf_pkt \subseteq Nat /\ superframe \subseteq Nat /\ in_pkt \subseteq Nat
      /\ inside \subseteq Nat /\ buffer_frame \subseteq Nat
  BY <1>1 DEF TypeOK, PlaceTypes, CodecTypes
<1>3. fed \in Nat
  BY ApiAssumption DEF TypeOK, PlaceTypes
<1> QED BY <1>2, <1>3, FirstUnit

\* No unit overtakes another outside the codec.
LEMMA StagesStep ==
  ASSUME TypeOK, Protocol, StagesInOrder, Held \subseteq 1 .. fed, Next
  PROVE  StagesInOrder'
<1> USE Numbers DEF StagesInOrder, Before, Held, config, filter, drain
<1> HIDE DEF First
<1>1. CASE Send
  BY <1>1 DEF Send, SendPacket
<1>2. CASE SendEmpty \/ SendHollow
  BY <1>2 DEF SendEmpty, SendHollow
<1>3. CASE Receive
  BY <1>3 DEF Receive
<1>4. CASE Fetch
  BY <1>4 DEF Fetch, FetchPiece, FetchPacket, FetchEnd, FetchNothing, Fetched
<1>5. CASE Decode
  BY <1>5 DEF Decode, CodecGives, Produce, Protocol
<1>6. CASE Drain
  BY <1>6 DEF Drain, DrainError, Produce, Protocol
<1> QED
  BY <1>1, <1>2, <1>3, <1>4, <1>5, <1>6 DEF Next, Step

\* Handing a frame over adds its unit to those delivered.
LEMMA DeliveredStep ==
  ASSUME TypeOK, NEW f, received' = Append(received, f)
  PROVE  Delivered' = Delivered \cup {f}
<1>1. received \in Seq(Units)
  BY DEF TypeOK, PlaceTypes
<1>2. /\ DOMAIN received = 1 .. Len(received) /\ Len(received) \in Nat
      /\ DOMAIN received' = 1 .. (Len(received) + 1)
      /\ \A i \in DOMAIN received : received'[i] = received[i]
      /\ received'[Len(received) + 1] = f
  BY <1>1
<1> QED BY <1>2 DEF Delivered

\* No unit vanishes, and none is counted twice.
LEMMA AccountStep ==
  ASSUME TypeOK, Protocol, StagesInOrder, UnitsAccounted, Next
  PROVE  UnitsAccounted'
<1>1. UNCHANGED received => Delivered' = Delivered
  BY DEF Delivered
<1> USE Numbers, DeliveredStep, <1>1 DEF StagesInOrder, Before, UnitsAccounted, Held, config, filter, drain
<1> HIDE DEF First, Delivered
<1>2. CASE Send
  <2>1. PICK n \in 1 .. MaxPacketUnits : SendPacket(n)
    BY <1>2 DEF Send
  <2>2. n \in Nat /\ fed \in Nat
    BY Numbers
  <2>3. CASE UNCHANGED <<fed, bsf_pkt>>
    BY <2>1, <2>3 DEF SendPacket
  <2>4. CASE bsf_pkt = {} /\ fed' = fed + n /\ bsf_pkt' = (fed + 1) .. (fed + n)
    <3>1. 1 .. fed' = 1 .. fed \cup bsf_pkt' /\ (1 .. fed) \cap bsf_pkt' = {}
      BY <2>2, <2>4
    <3> QED BY <2>1, <2>4, <3>1 DEF SendPacket
  <2> QED BY <2>1, <2>3, <2>4 DEF SendPacket, Refusal
<1>3. CASE SendEmpty \/ SendHollow
  BY <1>3 DEF SendEmpty, SendHollow
<1>4. CASE Receive
  <2>1. CASE UNCHANGED <<buffer_frame, received, lost>>
    BY <1>4, <2>1 DEF Receive
  <2>2. ASSUME NEW f \in buffer_frame, buffer_frame' = {}, HandOver(f)
        PROVE  UnitsAccounted'
    <3>1. buffer_frame = {f}
      <4>1. IsFiniteSet(buffer_frame) /\ Cardinality(buffer_frame) <= 1
        <5>1. buffer_frame \in SUBSET Nat /\ \A u \in buffer_frame : u <= fed
          OBVIOUS
        <5> QED BY <5>1, FS_BoundedSetOfNaturals DEF TypeOK, PlaceTypes
      <4>2. Cardinality(buffer_frame) \in Nat /\ Cardinality(buffer_frame) # 0
        BY <4>1, FS_CardinalityType, FS_EmptySet
      <4>3. Cardinality(buffer_frame) = 1
        BY <4>1, <4>2
      <4>4. PICK x : buffer_frame = {x}
        BY <4>1, <4>3, FS_Singleton
      <4> QED BY <4>4
    <3> QED BY <1>4, <2>2, <3>1 DEF Receive, HandOver
  <2> QED BY <1>4, <2>1, <2>2 DEF Receive
<1>5. CASE Fetch
  BY <1>5 DEF Fetch, FetchPiece, FetchPacket, FetchEnd, FetchNothing, Fetched
<1>6. CASE Decode
  BY <1>6, SMTT(30) DEF Decode, CodecGives, Produce, HandOver, Protocol
<1>7. CASE Drain
  BY <1>7 DEF Drain, DrainError, Produce, HandOver, Protocol
<1> QED
  BY <1>2, <1>3, <1>4, <1>5, <1>6, <1>7 DEF Next, Step

-----------------------------------------------------------------------------
(* The invariant, and the theorems about any caller.                       *)

\* The invariant holds at the start.
LEMMA InvInit == Init => DecodeInv
<1> SUFFICES ASSUME Init PROVE DecodeInv
  OBVIOUS
<1>1. Cardinality({}) = 0
  BY FS_EmptySet
<1> USE <1>1, ApiAssumption DEF Init
<1>2. CodecTypes /\ PlaceTypes
  BY DEF CodecTypes, PlaceTypes, Units
<1>3. FlagTypes /\ CallTypes
  <2>1. FlagTypes
    BY DEF FlagTypes
  <2>2. answer \in Answers
    BY DEF Answers, Returns, Said
  <2>3. nb_draining_errors \in 0 .. (MaxDrainingErrors + 1)
    OBVIOUS
  <2> QED BY <2>1, <2>2, <2>3 DEF CallTypes
<1>4. Protocol /\ StagesInOrder
  BY DEF Protocol, StagesInOrder, Before, Said
<1>5. UnitsAccounted
  <2>1. Delivered = {} /\ Held = {} /\ 1 .. fed = {}
    BY DEF Delivered, Held
  <2> QED BY <2>1 DEF UnitsAccounted
<1>6. ReceiveEagainMeansRoom /\ EofMeansDrained
  BY DEF ReceiveEagainMeansRoom, EofMeansDrained, Answered, Said
<1> QED
  BY <1>2, <1>3, <1>4, <1>5, <1>6 DEF DecodeInv, TypeOK

\* Every step keeps it.
LEMMA InvStep == DecodeInv /\ [Next]_vars => DecodeInv'
<1> SUFFICES ASSUME DecodeInv, [Next]_vars PROVE DecodeInv'
  OBVIOUS
<1>1. CASE Next
  <2>1. Held \subseteq 1 .. fed
    BY DEF DecodeInv, UnitsAccounted
  <2> QED
    BY <1>1, <2>1, TypeStep, ProtocolStep, AnswerStep, StagesStep, AccountStep DEF DecodeInv
<1>2. CASE UNCHANGED vars
  <2> USE <1>2 DEF DecodeInv, vars, config, filter, drain
  <2>1. TypeOK'
    BY DEF TypeOK, CodecTypes, PlaceTypes, FlagTypes, CallTypes, Kinds, Units, Answers, Returns
  <2>2. Protocol' /\ StagesInOrder'
    BY DEF Protocol, StagesInOrder, Before
  <2>3. UnitsAccounted'
    BY DEF UnitsAccounted, Held, Delivered
  <2>4. ReceiveEagainMeansRoom' /\ EofMeansDrained'
    BY DEF ReceiveEagainMeansRoom, EofMeansDrained, Answered, Said, Refusal, Held
  <2> QED BY <2>1, <2>2, <2>3, <2>4
<1> QED BY <1>1, <1>2

\* So it holds always.
LEMMA InvAlways == Spec => []DecodeInv
BY InvInit, InvStep, PTL DEF Spec

(* The decoder's variables keep their types, whatever its caller does.     *)
THEOREM DecoderTypes == Spec => []TypeOK
<1>1. DecodeInv => TypeOK
  BY DEF DecodeInv
<1> QED BY <1>1, InvAlways, PTL

(* A caller that receives until EAGAIN is never refused for lack of room.  *)
THEOREM RoomAfterEagain == Spec => []ReceiveEagainMeansRoom
<1>1. DecodeInv => ReceiveEagainMeansRoom
  BY DEF DecodeInv
<1> QED BY <1>1, InvAlways, PTL

(* EOF is said only by a drained decoder.                                  *)
THEOREM DrainedAtEof == Spec => []EofMeansDrained
<1>1. DecodeInv => EofMeansDrained
  BY DEF DecodeInv
<1> QED BY <1>1, InvAlways, PTL

(* No unit vanishes, and none is in two places.                            *)
THEOREM NoUnitVanishes == Spec => [](UnitsAccounted /\ StagesInOrder)
<1>1. DecodeInv => UnitsAccounted /\ StagesInOrder
  BY DEF DecodeInv
<1> QED BY <1>1, InvAlways, PTL

-----------------------------------------------------------------------------
(* EOF is final.                                                           *)

\* A decoder that has said EOF: it drains, is done draining, and nothing is on
\* its way to the codec or to the caller.  It may only be asked again.
Finished ==
  /\ draining /\ draining_done
  /\ in_pkt = {} /\ buffer_frame = {}
  /\ answer.ret = "eof"
  /\ call \in {"none", "receive"}

\* EOF is said by nothing but a decoder that is finished.
EofMeansFinished == answer = Said("receive", "eof") => Finished

\* A finished decoder stays finished: it refuses what is sent, and has nothing
\* to fetch, to decode or to drain.
LEMMA FinishedStays == DecodeInv /\ Finished /\ [Next]_vars => Finished'
<1> SUFFICES ASSUME DecodeInv, Finished, [Next]_vars PROVE Finished'
  OBVIOUS
<1> USE DEF Finished, Said, config, filter, drain
<1>1. CASE Send
  BY <1>1 DEF Send, SendPacket, Refusal
<1>2. CASE SendEmpty
  BY <1>2 DEF SendEmpty
<1>3. CASE Receive
  BY <1>3 DEF Receive
<1>4. CASE Fetch \/ Decode
  BY <1>4 DEF Fetch, Decode
<1>5. CASE Drain
  BY <1>5 DEF Drain, Return
<1>6. CASE UNCHANGED vars
  BY <1>6 DEF vars
<1>7. CASE SendHollow
  BY <1>7 DEF SendHollow
<1> QED
  BY <1>1, <1>2, <1>3, <1>4, <1>5, <1>6, <1>7 DEF Next, Step

\* EOF is said when the draining is done, and a call before it leaves no frame.
LEMMA EofIsSaidFinished ==
  ASSUME DecodeInv, EofMeansFinished, [Next]_vars
  PROVE  EofMeansFinished'
<1>1. CASE Finished
  BY <1>1, FinishedStays DEF EofMeansFinished
<1>2. CASE ~Finished
  <2>1. answer # Said("receive", "eof")
    BY <1>2 DEF EofMeansFinished
  <2> USE <2>1 DEF EofMeansFinished, Finished, Said, config, filter, drain
  <2>2. CASE Send
    BY <2>2 DEF Send, SendPacket, DecodeAhead
  <2>3. CASE SendEmpty \/ SendHollow
    BY <2>3 DEF SendEmpty, SendHollow, DecodeAhead
  <2>4. CASE Receive
    BY <2>4 DEF Receive, HandOver
  <2>5. CASE Fetch
    BY <2>5 DEF Fetch, FetchPiece, FetchPacket, FetchEnd, FetchNothing, Fetched, Return
  <2>6. CASE Decode
    BY <2>6 DEF Decode, CodecGives, Produce, HandOver, Return
  <2>7. CASE Drain
    BY <2>7 DEF Drain, DrainError, Produce, HandOver, Return, DecodeInv, Protocol
  <2>8. CASE UNCHANGED vars
    BY <2>8 DEF vars
  <2> QED
    BY <2>2, <2>3, <2>4, <2>5, <2>6, <2>7, <2>8 DEF Next, Step
<1> QED BY <1>1, <1>2

(* "There will be no more output frames" (avcodec.h:2610): once receiving  *)
(* has said EOF every later call is answered with EOF, whatever is called  *)
(* and in whatever order.                                                  *)
THEOREM EofStaysEof == Spec => EofIsFinal
<1>1. Init => EofMeansFinished
  BY DEF Init, EofMeansFinished, Said
<1>2. DecodeInv /\ EofMeansFinished /\ [Next]_vars => EofMeansFinished'
  BY EofIsSaidFinished
<1>3. DecodeInv /\ Finished /\ [Next]_vars => Finished'
  BY FinishedStays
<1>4. EofMeansFinished => (answer = Said("receive", "eof") => Finished)
  BY DEF EofMeansFinished
<1>5. Finished => answer.ret = "eof"
  BY DEF Finished
<1> QED
  BY <1>1, <1>2, <1>3, <1>4, <1>5, InvAlways, PTL DEF Spec, EofIsFinal

-----------------------------------------------------------------------------
(* Calls end.                                                              *)

\* How many more turns the decode loop can take: a unit is moved on from place
\* to place, and the draining starts once and is done once.
CodecWork ==
  2 * Cardinality(inside) + Cardinality(buffer_frame)
  + (IF draining THEN 0 ELSE 1) + (IF draining_done THEN 0 ELSE 1)

Work ==
  4 * (Cardinality(bsf_pkt) + Cardinality(superframe)) + 3 * Cardinality(in_pkt) + CodecWork

\* The size of a set of units, and of the sets that a step makes of it.
LEMMA SizeFacts ==
  ASSUME NEW S \in SUBSET Units
  PROVE  /\ IsFiniteSet(S) /\ Cardinality(S) \in Nat
         /\ \A x \in S : Cardinality(S \ {x}) = Cardinality(S) - 1
         /\ \A x \in Units : Cardinality(S \cup {x}) <= Cardinality(S) + 1
         /\ \A T \in SUBSET S : Cardinality(T) <= Cardinality(S) /\ Cardinality(T) \in Nat
         /\ S # {} => Cardinality(S) >= 1
<1>1. IsFiniteSet(S)
  <2>1. S \in SUBSET Nat /\ \A u \in S : u <= MaxFed
    BY ApiAssumption DEF Units
  <2> QED BY <2>1, ApiAssumption, FS_BoundedSetOfNaturals
<1>2. Cardinality(S) \in Nat
  BY <1>1, FS_CardinalityType
<1>3. \A x \in S : Cardinality(S \ {x}) = Cardinality(S) - 1
  BY <1>1, FS_RemoveElement
<1>4. \A x \in Units : Cardinality(S \cup {x}) <= Cardinality(S) + 1
  <2>1. \A x : x \notin S => Cardinality(S \cup {x}) = Cardinality(S) + 1
    BY <1>1, FS_AddElement
  <2>2. \A x : x \in S => S \cup {x} = S
    OBVIOUS
  <2> QED BY <1>2, <2>1, <2>2
<1>5. \A T \in SUBSET S : Cardinality(T) <= Cardinality(S) /\ Cardinality(T) \in Nat
  BY <1>1, FS_Subset, FS_CardinalityType
<1>6. S # {} => Cardinality(S) >= 1
  BY <1>1, <1>2, FS_EmptySet
<1> QED BY <1>1, <1>2, <1>3, <1>4, <1>5, <1>6

\* The numbers in Work, and what each kind of step makes of them.
LEMMA WorkNumbers ==
  ASSUME TypeOK
  PROVE  /\ Cardinality(bsf_pkt) \in Nat /\ Cardinality(superframe) \in Nat
         /\ Cardinality(in_pkt) \in Nat /\ Cardinality(inside) \in Nat
         /\ Cardinality(buffer_frame) \in Nat
         /\ Work \in Nat
         /\ First(bsf_pkt) \in bsf_pkt \/ bsf_pkt = {}
         /\ First(superframe) \in superframe \/ superframe = {}
         /\ First(in_pkt) \in in_pkt \/ in_pkt = {}
         /\ Cardinality({}) = 0 /\ \A x : Cardinality({x}) = 1
<1>1. /\ bsf_pkt \in SUBSET Units /\ superframe \in SUBSET Units /\ in_pkt \in SUBSET Units
      /\ inside \in SUBSET Units /\ buffer_frame \in SUBSET Units
  BY DEF TypeOK, PlaceTypes, CodecTypes
<1>2. /\ Cardinality(bsf_pkt) \in Nat /\ Cardinality(superframe) \in Nat
      /\ Cardinality(in_pkt) \in Nat /\ Cardinality(inside) \in Nat
      /\ Cardinality(buffer_frame) \in Nat
  BY <1>1, SizeFacts
<1>3. Work \in Nat
  BY <1>2 DEF Work, CodecWork
<1> QED
  BY <1>2, <1>3, Numbers, FS_EmptySet, FS_Singleton

\* A turn that ends the call with no frame for the caller: the filter wants a
\* packet, the draining is done, or one more of its failures is counted.
EndsCall ==
  \/ Return("again") /\ ~eof
  \/ Return("eof")
  \/ Return("error") /\ nb_draining_errors' = nb_draining_errors + 1

\* A turn of the loop makes the rest of the call shorter, or ends the call.
Shortens == Work' < Work \/ (Work' <= Work /\ EndsCall)

\* A fetch moves units to the codec's packet, loses them, starts the draining,
\* or ends the call.
LEMMA FetchWorks == ASSUME DecodeInv, Fetch PROVE Shortens
<1> USE DEF DecodeInv
<1> HIDE DEF First, Work
<1>1. bsf_pkt \in SUBSET Units /\ superframe \in SUBSET Units
  BY DEF TypeOK, PlaceTypes
<1>2. UNCHANGED <<draining_done, inside, buffer_frame>> /\ in_pkt = {} /\ ~draining
  BY DEF Fetch, drain
<1>3. ASSUME NEW pkt, Fetched(pkt), Cardinality(pkt) \in Nat
      PROVE  Cardinality(in_pkt') \in 0 .. Cardinality(pkt)
  BY <1>2, <1>3, WorkNumbers DEF Fetched
<1>4. CASE FetchPiece
  <2>1. Cardinality(superframe') = Cardinality(superframe) - 1
    BY <1>1, <1>4, WorkNumbers, SizeFacts DEF FetchPiece
  <2>2. Cardinality({First(superframe)}) = 1
    BY FS_Singleton
  <2>3. Cardinality(in_pkt') \in 0 .. 1
    BY <1>3, <1>4, <2>2 DEF FetchPiece
  <2>4. bsf_pkt' = bsf_pkt /\ draining' = draining
    BY <1>4 DEF FetchPiece
  <2> QED BY <1>2, <2>1, <2>3, <2>4, WorkNumbers DEF Work, CodecWork, Shortens
<1>5. CASE FetchPacket
  <2>1. bsf_pkt' = {} /\ superframe = {} /\ bsf_pkt # {}
    BY <1>5 DEF FetchPacket
  <2>6. CodecWork' = CodecWork /\ CodecWork \in Nat
    BY <1>2, <1>5, WorkNumbers DEF FetchPacket, CodecWork
  <2>2. /\ Cardinality(bsf_pkt) >= 1 /\ Cardinality(bsf_pkt') = 0
        /\ Cardinality(superframe) = 0 /\ Cardinality(in_pkt) = 0
    BY <1>1, <1>2, <2>1, SizeFacts, FS_EmptySet
  <2>3. CASE Fetched(bsf_pkt) /\ UNCHANGED superframe
    <3>1. Cardinality(in_pkt') \in 0 .. Cardinality(bsf_pkt)
      BY <1>3, <2>3, WorkNumbers
    <3>2. Cardinality(superframe') = 0
      BY <2>2, <2>3
    <3> QED BY <2>2, <2>6, <3>1, <3>2, WorkNumbers DEF Work, Shortens
  <2>4. CASE superframe' = bsf_pkt \ {First(bsf_pkt)} /\ Fetched({First(bsf_pkt)})
    <3>1. Cardinality(superframe') = Cardinality(bsf_pkt) - 1
      BY <1>1, <2>1, <2>4, WorkNumbers, SizeFacts
    <3>2. Cardinality({First(bsf_pkt)}) = 1
      BY FS_Singleton
    <3>3. Cardinality(in_pkt') \in 0 .. 1
      BY <1>3, <2>4, <3>2
    <3> QED BY <2>2, <2>6, <3>1, <3>3, WorkNumbers DEF Work, Shortens
  <2>5. CASE UNCHANGED <<superframe, in_pkt>>
    <3>1. Cardinality(superframe') = 0 /\ Cardinality(in_pkt') = 0
      BY <2>2, <2>5
    <3> QED BY <2>2, <2>6, <3>1, WorkNumbers DEF Work, Shortens
  <2> QED BY <1>5, <2>3, <2>4, <2>5 DEF FetchPacket
<1>6. CASE FetchEnd
  <2>1. UNCHANGED <<bsf_pkt, superframe, in_pkt>> /\ draining'
    BY <1>6 DEF FetchEnd, filter
  <2>2. CodecWork' = CodecWork - 1 /\ CodecWork \in Nat
    BY <1>2, <2>1, WorkNumbers DEF CodecWork
  <2> QED BY <2>1, <2>2, WorkNumbers DEF Work, Shortens
<1>7. CASE FetchNothing
  <2>1. EndsCall
    BY <1>7 DEF FetchNothing, EndsCall
  <2>2. UNCHANGED <<bsf_pkt, superframe, in_pkt, draining>>
    BY <1>7 DEF FetchNothing, filter
  <2>3. Work' = Work
    BY <1>2, <2>2 DEF Work, CodecWork
  <2> QED BY <2>1, <2>2, <2>3, WorkNumbers DEF Shortens
<1> QED BY <1>4, <1>5, <1>6, <1>7 DEF Fetch

\* Decoding takes a unit off the packet; its frame goes a place further, and
\* one frame at most leaves the codec.
LEMMA DecodeWorks == ASSUME DecodeInv, Decode PROVE Shortens
<1> USE DEF DecodeInv
<1> HIDE DEF First, Work
<1>1. in_pkt \in SUBSET Units /\ inside \in SUBSET Units
  BY DEF TypeOK, PlaceTypes, CodecTypes
<1>2. UNCHANGED <<bsf_pkt, superframe, draining, draining_done>> /\ call # "none" /\ in_pkt # {}
  BY DEF Decode, filter, drain
<1>3. buffer_frame = {} /\ Cardinality(buffer_frame) = 0
  BY <1>2, FS_EmptySet DEF Protocol
<1>4. Cardinality(in_pkt) >= 1
  BY <1>1, <1>2, SizeFacts
<1>5. CASE in_pkt' = {} /\ UNCHANGED <<inside, buffer_frame>>
  <2>1. Cardinality(in_pkt') = 0
    BY <1>5, FS_EmptySet
  <2> QED BY <1>2, <1>4, <1>5, <2>1, WorkNumbers DEF Work, CodecWork, Shortens
<1>6. ASSUME NEW pool, NEW hidden, CodecGives(pool, hidden),
             in_pkt' = in_pkt \ {First(in_pkt)},
             pool = inside \/ pool = inside \cup {First(in_pkt)}
      PROVE  Shortens
  <2>1. Cardinality(in_pkt') = Cardinality(in_pkt) - 1
    BY <1>1, <1>2, <1>6, WorkNumbers, SizeFacts
  <2>2. pool \in SUBSET Units /\ Cardinality(pool) <= Cardinality(inside) + 1 /\ Cardinality(pool) \in Nat
    <3>1. First(in_pkt) \in Units
      BY <1>1, <1>2, WorkNumbers
    <3>2. pool \in SUBSET Units
      BY <1>1, <1>6, <3>1
    <3>3. Cardinality(pool) <= Cardinality(inside) + 1
      BY <1>1, <1>6, <3>1, SizeFacts, WorkNumbers
    <3> QED BY <3>2, <3>3, SizeFacts
  <2>3. CASE inside' = pool /\ UNCHANGED buffer_frame
    <3>1. Cardinality(inside') <= Cardinality(inside) + 1 /\ Cardinality(inside') \in Nat
      BY <2>2, <2>3
    <3> QED BY <1>2, <2>1, <2>3, <3>1, WorkNumbers DEF Work, CodecWork, Shortens
  <2>4. ASSUME NEW f \in pool, inside' = pool \ {f}, UNCHANGED buffer_frame \/ buffer_frame' = {f}
        PROVE  Shortens
    <3>1. Cardinality(inside') = Cardinality(pool) - 1
      BY <2>2, <2>4, SizeFacts
    <3>2. Cardinality(buffer_frame') \in 0 .. 1
      BY <1>3, <2>4, FS_Singleton
    <3> QED BY <1>2, <1>3, <2>1, <2>2, <3>1, <3>2, WorkNumbers DEF Work, CodecWork, Shortens
  <2> QED BY <1>6, <2>3, <2>4 DEF CodecGives, Produce
<1> QED BY <1>5, <1>6 DEF Decode

\* Draining takes a frame out of the codec, is done, or ends the call.
LEMMA DrainWorks == ASSUME DecodeInv, Drain PROVE Shortens
<1> USE DEF DecodeInv
<1> HIDE DEF First, Work
<1>1. inside \in SUBSET Units /\ draining \in BOOLEAN /\ draining_done \in BOOLEAN
  BY DEF TypeOK, FlagTypes, CodecTypes
<1>2. UNCHANGED <<bsf_pkt, superframe, draining, in_pkt>> /\ call # "none"
  BY DEF Drain, filter
<1>3. buffer_frame = {} /\ Cardinality(buffer_frame) = 0
  BY <1>2, FS_EmptySet DEF Protocol
<1>4. CASE draining_done' = TRUE /\ UNCHANGED <<inside, buffer_frame>> /\ (Return("eof") \/ ~draining_done)
  <2>1. ~draining_done => Work' < Work
    BY <1>1, <1>2, <1>4, WorkNumbers DEF Work, CodecWork
  <2>2. draining_done => Work' = Work
    BY <1>1, <1>2, <1>4 DEF Work, CodecWork
  <2> QED BY <1>4, <2>1, <2>2, WorkNumbers DEF Shortens, EndsCall
<1>5. ASSUME NEW f \in inside, inside' = inside \ {f}, UNCHANGED draining_done,
             UNCHANGED buffer_frame \/ buffer_frame' = {f}
      PROVE  Shortens
  <2>1. Cardinality(inside') = Cardinality(inside) - 1
    BY <1>1, <1>5, SizeFacts
  <2>3. Cardinality({f}) = 1
    BY FS_Singleton
  <2>2. Cardinality(buffer_frame') \in 0 .. 1
    BY <1>3, <1>5, <2>3
  <2> QED BY <1>2, <1>3, <1>5, <2>1, <2>2, WorkNumbers DEF Work, CodecWork, Shortens
<1>6. CASE DrainError /\ ~draining_done
  <2>1. Cardinality(inside') <= Cardinality(inside) /\ Cardinality(inside') \in Nat
    BY <1>1, <1>6, SizeFacts DEF DrainError
  <2>2. UNCHANGED buffer_frame
    BY <1>6 DEF DrainError
  <2>3. Work' <= Work
    BY <1>2, <1>6, <2>1, <2>2, WorkNumbers DEF Work, CodecWork
  <2>4. EndsCall
    BY <1>6 DEF DrainError, EndsCall
  <2> QED BY <2>3, <2>4 DEF Shortens
<1> QED BY <1>4, <1>5, <1>6 DEF Drain, Produce

\* So every turn of the loop shortens the call.
LEMMA StepWorks == DecodeInv /\ Step => Shortens
BY FetchWorks, DecodeWorks, DrainWorks DEF Step

(* The loops of decode_receive_frame_internal and decode_simple_receive_   *)
(* frame end: however the filter, the codec and the draining share the     *)
(* units, each turn leaves less to do than the one before, or ends the     *)
(* call.  So a call takes Work turns at most, and then one that ends it.   *)
(* It rests on DecodeApi's assumption that a codec given data consumes     *)
(* some, gives a frame or fails.                                           *)
CallsAreShort == [][Step => Shortens]_vars

\* No call to the decoder runs for ever, whatever the sizes of packets and delays.
THEOREM CallsEnd == Spec => CallsAreShort
<1>1. DecodeInv /\ [Next]_vars => [Step => Shortens]_vars
  BY StepWorks
<1> QED
  BY <1>1, InvAlways, PTL DEF Spec, CallsAreShort

\* A receive takes the frame that waits, or starts a call.
LEMMA ReceiveWorks ==
  ASSUME DecodeInv, Receive
  PROVE  Work' < Work \/ (Work' = Work /\ call' = "receive")
<1> USE DEF DecodeInv
<1>1. UNCHANGED <<bsf_pkt, superframe, draining, draining_done, in_pkt, inside>>
  BY DEF Receive, filter, drain
<1>2. CASE call' = "receive" /\ UNCHANGED buffer_frame
  BY <1>1, <1>2 DEF Work, CodecWork
<1>3. CASE buffer_frame # {} /\ buffer_frame' = {}
  <2>1. Cardinality(buffer_frame) >= 1 /\ Cardinality(buffer_frame') = 0
    BY <1>3, SizeFacts, FS_EmptySet DEF TypeOK, PlaceTypes
  <2>2. CodecWork' < CodecWork /\ CodecWork \in Nat /\ CodecWork' \in Nat
    BY <1>1, <2>1, WorkNumbers DEF CodecWork
  <2> QED BY <1>1, <2>2, WorkNumbers DEF Work
<1> QED BY <1>2, <1>3 DEF Receive

\* What is left before EOF is said, once the decoder was sent the end mark: the
\* work, and the failures that are forgiven.
DrainWork == Work + (MaxDrainingErrors + 1 - nb_draining_errors)

\* A call of avcodec_receive_frame returns.
ReceiveReturns == call' = "none" /\ (call = "receive" \/ Receive)

(* "Call avcodec_receive_frame in a loop until AVERROR_EOF is returned"    *)
(* (avcodec.h:139): that loop ends, even "if a decoder wrongly always      *)
(* return error on draining" (decode.c:468).  After the end mark           *)
(* each call of avcodec_receive_frame that returns says EOF, or leaves     *)
(* less to give and fewer failures to forgive; no other call undoes that.  *)
(* So a caller is told EOF after DrainWork answers at most.  This is the   *)
(* part of DrainEnds that does not need the scheduler.                     *)
DrainIsShort ==
  [][eof => /\ DrainWork' <= DrainWork
            /\ ReceiveReturns /\ answer'.ret # "eof" => DrainWork' < DrainWork]_vars

\* Receiving after the end mark comes to EOF, whatever errors the codec makes.
THEOREM DrainingEnds == Spec => DrainIsShort
<1>1. DecodeInv => Work \in Nat /\ nb_draining_errors \in 0 .. (MaxDrainingErrors + 1)
  BY WorkNumbers DEF DecodeInv, TypeOK, CallTypes
<1>2. DecodeInv' => (Work \in Nat /\ nb_draining_errors \in 0 .. (MaxDrainingErrors + 1))'
  BY <1>1, PTL
<1>3. DecodeInv /\ DecodeInv' /\ [Next]_vars
        => [eof => /\ DrainWork' <= DrainWork
                   /\ ReceiveReturns /\ answer'.ret # "eof" => DrainWork' < DrainWork]_vars
  <2> SUFFICES ASSUME DecodeInv, DecodeInv', Next, eof
               PROVE  /\ DrainWork' <= DrainWork
                      /\ ReceiveReturns /\ answer'.ret # "eof" => DrainWork' < DrainWork
    OBVIOUS
  <2> HIDE DEF Work
  <2> USE <1>1, <1>2, ApiAssumption DEF DrainWork
  <2>1. CASE (Send \/ SendEmpty \/ SendHollow) /\ ~Receive
    <3>1. UNCHANGED <<bsf_pkt, superframe, in_pkt, inside, buffer_frame, draining, draining_done,
                      nb_draining_errors>>
      <4>1. CASE Send \/ SendEmpty
        BY <4>1 DEF Send, SendPacket, SendEmpty, Refusal, drain
      <4>2. CASE SendHollow
        BY <4>2 DEF SendHollow, filter, drain
      <4> QED BY <2>1, <4>1, <4>2
    <3>2. Work' = Work
      BY <3>1 DEF Work, CodecWork
    <3>3. ~ReceiveReturns
      BY <2>1 DEF Send, SendPacket, SendEmpty, SendHollow, ReceiveReturns
    <3> QED BY <3>1, <3>2, <3>3
  <2>2. CASE Receive
    <3>1. nb_draining_errors' = nb_draining_errors
      BY <2>2 DEF Receive, drain
    <3>2. Work' < Work \/ (Work' = Work /\ call' = "receive")
      BY <2>2, ReceiveWorks
    <3> QED BY <3>1, <3>2 DEF ReceiveReturns
  <2>3. CASE Step
    <3>1. nb_draining_errors' >= nb_draining_errors
      BY <2>3 DEF Step, Fetch, Decode, Drain, DrainError, drain
    <3>2. CASE Work' < Work
      BY <3>1, <3>2
    <3>3. CASE Work' <= Work /\ EndsCall
      <4>1. call # "none"
        BY <2>3 DEF Step, Fetch, Decode, Drain
      <4>2. CASE Return("eof")
        BY <3>1, <3>3, <4>1, <4>2 DEF Return, Said, ReceiveReturns, Receive
      <4>3. CASE nb_draining_errors' = nb_draining_errors + 1
        BY <3>3, <4>3
      <4> QED BY <3>3, <4>2, <4>3 DEF EndsCall
    <3> QED BY <2>3, <3>2, <3>3, StepWorks DEF Shortens
  <2> QED BY <2>1, <2>2, <2>3 DEF Next
<1> QED
  BY <1>3, InvAlways, InvStep, PTL DEF Spec, DrainIsShort

-----------------------------------------------------------------------------
(* The decoder is a queue of frames.                                       *)

\* A step that hands nothing over only gives units up.
GivesUp == Held' \subseteq Held /\ UNCHANGED <<delay, fed, received>>

\* A step that hands over the frame of f.
HandsOver(f) ==
  /\ f \in Held /\ Held' \subseteq Held \ {f}
  /\ delay = 0 => \A g \in Held' : f <= g
  /\ received' = Append(received, f)
  /\ UNCHANGED <<delay, fed>>

\* The refinement: units that leave the places are given up.
LEMMA MapsGivesUp ==
  ASSUME GivesUp
  PROVE  \E S \in SUBSET Held : Queue!GiveUp(S)
<1>1. Held' = Held \ (Held \ Held')
  BY DEF GivesUp
<1>2. Queue!GiveUp(Held \ Held')
  BY <1>1 DEF GivesUp, Queue!GiveUp
<1> QED BY <1>2

\* The refinement: a frame handed to the caller is a delivery.
LEMMA MapsHandsOver ==
  ASSUME TypeOK, NEW f, HandsOver(f)
  PROVE  \E g \in Held, S \in SUBSET Held : Queue!Deliver(g, S)
<1> DEFINE S == Held \ (Held' \cup {f})
<1>1. f \in Held /\ f \notin S /\ Held' = Held \ (S \cup {f}) /\ f \in Nat
  BY Numbers DEF HandsOver, Held
<1>2. delay = 0 => \A g \in Held \ S : f <= g
  BY <1>1 DEF HandsOver
<1>3. Queue!Deliver(f, S)
  BY <1>1, <1>2 DEF HandsOver, Queue!Deliver
<1> QED BY <1>1, <1>3

\* Fetching hands out no frame.
LEMMA FetchMoves == ASSUME DecodeInv, Fetch PROVE GivesUp
<1> USE Numbers DEF DecodeInv, GivesUp, Held, config, filter, drain
<1> HIDE DEF First
<1> QED BY DEF Fetch, FetchPiece, FetchPacket, FetchEnd, FetchNothing, Fetched

\* A receive hands out the frame decoded ahead, if there is one.
LEMMA ReceiveMoves ==
  ASSUME DecodeInv, Receive
  PROVE  GivesUp \/ \E f \in Held : HandsOver(f)
<1>1. delay = 0 => inside = {}
  BY InsideFinite DEF DecodeInv
<1> USE Numbers, <1>1 DEF DecodeInv, GivesUp, HandsOver, Held, StagesInOrder, Before, config, filter, drain
<1>2. CASE UNCHANGED <<buffer_frame, received>>
  BY <1>2 DEF Receive
<1>3. ASSUME NEW f \in buffer_frame, buffer_frame' = {}, HandOver(f)
      PROVE  GivesUp \/ HandsOver(f)
  BY <1>3 DEF Receive, HandOver
<1> QED BY <1>2, <1>3 DEF Receive

\* Decoding and draining give up units or hand over a frame.
LEMMA CodecMoves ==
  ASSUME DecodeInv, Decode \/ Drain
  PROVE  GivesUp \/ \E f \in Held : HandsOver(f)
<1>1. delay = 0 => inside = {}
  BY InsideFinite DEF DecodeInv
<1>2. call # "none" => buffer_frame = {}
  BY DEF DecodeInv, Protocol
<1> USE Numbers, <1>1, <1>2 DEF DecodeInv, GivesUp, HandsOver, Held, StagesInOrder, Before, config, filter, drain
<1> HIDE DEF First
<1>3. CASE Decode
  BY <1>3 DEF Decode, CodecGives, Produce, HandOver
<1>4. CASE Drain
  BY <1>4 DEF Drain, DrainError, Produce, HandOver, Protocol
<1> QED BY <1>3, <1>4

\* The refinement: each step is a step of FrameQueue or a stutter.
LEMMA QueueStep == DecodeInv /\ [Next]_vars => [Queue!Next]_(Queue!vars)
<1> SUFFICES ASSUME DecodeInv, [Next]_vars PROVE [Queue!Next]_(Queue!vars)
  OBVIOUS
<1>1. ASSUME GivesUp \/ \E f \in Held : HandsOver(f) PROVE Queue!Next
  BY <1>1, MapsGivesUp, MapsHandsOver DEF Queue!Next, DecodeInv
<1>2. CASE Send
  <2>1. PICK n \in 1 .. MaxPacketUnits : SendPacket(n)
    BY <1>2 DEF Send
  <2>2. CASE UNCHANGED <<fed, bsf_pkt>>
    BY <2>1, <2>2 DEF SendPacket, Queue!vars, Held, config
  <2>3. CASE bsf_pkt = {} /\ fed' = fed + n /\ bsf_pkt' = (fed + 1) .. (fed + n)
    BY <2>1, <2>3 DEF SendPacket, Queue!Next, Queue!Accept, Held, config
  <2> QED BY <2>1, <2>2, <2>3 DEF SendPacket, Refusal
<1>3. CASE SendEmpty \/ SendHollow
  <2>1. CASE SendEmpty
    BY <2>1 DEF SendEmpty, Queue!vars, Held, config
  <2>2. CASE SendHollow
    BY <2>2 DEF SendHollow, Queue!vars, Held, config, filter
  <2> QED BY <1>3, <2>1, <2>2
<1>4. CASE Receive
  BY <1>1, <1>4, ReceiveMoves
<1>5. CASE Fetch
  BY <1>1, <1>5, FetchMoves
<1>6. CASE Decode \/ Drain
  BY <1>1, <1>6, CodecMoves
<1>7. CASE UNCHANGED vars
  BY <1>7 DEF vars, Queue!vars, Held, config, filter
<1> QED BY <1>2, <1>3, <1>4, <1>5, <1>6, <1>7 DEF Next, Step

(* The decoder implements the queue of frames, whatever its caller does.   *)
THEOREM DecoderIsQueue == Spec => ImplementsFrameQueue
<1>1. Init => Queue!Init
  BY DEF Init, Queue!Init, Held
<1>2. DecodeInv /\ [Next]_vars => [Queue!Next]_(Queue!vars)
  BY QueueStep
<1> QED
  BY <1>1, <1>2, InvAlways, PTL DEF Spec, ImplementsFrameQueue, Queue!Spec

\* The queue's own theorem, at the decoder's places.
QueueProofs == INSTANCE FrameQueueProofs WITH ordered <- (delay = 0), pending <- Held

(* No frame comes twice, and none comes early from a codec without delay:  *)
(* what the queue promises, the decoder keeps.                             *)
THEOREM DecoderDelivers == Spec => [](NoFrameTwice /\ FramesInOrder)
<1>1. MaxPacketUnits \in Nat
  BY ApiAssumption
<1>2. QueueProofs!Spec => [](QueueProofs!DeliveredOnce /\ QueueProofs!InOrder)
  BY <1>1, QueueProofs!QueueDelivers
<1>3. Queue!Init => QueueProofs!Init
  BY DEF QueueProofs!Init, Queue!Init
<1>4. [Queue!Next]_(Queue!vars) => [QueueProofs!Next]_(QueueProofs!vars)
  BY DEF QueueProofs!Next, Queue!Next, QueueProofs!vars, Queue!vars,
         QueueProofs!Accept, Queue!Accept, QueueProofs!GiveUp, Queue!GiveUp,
         QueueProofs!Deliver, Queue!Deliver
<1>5. QueueProofs!DeliveredOnce /\ QueueProofs!InOrder => NoFrameTwice /\ FramesInOrder
  BY DEF NoFrameTwice, FramesInOrder, QueueProofs!DeliveredOnce, QueueProofs!InOrder,
         Queue!DeliveredOnce, Queue!InOrder
<1> QED
  BY <1>2, <1>3, <1>4, <1>5, DecoderIsQueue, PTL
  DEF ImplementsFrameQueue, Queue!Spec, QueueProofs!Spec

-----------------------------------------------------------------------------
(* The player as the caller.                                               *)

\* Without the splitting filter a packet is in one place at a time, and a
\* packet of one unit is gone when a call returns.
OneAtATime ==
  kind # "split" =>
    /\ superframe = {}
    /\ in_pkt = {} \/ bsf_pkt = {}
    /\ eof => bsf_pkt = {}
    /\ kind = "whole" => \A x, y \in in_pkt \cup bsf_pkt : x = y
    /\ kind = "whole" /\ call = "none" => in_pkt = {} /\ bsf_pkt = {}
    /\ call = "none" /\ answer.ret # "ok" => in_pkt = {} /\ bsf_pkt = {}

\* While the thread receives, the last call that returned was a receive.
AnswerIsReceive ==
  pc = "receiving" /\ call = "none" => answer.call = "receive"

\* When the thread gives a packet up no frame waits.
NoFrameWaits ==
  /\ pc \in {"take", "ended"} => answer.ret # "ok" \/ answer.call = "none"
  /\ pc \in {"take", "ended"} => buffer_frame = {}
  /\ call = "none" /\ answer.ret # "ok" => buffer_frame = {}
  /\ pc = "receiving" => buffer_frame = {}

\* After a refusal for lack of room the filter stays full.
StaysFull ==
  Refused /\ ~eof => call = "none" /\ bsf_pkt # {} /\ pc \in {"sending", "take", "ended"}

PlayerInv ==
  /\ DecodeInv
  /\ PlayerTypeOK
  /\ OneAtATime
  /\ AnswerIsReceive
  /\ NoFrameWaits
  /\ NothingLeftBehind
  /\ OnlySplitRefuses
  /\ StaysFull

\* The player makes calls that any caller may make.
LEMMA PlayerIsACaller == PlayerNext => [Next]_vars
BY DEF PlayerNext, Next, SendTaken, SendTakenEmpty, Ended, FirstReceive, PacketFreed,
       ReceiveAgain, PacketDone, Decoding, Step

\* The player's invariant holds at the start.
LEMMA PlayerInit1 == PlayerInit => PlayerInv
<1> SUFFICES ASSUME PlayerInit PROVE PlayerInv
  OBVIOUS
<1>1. DecodeInv
  BY InvInit DEF PlayerInit
<1> QED
  BY <1>1 DEF PlayerInit, Init, PlayerInv, DecodeInv, PlayerTypeOK, OneAtATime,
              AnswerIsReceive, NoFrameWaits, NothingLeftBehind, OnlySplitRefuses, StaysFull, Refused, Said, Held

\* The thread's position and its calls.
LEMMA PositionStep ==
  ASSUME PlayerInv, PlayerNext
  PROVE  PlayerTypeOK' /\ NoFrameWaits'
<1>1. TypeOK'
  <2>1. DecodeInv'
    BY InvStep, PlayerIsACaller DEF PlayerInv
  <2> QED BY <2>1 DEF DecodeInv
<1> USE <1>1 DEF PlayerInv, DecodeInv, PlayerTypeOK, NoFrameWaits, Answered, Said, vars,
                 Protocol, config, filter, drain
<1>2. CASE SendTaken
  BY <1>2 DEF SendTaken, Send, SendPacket, DecodeAhead, Refusal
<1>3. CASE SendTakenEmpty
  BY <1>3 DEF SendTakenEmpty, SendEmpty, SendHollow, DecodeAhead
<1>4. CASE FirstReceive \/ ReceiveAgain
  BY <1>4 DEF FirstReceive, ReceiveAgain, Receive, HandOver
<1>5. CASE PacketFreed \/ PacketDone \/ Ended
  BY <1>5 DEF PacketFreed, PacketDone, Ended
<1>6. CASE Decoding /\ Fetch
  BY <1>6 DEF Decoding, Fetch, FetchPiece, FetchPacket, FetchEnd, FetchNothing, Fetched, Return
<1>7. CASE Decoding /\ Decode
  BY <1>7 DEF Decoding, Decode, CodecGives, Produce, HandOver, Return
<1>8. CASE Decoding /\ Drain
  BY <1>8 DEF Decoding, Drain, DrainError, Produce, HandOver, Return
<1> QED
  BY <1>2, <1>3, <1>4, <1>5, <1>6, <1>7, <1>8 DEF PlayerNext, Decoding, Step

\* Every step keeps AnswerIsReceive.
LEMMA LastCallStep ==
  ASSUME PlayerInv, PlayerNext
  PROVE  AnswerIsReceive'
<1> USE DEF PlayerInv, PlayerTypeOK, AnswerIsReceive, Answered, Said, vars
<1>1. CASE SendTaken \/ SendTakenEmpty \/ PacketFreed \/ PacketDone \/ Ended
  BY <1>1 DEF SendTaken, SendTakenEmpty, PacketFreed, PacketDone, Ended
<1>2. CASE FirstReceive \/ ReceiveAgain
  BY <1>2 DEF FirstReceive, ReceiveAgain, Receive, HandOver
<1>3. CASE Decoding
  <2>1. call \in {"send", "receive"} /\ (pc = "sending" <=> call = "send") /\ pc' = pc
    BY <1>3 DEF Decoding, Step, Fetch, Decode, Drain, DecodeInv, TypeOK, CallTypes
  <2>2. ASSUME NEW r, Return(r) PROVE answer'.call = call
    BY <2>2 DEF Return
  <2>3. CASE Fetch
    BY <2>1, <2>2, <2>3 DEF Fetch, FetchPiece, FetchPacket, FetchEnd, FetchNothing, Fetched
  <2>4. ASSUME NEW f, Produce(f) PROVE AnswerIsReceive'
    BY <2>1, <2>2, <2>4 DEF Produce, HandOver
  <2>5. CASE Decode
    BY <2>1, <2>2, <2>4, <2>5 DEF Decode, CodecGives
  <2>6. CASE Drain
    BY <2>1, <2>2, <2>4, <2>6 DEF Drain, DrainError
  <2> QED BY <1>3, <2>3, <2>5, <2>6 DEF Decoding, Step
<1> QED
  BY <1>1, <1>2, <1>3 DEF PlayerNext

\* Where the player's packet is, without the splitting filter.
LEMMA PacketStep ==
  ASSUME PlayerInv, PlayerNext
  PROVE  OneAtATime'
<1>1. kind \in {"whole", "subframes", "split"}
  BY DEF PlayerInv, DecodeInv, TypeOK, CodecTypes, Kinds
<1> USE Numbers, <1>1 DEF PlayerInv, DecodeInv, PlayerTypeOK, NoFrameWaits, OneAtATime, NothingLeftBehind,
                    Held, Answered, Said, vars, Protocol, config, filter, drain
<1> HIDE DEF First
<1>2. CASE SendTaken
  <2>1. PICK n \in 1 .. MaxPacketUnits : SendPacket(n)
    BY <1>2 DEF SendTaken, Send
  <2>2. CASE UNCHANGED <<fed, bsf_pkt, call>>
    BY <1>2, <2>1, <2>2 DEF SendTaken, SendPacket
  <2>3. CASE Refusal = "ok" /\ bsf_pkt' = (fed + 1) .. (fed + n) /\ DecodeAhead
    <3>1. kind = "whole" => \A x, y \in bsf_pkt' : x = y
      BY <2>1, <2>3 DEF SendPacket
    <3>2. ~eof' /\ call' = "send" /\ in_pkt' = in_pkt /\ kind' = kind /\ superframe' = superframe
      BY <1>2, <2>1, <2>3 DEF SendTaken, SendPacket, DecodeAhead, Refusal
    <3> QED BY <1>2, <3>1, <3>2 DEF SendTaken
  <2> QED BY <2>1, <2>2, <2>3 DEF SendPacket, Refusal
<1>3. CASE SendTakenEmpty
  BY <1>3 DEF SendTakenEmpty, SendEmpty, SendHollow, DecodeAhead
<1>4. CASE FirstReceive \/ ReceiveAgain
  BY <1>4 DEF FirstReceive, ReceiveAgain, Receive, HandOver
<1>5. CASE PacketFreed \/ PacketDone \/ Ended
  BY <1>5 DEF PacketFreed, PacketDone, Ended
<1>6. CASE Decoding /\ Fetch
  BY <1>6 DEF Decoding, Fetch, FetchPiece, FetchPacket, FetchEnd, FetchNothing, Fetched, Return
<1>7. CASE Decoding /\ Decode
  <2>1. in_pkt # {} => First(in_pkt) \in in_pkt
    OBVIOUS
  <2>2. UNCHANGED <<kind, superframe, bsf_pkt, eof>>
    BY <1>7 DEF Decode
  <2>3. kind # "split" => bsf_pkt = {}
    BY <1>7 DEF Decode
  <2>4. in_pkt' \subseteq in_pkt
    BY <1>7 DEF Decode
  <2>5. kind = "whole" => in_pkt' = {}
    BY <1>7, <2>1 DEF Decode
  <2>6. ASSUME NEW f, Produce(f), kind = "subframes"
        PROVE  call' = "none" /\ answer'.ret = "ok"
    BY <2>6 DEF Produce, HandOver, Return
  <2>7. ASSUME NEW pool, NEW hidden, CodecGives(pool, hidden), kind = "subframes"
        PROVE  call' = "none" => answer'.ret = "ok"
    BY <1>7, <2>6, <2>7 DEF CodecGives, Decode
  <2>8. kind # "split" /\ call' = "none" /\ answer'.ret # "ok" => in_pkt' = {}
    BY <1>7, <2>5, <2>7 DEF Decode
  <2> QED BY <2>2, <2>3, <2>4, <2>5, <2>8
<1>8. CASE Decoding /\ Drain
  BY <1>8 DEF Decoding, Drain, DrainError, Produce, HandOver, Return
<1> QED
  BY <1>2, <1>3, <1>4, <1>5, <1>6, <1>7, <1>8 DEF PlayerNext, Decoding, Step

\* What the thread leaves behind, and what a refusal means.
LEMMA RefusalStep ==
  ASSUME PlayerInv, PlayerNext
  PROVE  NothingLeftBehind' /\ OnlySplitRefuses' /\ StaysFull'
<1> USE DEF PlayerInv, AnswerIsReceive, NoFrameWaits, OneAtATime, NothingLeftBehind,
            OnlySplitRefuses, StaysFull, Refused, Answered, Said, vars, config, filter
<1>1. CASE SendTaken
  BY <1>1 DEF SendTaken, Send, SendPacket, DecodeAhead, Refusal
<1>2. CASE SendTakenEmpty
  BY <1>2 DEF SendTakenEmpty, SendEmpty, SendHollow, DecodeAhead
<1>3. CASE FirstReceive \/ ReceiveAgain
  BY <1>3 DEF FirstReceive, ReceiveAgain, Receive, HandOver
<1>4. CASE PacketFreed \/ PacketDone \/ Ended
  BY <1>4 DEF PacketFreed, PacketDone, Ended
<1>5. CASE Decoding
  <2> USE DEF PlayerTypeOK
  <2>1. pc' = pc /\ kind' = kind /\ call # "none" /\ pc \notin {"take", "ended"}
    BY <1>5 DEF Decoding, Step, Fetch, Decode, Drain
  <2>2. CASE Fetch
    BY <1>5, <2>1, <2>2 DEF Fetch, FetchPiece, FetchPacket, FetchEnd, FetchNothing, Fetched, Return
  <2>3. CASE Decode
    BY <1>5, <2>1, <2>3 DEF Decode, CodecGives, Produce, HandOver, Return
  <2>4. CASE Drain
    BY <1>5, <2>1, <2>4 DEF Drain, DrainError, Produce, HandOver, Return
  <2> QED BY <1>5, <2>2, <2>3, <2>4 DEF Decoding, Step
<1> QED
  BY <1>1, <1>2, <1>3, <1>4, <1>5 DEF PlayerNext

\* Every step keeps the player's invariant.
LEMMA PlayerStep == PlayerInv /\ [PlayerNext]_playerVars => PlayerInv'
<1>1. PlayerInv /\ PlayerNext => PlayerInv'
  <2> SUFFICES ASSUME PlayerInv, PlayerNext PROVE PlayerInv'
    OBVIOUS
  <2>1. DecodeInv'
    BY InvStep, PlayerIsACaller DEF PlayerInv
  <2>2. PlayerTypeOK' /\ NoFrameWaits'
    BY PositionStep
  <2>3. AnswerIsReceive'
    BY LastCallStep
  <2>5. OneAtATime'
    BY PacketStep
  <2>4. NothingLeftBehind' /\ OnlySplitRefuses' /\ StaysFull'
    BY RefusalStep
  <2> QED BY <2>1, <2>2, <2>3, <2>4, <2>5 DEF PlayerInv
<1>2. PlayerInv /\ UNCHANGED playerVars => PlayerInv'
  <2> SUFFICES ASSUME PlayerInv, UNCHANGED playerVars PROVE PlayerInv'
    OBVIOUS
  <2>1. DecodeInv'
    BY InvStep DEF PlayerInv, playerVars
  <2>2. TypeOK'
    BY <2>1 DEF DecodeInv
  <2> QED
    BY <2>1, <2>2 DEF PlayerInv, playerVars, vars, config, filter, drain, PlayerTypeOK, OneAtATime,
                AnswerIsReceive, NoFrameWaits, NothingLeftBehind, OnlySplitRefuses, StaysFull, Refused, Said
<1> QED BY <1>1, <1>2

\* So it holds always.
LEMMA PlayerAlways == PlayerSpec => []PlayerInv
BY PlayerInit1, PlayerStep, PTL DEF PlayerSpec

(* The decoding threads' position and the decoder's state agree.           *)
THEOREM PlayerTypes == PlayerSpec => []PlayerTypeOK
<1>1. PlayerInv => PlayerTypeOK
  BY DEF PlayerInv
<1> QED BY <1>1, PlayerAlways, PTL

(* Between packets the player leaves nothing in the decoder that the codec *)
(* does not hold back, unless the splitting filter is in use.              *)
THEOREM PlayerLeavesNothing == PlayerSpec => []NothingLeftBehind
<1>1. PlayerInv => NothingLeftBehind
  BY DEF PlayerInv
<1> QED BY <1>1, PlayerAlways, PTL

(* The player loses packets to a full decoder only behind the splitting    *)
(* filter: with every other codec its loop needs no answer to EAGAIN.      *)
THEOREM PlayerNeedsNoResend == PlayerSpec => []OnlySplitRefuses
<1>1. PlayerInv => OnlySplitRefuses
  BY DEF PlayerInv
<1> QED BY <1>1, PlayerAlways, PTL

\* What a refusal leads to: the filter stays full and every call fails at
\* once, until the end mark is accepted.
Jammed ==
  \/ eof
  \/ /\ call = "none" /\ answer.ret # "ok"
     /\ bsf_pkt # {}
     /\ pc \in {"take", "sending", "ended"}

\* Nothing but the end mark gets the thread out of it.
LEMMA JammedStays == PlayerInv /\ Jammed /\ [PlayerNext]_playerVars => Jammed'
<1> SUFFICES ASSUME PlayerInv, Jammed, [PlayerNext]_playerVars PROVE Jammed'
  OBVIOUS
<1> USE DEF Jammed, Said, vars, config, filter, drain
<1>1. CASE eof
  <2>1. eof'
    BY <1>1 DEF PlayerNext, SendTaken, SendTakenEmpty, Ended, FirstReceive, PacketFreed, ReceiveAgain,
                PacketDone, Decoding, Send, SendPacket, SendEmpty, SendHollow, Receive, Step, Fetch,
                FetchPiece, FetchPacket, FetchEnd, FetchNothing, Decode, Drain, playerVars
  <2> QED BY <2>1
<1>2. CASE ~eof
  <2>1. call = "none" /\ answer.ret # "ok" /\ bsf_pkt # {} /\ pc \in {"take", "sending", "ended"}
    BY <1>2
  <2>2. CASE SendTaken
    BY <1>2, <2>1, <2>2 DEF SendTaken, Send, SendPacket, Refusal
  <2>3. CASE SendTakenEmpty
    BY <1>2, <2>1, <2>3 DEF SendTakenEmpty, SendEmpty, SendHollow
  <2>4. CASE FirstReceive \/ ReceiveAgain \/ Decoding
    BY <2>1, <2>4 DEF FirstReceive, ReceiveAgain, Answered, Decoding, Step, Fetch, Decode, Drain
  <2>5. CASE PacketFreed \/ PacketDone \/ Ended
    BY <2>1, <2>5 DEF PacketFreed, PacketDone, Ended
  <2>6. CASE UNCHANGED playerVars
    BY <2>1, <2>6 DEF playerVars
  <2> QED BY <2>2, <2>3, <2>4, <2>5, <2>6 DEF PlayerNext
<1> QED BY <1>1, <1>2

(* Behind it, one refusal is the end of the pictures: for good, every call *)
(* of the thread fails at once, unless the end mark comes.                 *)
THEOREM PlayerRefusedForGood == PlayerSpec => RefusedForGood
<1>1. PlayerInv => (Refused /\ pc \in {"take", "sending"} => Jammed)
  BY DEF PlayerInv, StaysFull, Refused, Said, Jammed
<1>2. PlayerInv /\ Jammed /\ [PlayerNext]_playerVars => Jammed'
  BY JammedStays
<1>3. Jammed => eof \/ (call = "none" /\ answer.ret # "ok")
  BY DEF Jammed
<1> QED
  BY <1>1, <1>2, <1>3, PlayerAlways, PTL DEF PlayerSpec, RefusedForGood

-----------------------------------------------------------------------------
(* The thread comes back for its next packet.                              *)

\* How far the thread is from giving its packet up, while the decoder's work
\* stays what it is.
Phase ==
  CASE pc = "sending" /\ call # "none" -> 6
    [] pc = "sending" /\ call = "none" -> 5
    [] pc = "receiving" /\ call = "none" /\ answer.ret = "ok" -> 4
    [] pc = "receiving" /\ call # "none" -> 3
    [] pc = "receiving" /\ call = "none" /\ answer.ret # "ok" -> 2
    [] OTHER -> 0

\* How many more steps the thread can take on its packet.
PacketWork == 8 * Work + Phase

\* The phase is a small number, and these are its values.
LEMMA Phases ==
  /\ Phase \in 0 .. 6
  /\ pc = "sending" /\ call # "none" => Phase = 6
  /\ pc = "sending" /\ call = "none" => Phase = 5
  /\ pc = "receiving" /\ call = "none" => Phase = IF answer.ret = "ok" THEN 4 ELSE 2
  /\ pc = "receiving" /\ call # "none" => Phase = 3
  /\ pc = "take" => Phase = 0
BY DEF Phase

\* Less work for the decoder is less for the thread, wherever it is.
LEMMA LessWork ==
  ASSUME NEW w \in Nat, NEW v \in Nat, NEW m \in 0 .. 6, NEW n \in 0 .. 6,
         w < v \/ (w <= v /\ m < n)
  PROVE  8 * w + m < 8 * v + n
OBVIOUS

(* The loop over the frames of a packet ends (lines 267-275 and 309-327):  *)
(* each step a decoding thread takes on its packet leaves less to do, so   *)
(* it takes PacketWork steps at most before it goes for the next packet.   *)
(* This is the part of PacketsEnd that does not need the scheduler.        *)
PacketsAreShort == [][Busy => PacketWork' < PacketWork]_playerVars

\* The loop over the frames of a packet (lines 304-331) comes to its end.
THEOREM PacketLoopsEnd == PlayerSpec => PacketsAreShort
<1>1. PlayerInv => Work \in Nat /\ Phase \in 0 .. 6
  BY WorkNumbers, Phases DEF PlayerInv, DecodeInv
<1>2. PlayerInv' => (Work \in Nat /\ Phase \in 0 .. 6)'
  BY <1>1, PTL
<1>3. PlayerInv /\ PlayerInv' /\ [PlayerNext]_playerVars => [Busy => PacketWork' < PacketWork]_playerVars
  <2> SUFFICES ASSUME PlayerInv, PlayerInv', PlayerNext, Busy
               PROVE  PacketWork' < PacketWork
    OBVIOUS
  <2> USE DEF Busy
  <2> HIDE DEF Work, Phase
  <2>1. Work \in Nat /\ Work' \in Nat /\ Phase \in 0 .. 6 /\ Phase' \in 0 .. 6
    BY <1>1, <1>2
  <2>2. ASSUME Work' < Work \/ (Work' <= Work /\ Phase' < Phase)
        PROVE  PacketWork' < PacketWork
    BY <2>1, <2>2, LessWork DEF PacketWork
  <2>3. CASE FirstReceive \/ ReceiveAgain
    <3>1. Work' < Work \/ (Work' = Work /\ call' = "receive")
      BY <2>3, ReceiveWorks DEF FirstReceive, ReceiveAgain, PlayerInv
    <3>2. Phase \in {4, 5}
      BY <2>3, Phases DEF FirstReceive, ReceiveAgain, Answered, Said
    <3>3. call' = "receive" => Phase' = 3
      BY <2>3, Phases DEF FirstReceive, ReceiveAgain, Phase
    <3> QED BY <2>1, <2>2, <3>1, <3>2, <3>3
  <2>4. CASE PacketFreed \/ PacketDone
    <3>1. Work' = Work /\ Phase' = 0
      BY <2>4 DEF PacketFreed, PacketDone, vars, filter, drain, Work, CodecWork, Phase
    <3>2. Phase \in {2, 5}
      BY <2>4, Phases DEF PacketFreed, PacketDone
    <3> QED BY <2>1, <2>2, <3>1, <3>2
  <2>5. CASE Decoding
    <3>1. Work' < Work \/ (call' = "none" /\ Work' <= Work /\ (call = "receive" => answer'.ret # "ok"))
      BY <2>5, StepWorks DEF Decoding, PlayerInv, Shortens, EndsCall, Return, Said
    <3>2. call # "none" /\ call \in {"none", "send", "receive"} /\ pc' = pc
      BY <2>5 DEF Decoding, Step, Fetch, Decode, Drain, PlayerInv, DecodeInv, TypeOK, CallTypes
    <3>3. pc = "sending" <=> call = "send"
      BY <3>2 DEF PlayerInv, PlayerTypeOK
    <3>4. CASE pc = "sending" /\ call' = "none"
      <4>1. Phase = 6 /\ Phase' = 5
        BY <3>2, <3>4 DEF Phase
      <4> QED BY <2>1, <2>2, <3>1, <4>1
    <3>5. CASE pc = "receiving" /\ call' = "none" /\ answer'.ret # "ok"
      <4>1. Phase = 3 /\ Phase' = 2
        BY <3>2, <3>5 DEF Phase
      <4> QED BY <2>1, <2>2, <3>1, <4>1
    <3> QED BY <2>2, <3>1, <3>2, <3>3, <3>4, <3>5
  <2>6. ~(SendTaken \/ SendTakenEmpty \/ Ended)
    BY DEF SendTaken, SendTakenEmpty, Ended
  <2> QED BY <2>3, <2>4, <2>5, <2>6 DEF PlayerNext
<1> QED
  BY <1>3, PlayerAlways, PTL DEF PlayerSpec, PacketsAreShort

=============================================================================
