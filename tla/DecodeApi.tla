----------------------------- MODULE DecodeApi ------------------------------
(***************************************************************************)
(* libavcodec's decoding interface as the player uses it: one decoder      *)
(* context, the calls avcodec_send_packet and avcodec_receive_frame, and   *)
(* the places where compressed data and frames wait between calls.         *)
(*                                                                         *)
(*   caller -> bsf_pkt -> superframe -> in_pkt -> inside -> buffer_frame   *)
(*                                                      \-> caller         *)
(*                                                                         *)
(* Compressed data is counted in units: what the codec decodes at once and *)
(* what becomes at most one frame.  Units are numbered as they are sent,   *)
(* and each place is a set of numbers.  A context has one caller, but a    *)
(* call runs the decode loop of decode_simple_receive_frame, and every     *)
(* iteration of that loop is a step here.                                  *)
(*                                                                         *)
(* Left out: allocation failures, the decode-ahead of frame threading (the *)
(* player leaves thread_count at 1), codecs with a receive_frame callback, *)
(* packets that carry side data and no data, avcodec_flush_buffers (the    *)
(* player never calls it), the EAGAIN of a call that discarded more than   *)
(* max_samples samples (decode.c:513; INT_MAX unless set), and a failure   *)
(* that comes with a frame, which the draining does not count (466).       *)
(* Assumed: a codec consumes data, gives a frame or fails.  The loop has   *)
(* no defence against one that does none of these (484-499).               *)
(***************************************************************************)
EXTENDS Integers, FiniteSets, Sequences

CONSTANTS
  MaxPacketUnits,     \* bound: units in one packet
  MaxDelay,           \* bound: frames a codec may hold back
  MaxDrainingErrors,  \* nb_errors_max: 21 in the code
  MaxFed              \* bound: units sent

ASSUME ApiAssumption ==
  /\ MaxPacketUnits \in Nat \ {0}
  /\ MaxDelay \in Nat
  /\ MaxDrainingErrors \in Nat
  /\ MaxFed \in Nat

VARIABLES
  kind,           \* how the codec takes a packet apart
  delay,          \* frames it may hold back; 0 without AV_CODEC_CAP_DELAY
  bsf_pkt,        \* bsfi->buffer_pkt: the packet the bitstream filter was given
  superframe,     \* the pieces left in the filter that splits superframes
  eof,            \* bsfi->eof
  draining,       \* avci->draining
  draining_done,  \* avci->draining_done
  nb_draining_errors,
  in_pkt,         \* avci->in_pkt: what is left of the packet being decoded
  inside,         \* units whose frames the codec holds back
  buffer_frame,   \* avci->buffer_frame: the frame decoded by a send
  call,           \* the call in progress
  answer,         \* what the last finished call was and what it returned
  fed, received,  \* history: units accepted, frames handed to the caller
  skipped, lost   \* history: units without a frame, units dropped by an error

config == <<kind, delay>>
filter == <<bsf_pkt, superframe, eof>>
drain == <<draining, draining_done, nb_draining_errors>>
vars == <<config, filter, drain, in_pkt, inside, buffer_frame, call, answer,
          fed, received, skipped, lost>>

-----------------------------------------------------------------------------
(* "whole": a packet is one unit.  "subframes": audio packets of several   *)
(* frames, which the codec consumes one at a time.  "split": several units *)
(* that a bitstream filter hands to the codec one at a time (VP9, AV1).    *)
Kinds == {"whole", "subframes", "split"}

Returns == {"ok", "again", "eof", "error"}

Said(c, r) == [call |-> c, ret |-> r]

Answers == [call : {"none", "send", "receive"}, ret : Returns]

\* Everything accepted that is still on its way.
Held == bsf_pkt \cup superframe \cup in_pkt \cup inside \cup buffer_frame

First(S) == CHOOSE u \in S : \A v \in S : u <= v

Init ==
  /\ kind \in Kinds
  /\ delay \in 0 .. MaxDelay
  /\ bsf_pkt = {} /\ superframe = {} /\ eof = FALSE
  /\ draining = FALSE /\ draining_done = FALSE /\ nb_draining_errors = 0
  /\ in_pkt = {} /\ inside = {} /\ buffer_frame = {}
  /\ call = "none"
  /\ answer = Said("none", "ok")
  /\ fed = 0 /\ received = <<>> /\ skipped = {} /\ lost = {}

-----------------------------------------------------------------------------
(* The ends of a call.                                                     *)

\* The call in progress returns r.  A send takes "again" and "eof" from its
\* decode loop for success.
Return(r) ==
  /\ call' = "none"
  /\ answer' = Said(call, IF call = "send" /\ r \in {"again", "eof"}
                          THEN "ok" ELSE r)

\* avcodec_receive_frame hands frame f over; cropping it may fail.
HandOver(f) ==
  /\ call' = "none"
  /\ \/ /\ answer' = Said("receive", "ok")
        /\ received' = Append(received, f)
        /\ UNCHANGED lost
     \/ /\ kind # "subframes"
        /\ answer' = Said("receive", "error")
        /\ lost' = lost \cup {f}
        /\ UNCHANGED received

\* The decode loop has frame f: a send keeps it, a receive hands it over.
Produce(f) ==
  \/ /\ call = "send"
     /\ buffer_frame' = {f}
     /\ Return("ok")
     /\ UNCHANGED <<received, lost>>
  \/ /\ call = "receive"
     /\ HandOver(f)
     /\ UNCHANGED buffer_frame

-----------------------------------------------------------------------------
(* The calls.                                                              *)

\* Fault: decode ahead whether or not a frame waits.
DecodeAheadAlways ==
  /\ call' = "send"
  /\ UNCHANGED answer

\* The end of avcodec_send_packet: decode ahead unless a frame waits.
DecodeAhead ==
  \/ /\ buffer_frame = {}
     /\ call' = "send"
     /\ UNCHANGED answer
  \/ /\ buffer_frame # {}
     /\ answer' = Said("send", "ok")
     /\ UNCHANGED call

\* Fault: only the filter's end is tested, not the decoder's.
RefusalByFilter ==
  CASE eof -> "error"
    [] ~eof /\ bsf_pkt # {} -> "again"
    [] OTHER -> "ok"

\* What avcodec_send_packet and av_bsf_send_packet say of a packet they refuse.
Refusal ==
  CASE draining -> "eof"
    [] ~draining /\ eof -> "error"
    [] ~draining /\ ~eof /\ bsf_pkt # {} -> "again"
    [] OTHER -> "ok"

\* avcodec_send_packet with a packet of n units.
SendPacket(n) ==
  /\ call = "none"
  /\ \/ /\ Refusal = "ok"
        /\ kind = "whole" => n = 1
        /\ fed + n <= MaxFed
        /\ fed' = fed + n
        /\ bsf_pkt' = (fed + 1) .. (fed + n)
        /\ DecodeAhead
     \/ /\ Refusal # "ok"
        /\ answer' = Said("send", Refusal)
        /\ UNCHANGED <<fed, bsf_pkt, call>>
  /\ UNCHANGED <<config, superframe, eof, drain, in_pkt, inside, buffer_frame,
                 received, skipped, lost>>

\* avcodec_send_packet with NULL, or with a packet that has no buffer.
SendEmpty ==
  /\ call = "none"
  /\ \/ /\ ~draining
        /\ eof' = TRUE
        /\ DecodeAhead
     \/ /\ draining
        /\ answer' = Said("send", "eof")
        /\ UNCHANGED <<eof, call>>
  /\ UNCHANGED <<config, bsf_pkt, superframe, drain, in_pkt, inside,
                 buffer_frame, fed, received, skipped, lost>>

\* avcodec_send_packet with a packet of no bytes that has a buffer.
SendHollow ==
  /\ call = "none"
  /\ answer' = Said("send", IF draining THEN "eof" ELSE "error")
  /\ UNCHANGED <<config, filter, drain, in_pkt, inside, buffer_frame, call, fed,
                 received, skipped, lost>>

\* Fault: the waiting frame is referenced and not moved.
ReceiveCopies ==
  /\ call = "none"
  /\ \/ /\ buffer_frame = {}
        /\ call' = "receive"
        /\ UNCHANGED <<answer, received, lost>>
     \/ \E f \in buffer_frame : HandOver(f)
  /\ UNCHANGED <<config, filter, drain, in_pkt, inside, buffer_frame, fed, skipped>>

\* avcodec_receive_frame.
Receive ==
  /\ call = "none"
  /\ \/ /\ buffer_frame = {}
        /\ call' = "receive"
        /\ UNCHANGED <<buffer_frame, answer, received, lost>>
     \/ /\ buffer_frame' = {}
        /\ \E f \in buffer_frame : HandOver(f)
  /\ UNCHANGED <<config, filter, drain, in_pkt, inside, fed, skipped>>

-----------------------------------------------------------------------------
(* One iteration of the decode loop.                                       *)

\* ff_decode_get_packet has pkt from the filter: it becomes the packet being
\* decoded, or its properties or parameters are refused.
Fetched(pkt) ==
  \/ /\ in_pkt' = pkt
     /\ UNCHANGED <<call, answer, lost>>
  \/ /\ lost' = lost \cup pkt
     /\ Return("error")
     /\ UNCHANGED in_pkt

\* The splitting filter still has pieces of a superframe.
FetchPiece ==
  /\ superframe # {}
  /\ superframe' = superframe \ {First(superframe)}
  /\ Fetched({First(superframe)})
  /\ UNCHANGED <<bsf_pkt, eof, draining>>

\* Fault: the filter takes a new packet before the pieces of the last are out.
FetchPacketFirst ==
  /\ ~eof /\ bsf_pkt # {}
  /\ bsf_pkt' = {}
  /\ superframe' = superframe \cup (bsf_pkt \ {First(bsf_pkt)})
  /\ Fetched({First(bsf_pkt)})
  /\ UNCHANGED <<eof, draining>>

\* The filter takes the packet it was given, and splits it or passes it on.
FetchPacket ==
  /\ superframe = {} /\ ~eof /\ bsf_pkt # {}
  /\ bsf_pkt' = {}
  /\ \/ /\ kind # "split"
        /\ Fetched(bsf_pkt)
        /\ UNCHANGED superframe
     \/ /\ kind = "split"
        /\ superframe' = bsf_pkt \ {First(bsf_pkt)}
        /\ Fetched({First(bsf_pkt)})
     \/ /\ kind = "split"          \* the superframe's index is invalid
        /\ lost' = lost \cup bsf_pkt
        /\ Return("error")
        /\ UNCHANGED <<superframe, in_pkt>>
  /\ UNCHANGED <<eof, draining>>

\* Fault: the end is tested before the pieces of a superframe are out.
FetchEndEarly ==
  /\ eof
  /\ draining' = TRUE
  /\ UNCHANGED <<filter, in_pkt, call, answer, lost>>

\* The filter is at its end: the decoder starts to drain.
FetchEnd ==
  /\ superframe = {} /\ eof
  /\ draining' = TRUE
  /\ UNCHANGED <<filter, in_pkt, call, answer, lost>>

\* The filter has nothing.
FetchNothing ==
  /\ superframe = {} /\ ~eof /\ bsf_pkt = {}
  /\ Return("again")
  /\ UNCHANGED <<filter, draining, in_pkt, lost>>

Fetch ==
  /\ call # "none" /\ in_pkt = {} /\ ~draining
  /\ FetchPiece \/ FetchPacket \/ FetchEnd \/ FetchNothing
  /\ UNCHANGED <<config, draining_done, nb_draining_errors, inside,
                 buffer_frame, fed, received, skipped>>

\* Fault: the codec holds back one frame more than its delay.
CodecGivesLater(pool, hidden) ==
  /\ Cardinality(pool) <= delay + 1
  /\ inside' = pool
  /\ skipped' = skipped \cup hidden
  /\ UNCHANGED <<buffer_frame, call, answer, received, lost>>

\* Fault: no loop, a codec that keeps its frames ends the call.
CodecGivesOnce(pool, hidden) ==
  /\ Cardinality(pool) <= delay
  /\ inside' = pool
  /\ skipped' = skipped \cup hidden
  /\ Return("again")
  /\ UNCHANGED <<buffer_frame, received, lost>>

\* The codec holds the frames of pool and has skipped the units of hidden:
\* it gives a frame, gives one that is discarded, or keeps them all.
CodecGives(pool, hidden) ==
  \/ \E f \in pool :
       /\ inside' = pool \ {f}
       /\ skipped' = skipped \cup hidden
       /\ Produce(f)
  \/ \E f \in pool :
       /\ inside' = pool \ {f}
       /\ skipped' = skipped \cup hidden \cup {f}
       /\ UNCHANGED <<buffer_frame, call, answer, received, lost>>
  \/ /\ Cardinality(pool) <= delay
     /\ inside' = pool
     /\ skipped' = skipped \cup hidden
     /\ UNCHANGED <<buffer_frame, call, answer, received, lost>>

\* The codec decodes the next unit of the packet, or fails and the rest of
\* the packet is dropped.
Decode ==
  /\ call # "none" /\ in_pkt # {}
  /\ \/ LET u == First(in_pkt) IN
          /\ in_pkt' = in_pkt \ {u}
          /\ CodecGives(inside \cup {u}, {}) \/ CodecGives(inside, {u})
     \/ /\ in_pkt' = {}
        /\ lost' = lost \cup in_pkt
        /\ Return("error")
        /\ UNCHANGED <<inside, buffer_frame, received, skipped>>
  /\ UNCHANGED <<config, filter, drain, fed>>

\* Fault: no limit on the failures.
DrainErrorUnlimited ==
  /\ Return("error")
  /\ UNCHANGED <<nb_draining_errors, draining_done, inside, lost, buffer_frame, received, skipped>>

\* The codec fails while draining and gives no frame: some of those it holds
\* are lost with it.  After too many failures the end is forced.
DrainError ==
  /\ Return("error")
  /\ nb_draining_errors' = nb_draining_errors + 1
  /\ draining_done' = (nb_draining_errors >= MaxDrainingErrors)
  /\ \E S \in SUBSET inside :
       /\ inside' = inside \ S
       /\ lost' = lost \cup S
  /\ UNCHANGED <<buffer_frame, received, skipped>>

\* The decoder is at the end of its input: nothing left to give, or one
\* more of the frames held back.
Drain ==
  /\ call # "none" /\ in_pkt = {} /\ draining
  /\ \/ /\ draining_done \/ delay = 0
        /\ draining_done' = TRUE
        /\ Return("eof")
        /\ UNCHANGED <<nb_draining_errors, inside, buffer_frame, received,
                       skipped, lost>>
     \/ /\ ~draining_done /\ delay > 0
        /\ \/ /\ inside # {}
              /\ \E f \in inside :
                   /\ inside' = inside \ {f}
                   /\ \/ Produce(f) /\ UNCHANGED skipped
                      \/ /\ skipped' = skipped \cup {f}
                         /\ UNCHANGED <<buffer_frame, call, answer, received, lost>>
              /\ UNCHANGED <<draining_done, nb_draining_errors>>
           \/ /\ inside = {}
              /\ draining_done' = TRUE
              /\ UNCHANGED <<nb_draining_errors, inside, buffer_frame, call,
                             answer, received, skipped, lost>>
           \/ DrainError
  /\ UNCHANGED <<config, filter, draining, in_pkt, fed>>

Step == Fetch \/ Decode \/ Drain

-----------------------------------------------------------------------------
(* Any caller.                                                             *)

Send == \E n \in 1 .. MaxPacketUnits : SendPacket(n)

Next == Send \/ SendEmpty \/ SendHollow \/ Receive \/ Step

Spec == Init /\ [][Next]_vars

-----------------------------------------------------------------------------
Units == 1 .. MaxFed

\* No call is in progress and the last one was c, returning r.
Answered(c, r) == call = "none" /\ answer = Said(c, r)

CodecTypes ==
  /\ kind \in Kinds
  /\ delay \in 0 .. MaxDelay
  /\ inside \subseteq Units /\ Cardinality(inside) <= delay

PlaceTypes ==
  /\ bsf_pkt \subseteq Units /\ superframe \subseteq Units /\ in_pkt \subseteq Units
  /\ buffer_frame \subseteq Units /\ Cardinality(buffer_frame) <= 1
  /\ fed \in 0 .. MaxFed
  /\ received \in Seq(Units)
  /\ skipped \subseteq Units /\ lost \subseteq Units

FlagTypes ==
  /\ eof \in BOOLEAN /\ draining \in BOOLEAN /\ draining_done \in BOOLEAN

CallTypes ==
  /\ nb_draining_errors \in 0 .. (MaxDrainingErrors + 1)
  /\ call \in {"none", "send", "receive"}
  /\ answer \in Answers

(* The types of the variables: a decoder holds units, one frame at most    *)
(* waits in buffer_frame, and no more than delay frames wait in the codec. *)
TypeOK == CodecTypes /\ PlaceTypes /\ FlagTypes /\ CallTypes

(* "Once all output is read, the packet should be resent, and the call     *)
(* will not fail with EAGAIN" (avcodec.h:2585): when receiving has said    *)
(* EAGAIN nothing waits outside the codec, and a packet is accepted.       *)
ReceiveEagainMeansRoom ==
  Answered("receive", "again") => Refusal = "ok" /\ Held = inside

(* When receiving has said EOF the decoder is drained: nothing it took out *)
(* of the filter is left, unless the limit on errors cut the draining off. *)
EofMeansDrained ==
  Answered("receive", "eof") =>
    /\ draining_done
    /\ superframe = {} /\ in_pkt = {} /\ buffer_frame = {}
    /\ inside = {} \/ nb_draining_errors > MaxDrainingErrors

(* "There will be no more output frames" (avcodec.h:2610): after EOF, every *)
(* call is answered with EOF.                                              *)
EofIsFinal ==
  [](answer = Said("receive", "eof") => [](answer.ret = "eof"))

(* Every unit that was accepted is on its way, delivered, skipped by the   *)
(* codec or lost to an error: none vanishes, and none is two of these.     *)
Delivered == {received[i] : i \in DOMAIN received}

UnitsAccounted ==
  /\ Held \cup Delivered \cup skipped \cup lost = 1 .. fed
  /\ Held \cap Delivered = {} /\ Held \cap skipped = {} /\ Held \cap lost = {}
  /\ Delivered \cap skipped = {} /\ Delivered \cap lost = {} /\ skipped \cap lost = {}

(* Only the codec reorders: along the other places no unit overtakes one   *)
(* that was sent before it, so no unit is in two places.                   *)
Before(S, T) == \A x \in S, y \in T : x < y

StagesInOrder ==
  /\ inside \cap buffer_frame = {}
  /\ Before(inside \cup buffer_frame, in_pkt \cup superframe \cup bsf_pkt)
  /\ Before(in_pkt, superframe \cup bsf_pkt)
  /\ Before(superframe, bsf_pkt)

\* The promise of FrameQueue, kept by the places taken together.
Queue == INSTANCE FrameQueue WITH ordered <- (delay = 0), pending <- Held

(* The decoder is a queue of frames: whatever the caller does, and however *)
(* the filter, the loop and the codec divide the work, each accepted unit  *)
(* is delivered at most once, and in order when the codec holds none back. *)
ImplementsFrameQueue == Queue!Spec

(* The thread that draws or plays frames gets none twice, and none it did  *)
(* not send a packet for.                                                  *)
NoFrameTwice == Queue!DeliveredOnce

(* With a codec that holds nothing back, frames come in the order of their *)
(* packets: what the audio clock of the player counts on.                  *)
FramesInOrder == Queue!InOrder

=============================================================================
