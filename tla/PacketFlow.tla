----------------------------- MODULE PacketFlow -----------------------------
(***************************************************************************)
(* What the reader and the two decoder threads of ffmpeg_player promise    *)
(* together, with no thread, lock or condition variable in sight: the      *)
(* demuxer produces a sequence of packets, and each stream is a bounded    *)
(* FIFO channel from the demuxer to that stream's decoder.  A packet is    *)
(* named by its position in the file, 1 being the first.                   *)
(***************************************************************************)
EXTENDS Naturals, Sequences, FiniteSets

CONSTANTS
  Backlog      (* Packets of one stream that may be read but undelivered. *)

Streams == {"audio", "video"}
Kinds == Streams \cup {"other"}

VARIABLES
  demuxed,     (* The kind of each packet read so far, in file order.      *)
  delivered    (* For each stream, the packets handed to its decoder.      *)

vars == <<demuxed, delivered>>

(* The packets of stream c that were read and not yet delivered. *)
Pending(c) == {p \in DOMAIN demuxed : demuxed[p] = c} \ delivered[c]

Init ==
  /\ demuxed = <<>>
  /\ delivered = [c \in Streams |-> {}]

(* A packet may be read only while every channel has room. *)
Produce(k) ==
  /\ \A c \in Streams : Cardinality(Pending(c)) < Backlog
  /\ demuxed' = Append(demuxed, k)
  /\ UNCHANGED delivered

(* The next packet a decoder gets is the earliest pending one of its stream. *)
Deliver(c, p) ==
  /\ p \in Pending(c)
  /\ \A q \in Pending(c) : p <= q
  /\ delivered' = [delivered EXCEPT ![c] = @ \cup {p}]
  /\ UNCHANGED demuxed

Next ==
  \/ \E k \in Kinds : Produce(k)
  \/ \E c \in Streams : \E p \in Pending(c) : Deliver(c, p)

Spec == Init /\ [][Next]_vars
=============================================================================
