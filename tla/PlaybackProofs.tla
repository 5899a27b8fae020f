--------------------------- MODULE PlaybackProofs ---------------------------
(***************************************************************************)
(* Proofs about Playback, for queues of any capacity and files of any      *)
(* length: the threads make the channels of PacketFlow, and the player     *)
(* gets to the end of a file only if it is interleaved closely enough.     *)
(***************************************************************************)
EXTENDS Playback, QueueLemmas

(* The file does not change, and its audio advances. *)
FileFits == file \in Files

(* What a stream's queue holds: the last of its packets that were read. *)
QueueFits(c) ==
  /\ queue[c] \in Seq(1..read) /\ Sorted(queue[c])
  /\ \A p \in Elems(queue[c]) : file[p].stream = c
  /\ \A p \in Elems(queue[c]), q \in 1..read :
       p < q /\ file[q].stream = c => q \in Elems(queue[c])

FrameFits ==
  /\ frame \in {NoPacket} \cup (Videos \cap 1..read)
  /\ frame # NoPacket =>
       /\ frame \notin Elems(queue["video"])
       /\ \A q \in Videos \cap 1..read : frame < q => q \in Elems(queue["video"])

Shape ==
  /\ FileFits
  /\ quit \in BOOLEAN /\ ended \in BOOLEAN
  /\ read \in 0..Len(file)
  /\ queue \in [Streams -> Seq(Nat)]
  /\ \A c \in Streams : QueueFits(c)
  /\ FrameFits
  /\ sdlq \in Nat /\ played \in Nat

(* The audio packets the audio thread has played, and the audio they hold. *)
PlayedOut == {a \in Audios : a <= read} \ Elems(queue["audio"])

SoundFits ==
  \/ PlayedOut = {} /\ sdlq + played = 0
  \/ \E a \in PlayedOut : sdlq + played = file[a].time /\ \A b \in PlayedOut : b <= a

(* The video packets that were read and not shown. *)
Waiting == Elems(queue["video"]) \cup ({frame} \ {NoPacket})

(* Packet j fills the video queue behind the frame of packet i. *)
Full(i, j) == Cardinality({k \in Videos : i < k /\ k <= j}) = MaxQueue

(* The reader is held back behind a frame that waits. *)
HeldBack == \A i \in Waiting, j \in Videos : Full(i, j) => read <= j

(* What was shown had its audio before the queue could fill behind it. *)
ShownInTime ==
  ~ quit => \A i \in (Videos \cap 1..read) \ Waiting, j \in Videos :
              Full(i, j) => HeardBefore(j, file[i].time - Tol)

PlayInv ==
  /\ Shape
  /\ SoundFits
  /\ HeldBack
  /\ ShownInTime
  /\ EndsOnlyIfInterleaved
-----------------------------------------------------------------------------
\* The empty queue.
LEMMA NothingQueued == Elems(<<>>) = {} /\ Sorted(<<>>)
<1>1. DOMAIN <<>> = {}
  OBVIOUS
<1> QED
  BY <1>1 DEF Elems, Sorted

\* What is left of a queue is one.
LEMMA TailInSeq == ASSUME NEW S, NEW q \in Seq(S), q # <<>> PROVE Tail(q) \in Seq(S)
  OBVIOUS

\* What a file is.
LEMMA FileFacts ==
  ASSUME FileFits
  PROVE  /\ Len(file) \in Nat /\ DOMAIN file = 1..Len(file)
         /\ \A i \in DOMAIN file : /\ file[i].stream \in {"audio", "video", "other"}
                                   /\ file[i].time \in Nat
         /\ Videos \subseteq 1..Len(file) /\ Audios \subseteq 1..Len(file)
         /\ Videos \cap Audios = {}
         /\ \A a, b \in Audios : a < b => file[a].time < file[b].time
<1>1. PICK n \in 0..MaxPackets : file \in [1..n -> PacketType] /\ AudioAdvances(file)
  BY DEF FileFits, Files
<1>2. n \in Nat /\ DOMAIN file = 1..n /\ file \in Seq(PacketType)
  BY <1>1, BoundsAssumption
<1>3. Len(file) \in Nat /\ DOMAIN file = 1..Len(file)
  BY <1>2
<1>4. ASSUME NEW p \in PacketType
      PROVE  p.stream \in {"audio", "video", "other"} /\ p.time \in Nat
  <2>1. CASE p \in [stream : {"audio"}, time : 1..MaxSound]
    BY <2>1, BoundsAssumption
  <2>2. CASE p \in [stream : {"video"}, time : 0..MaxPts]
    BY <2>2, BoundsAssumption
  <2>3. CASE p \in [stream : {"other"}, time : {0}]
    BY <2>3
  <2> QED
    BY <2>1, <2>2, <2>3 DEF PacketType
<1>5. \A i \in DOMAIN file : file[i] \in PacketType
  BY <1>1, <1>2
<1>6. \A a, b \in Audios : a < b => file[a].time < file[b].time
  BY <1>1 DEF AudioAdvances, Audios
<1>7. /\ Videos \subseteq 1..Len(file) /\ Audios \subseteq 1..Len(file)
      /\ Videos \cap Audios = {}
  BY <1>3 DEF Videos, Audios
<1> QED
  BY <1>3, <1>4, <1>5, <1>6, <1>7

\* What the queues are.
LEMMA QueueFacts ==
  ASSUME Shape
  PROVE  /\ read \in Nat /\ Len(file) \in Nat
         /\ \A c \in Streams : /\ queue[c] \in Seq(1..read) /\ queue[c] \in Seq(Nat)
                               /\ Len(queue[c]) \in Nat
                               /\ Elems(queue[c]) \subseteq 1..read
                               /\ Cardinality(Elems(queue[c])) \in Nat
                               /\ Cardinality(Elems(queue[c])) <= Len(queue[c])
                               /\ IsFiniteSet(Elems(queue[c]))
<1>1. read \in Nat /\ Len(file) \in Nat /\ 1..read \subseteq Nat
  BY FileFacts DEF Shape
<1>2. ASSUME NEW c \in Streams
      PROVE  /\ queue[c] \in Seq(1..read) /\ queue[c] \in Seq(Nat)
             /\ Len(queue[c]) \in Nat
             /\ Elems(queue[c]) \subseteq 1..read
             /\ Cardinality(Elems(queue[c])) \in Nat
             /\ Cardinality(Elems(queue[c])) <= Len(queue[c])
             /\ IsFiniteSet(Elems(queue[c]))
  <2>1. queue[c] \in Seq(1..read)
    BY DEF Shape, QueueFits
  <2>2. queue[c] \in Seq(Nat) /\ Elems(queue[c]) \subseteq 1..read
    BY <1>1, <2>1, SeqOfSubset
  <2>3. Len(queue[c]) \in Nat
    BY <2>1
  <2>4. IsFiniteSet(Elems(queue[c]))
    <3>1. IsFiniteSet(1..read)
      BY <1>1, FS_Interval
    <3> QED
      BY <2>2, <3>1, FS_Subset
  <2> QED
    BY <2>1, <2>2, <2>3, <2>4, ElemsFinite
<1> QED
  BY <1>1, <1>2

(* Behind a waiting frame there is no room for MaxQueue packets. *)
LEMMA RoomBehind ==
  ASSUME Shape, Room, NEW i \in Waiting, NEW j \in Videos, j <= read
  PROVE  ~ Full(i, j)
<1> DEFINE S == {k \in Videos : i < k /\ k <= j}
<1>1. S \subseteq Elems(queue["video"])
  <2> SUFFICES ASSUME NEW k \in S PROVE k \in Elems(queue["video"])
    OBVIOUS
  <2>1. k \in Videos \cap 1..read /\ file[k].stream = "video" /\ i < k
    BY FileFacts, QueueFacts DEF Shape, Videos
  <2>2. CASE i \in Elems(queue["video"])
    BY <2>1, <2>2 DEF Shape, QueueFits, Streams
  <2>3. CASE i = frame /\ frame # NoPacket
    BY <2>1, <2>3 DEF Shape, FrameFits
  <2> QED
    BY <2>2, <2>3 DEF Waiting
<1>2. Cardinality(S) <= Cardinality(Elems(queue["video"]))
  BY <1>1, QueueFacts, FS_Subset DEF Streams
<1>3. Cardinality(S) \in Nat
  BY <1>1, QueueFacts, FS_Subset, FS_CardinalityType DEF Streams
<1>4. Cardinality(Elems(queue["video"])) \in Nat /\ Len(queue["video"]) \in Nat
      /\ Cardinality(Elems(queue["video"])) <= Len(queue["video"])
  BY QueueFacts DEF Streams
<1>5. Len(queue["video"]) < MaxQueue /\ MaxQueue \in Nat
  BY QueueAssumption DEF Room, Streams
<1> QED
  BY <1>2, <1>3, <1>4, <1>5 DEF Full

\* The invariant holds at the start.
LEMMA PlayInit == Init => PlayInv
<1> SUFFICES ASSUME Init PROVE PlayInv
  OBVIOUS
<1>1. \A c \in Streams : queue[c] = <<>> /\ Elems(queue[c]) = {}
  BY DEF Init, Elems
<1>2. FileFits /\ Len(file) \in Nat
  BY FileFacts DEF Init, FileFits
<1>3. Shape
  <2>1. /\ read \in 0..Len(file) /\ sdlq \in Nat /\ played \in Nat
        /\ FrameFits
    BY <1>2 DEF Init, FrameFits
  <2>4. quit \in BOOLEAN /\ ended \in BOOLEAN
    BY Zenon DEF Init
  <2>2. queue \in [Streams -> Seq(Nat)]
    BY DEF Init
  <2>3. \A c \in Streams : QueueFits(c)
    <3> SUFFICES ASSUME NEW c \in Streams PROVE QueueFits(c)
      OBVIOUS
    <3>1. queue[c] \in Seq(1..read) /\ Sorted(queue[c])
      <4>1. <<>> \in Seq(1..read)
        OBVIOUS
      <4>3. Sorted(<<>>)
        BY NothingQueued
      <4>2. queue[c] = <<>>
        BY <1>1
      <4> QED
        BY <4>1, <4>2, <4>3
    <3> QED
      BY <1>1, <3>1 DEF QueueFits
  <2> QED
    BY <1>2, <2>1, <2>2, <2>3, <2>4 DEF Shape
<1>4. PlayedOut = {}
  BY <1>2, FileFacts DEF Init, PlayedOut
<1>5. Waiting = {}
  BY <1>1 DEF Init, Waiting, Streams
<1> QED
  BY <1>3, <1>4, <1>5 DEF Init, PlayInv, SoundFits, HeldBack, ShownInTime, EndsOnlyIfInterleaved

(* A packet of stream c is appended to its queue, or it is nobody's. *)
LEMMA ReadShape ==
  ASSUME Shape, ReadPacket
  PROVE  /\ Shape'
         /\ read' = read + 1 /\ read' \in 1..Len(file)
         /\ \A c \in Streams :
              Elems(queue[c])' = Elems(queue[c]) \cup
                                   {p \in {read'} : file[p].stream = c}
<1>1. /\ read' = read + 1 /\ read < Len(file)
      /\ UNCHANGED <<file, quit, ended, frame, sdlq, played>>
  BY DEF ReadPacket
<1>2. read' \in 1..Len(file) /\ read' \in Nat /\ read \in Nat
  BY <1>1, QueueFacts DEF Shape
<1>3. ASSUME NEW c \in Streams
      PROVE  /\ Elems(queue[c])' = Elems(queue[c]) \cup {p \in {read'} : file[p].stream = c}
             /\ QueueFits(c)' /\ queue'[c] \in Seq(Nat)
  <2>1. QueueFits(c) /\ Elems(queue[c]) \subseteq 1..read /\ queue[c] \in Seq(1..read)
        /\ queue[c] \in Seq(Nat)
    BY QueueFacts DEF Shape
  <2>2. CASE file[read'].stream = c
    <3>1. queue'[c] = Append(queue[c], read')
      BY <2>2 DEF ReadPacket
    <3>2. Elems(queue'[c]) = Elems(queue[c]) \cup {read'}
      BY <1>2, <2>1, <3>1, AppendElems
    <3>3. Sorted(queue'[c])
      <4>1. \A y \in Elems(queue[c]) : y < read'
        BY <1>1, <1>2, <2>1
      <4>2. Sorted(queue[c])
        BY <2>1 DEF QueueFits
      <4> QED
        BY <1>2, <2>1, <3>1, <4>1, <4>2, AppendSorted
    <3>4. queue[c] \in Seq(1..read')
      <4>1. 1..read \subseteq 1..read'
        BY <1>1, <1>2
      <4> QED
        BY <2>1, <4>1, SeqOfSubset
    <3>5. queue'[c] \in Seq(1..read')
      BY <1>2, <3>1, <3>4
    <3>6. queue'[c] \in Seq(Nat)
      BY <1>2, <2>1, <3>1
    <3>7. \A q \in 1..read' : q = read' \/ q \in 1..read
      BY <1>1, <1>2
    <3>8. \A p \in Elems(queue'[c]), q \in 1..read' :
             p < q /\ file[q].stream = c => q \in Elems(queue'[c])
      BY <1>1, <1>2, <2>1, <3>2, <3>7 DEF QueueFits
    <3>9. \A p \in Elems(queue'[c]) : file[p].stream = c
      BY <2>1, <2>2, <3>2 DEF QueueFits
    <3> QED
      BY <1>1, <2>2, <3>2, <3>3, <3>5, <3>6, <3>8, <3>9 DEF QueueFits, Elems, Sorted
  <2>3. CASE file[read'].stream # c
    <3>1. queue'[c] = queue[c]
      BY <2>3 DEF ReadPacket
    <3>2. Elems(queue[c])' = Elems(queue[c])
      BY <3>1 DEF Elems
    <3>4. queue[c] \in Seq(1..read')
      <4>1. 1..read \subseteq 1..read'
        BY <1>1, <1>2
      <4> QED
        BY <2>1, <4>1, SeqOfSubset
    <3>7. \A q \in 1..read' : q = read' \/ q \in 1..read
      BY <1>1, <1>2
    <3>8. \A p \in Elems(queue[c]), q \in 1..read' :
             p < q /\ file[q].stream = c => q \in Elems(queue[c])
      BY <2>1, <2>3, <3>7 DEF QueueFits
    <3> QED
      BY <1>1, <2>1, <2>3, <3>1, <3>2, <3>4, <3>8 DEF QueueFits, Sorted, Elems
  <2> QED
    BY <2>2, <2>3
<1>4. FrameFits'
  <2>1. Elems(queue["video"])' = Elems(queue["video"]) \cup
                                   {p \in {read'} : file[p].stream = "video"}
    BY <1>3 DEF Streams
  <2>2. Videos' = Videos /\ \A q \in 1..read' : q = read' \/ q \in 1..read
    BY <1>1, <1>2 DEF Videos
  <2>3. frame # NoPacket => frame \in 1..read
    BY DEF Shape, FrameFits
  <2>4. 1..read \subseteq 1..read' /\ read' \notin 1..read
    BY <1>1, <1>2
  <2>5. frame \in {NoPacket} \cup (Videos \cap 1..read')
    BY <2>4 DEF Shape, FrameFits
  <2>6. ASSUME frame # NoPacket
        PROVE  /\ frame \notin Elems(queue["video"])'
               /\ \A q \in Videos \cap 1..read' : frame < q => q \in Elems(queue["video"])'
    BY <2>1, <2>2, <2>3, <2>4, <2>6 DEF Shape, FrameFits, Videos
  <2> QED
    BY <1>1, <2>2, <2>5, <2>6 DEF FrameFits
<1>5. queue' \in [Streams -> Seq(Nat)]
  <2>1. DOMAIN queue' = Streams /\ queue' = [c \in Streams |-> queue'[c]]
    BY DEF ReadPacket
  <2> QED
    BY <1>3, <2>1
<1>6. Shape'
  <2>1. FileFits' /\ quit' \in BOOLEAN /\ ended' \in BOOLEAN /\ sdlq' \in Nat /\ played' \in Nat
    BY <1>1 DEF Shape, FileFits
  <2>2. read' \in 0..Len(file')
    BY <1>1, <1>2, FileFacts DEF Shape
  <2> QED
    BY <1>3, <1>4, <1>5, <2>1, <2>2 DEF Shape
<1> QED
  BY <1>1, <1>2, <1>3, <1>6

(* The head of a queue is taken from it. *)
LEMMA TakeShape ==
  ASSUME Shape, NEW c \in Streams, queue[c] # <<>>,
         queue' = [queue EXCEPT ![c] = Tail(@)], UNCHANGED <<file, read>>
  PROVE  /\ Head(queue[c]) \in 1..read /\ file[Head(queue[c])].stream = c
         /\ Elems(queue[c]) = {Head(queue[c])} \cup Elems(queue[c])'
         /\ \A y \in Elems(queue[c])' : Head(queue[c]) < y
         /\ \A d \in Streams \ {c} : queue'[d] = queue[d] /\ Elems(queue[d])' = Elems(queue[d])
         /\ \A d \in Streams : QueueFits(d)'
         /\ queue' \in [Streams -> Seq(Nat)]
<1>1. /\ queue'[c] = Tail(queue[c])
      /\ \A d \in Streams \ {c} : queue'[d] = queue[d]
  BY DEF Shape
<1>2. queue[c] \in Seq(Nat) /\ queue[c] \in Seq(1..read) /\ Sorted(queue[c])
      /\ Elems(queue[c]) \subseteq 1..read
  BY QueueFacts DEF Shape, QueueFits
<1>3. /\ Elems(queue[c]) = {Head(queue[c])} \cup Elems(Tail(queue[c]))
      /\ Sorted(Tail(queue[c]))
      /\ \A y \in Elems(Tail(queue[c])) : Head(queue[c]) < y
  BY <1>2, TailOfSorted
<1>4. Elems(queue[c])' = Elems(Tail(queue[c]))
  BY <1>1 DEF Elems
<1>5. QueueFits(c)'
  <2>1. Tail(queue[c]) \in Seq(1..read)
    BY <1>2, TailInSeq
  <2>2. \A p \in Elems(queue[c])' : file[p].stream = c
    BY <1>3, <1>4 DEF Shape, QueueFits
  <2>3. ASSUME NEW p \in Elems(queue[c])', NEW q \in 1..read, p < q, file[q].stream = c
        PROVE  q \in Elems(queue[c])'
    <3>1. q \in Elems(queue[c])
      BY <1>3, <1>4, <2>3 DEF Shape, QueueFits
    <3>2. Head(queue[c]) < p /\ Head(queue[c]) \in 1..read /\ p \in 1..read
      BY <1>2, <1>3, <1>4
    <3>3. q # Head(queue[c])
      BY <2>3, <3>2, QueueFacts
    <3> QED
      BY <1>3, <1>4, <3>1, <3>3
  <2>4. Sorted(queue'[c])
    BY <1>1, <1>3
  <2> QED
    BY <1>1, <2>1, <2>2, <2>3, <2>4 DEF QueueFits, Sorted
<1>6. \A d \in Streams \ {c} : Elems(queue[d])' = Elems(queue[d]) /\ QueueFits(d)'
  BY <1>1 DEF Elems, Shape, QueueFits, Sorted
<1>7. queue' \in [Streams -> Seq(Nat)]
  BY <1>2 DEF Shape
<1>8. Head(queue[c]) \in 1..read /\ file[Head(queue[c])].stream = c
  BY <1>2, <1>3 DEF Shape, QueueFits
<1> QED
  BY <1>1, <1>3, <1>4, <1>5, <1>6, <1>7, <1>8

(* Steps that leave file, packets read and queues alone keep their shape. *)
LEMMA SameShape ==
  ASSUME Shape, UNCHANGED <<file, read, queue, frame>>,
         quit' \in BOOLEAN, ended' \in BOOLEAN, sdlq' \in Nat, played' \in Nat
  PROVE  Shape' /\ PlayedOut' = PlayedOut /\ Waiting' = Waiting /\ (HeldBack => HeldBack')
<1>1. \A c \in Streams : QueueFits(c)' /\ Elems(queue[c])' = Elems(queue[c])
  BY DEF Shape, QueueFits, Sorted, Elems
<1>2. Videos' = Videos /\ Audios' = Audios /\ \A i, j : Full(i, j)' <=> Full(i, j)
  BY DEF Videos, Audios, Full
<1>3. FrameFits'
  BY <1>1, <1>2 DEF Shape, FrameFits, Streams
<1>4. Shape'
  BY <1>1, <1>3 DEF Shape, FileFits
<1> QED
  BY <1>1, <1>2, <1>4 DEF PlayedOut, Waiting, HeldBack, Streams

(* What depends on the file alone does not change. *)
LEMMA SameFile ==
  ASSUME UNCHANGED file
  PROVE  /\ Videos' = Videos /\ Audios' = Audios
         /\ \A i, j : Full(i, j)' <=> Full(i, j)
         /\ \A i, t : HeardBefore(i, t)' <=> HeardBefore(i, t)
         /\ Interleaved' <=> Interleaved
BY DEF Videos, Audios, Full, HeardBefore, Interleaved

\* Reading a packet keeps the invariant.
LEMMA ReadStep == ASSUME PlayInv, ReadPacket PROVE PlayInv'
<1>1. Shape /\ SoundFits /\ HeldBack /\ ShownInTime /\ EndsOnlyIfInterleaved
  BY DEF PlayInv
<1>2. /\ UNCHANGED <<file, quit, ended, frame, sdlq, played>> /\ Room /\ ~ quit
  BY DEF ReadPacket
<1>3. /\ Shape'
      /\ read' = read + 1 /\ read' \in 1..Len(file)
      /\ \A c \in Streams : Elems(queue[c])' = Elems(queue[c]) \cup {p \in {read'} : file[p].stream = c}
  BY <1>1, ReadShape
<1>4. read \in Nat /\ read' \in Nat /\ Len(file) \in Nat
  BY <1>1, <1>3, QueueFacts
<1>5. /\ Videos' = Videos /\ Audios' = Audios
      /\ \A i, j : Full(i, j)' <=> Full(i, j)
      /\ \A i, t : HeardBefore(i, t)' <=> HeardBefore(i, t)
      /\ Interleaved' <=> Interleaved
  BY <1>2, SameFile
<1>6. Videos \subseteq 1..Len(file) /\ Audios \subseteq 1..Len(file) /\ DOMAIN file = 1..Len(file)
  BY <1>1, FileFacts DEF Shape
<1>7. SoundFits'
  <2>1. PlayedOut' = PlayedOut
    <3>1. ASSUME NEW a PROVE a \in PlayedOut' <=> a \in PlayedOut
      <4>1. Elems(queue["audio"])' = Elems(queue["audio"]) \cup {p \in {read'} : file[p].stream = "audio"}
        BY <1>3 DEF Streams
      <4>2. CASE a \in Audios /\ a <= read
        BY <1>3, <1>4, <1>5, <1>6, <4>1, <4>2 DEF PlayedOut
      <4>3. CASE a \in Audios /\ ~ (a <= read)
        <5>1. a <= read' => a = read' /\ file[a].stream = "audio"
          BY <1>3, <1>4, <1>6, <4>3 DEF Audios
        <5> QED
          BY <1>5, <4>1, <4>3, <5>1 DEF PlayedOut
      <4>4. CASE a \notin Audios
        BY <1>5, <4>4 DEF PlayedOut
      <4> QED
        BY <4>2, <4>3, <4>4
    <3> QED
      BY <3>1
  <2> QED
    BY <1>1, <1>2, <2>1 DEF SoundFits
<1>8. Waiting' = Waiting \cup ({read'} \cap Videos)
  <2>1. Elems(queue["video"])' = Elems(queue["video"]) \cup {p \in {read'} : file[p].stream = "video"}
    BY <1>3 DEF Streams
  <2> QED
    BY <1>2, <1>3, <1>6, <2>1 DEF Waiting, Videos
<1>9. HeldBack'
  <2> SUFFICES ASSUME NEW i \in Waiting', NEW j \in Videos, Full(i, j) PROVE read' <= j
    BY <1>5 DEF HeldBack
  <2>1. j \in Nat
    BY <1>4, <1>6
  <2>2. CASE i \in Waiting
    <3>1. read <= j
      BY <1>1, <2>2 DEF HeldBack
    <3>2. ~ (j <= read)
      BY <1>1, <1>2, <2>2, RoomBehind
    <3> QED
      BY <1>3, <1>4, <2>1, <3>1, <3>2
  <2>3. CASE i = read'
    <3>1. CASE {k \in Videos : i < k /\ k <= j} = {}
      <4>1. MaxQueue = 0
        BY <3>1, FS_EmptySet DEF Full
      <4> QED
        BY <4>1, QueueAssumption
    <3>2. CASE {k \in Videos : i < k /\ k <= j} # {}
      <4>1. PICK k \in Videos : i < k /\ k <= j
        BY <3>2
      <4>2. k \in Nat
        BY <1>6
      <4> QED
        BY <1>4, <2>1, <2>3, <4>1, <4>2
    <3> QED
      BY <3>1, <3>2
  <2> QED
    BY <1>8, <2>2, <2>3
<1>10. ShownInTime'
  <2>1. (Videos \cap 1..read') \ Waiting' = (Videos \cap 1..read) \ Waiting
    <3>1. \A q \in 1..read' : q = read' \/ q \in 1..read
      BY <1>3, <1>4
    <3>2. 1..read \subseteq 1..read' /\ read' \notin 1..read
      BY <1>3, <1>4
    <3> QED
      BY <1>8, <3>1, <3>2
  <2> QED
    BY <1>1, <1>2, <1>5, <2>1 DEF ShownInTime
<1>11. EndsOnlyIfInterleaved'
  BY <1>1, <1>2, <1>5 DEF EndsOnlyIfInterleaved
<1> QED
  BY <1>3, <1>7, <1>9, <1>10, <1>11 DEF PlayInv

\* So does the end of the file, which needs room in the queues.
LEMMA EndOfFileStep == ASSUME PlayInv, EndOfFile PROVE PlayInv'
<1>1. Shape /\ SoundFits /\ HeldBack /\ ShownInTime
  BY DEF PlayInv
<1>2. /\ UNCHANGED <<file, read, queue, frame, sdlq, played>>
      /\ Room /\ ~ quit /\ read = Len(file) /\ quit' = TRUE /\ ended' = TRUE
  BY DEF EndOfFile
<1>3. Shape' /\ PlayedOut' = PlayedOut /\ Waiting' = Waiting /\ HeldBack'
  BY <1>1, <1>2, SameShape DEF Shape
<1>4. SoundFits'
  BY <1>1, <1>2, <1>3 DEF SoundFits
<1>5. Interleaved
  <2> SUFFICES ASSUME NEW i \in Videos, NEW j \in Videos, Full(i, j)
               PROVE  HeardBefore(j, file[i].time - Tol)
    BY DEF Interleaved, Full
  <2>1. i \in 1..read /\ j \in 1..read /\ read \in Nat
    BY <1>1, <1>2, FileFacts, QueueFacts DEF Shape
  <2>2. i \notin Waiting
    BY <1>1, <1>2, <2>1, RoomBehind
  <2> QED
    BY <1>1, <1>2, <2>1, <2>2 DEF ShownInTime
<1>6. Interleaved'
  BY <1>2, <1>5, SameFile
<1> QED
  BY <1>2, <1>3, <1>4, <1>6 DEF PlayInv, ShownInTime, EndsOnlyIfInterleaved

\* Nothing but the clock and the flags changes.
LEMMA QuietStep == ASSUME PlayInv, UserQuits \/ DevicePlays \/ UNCHANGED vars PROVE PlayInv'
<1>1. Shape /\ SoundFits /\ HeldBack /\ ShownInTime /\ EndsOnlyIfInterleaved
  BY DEF PlayInv
<1>2. /\ UNCHANGED <<file, read, queue, frame, ended>> /\ quit' \in BOOLEAN
      /\ quit' = quit \/ quit'
  BY <1>1, Zenon DEF UserQuits, DevicePlays, vars, Shape
<1>3. sdlq' \in Nat /\ played' \in Nat /\ sdlq' + played' = sdlq + played
  BY <1>1 DEF UserQuits, DevicePlays, vars, Shape
<1>4. ended' \in BOOLEAN
  BY <1>1, <1>2, Zenon DEF Shape
<1>5. Shape' /\ PlayedOut' = PlayedOut /\ Waiting' = Waiting /\ HeldBack'
  BY <1>1, <1>2, <1>3, <1>4, SameShape
<1>6. /\ Videos' = Videos
      /\ \A i, j : Full(i, j)' <=> Full(i, j)
      /\ \A i, t : HeardBefore(i, t)' <=> HeardBefore(i, t)
      /\ Interleaved' <=> Interleaved
  BY <1>2, SameFile
<1>7. SoundFits'
  BY <1>1, <1>2, <1>3, <1>5 DEF SoundFits
<1>8. ShownInTime'
  BY <1>1, <1>2, <1>5, <1>6 DEF ShownInTime
<1>9. EndsOnlyIfInterleaved'
  BY <1>1, <1>2, <1>6 DEF EndsOnlyIfInterleaved
<1> QED
  BY <1>5, <1>7, <1>8, <1>9 DEF PlayInv

\* What the head of the audio queue adds to what was played before.
LEMMA LengthOfHead ==
  ASSUME Shape, SoundFits, queue["audio"] # <<>>,
         NEW h, h = Head(queue["audio"]), h \in Audios, h <= read,
         Elems(queue["audio"]) \subseteq 1..read,
         \A y \in Elems(queue["audio"]) : h <= y, h \in Elems(queue["audio"])
  PROVE  /\ sdlq + played + Length(h) = file[h].time
         /\ Length(h) \in Nat
         /\ \A b \in PlayedOut : b < h
<1> DEFINE before == {b \in Audios : b < h}
<1>1. Audios \subseteq Nat /\ h \in Nat /\ read \in Nat /\ \A a \in Audios : file[a].time \in Nat
  BY FileFacts, QueueFacts DEF Shape
<1>2. before = PlayedOut
  <2>1. ASSUME NEW b \in Audios, b < h PROVE b \in PlayedOut
    <3>1. b <= read /\ b \notin Elems(queue["audio"])
      BY <1>1, <2>1
    <3> QED
      BY <3>1 DEF PlayedOut
  <2>2. ASSUME NEW b \in PlayedOut PROVE b \in Audios /\ b < h
    <3>1. b \in Audios /\ b <= read /\ b \notin Elems(queue["audio"]) /\ b \in 1..read
      BY <1>1, FileFacts DEF PlayedOut, Shape
    <3>2. file[b].stream = "audio"
      BY <3>1 DEF Audios
    <3>3. ~ (h < b)
      BY <3>1, <3>2 DEF Shape, QueueFits, Streams
    <3> QED
      BY <1>1, <3>1, <3>3
  <2> QED
    BY <2>1, <2>2
<1>3. sdlq \in Nat /\ played \in Nat
  BY DEF Shape
<1>4. CASE PlayedOut = {}
  <2>1. Length(h) = file[h].time - 0
    BY <1>2, <1>4 DEF Length
  <2> QED
    BY <1>1, <1>3, <1>4, <2>1 DEF SoundFits
<1>5. CASE PlayedOut # {}
  <2>1. PICK a \in PlayedOut : sdlq + played = file[a].time /\ \A b \in PlayedOut : b <= a
    BY <1>5 DEF SoundFits
  <2>2. \A x \in before : x \in Nat
    BY <1>1
  <2>3. Max(before) = a
    <3>1. a \in before /\ \A b \in before : a >= b
      BY <1>1, <1>2, <2>1
    <3>2. Max(before) \in before /\ \A b \in before : Max(before) >= b
      BY <3>1 DEF Max
    <3>3. a \in Nat /\ Max(before) \in Nat
      BY <2>2, <3>1, <3>2
    <3>4. a >= Max(before) /\ Max(before) >= a
      BY <3>1, <3>2
    <3> QED
      BY <3>3, <3>4
  <2>4. Length(h) = file[h].time - file[a].time
    BY <1>2, <1>5, <2>3 DEF Length
  <2>5. file[a].time < file[h].time /\ a \in Audios
    BY <1>2, <2>1, FileFacts DEF Shape
  <2>6. file[a].time \in Nat /\ file[h].time \in Nat
    BY <1>1, <2>5
  <2>7. sdlq + played + Length(h) = file[h].time /\ Length(h) \in Nat
    BY <1>3, <2>1, <2>4, <2>5, <2>6
  <2> QED
    BY <1>2, <2>7
<1> QED
  BY <1>2, <1>4, <1>5

\* So does the audio thread,
LEMMA AudioStep == ASSUME PlayInv, PlayAudio PROVE PlayInv'
<1> DEFINE h == Head(queue["audio"])
<1>1. Shape /\ SoundFits /\ HeldBack /\ ShownInTime /\ EndsOnlyIfInterleaved
  BY DEF PlayInv
<1>2. /\ UNCHANGED <<file, quit, read, ended, frame, played>>
      /\ queue["audio"] # <<>> /\ sdlq' = sdlq + Length(h)
      /\ queue' = [queue EXCEPT !["audio"] = Tail(@)]
  BY DEF PlayAudio
<1>3. /\ h \in 1..read /\ file[h].stream = "audio"
      /\ Elems(queue["audio"]) = {h} \cup Elems(queue["audio"])'
      /\ \A y \in Elems(queue["audio"])' : h < y
      /\ Elems(queue["video"])' = Elems(queue["video"])
      /\ \A d \in Streams : QueueFits(d)'
      /\ queue' \in [Streams -> Seq(Nat)]
  BY <1>1, <1>2, TakeShape DEF Streams
<1>4. /\ Videos' = Videos /\ Audios' = Audios
      /\ \A i, j : Full(i, j)' <=> Full(i, j)
      /\ \A i, t : HeardBefore(i, t)' <=> HeardBefore(i, t)
      /\ Interleaved' <=> Interleaved
  BY <1>2, SameFile
<1>5. /\ read \in Nat /\ h \in Nat /\ h \in Audios /\ h <= read
      /\ h \in Elems(queue["audio"]) /\ h \notin Elems(queue["audio"])'
      /\ Elems(queue["audio"]) \subseteq 1..read /\ \A y \in Elems(queue["audio"]) : h <= y
  <2>1. read \in Nat /\ read \in 0..Len(file) /\ DOMAIN file = 1..Len(file) /\ Len(file) \in Nat
    BY <1>1, FileFacts, QueueFacts DEF Shape
  <2>2. h \in Audios
    BY <1>3, <2>1 DEF Audios
  <2>3. Elems(queue["audio"]) \subseteq 1..read
    BY <1>1, QueueFacts DEF Streams
  <2>4. h \in Nat /\ h <= read
    BY <1>3, <2>1
  <2>5. h \notin Elems(queue["audio"])'
    BY <1>3, <2>4
  <2>6. \A y \in Elems(queue["audio"]) : h <= y
    BY <1>3, <2>4, <2>3, <2>1
  <2> QED
    BY <1>3, <2>1, <2>2, <2>3, <2>4, <2>5, <2>6
<1>6. /\ sdlq + played + Length(h) = file[h].time /\ Length(h) \in Nat
      /\ \A b \in PlayedOut : b < h
  BY <1>1, <1>2, <1>5, LengthOfHead
<1>7. sdlq' \in Nat /\ played' \in Nat /\ sdlq' + played' = file[h].time
  <2>1. sdlq \in Nat /\ played \in Nat
    BY <1>1 DEF Shape
  <2> QED
    BY <1>2, <1>6, <2>1
<1>8. PlayedOut' = PlayedOut \cup {h}
  BY <1>2, <1>3, <1>4, <1>5 DEF PlayedOut
<1>9. SoundFits'
  <2>1. \A b \in PlayedOut' : b <= h
    <3>1. \A b \in PlayedOut : b \in Nat
      BY <1>1, FileFacts DEF PlayedOut, Shape
    <3> QED
      BY <1>5, <1>6, <1>8, <3>1
  <2> QED
    BY <1>2, <1>7, <1>8, <2>1 DEF SoundFits
<1>10. FrameFits'
  BY <1>1, <1>2, <1>3, <1>4 DEF Shape, FrameFits
<1>11. Shape'
  BY <1>1, <1>2, <1>3, <1>7, <1>10 DEF Shape, FileFits
<1>12. Waiting' = Waiting
  BY <1>2, <1>3 DEF Waiting
<1>13. HeldBack' /\ ShownInTime' /\ EndsOnlyIfInterleaved'
  BY <1>1, <1>2, <1>4, <1>12 DEF HeldBack, ShownInTime, EndsOnlyIfInterleaved
<1> QED
  BY <1>9, <1>11, <1>13 DEF PlayInv

\* the video thread as it takes a packet,
LEMMA TakeVideoStep == ASSUME PlayInv, TakeVideo PROVE PlayInv'
<1> DEFINE h == Head(queue["video"])
<1>1. Shape /\ SoundFits /\ HeldBack /\ ShownInTime /\ EndsOnlyIfInterleaved
  BY DEF PlayInv
<1>2. /\ UNCHANGED <<file, quit, read, ended, sdlq, played>>
      /\ frame = NoPacket /\ frame' = h
      /\ queue["video"] # <<>>
      /\ queue' = [queue EXCEPT !["video"] = Tail(@)]
  BY DEF TakeVideo
<1>3. /\ h \in 1..read /\ file[h].stream = "video"
      /\ Elems(queue["video"]) = {h} \cup Elems(queue["video"])'
      /\ \A y \in Elems(queue["video"])' : h < y
      /\ Elems(queue["audio"])' = Elems(queue["audio"])
      /\ \A d \in Streams : QueueFits(d)'
      /\ queue' \in [Streams -> Seq(Nat)]
  BY <1>1, <1>2, TakeShape DEF Streams
<1>4. /\ Videos' = Videos /\ Audios' = Audios
      /\ \A i, j : Full(i, j)' <=> Full(i, j)
      /\ \A i, t : HeardBefore(i, t)' <=> HeardBefore(i, t)
      /\ Interleaved' <=> Interleaved
  BY <1>2, SameFile
<1>5. read \in Nat /\ h \in Nat /\ h # NoPacket /\ h \in Videos
  <2>1. read \in Nat /\ read \in 0..Len(file) /\ DOMAIN file = 1..Len(file) /\ Len(file) \in Nat
    BY <1>1, FileFacts, QueueFacts DEF Shape
  <2> QED
    BY <1>3, <2>1 DEF Videos, NoPacket
<1>6. Waiting' = Waiting
  BY <1>2, <1>3, <1>5 DEF Waiting
<1>7. FrameFits'
  <2>1. h \notin Elems(queue["video"])'
    BY <1>3, <1>5
  <2>2. ASSUME NEW q \in Videos \cap 1..read, h < q PROVE q \in Elems(queue["video"])'
    <3>1. q \in Elems(queue["video"])
      BY <1>1, <1>3, <2>2 DEF Shape, QueueFits, Streams, Videos
    <3>2. q # h
      BY <1>5, <2>2
    <3> QED
      BY <1>3, <3>1, <3>2
  <2> QED
    BY <1>2, <1>3, <1>4, <1>5, <2>1, <2>2 DEF FrameFits
<1>8. Shape'
  BY <1>1, <1>2, <1>3, <1>7 DEF Shape, FileFits
<1>9. SoundFits'
  BY <1>1, <1>2, <1>3, <1>4 DEF SoundFits, PlayedOut
<1>10. HeldBack' /\ ShownInTime' /\ EndsOnlyIfInterleaved'
  BY <1>1, <1>2, <1>4, <1>6 DEF HeldBack, ShownInTime, EndsOnlyIfInterleaved
<1> QED
  BY <1>8, <1>9, <1>10 DEF PlayInv

\* and as it shows a frame.
LEMMA ShowStep == ASSUME PlayInv, ShowVideo PROVE PlayInv'
<1>1. Shape /\ SoundFits /\ HeldBack /\ ShownInTime /\ EndsOnlyIfInterleaved
  BY DEF PlayInv
<1>2. /\ UNCHANGED <<file, quit, read, ended, queue, sdlq, played>>
      /\ frame # NoPacket /\ frame' = NoPacket
      /\ quit \/ ~ AheadOf(played + sdlq)
  BY DEF ShowVideo
<1>3. /\ Videos' = Videos /\ Audios' = Audios
      /\ \A i, j : Full(i, j)' <=> Full(i, j)
      /\ \A i, t : HeardBefore(i, t)' <=> HeardBefore(i, t)
      /\ Interleaved' <=> Interleaved
  BY <1>2, SameFile
<1>4. \A c \in Streams : QueueFits(c)' /\ Elems(queue[c])' = Elems(queue[c])
  BY <1>1, <1>2 DEF Shape, QueueFits, Sorted, Elems
<1>5. Shape'
  BY <1>1, <1>2, <1>4 DEF Shape, FileFits, FrameFits
<1>6. SoundFits'
  BY <1>1, <1>2, <1>3, <1>4 DEF SoundFits, PlayedOut, Streams
<1>7. Waiting = Waiting' \cup {frame} /\ Waiting' \subseteq Waiting
  BY <1>2, <1>4 DEF Waiting, Streams
<1>8. HeldBack'
  BY <1>1, <1>2, <1>3, <1>7 DEF HeldBack
<1>9. ShownInTime'
  <2> SUFFICES ASSUME ~ quit, NEW j \in Videos, Full(frame, j)
               PROVE  HeardBefore(j, file[frame].time - Tol)
    BY <1>1, <1>2, <1>3, <1>7 DEF ShownInTime
  <2>1. frame \in Videos /\ read <= j
    BY <1>1, <1>2, <1>7 DEF HeldBack, Shape, FrameFits
  <2>2. /\ file[frame].time \in Nat /\ sdlq \in Nat /\ played \in Nat /\ Tol \in Nat
        /\ read \in Nat /\ j \in Nat
    BY <1>1, <2>1, FileFacts, QueueFacts, TolAssumption DEF Shape
  <2>3. file[frame].time - Tol <= sdlq + played
    BY <1>2, <2>2 DEF AheadOf
  <2>4. CASE sdlq + played = 0
    BY <2>2, <2>3, <2>4 DEF HeardBefore
  <2>5. CASE sdlq + played # 0
    <3>1. PICK a \in PlayedOut : sdlq + played = file[a].time
      BY <1>1, <2>5 DEF SoundFits
    <3>2. a \in Audios /\ a <= read /\ a \in Nat /\ a # j
      BY <1>1, <3>1, FileFacts DEF PlayedOut, Shape
    <3>3. a < j
      BY <2>1, <2>2, <3>2
    <3>4. file[frame].time - Tol <= file[a].time
      BY <2>3, <3>1
    <3> QED
      BY <3>2, <3>3, <3>4 DEF HeardBefore
  <2> QED
    BY <2>4, <2>5
<1>10. EndsOnlyIfInterleaved'
  BY <1>1, <1>2, <1>3 DEF EndsOnlyIfInterleaved
<1> QED
  BY <1>5, <1>6, <1>8, <1>9, <1>10 DEF PlayInv

\* The invariant holds always.
LEMMA PlayInvariance == Spec => []PlayInv
<1>1. PlayInv /\ [Next]_vars => PlayInv'
  BY ReadStep, EndOfFileStep, QuietStep, AudioStep, TakeVideoStep, ShowStep DEF Next, Terminated
<1> QED
  BY PlayInit, <1>1, PTL DEF Spec
-----------------------------------------------------------------------------
(* What was read and is not played waits for it, as long as playback goes on. *)
DoneFits ==
  /\ done \subseteq 1..read
  /\ ~ quit => /\ (Audios \cap 1..read) \ done \subseteq Elems(queue["audio"])
               /\ (Videos \cap 1..read) \ done \subseteq Waiting

TailInv == DoneFits /\ (ended => quit) /\ EndDropsOnlyTail

\* Every step keeps DoneFits.
LEMMA DoneStep == PlayInv /\ DoneFits /\ [Next]_vars => DoneFits'
<1> SUFFICES ASSUME PlayInv, DoneFits, [Next]_vars PROVE DoneFits'
  OBVIOUS
<1>1. Shape /\ read \in Nat
  BY QueueFacts DEF PlayInv
<1>2. CASE ReadPacket
  <2>1. /\ read' = read + 1
        /\ \A c \in Streams :
             Elems(queue[c])' = Elems(queue[c]) \cup {p \in {read'} : file[p].stream = c}
    BY <1>1, <1>2, ReadShape
  <2>2. UNCHANGED <<file, quit, frame, done>> /\ ~ quit
    BY <1>2 DEF ReadPacket
  <2>3. Videos' = Videos /\ Audios' = Audios
    BY <2>2, SameFile
  <2>4. \A q \in 1..read' : q = read' \/ q \in 1..read
    BY <1>1, <2>1
  <2>5. 1..read \subseteq 1..read'
    BY <1>1, <2>1
  <2>6. /\ \A q \in Audios : file[q].stream = "audio"
        /\ \A q \in Videos : file[q].stream = "video"
    BY DEF Audios, Videos
  <2> QED
    BY <2>1, <2>2, <2>3, <2>4, <2>5, <2>6 DEF DoneFits, Waiting, Streams
<1>3. CASE EndOfFile \/ UserQuits
  BY <1>3 DEF EndOfFile, UserQuits, DoneFits
<1>4. CASE DevicePlays \/ UNCHANGED vars
  BY <1>4 DEF DevicePlays, vars, DoneFits, Audios, Videos, Waiting, Elems
<1>5. CASE PlayAudio
  <2>1. /\ UNCHANGED <<file, quit, read, frame>>
        /\ done' = done \cup {Head(queue["audio"])}
    BY <1>5 DEF PlayAudio
  <2>2. /\ Head(queue["audio"]) \in 1..read
        /\ Elems(queue["audio"]) = {Head(queue["audio"])} \cup Elems(queue["audio"])'
        /\ Elems(queue["video"])' = Elems(queue["video"])
    BY <1>1, <1>5, TakeShape DEF PlayAudio, Streams
  <2>3. Videos' = Videos /\ Audios' = Audios
    BY <2>1, SameFile
  <2> QED
    BY <2>1, <2>2, <2>3 DEF DoneFits, Waiting
<1>6. CASE TakeVideo
  <2>1. /\ UNCHANGED <<file, quit, read, done>> /\ frame = NoPacket
        /\ frame' = Head(queue["video"])
    BY <1>6 DEF TakeVideo
  <2>2. /\ Head(queue["video"]) \in 1..read
        /\ Elems(queue["video"]) = {Head(queue["video"])} \cup Elems(queue["video"])'
        /\ Elems(queue["audio"])' = Elems(queue["audio"])
    BY <1>1, <1>6, TakeShape DEF TakeVideo, Streams
  <2>3. frame' # NoPacket
    BY <1>1, <2>1, <2>2 DEF NoPacket
  <2>4. Waiting' = Waiting
    BY <2>1, <2>2, <2>3 DEF Waiting
  <2>5. Videos' = Videos /\ Audios' = Audios
    BY <2>1, SameFile
  <2> QED
    BY <2>1, <2>2, <2>4, <2>5 DEF DoneFits
<1>7. CASE ShowVideo
  <2>1. /\ UNCHANGED <<file, quit, read, queue>> /\ frame # NoPacket
        /\ done' = IF quit THEN done ELSE done \cup {frame}
    BY <1>7 DEF ShowVideo
  <2>2. frame \in 1..read
    BY <1>1, <2>1 DEF Shape, FrameFits
  <2>3. \A c \in Streams : Elems(queue[c])' = Elems(queue[c])
    BY <2>1 DEF Elems
  <2>4. Videos' = Videos /\ Audios' = Audios
    BY <2>1, SameFile
  <2> QED
    BY <2>1, <2>2, <2>3, <2>4 DEF DoneFits, Waiting, Streams
<1> QED
  BY <1>2, <1>3, <1>4, <1>5, <1>6, <1>7 DEF Next, Terminated

\* Where there is room in both queues, few packets of those read are not played.
LEMMA TailIsShort == ASSUME PlayInv, DoneFits, EndOfFile PROVE OnlyTailLeft
<1> SUFFICES ASSUME NEW i \in (Videos \cup Audios) \ done
             PROVE  Cardinality(Rest(i)) <= MaxQueue
  BY DEF OnlyTailLeft
<1>1. Shape /\ Room /\ ~ quit /\ read = Len(file) /\ read \in Nat /\ DOMAIN file = 1..read
  BY FileFacts, QueueFacts DEF PlayInv, EndOfFile, Shape
<1>2. i \in 1..read
  BY <1>1, FileFacts DEF Shape
<1>3. PICK c \in Streams : file[i].stream = c /\ (c = "audio" => i \in Audios)
                                            /\ (c = "video" => i \in Videos)
  BY DEF Streams, Videos, Audios
<1>4. Rest(i) \subseteq Elems(queue[c]) \cup {i}
  <2> SUFFICES ASSUME NEW j \in 1..read, i < j, file[j].stream = c
               PROVE  j \in Elems(queue[c])
    BY <1>1, <1>2, <1>3 DEF Rest
  <2>1. CASE i \in Elems(queue[c])
    BY <1>1, <2>1 DEF Shape, QueueFits
  <2>2. CASE i \notin Elems(queue[c])
    <3>1. c = "video" /\ i = frame /\ frame # NoPacket
      BY <1>1, <1>2, <1>3, <2>2 DEF DoneFits, Waiting, Streams
    <3>2. j \in Videos
      BY <1>1, <3>1 DEF Videos
    <3> QED
      BY <1>1, <3>1, <3>2 DEF Shape, FrameFits
  <2> QED
    BY <2>1, <2>2
<1>5. /\ IsFiniteSet(Elems(queue[c])) /\ Cardinality(Elems(queue[c])) \in Nat
      /\ Cardinality(Elems(queue[c])) <= Len(queue[c]) /\ Len(queue[c]) \in Nat
      /\ Len(queue[c]) < MaxQueue /\ MaxQueue \in Nat
  BY <1>1, QueueFacts, QueueAssumption DEF Room
<1>6. /\ IsFiniteSet(Elems(queue[c]) \cup {i})
      /\ Cardinality(Elems(queue[c]) \cup {i}) <= Cardinality(Elems(queue[c])) + 1
      /\ Cardinality(Elems(queue[c]) \cup {i}) \in Nat
  <2>1. PICK E : E = Elems(queue[c])
    OBVIOUS
  <2>2. /\ IsFiniteSet(E \cup {i})
        /\ \/ Cardinality(E \cup {i}) = Cardinality(E)
           \/ Cardinality(E \cup {i}) = Cardinality(E) + 1
    BY <1>5, <2>1, FS_AddElement
  <2> QED
    BY <1>5, <2>1, <2>2
<1>7. /\ Cardinality(Rest(i)) <= Cardinality(Elems(queue[c]) \cup {i})
      /\ Cardinality(Rest(i)) \in Nat
  BY <1>4, <1>6, FS_Subset, FS_CardinalityType
<1> QED
  BY <1>5, <1>6, <1>7

\* So the tail is all that is dropped, always.
LEMMA TailInvariance == Spec => []TailInv
<1>1. Init => TailInv
  BY DEF Init, TailInv, DoneFits, EndDropsOnlyTail
<1>2. PlayInv /\ TailInv /\ [Next]_vars => TailInv'
  <2> SUFFICES ASSUME PlayInv, TailInv, [Next]_vars PROVE TailInv'
    OBVIOUS
  <2>1. DoneFits'
    BY DoneStep DEF TailInv
  <2>2. CASE EndOfFile
    <3>1. UNCHANGED <<file, read, done>> /\ read = Len(file) /\ quit'
      BY <2>2 DEF EndOfFile
    <3>2. OnlyTailLeft
      BY <2>2, TailIsShort DEF TailInv
    <3>3. OnlyTailLeft'
      BY <3>1, <3>2 DEF OnlyTailLeft, Rest, Videos, Audios
    <3> QED
      BY <2>1, <3>1, <3>3 DEF TailInv, EndDropsOnlyTail
  <2>3. CASE ~ EndOfFile /\ ended
    <3>1. UNCHANGED <<file, read, done, ended, quit>>
      BY <2>3 DEF TailInv, Next, ReadPacket, UserQuits, PlayAudio, DevicePlays, TakeVideo,
                  ShowVideo, Terminated, vars
    <3> QED
      BY <2>1, <3>1 DEF TailInv, EndDropsOnlyTail, OnlyTailLeft, Rest, Videos, Audios
  <2>4. CASE ~ EndOfFile /\ ~ ended
    <3>1. ~ ended'
      BY <2>4 DEF Next, ReadPacket, UserQuits, PlayAudio, DevicePlays, TakeVideo,
                  ShowVideo, Terminated, vars
    <3> QED
      BY <2>1, <3>1 DEF TailInv, EndDropsOnlyTail
  <2> QED
    BY <2>2, <2>3, <2>4
<1> QED
  BY PlayInvariance, <1>1, <1>2, PTL DEF Spec

(* For queues of any capacity and files of any length: when the reader meets
   the end of the file, every packet was shown or handed to SDL but for the
   last of each stream, no more than a queue holds (lines 216, 251, 294). *)
THEOREM OnlyTailIsDropped == Spec => []EndDropsOnlyTail
<1>1. TailInv => EndDropsOnlyTail
  BY DEF TailInv
<1> QED
  BY TailInvariance, <1>1, PTL
-----------------------------------------------------------------------------
(* Every variable keeps its type, and the audio that came out was in packets
   that were read, however the threads and the device interleave.          *)
THEOREM TypeCorrect == Spec => []TypeOK
<1>1. PlayInv /\ TailInv => TypeOK
  <2> SUFFICES ASSUME PlayInv, TailInv PROVE TypeOK
    OBVIOUS
  <2>1. Shape /\ SoundFits
    BY DEF PlayInv
  <2>2. queue \in [Streams -> Seq(1..read)]
    <3>1. \A c \in Streams : queue[c] \in Seq(1..read)
      BY <2>1, QueueFacts
    <3>2. queue = [c \in Streams |-> queue[c]]
      BY <2>1 DEF Shape
    <3> QED
      BY <3>1, <3>2
  <2>3. HeardBefore(read + 1, sdlq + played)
    <3>1. CASE sdlq + played = 0
      BY <3>1 DEF HeardBefore
    <3>2. CASE sdlq + played # 0
      <4>1. PICK a \in PlayedOut : sdlq + played = file[a].time
        BY <2>1, <3>2 DEF SoundFits
      <4>2. a \in Audios /\ a <= read /\ a \in Nat /\ read \in Nat /\ file[a].time \in Nat
        BY <2>1, <4>1, FileFacts, QueueFacts DEF PlayedOut, Shape
      <4> QED
        BY <4>1, <4>2 DEF HeardBefore
    <3> QED
      BY <3>1, <3>2
  <2>4. quit \in BOOLEAN /\ ended \in BOOLEAN
    BY <2>1, Zenon DEF Shape
  <2> QED
    BY <2>1, <2>2, <2>3, <2>4 DEF TypeOK, TailInv, DoneFits, Shape, FileFits, FrameFits
<1> QED
  BY PlayInvariance, TailInvariance, <1>1, PTL

(* For queues of any capacity and files of any length: a file whose audio
   comes too late for the video queue is not read to its end.              *)
THEOREM EndNeedsInterleaving == Spec => []EndsOnlyIfInterleaved
<1>1. PlayInv => EndsOnlyIfInterleaved
  BY DEF PlayInv
<1> QED
  BY PlayInvariance, <1>1, PTL
-----------------------------------------------------------------------------
(* What is queued is what PacketFlow calls pending. *)
LEMMA PendingIs ==
  ASSUME Shape, NEW c \in Streams
  PROVE  Flow!Pending(c) = Elems(queue[c])
<1>1. DOMAIN [i \in 1..read |-> file[i].stream] = 1..read
  OBVIOUS
<1>2. Elems(queue[c]) \subseteq 1..read /\ \A p \in Elems(queue[c]) : file[p].stream = c
  BY QueueFacts DEF Shape, QueueFits
<1> QED
  BY <1>1, <1>2 DEF Flow!Pending, Elems

\* The refinement: each step is a step of PacketFlow or a stutter.
LEMMA ChannelsStep == PlayInv /\ [Next]_vars => [Flow!Next]_(Flow!vars)
<1> SUFFICES ASSUME PlayInv, [Next]_vars PROVE Flow!Next \/ UNCHANGED Flow!vars
  OBVIOUS
<1> DEFINE kinds == [i \in 1..read |-> file[i].stream]
           gone(c) == {i \in 1..read : file[i].stream = c /\ \A n \in DOMAIN queue[c] : queue[c][n] # i}
<1>s. Shape
  BY DEF PlayInv
<1>g. \A c \in Streams : gone(c) = {i \in 1..read : file[i].stream = c} \ Elems(queue[c])
  BY DEF Elems
<1>1. CASE ReadPacket
  <2> PICK k : k = file[read + 1].stream
    OBVIOUS
  <2>1. /\ read' = read + 1 /\ file' = file /\ Room /\ read \in Nat /\ read' \in Nat
        /\ read' \in 1..Len(file) /\ DOMAIN file = 1..Len(file)
    BY <1>1, <1>s, ReadShape, QueueFacts, FileFacts DEF ReadPacket, Shape
  <2>2. \A c \in Streams : Elems(queue[c])' = Elems(queue[c]) \cup {p \in {read'} : file[p].stream = c}
    BY <1>1, <1>s, ReadShape
  <2>3. kinds' = Append(kinds, k)
    <3>1. kinds \in Seq({file[i].stream : i \in 1..read'}) /\ Len(kinds) = read
      <4>1. \A i \in 1..read : i \in 1..read'
        BY <2>1
      <4> QED
        BY <2>1, <4>1
    <3>2. kinds' = [i \in 1..(read + 1) |-> file[i].stream]
      BY <2>1
    <3> QED
      BY <2>1, <3>1, <3>2
  <2>4. \A c \in Streams : gone(c)' = gone(c)
    <3> SUFFICES ASSUME NEW c \in Streams PROVE gone(c)' = gone(c)
      OBVIOUS
    <3>1. gone(c)' = {i \in 1..read' : file[i].stream = c} \ Elems(queue[c])'
      BY <2>1 DEF Elems
    <3>2. Elems(queue[c]) \subseteq 1..read
      BY <1>s, QueueFacts
    <3>3. \A i : i \in 1..read' <=> i \in 1..read \/ i = read'
      BY <2>1
    <3>4. read' \notin 1..read
      BY <2>1
    <3> QED
      BY <1>g, <2>2, <3>1, <3>2, <3>3, <3>4
  <2>5. [c \in Streams |-> gone(c)]' = [c \in Streams |-> gone(c)]
    BY <2>4
  <2>6. ASSUME NEW c \in Streams PROVE Cardinality(Flow!Pending(c)) < MaxQueue
    <3>1. Flow!Pending(c) = Elems(queue[c])
      BY <1>s, PendingIs
    <3>2. /\ Cardinality(Elems(queue[c])) \in Nat /\ Len(queue[c]) \in Nat
          /\ Cardinality(Elems(queue[c])) <= Len(queue[c])
      BY <1>s, QueueFacts
    <3>3. Len(queue[c]) < MaxQueue /\ MaxQueue \in Nat
      BY <2>1, QueueAssumption DEF Room
    <3> QED
      BY <3>1, <3>2, <3>3
  <2>7. \A c \in Flow!Streams : Flow!Cardinality(Flow!Pending(c)) < MaxQueue
    BY <2>6 DEF Flow!Streams, Streams, Flow!Cardinality, Cardinality
  <2>8. Flow!Produce(k)
    BY <2>3, <2>5, <2>7 DEF Flow!Produce
  <2>9. k \in Flow!Kinds
    BY <1>s, <2>1, FileFacts DEF Shape, Flow!Kinds, Flow!Streams
  <2> QED
    BY <2>8, <2>9 DEF Flow!Next
<1>2. ASSUME NEW c \in Streams, queue[c] # <<>>,
             queue' = [queue EXCEPT ![c] = Tail(@)], UNCHANGED <<file, read>>
      PROVE  Flow!Next
  <2> PICK h : h = Head(queue[c])
    OBVIOUS
  <2>1. /\ h \in 1..read /\ file[h].stream = c
        /\ Elems(queue[c]) = {h} \cup Elems(queue[c])'
        /\ \A y \in Elems(queue[c])' : h < y
        /\ \A d \in Streams \ {c} : queue'[d] = queue[d]
    BY <1>2, <1>s, TakeShape
  <2>2. h \in Nat /\ read \in Nat
    BY <1>s, <2>1, QueueFacts
  <2>3. h \notin Elems(queue[c])' /\ \A y \in Elems(queue[c]) : h <= y
    <3>1. Elems(queue[c]) \subseteq 1..read
      BY <1>s, QueueFacts
    <3> QED
      BY <2>1, <2>2, <3>1
  <2>4. gone(c)' = gone(c) \cup {h}
    <3>1. gone(c)' = {i \in 1..read : file[i].stream = c} \ Elems(queue[c])'
      BY <1>2 DEF Elems
    <3> QED
      BY <1>g, <2>1, <2>3, <3>1
  <2>5. \A d \in Streams \ {c} : gone(d)' = gone(d)
    BY <1>2, <2>1
  <2>6. kinds' = kinds
    BY <1>2
  <2>7. h \in Flow!Pending(c) /\ \A q \in Flow!Pending(c) : h <= q
    BY <1>s, <2>1, <2>3, PendingIs
  <2>8. [d \in Streams |-> gone(d)]' = [[d \in Streams |-> gone(d)] EXCEPT ![c] = @ \cup {h}]
    <3> DEFINE G == [d \in Streams |-> gone(d)]
    <3>1. [d \in Streams |-> gone(d)]' = [d \in Streams |-> gone(d)']
      OBVIOUS
    <3>2. \A d \in Streams : gone(d)' = [G EXCEPT ![c] = @ \cup {h}][d]
      BY <2>4, <2>5
    <3>3. [G EXCEPT ![c] = @ \cup {h}] = [d \in Streams |-> [G EXCEPT ![c] = @ \cup {h}][d]]
      OBVIOUS
    <3> QED
      BY <3>1, <3>2, <3>3
  <2>9. Flow!Deliver(c, h)
    BY <2>6, <2>7, <2>8 DEF Flow!Deliver
  <2> QED
    BY <2>7, <2>9 DEF Flow!Next, Flow!Streams, Streams
<1>3. CASE PlayAudio
  BY <1>2, <1>3 DEF PlayAudio, Streams
<1>4. CASE TakeVideo
  BY <1>2, <1>4 DEF TakeVideo, Streams
<1>5. CASE UNCHANGED <<file, read, queue>>
  BY <1>5 DEF Flow!vars
<1> QED
  BY <1>1, <1>3, <1>4, <1>5 DEF Next, EndOfFile, UserQuits, DevicePlays, ShowVideo, Terminated, vars

\* The refinement: initial states.
LEMMA ChannelsInit == Init => Flow!Init
<1> SUFFICES ASSUME Init PROVE Flow!Init
  OBVIOUS
<1>1. 1..read = {}
  BY DEF Init
<1>2. [i \in 1..read |-> file[i].stream] = <<>>
  BY <1>1
<1> QED
  BY <1>1, <1>2 DEF Flow!Init, Flow!Streams, Streams

(* The coarse threads of Playback make the same two bounded FIFO channels as
   the threads, mutexes and condition variables of Pipeline.               *)
THEOREM ChannelsKept == Spec => FlowSpec
<1> QED
  BY PlayInvariance, ChannelsInit, ChannelsStep, PTL DEF Spec, FlowSpec, Flow!Spec
-----------------------------------------------------------------------------
(* What the threads and the device can do of their own: the reader has room,
   the audio thread a packet, the device audio; the video thread has a packet
   to take, or a frame that has its time on every reading of the clock.    *)
CanGoOn ==
  \/ Room
  \/ queue["audio"] # <<>>
  \/ sdlq > 0
  \/ frame = NoPacket /\ queue["video"] # <<>>
  \/ frame # NoPacket /\ ~ AheadOf(played)

NeverStalls == Interleaved => ~ Stalled

GoesOn == Interleaved /\ ~ quit => CanGoOn

\* When nothing can go on, the player is at the stand that Stalled describes.
LEMMA StandIsStalled == PlayInv /\ ~ quit => CanGoOn \/ Stalled
<1> SUFFICES ASSUME PlayInv, ~ quit, ~ CanGoOn PROVE Stalled
  OBVIOUS
<1>1. /\ ~ Room /\ queue["audio"] = <<>> /\ ~ (sdlq > 0)
      /\ ~ (frame = NoPacket /\ queue["video"] # <<>>)
      /\ ~ (frame # NoPacket /\ ~ AheadOf(played))
  BY DEF CanGoOn
<1>2. sdlq = 0
  BY <1>1 DEF PlayInv, Shape
<1>3. MaxQueue \in Nat \ {0} /\ Len(<<>>) = 0
  BY QueueAssumption
<1>4. Len(queue["video"]) \in Nat
  BY QueueFacts DEF PlayInv, Streams
<1>5. ~ (Len(queue["video"]) < MaxQueue)
  <2>1. Len(queue["audio"]) < MaxQueue
    BY <1>1, <1>3
  <2> QED
    BY <1>1, <2>1 DEF Room, Streams
<1>6. queue["video"] # <<>>
  BY <1>3, <1>5
<1>7. Len(queue["video"]) >= MaxQueue
  BY <1>3, <1>4, <1>5
<1> QED
  BY <1>1, <1>2, <1>6, <1>7 DEF Stalled

(* At the stand the reader has pushed the packet that fills the video queue
   behind the frame in hand. *)
LEMMA QueueIsFull ==
  ASSUME PlayInv, Stalled
  PROVE  \E j \in Videos : j <= read /\ Full(frame, j)
<1>1. Shape
  BY DEF PlayInv
<1>2. /\ queue["video"] \in Seq(Nat) /\ Len(queue["video"]) \in Nat
      /\ Elems(queue["video"]) \subseteq 1..read /\ read \in Nat
      /\ Sorted(queue["video"])
      /\ \A p \in Elems(queue["video"]) : file[p].stream = "video"
  BY <1>1, QueueFacts DEF Shape, QueueFits, Streams
<1>3. MaxQueue \in 1..Len(queue["video"])
  BY <1>2, QueueAssumption DEF Stalled
<1>4. PICK j : j = queue["video"][MaxQueue]
  OBVIOUS
<1>5. Cardinality({y \in Elems(queue["video"]) : y <= j}) = MaxQueue
  BY <1>2, <1>3, <1>4, FirstOfSorted
<1>6. j \in Elems(queue["video"])
  <2>1. DOMAIN queue["video"] = 1..Len(queue["video"])
    BY <1>2
  <2> QED
    BY <1>3, <1>4, <2>1 DEF Elems
<1>7. Elems(queue["video"]) \subseteq Videos
  BY <1>1, <1>2, FileFacts DEF Shape, Videos
<1>8. /\ frame \in Videos \cap 1..read /\ frame \notin Elems(queue["video"])
      /\ \A k \in Videos \cap 1..read : frame < k => k \in Elems(queue["video"])
  BY <1>1 DEF Stalled, Shape, FrameFits
<1>9. \A y \in Elems(queue["video"]) : frame < y
  <2> SUFFICES ASSUME NEW y \in Elems(queue["video"]), ~ (frame < y) PROVE FALSE
    OBVIOUS
  <2>1. y \in Nat /\ frame \in Nat /\ y # frame
    BY <1>2, <1>8
  <2>2. y < frame /\ file[frame].stream = "video"
    BY <1>8, <2>1 DEF Videos
  <2> QED
    BY <1>1, <1>8, <2>2 DEF Shape, QueueFits, Streams
<1>10. {k \in Videos : frame < k /\ k <= j} = {y \in Elems(queue["video"]) : y <= j}
  <2>1. ASSUME NEW k \in Videos, frame < k, k <= j PROVE k \in Elems(queue["video"])
    <3>1. k \in Nat /\ k >= 1 /\ j \in Nat /\ j <= read
      BY <1>1, <1>2, <1>6, FileFacts DEF Shape
    <3>2. k \in 1..read
      BY <1>2, <2>1, <3>1
    <3> QED
      BY <1>8, <2>1, <3>2
  <2> QED
    BY <1>7, <1>9, <2>1
<1>11. j \in Videos /\ j <= read
  BY <1>2, <1>6, <1>7
<1> QED
  BY <1>5, <1>10, <1>11 DEF Full

(* For queues of any capacity and files of any length: a file interleaved
   closely enough never brings the player to a stand, and until `quit` some
   thread or the device can go on.                                         *)
THEOREM InterleavedGoesOn == Spec => [](NeverStalls /\ GoesOn)
<1>1. PlayInv => NeverStalls
  <2> SUFFICES ASSUME PlayInv, Interleaved, Stalled PROVE FALSE
    BY DEF NeverStalls
  <2>1. Shape /\ SoundFits
    BY DEF PlayInv
  <2>2. /\ frame \in Videos /\ file[frame].time > played + Tol
        /\ queue["audio"] = <<>> /\ sdlq = 0
    BY <2>1 DEF Stalled, AheadOf, Shape, FrameFits
  <2>3. PICK j \in Videos : j <= read /\ Full(frame, j)
    BY QueueIsFull
  <2>4. HeardBefore(j, file[frame].time - Tol)
    BY <2>2, <2>3 DEF Interleaved, Full
  <2>5. /\ file[frame].time \in Nat /\ played \in Nat /\ Tol \in Nat
        /\ read \in Nat /\ j \in Nat /\ Audios \subseteq 1..Len(file)
        /\ \A a \in Audios : a \in Nat /\ file[a].time \in Nat
        /\ \A a, b \in Audios : a < b => file[a].time < file[b].time
    <3>1. DOMAIN file = 1..Len(file)
      BY <2>1, FileFacts DEF Shape
    <3> QED
      BY <2>1, <2>2, <3>1, FileFacts, QueueFacts, TolAssumption DEF Shape
  <2>6. PICK a \in Audios : a < j /\ file[frame].time - Tol <= file[a].time
    BY <2>2, <2>4, <2>5 DEF HeardBefore
  <2>7. a \in PlayedOut
    <3>1. a <= read
      BY <2>3, <2>5, <2>6
    <3>2. Elems(queue["audio"]) = {}
      BY <2>2, NothingQueued
    <3> QED
      BY <3>1, <3>2 DEF PlayedOut
  <2>8. PICK b \in PlayedOut : sdlq + played = file[b].time /\ a <= b
    BY <2>1, <2>7 DEF SoundFits
  <2>9. b \in Audios /\ played = file[b].time
    BY <2>2, <2>5, <2>8 DEF PlayedOut
  <2>10. file[a].time <= file[b].time
    <3>1. a \in Nat /\ b \in Nat /\ file[a].time \in Nat /\ file[b].time \in Nat
      BY <2>5, <2>9
    <3>2. a < b => file[a].time < file[b].time
      BY <2>5, <2>9
    <3>3. a = b \/ a < b
      BY <2>8, <3>1
    <3> QED
      BY <3>1, <3>2, <3>3
  <2>11. /\ file[a].time \in Nat /\ played \in Nat /\ Tol \in Nat
         /\ file[frame].time \in Nat
    BY <2>5
  <2>12. file[a].time <= played
    BY <2>9, <2>10
  <2>13. file[frame].time > played + Tol /\ file[frame].time - Tol <= file[a].time
    BY <2>2, <2>6
  <2> QED
    BY <2>11, <2>12, <2>13
<1>2. PlayInv /\ NeverStalls => GoesOn
  BY StandIsStalled DEF NeverStalls, GoesOn
<1> QED
  BY PlayInvariance, <1>1, <1>2, PTL

(* Before `quit`, a step that is not the user's is taken only where the player
   can go on; and where it cannot it is stalled: there is no other stand.   *)
StopsOnlyStalled == ~ quit => CanGoOn \/ Stalled

StepsOnlyGoingOn == [][~ quit /\ ~ UserQuits => CanGoOn]_vars

\* For every file, interleaved or not.
THEOREM NoOtherStand == Spec => []StopsOnlyStalled /\ StepsOnlyGoingOn
<1>1. PlayInv => StopsOnlyStalled
  BY StandIsStalled DEF StopsOnlyStalled
<1>2. PlayInv /\ [Next]_vars => [~ quit /\ ~ UserQuits => CanGoOn]_vars
  <2> SUFFICES ASSUME PlayInv, Next, vars' # vars, ~ quit, ~ UserQuits PROVE CanGoOn
    OBVIOUS
  <2>1. CASE ReadPacket \/ EndOfFile
    BY <2>1 DEF ReadPacket, EndOfFile, CanGoOn
  <2>2. CASE PlayAudio \/ DevicePlays \/ TakeVideo
    BY <2>2 DEF PlayAudio, DevicePlays, TakeVideo, CanGoOn
  <2>3. CASE ShowVideo
    <3>1. frame # NoPacket /\ ~ AheadOf(played + sdlq)
      BY <2>3 DEF ShowVideo
    <3>2. sdlq \in Nat /\ played \in Nat
      BY DEF PlayInv, Shape
    <3>3. CASE sdlq = 0
      <4>1. played + sdlq = played
        BY <3>2, <3>3
      <4> QED
        BY <3>1, <4>1 DEF CanGoOn
    <3>4. CASE sdlq > 0
      BY <3>4 DEF CanGoOn
    <3> QED
      BY <3>2, <3>3, <3>4
  <2> QED
    BY <2>1, <2>2, <2>3 DEF Next, Terminated
<1> QED
  BY PlayInvariance, <1>1, <1>2, PTL DEF Spec, StepsOnlyGoingOn

(* A stand is final: only the user gets the player out of it. *)
StandIsFinal == [][Stalled => UserQuits]_vars

\* Every step from a stand is the user's.
THEOREM OnlyTheUserHelps == Spec => StandIsFinal
<1>1. PlayInv /\ [Next]_vars => [Stalled => UserQuits]_vars
  <2> SUFFICES ASSUME PlayInv, Next, Stalled PROVE UserQuits \/ UNCHANGED vars
    OBVIOUS
  <2>1. /\ ~ quit /\ Len(queue["video"]) >= MaxQueue /\ Len(queue["video"]) \in Nat
        /\ frame # NoPacket /\ AheadOf(played)
        /\ queue["audio"] = <<>> /\ sdlq = 0
    BY QueueFacts DEF Stalled, PlayInv, Streams
  <2>2. ~ Room
    BY <2>1, QueueAssumption DEF Room, Streams
  <2>3. played + sdlq = played
    BY <2>1 DEF PlayInv, Shape
  <2> QED
    BY <2>1, <2>2, <2>3 DEF Next, ReadPacket, EndOfFile, PlayAudio, DevicePlays,
                            TakeVideo, ShowVideo, Terminated
<1> QED
  BY PlayInvariance, <1>1, PTL DEF Spec, StandIsFinal
-----------------------------------------------------------------------------
(* The steps that are left: a packet is read, taken and shown or played, its
   audio is heard, and `quit` is set once.                                 *)
InHand == IF frame = NoPacket THEN 0 ELSE 1

Running == IF quit THEN 0 ELSE 1

Unread == Len(file) - read
Queued(c) == Len(queue[c])
Unheard == MaxSound - played

Packets == (3 * Unread + 2 * Queued("audio")) + (2 * Queued("video") + InHand)

Left == Packets + (Unheard + Running)

MostLeft == 3 * MaxPackets + MaxSound + 1

PlaybackIsShort == [][Left' < Left /\ Left \in 1..MostLeft]_vars

\* Its parts are numbers, as no more is heard than the file holds.
LEMMA LeftNumbers ==
  ASSUME PlayInv
  PROVE  /\ MaxSound \in Nat /\ MaxPackets \in Nat /\ Len(file) \in 0..MaxPackets
         /\ read \in 0..Len(file)
         /\ \A c \in Streams : Len(queue[c]) \in Nat /\ queue[c] \in Seq(Nat)
         /\ InHand \in 0..1 /\ Running \in 0..1
         /\ sdlq \in Nat /\ played \in Nat /\ sdlq + played <= MaxSound
         /\ Unread \in Nat /\ Unheard \in Nat
         /\ Queued("audio") \in Nat /\ Queued("video") \in Nat
         /\ Packets \in Nat /\ Left \in Nat
<1>1. Shape /\ SoundFits
  BY DEF PlayInv
<1>2. PICK n \in 0..MaxPackets : file \in [1..n -> PacketType]
  BY <1>1 DEF Shape, FileFits, Files
<1>3. MaxSound \in Nat /\ MaxPackets \in Nat /\ MaxPts \in Nat
  BY BoundsAssumption
<1>4. DOMAIN file = 1..n /\ n \in Nat /\ file \in Seq(PacketType)
  BY <1>2, <1>3
<1>5. Len(file) \in 0..MaxPackets /\ read \in 0..Len(file)
  BY <1>1, <1>2, <1>4 DEF Shape
<1>6. \A c \in Streams : Len(queue[c]) \in Nat /\ queue[c] \in Seq(Nat)
  BY <1>1, QueueFacts
<1>7. InHand \in 0..1 /\ Running \in 0..1
  BY DEF InHand, Running
<1>8. sdlq \in Nat /\ played \in Nat
  BY <1>1 DEF Shape
<1>9. sdlq + played <= MaxSound
  <2>1. CASE sdlq + played = 0
    BY <1>3, <2>1
  <2>2. CASE sdlq + played # 0
    <3>1. PICK a \in Audios : sdlq + played = file[a].time
      BY <1>1, <2>2 DEF SoundFits, PlayedOut
    <3>2. file[a] \in PacketType /\ file[a].stream = "audio"
      BY <1>2, <1>4, <3>1 DEF Audios
    <3>3. file[a].time \in 1..MaxSound
      BY <1>3, <3>2 DEF PacketType
    <3> QED
      BY <1>3, <3>1, <3>3
  <2> QED
    BY <2>1, <2>2
<1>10. /\ Unread \in Nat /\ Unheard \in Nat
       /\ Queued("audio") \in Nat /\ Queued("video") \in Nat
  <2>1. Len(queue["audio"]) \in Nat /\ Len(queue["video"]) \in Nat
    BY <1>6 DEF Streams
  <2> QED
    BY <1>3, <1>5, <1>8, <1>9, <2>1 DEF Unread, Unheard, Queued
<1>11. Packets \in Nat
  BY <1>7, <1>10 DEF Packets
<1>12. Left \in Nat
  BY <1>7, <1>10, <1>11 DEF Left
<1> QED
  BY <1>3, <1>5, <1>6, <1>7, <1>8, <1>9, <1>10, <1>11, <1>12

\* A packet taken from a queue of stream c leaves it one shorter.
LEMMA TakenLength ==
  ASSUME PlayInv, NEW c \in Streams, queue[c] # <<>>,
         queue' = [queue EXCEPT ![c] = Tail(@)]
  PROVE  /\ Queued(c)' = Queued(c) - 1
         /\ \A d \in Streams \ {c} : Queued(d)' = Queued(d)
<1>1. queue \in [Streams -> Seq(Nat)]
  BY DEF PlayInv, Shape
<1>2. /\ queue'[c] = Tail(queue[c]) /\ queue[c] \in Seq(Nat)
      /\ \A d \in Streams \ {c} : queue'[d] = queue[d]
  BY <1>1
<1>3. Len(Tail(queue[c])) = Len(queue[c]) - 1
  BY <1>2
<1> QED
  BY <1>2, <1>3 DEF Queued

\* The reader adds a packet to one queue at most.
LEMMA ReadLength ==
  ASSUME PlayInv, ReadPacket
  PROVE  /\ \A c \in Streams : Queued(c)' = Queued(c) \/ Queued(c)' = Queued(c) + 1
         /\ Queued("audio")' = Queued("audio") \/ Queued("video")' = Queued("video")
<1>1. ASSUME NEW c \in Streams
      PROVE  /\ file[read'].stream = c => Len(queue'[c]) = Len(queue[c]) + 1
             /\ file[read'].stream # c => queue'[c] = queue[c]
  <2>1. queue[c] \in Seq(Nat) /\ read' \in Nat
    BY QueueFacts DEF PlayInv, ReadPacket
  <2>2. file[read'].stream = c => queue'[c] = Append(queue[c], read')
    BY DEF ReadPacket
  <2>3. file[read'].stream # c => queue'[c] = queue[c]
    BY DEF ReadPacket
  <2>4. Len(Append(queue[c], read')) = Len(queue[c]) + 1
    BY <2>1
  <2> QED
    BY <2>2, <2>3, <2>4
<1>2. file[read'].stream # "audio" \/ file[read'].stream # "video"
  OBVIOUS
<1>3. "audio" \in Streams /\ "video" \in Streams
  BY DEF Streams
<1> QED
  BY <1>1, <1>2, <1>3 DEF Queued

(* Every step leaves fewer steps to take. *)
LEMMA LeftFalls == ASSUME PlayInv, Next PROVE Left' < Left \/ UNCHANGED vars
<1>n. /\ Unread \in Nat /\ Unheard \in Nat /\ Packets \in Nat
      /\ Queued("audio") \in Nat /\ Queued("video") \in Nat
      /\ InHand \in 0..1 /\ Running \in 0..1
      /\ Len(file) \in Nat /\ read \in Nat /\ played \in Nat /\ MaxSound \in Nat
  BY LeftNumbers DEF Streams
<1>f. /\ UNCHANGED <<file, read>> => Unread' = Unread
      /\ UNCHANGED queue => \A c : Queued(c)' = Queued(c)
      /\ UNCHANGED frame => InHand' = InHand
      /\ UNCHANGED played => Unheard' = Unheard
      /\ UNCHANGED quit => Running' = Running
  BY DEF Unread, Queued, InHand, Unheard, Running
<1>1. CASE ReadPacket
  <2>1. /\ read' = read + 1
        /\ UNCHANGED <<file, quit, ended, frame, sdlq, played>>
    BY <1>1 DEF ReadPacket
  <2>2. Unread' = Unread - 1
    BY <1>n, <2>1 DEF Unread
  <2>3. /\ Queued("audio")' = Queued("audio") \/ Queued("audio")' = Queued("audio") + 1
        /\ Queued("video")' = Queued("video") \/ Queued("video")' = Queued("video") + 1
        /\ Queued("audio")' = Queued("audio") \/ Queued("video")' = Queued("video")
    BY <1>1, ReadLength DEF Streams
  <2>4. InHand' = InHand /\ Unheard' = Unheard /\ Running' = Running
    BY <1>f, <2>1
  <2>5. CASE Queued("audio")' = Queued("audio") /\ Queued("video")' = Queued("video")
    <3>1. Packets' = Packets - 3
      BY <1>n, <2>2, <2>4, <2>5, SMTT(30) DEF Packets
    <3> QED
      BY <1>n, <2>4, <3>1 DEF Left
  <2>6. CASE Queued("audio")' = Queued("audio") + 1 /\ Queued("video")' = Queued("video")
    <3>1. Packets' = Packets - 1
      BY <1>n, <2>2, <2>4, <2>6, SMTT(30) DEF Packets
    <3> QED
      BY <1>n, <2>4, <3>1 DEF Left
  <2>7. CASE Queued("audio")' = Queued("audio") /\ Queued("video")' = Queued("video") + 1
    <3>1. Packets' = Packets - 1
      BY <1>n, <2>2, <2>4, <2>7, SMTT(30) DEF Packets
    <3> QED
      BY <1>n, <2>4, <3>1 DEF Left
  <2> QED
    BY <2>3, <2>5, <2>6, <2>7
<1>2. CASE EndOfFile \/ UserQuits
  <2>1. ~ quit /\ quit' = TRUE /\ UNCHANGED <<file, read, queue, frame, played>>
    BY <1>2 DEF EndOfFile, UserQuits
  <2>2. Running = 1 /\ Running' = 0
    BY <2>1 DEF Running
  <2>3. Packets' = Packets /\ Unheard' = Unheard
    BY <1>f, <2>1 DEF Packets
  <2> QED
    BY <1>n, <2>2, <2>3 DEF Left
<1>3. CASE PlayAudio
  <2>1. UNCHANGED <<file, quit, read, frame, played>>
    BY <1>3 DEF PlayAudio
  <2>2. Queued("audio")' = Queued("audio") - 1 /\ Queued("video")' = Queued("video")
    BY <1>3, TakenLength DEF PlayAudio, Streams
  <2>3. Unread' = Unread /\ InHand' = InHand /\ Unheard' = Unheard /\ Running' = Running
    BY <1>f, <2>1
  <2>4. Packets' = Packets - 2
    BY <1>n, <2>2, <2>3 DEF Packets
  <2> QED
    BY <1>n, <2>3, <2>4 DEF Left
<1>4. CASE DevicePlays
  <2>1. UNCHANGED <<file, quit, read, queue, frame>> /\ played' = played + 1
    BY <1>4 DEF DevicePlays
  <2>2. Packets' = Packets /\ Running' = Running
    BY <1>f, <2>1 DEF Packets
  <2>3. Unheard' = Unheard - 1
    BY <1>n, <2>1 DEF Unheard
  <2> QED
    BY <1>n, <2>2, <2>3 DEF Left
<1>5. CASE TakeVideo
  <2>1. UNCHANGED <<file, quit, read, played>> /\ frame = NoPacket
    BY <1>5 DEF TakeVideo
  <2>2. Queued("video")' = Queued("video") - 1 /\ Queued("audio")' = Queued("audio")
    BY <1>5, TakenLength DEF TakeVideo, Streams
  <2>3. InHand = 0 /\ InHand' \in 0..1
    BY <2>1 DEF InHand
  <2>4. Unread' = Unread /\ Unheard' = Unheard /\ Running' = Running
    BY <1>f, <2>1
  <2> QED
    BY <1>n, <2>2, <2>3, <2>4, SMTT(30) DEF Left, Packets
<1>6. CASE ShowVideo
  <2>1. /\ UNCHANGED <<file, quit, read, queue, played>>
        /\ frame # NoPacket /\ frame' = NoPacket
    BY <1>6 DEF ShowVideo
  <2>2. InHand = 1 /\ InHand' = 0
    BY <2>1 DEF InHand
  <2>3. /\ Unread' = Unread /\ Unheard' = Unheard /\ Running' = Running
        /\ \A c : Queued(c)' = Queued(c)
    BY <1>f, <2>1
  <2> QED
    BY <1>n, <2>2, <2>3 DEF Left, Packets
<1> QED
  BY <1>1, <1>2, <1>3, <1>4, <1>5, <1>6 DEF Next, Terminated

(* The player takes no more than 3 steps a packet, one for each unit of sound
   and one to quit, however its threads and the device interleave: a run goes
   on for ever only by doing nothing.                                      *)
THEOREM PlaybackIsFinite == Spec => PlaybackIsShort
<1>1. Init => Left <= MostLeft
  <2> SUFFICES ASSUME Init PROVE Left <= MostLeft
    OBVIOUS
  <2>1. PlayInv
    BY PlayInit
  <2>2. /\ MaxSound \in Nat /\ MaxPackets \in Nat /\ Len(file) \in 0..MaxPackets
        /\ Running \in 0..1
    BY <2>1, LeftNumbers
  <2>3. /\ Unread = Len(file) /\ Unheard = MaxSound
        /\ Queued("audio") = 0 /\ Queued("video") = 0
    BY <2>2 DEF Init, Streams, Unread, Unheard, Queued
  <2>4. InHand = 0
    BY DEF Init, InHand
  <2>5. Packets = 3 * Len(file)
    BY <2>2, <2>3, <2>4 DEF Packets
  <2> QED
    BY <2>2, <2>3, <2>5 DEF Left, MostLeft
<1>2. PlayInv => Left \in Nat
  BY LeftNumbers
<1>3. PlayInv /\ [Next]_vars => Left' < Left \/ UNCHANGED vars
  BY LeftFalls
<1>4. UNCHANGED vars => Left' = Left
  BY DEF vars, Left, Packets, Unread, Queued, Unheard, InHand, Running
<1>5. MostLeft \in Nat /\ MostLeft' = MostLeft
  BY BoundsAssumption DEF MostLeft
<1>6. ASSUME Left \in Nat, (Left \in Nat)', Left <= MostLeft, Left' < Left \/ UNCHANGED vars
      PROVE  (Left <= MostLeft)' /\ (UNCHANGED vars \/ (Left' < Left /\ Left \in 1..MostLeft))
  BY <1>4, <1>5, <1>6
<1>7. /\ Left \in Nat /\ (Left \in Nat)' /\ Left <= MostLeft /\ (Left' < Left \/ UNCHANGED vars)
        => (Left <= MostLeft)'
      /\ Left \in Nat /\ (Left \in Nat)' /\ Left <= MostLeft /\ (Left' < Left \/ UNCHANGED vars)
        => [Left' < Left /\ Left \in 1..MostLeft]_vars
  BY <1>6
<1> QED
  BY PlayInvariance, <1>1, <1>2, <1>3, <1>7, PTL DEF Spec, PlaybackIsShort
=============================================================================
