--------------------------- MODULE PipelineProofs ---------------------------
(***************************************************************************)
(* Proofs about the threads of Pipeline, for queues of any capacity and    *)
(* files of any length.                                                    *)
(***************************************************************************)
EXTENDS Pipeline, SequenceTheorems, TLAPS

(* Who holds each mutex, read off the program counters. *)
Locks ==
  /\ mutex["audio"] = "reader" <=> pc["reader"] \in {"LockVideo", "Check"}
  /\ mutex["video"] = "reader" <=> pc["reader"] = "Check"
  /\ \A c \in Streams :
       /\ mutex[c] \in {c, "reader", "free"}
       /\ mutex[c] = c <=> pc[c] \in {"Test", "Block", "Take"}

(* Which thread has a packet in hand. *)
Hands ==
  /\ rpkt # NoPacket <=> pc["reader"] = "Push"
  /\ rpkt # NoPacket => rpkt = Len(demuxed)
  /\ \A c \in Streams : cpkt[c] # NoPacket <=> pc[c] \in {"Decode", "Free"}

(* Between the reader's check and its push there is room in both queues:
   only the reader adds to them.                                           *)
RoomToPush ==
  pc["reader"] \in {"Read", "Push"} => \A c \in Streams : Len(queue[c]) < MaxQueue

(* A decoder thread on its way to sleep, or asleep, has an empty queue. *)
IdleHasNoWork ==
  \A c \in Streams : pc[c] \in {"Block", "Asleep"} => queue[c] = <<>>

(* The main thread past a join: the joined thread is done. *)
Joined ==
  /\ pc["main"] \in {"JoinAudio", "JoinVideo", "Cleanup", "Done"} => pc["reader"] = "Done"
  /\ pc["main"] \in {"JoinVideo", "Cleanup", "Done"} => pc["audio"] = "Done"
  /\ pc["main"] \in {"Cleanup", "Done"} => pc["video"] = "Done"

ControlInv ==
  /\ TypeOK
  /\ Locks
  /\ Hands
  /\ RoomToPush
  /\ QueueBound
  /\ IdleHasNoWork
  /\ NeverTakesFromEmpty
  /\ Joined

\* The invariant holds at the start.
LEMMA ControlInit == Init => ControlInv
<1> SUFFICES ASSUME Init PROVE ControlInv
  OBVIOUS
<1> USE DEF Init, Streams, Threads, NoPacket
<1>1. TypeOK
  <2>1. DOMAIN demuxed = {} /\ demuxed \in Seq(Kinds) /\ <<>> \in Seq(DOMAIN demuxed)
    OBVIOUS
  <2> QED
    BY <2>1 DEF TypeOK, Packets, ReaderLabels, DecoderLabels, MainLabels
<1>2. Locks /\ Hands /\ Joined /\ NeverTakesFromEmpty /\ IdleHasNoWork
  BY DEF Locks, Hands, Joined, NeverTakesFromEmpty, IdleHasNoWork
<1>3. RoomToPush /\ QueueBound
  BY MaxQueueAssumption DEF RoomToPush, QueueBound
<1> QED
  BY <1>1, <1>2, <1>3 DEF ControlInv

\* Every step keeps it.
LEMMA ControlStep == ControlInv /\ [Next]_vars => ControlInv'
<1> SUFFICES ASSUME ControlInv, [Next]_vars PROVE ControlInv'
  OBVIOUS
<1> USE MaxQueueAssumption DEF ControlInv, TypeOK, Locks, Hands, RoomToPush, QueueBound,
   IdleHasNoWork, NeverTakesFromEmpty, Joined, Streams, Threads, Kinds, Packets, NoPacket,
   ReaderLabels, DecoderLabels, MainLabels, Goto, GotoAndWake, Acquire, data
<1>1. CASE ReaderLoop
  BY <1>1 DEF ReaderLoop
<1>2. CASE ReaderLockAudio
  BY <1>2 DEF ReaderLockAudio
<1>3. CASE ReaderLockVideo
  BY <1>3 DEF ReaderLockVideo
<1>4. CASE ReaderCheck
  BY <1>4 DEF ReaderCheck, QueueFull
<1>5. ASSUME NEW k \in Kinds, ReaderRead(k) PROVE ControlInv'
  BY <1>5, SMTT(30) DEF ReaderRead
<1>6. CASE ReaderReadFails
  BY <1>6 DEF ReaderReadFails
<1>7. ASSUME NEW c \in Streams, ReaderPush(c) PROVE ControlInv'
  BY <1>7, SMTT(30) DEF ReaderPush, Pushed
<1>8. CASE ReaderDiscard
  BY <1>8 DEF ReaderDiscard
<1>9. ASSUME NEW t \in {"reader", "main"}, SetQuit(t) PROVE ControlInv'
  BY <1>9 DEF SetQuit
<1>10. ASSUME NEW t \in {"reader", "main"}, NotifyAudio(t) PROVE ControlInv'
  BY <1>10, SMTT(30) DEF NotifyAudio
<1>11. ASSUME NEW t \in {"reader", "main"}, NotifyVideo(t) PROVE ControlInv'
  BY <1>11 DEF NotifyVideo
<1>12. ASSUME NEW c \in Streams, DecoderLoop(c) PROVE ControlInv'
  BY <1>12 DEF DecoderLoop
<1>13. ASSUME NEW c \in Streams, DecoderLock(c) PROVE ControlInv'
  BY <1>13 DEF DecoderLock
<1>14. ASSUME NEW c \in Streams, DecoderTest(c) PROVE ControlInv'
  BY <1>14 DEF DecoderTest, MayProceed
<1>15. ASSUME NEW c \in Streams, DecoderBlock(c) PROVE ControlInv'
  BY <1>15 DEF DecoderBlock
<1>16. ASSUME NEW c \in Streams, SpuriousWake(c) PROVE ControlInv'
  BY <1>16, SMTT(30) DEF SpuriousWake
<1>17. ASSUME NEW c \in Streams, DecoderBreak(c) PROVE ControlInv'
  BY <1>17 DEF DecoderBreak
<1>18. ASSUME NEW c \in Streams, DecoderTake(c) PROVE ControlInv'
  <2>0. queue[c] \in Seq(Packets) /\ queue[c] # <<>>
    BY <1>18 DEF DecoderTake
  <2>1. /\ Head(queue[c]) \in Packets
        /\ Tail(queue[c]) \in Seq(Packets)
        /\ Len(queue[c]) \in Nat
        /\ Len(Tail(queue[c])) = Len(queue[c]) - 1
    <3> HIDE DEF Packets, ControlInv
    <3> QED
      BY <2>0, HeadTailProperties
  <2>2. /\ queue' \in [Streams -> Seq(Packets)]
        /\ \A d \in Streams : Len(queue'[d]) <= Len(queue[d]) /\ Len(queue'[d]) \in Nat
        /\ \A d \in Streams \ {c} : queue'[d] = queue[d]
    BY <1>18, <2>0, <2>1, SMTT(30) DEF DecoderTake
  <2>3. TypeOK'
    BY <1>18, <2>1, <2>2 DEF DecoderTake
  <2>4. Locks' /\ Joined'
    BY <1>18 DEF DecoderTake
  <2>5. Hands'
    BY <1>18, <2>1 DEF DecoderTake
  <2>6. NeverTakesFromEmpty'
    BY <1>18, <2>2 DEF DecoderTake
  <2>7. IdleHasNoWork'
    BY <1>18, <2>2 DEF DecoderTake
  <2>8. RoomToPush' /\ QueueBound'
    BY <1>18, <2>2 DEF DecoderTake
  <2> QED
    BY <2>3, <2>4, <2>5, <2>6, <2>7, <2>8
<1>19. ASSUME NEW c \in Streams, DecoderDecode(c) PROVE ControlInv'
  BY <1>19 DEF DecoderDecode
<1>20. ASSUME NEW c \in Streams, DecoderFree(c) PROVE ControlInv'
  BY <1>20 DEF DecoderFree
<1>21. CASE MainLoop
  BY <1>21 DEF MainLoop
<1>22. CASE MainUserQuits
  BY <1>22 DEF MainUserQuits
<1>23. CASE MainNoEvent
  BY <1>23 DEF MainNoEvent
<1>24. CASE MainJoins
  BY <1>24, SMTT(30) DEF MainJoins, MainJoin
<1>25. CASE MainCleanup
  BY <1>25 DEF MainCleanup
<1>26. CASE UNCHANGED vars
  BY <1>26 DEF vars
<1>27. CASE Terminated
  BY <1>27, <1>26 DEF Terminated
<1> QED
  BY <1>1, <1>2, <1>3, <1>4, <1>5, <1>6, <1>7, <1>8, <1>9, <1>10, <1>11, <1>12, <1>13,
     <1>14, <1>15, <1>16, <1>17, <1>18, <1>19, <1>20, <1>21, <1>22, <1>23, <1>24, <1>25,
     <1>26, <1>27
     DEF Next, Reader, Decoder, Main
-----------------------------------------------------------------------------
\* So it holds always.
LEMMA ControlInvariance == Spec => []ControlInv
<1> QED
  BY ControlInit, ControlStep, PTL DEF Spec

(* Every variable keeps its type, and the local packet pointers of the three
   threads are null or name a packet that was read.                        *)
THEOREM TypeCorrect == Spec => []TypeOK
<1>1. ControlInv => TypeOK
  BY DEF ControlInv
<1> QED
  BY ControlInvariance, <1>1, PTL

(* No queue ever exceeds MAX_QUEUE_SIZE, whatever the capacity: the room the
   reader saw at line 216 is still there when it pushes at 233 or 237.     *)
THEOREM QueueNeverOverfull == Spec => []QueueBound
<1>1. ControlInv => QueueBound
  BY DEF ControlInv
<1> QED
  BY ControlInvariance, <1>1, PTL

(* front() and pop() are never reached with an empty queue (257, 300). *)
THEOREM TakesOnlyWhatIsThere == Spec => []NeverTakesFromEmpty
<1>1. ControlInv => NeverTakesFromEmpty
  BY DEF ControlInv
<1> QED
  BY ControlInvariance, <1>1, PTL

(* No push is missed: a sleeping decoder thread has an empty queue. *)
THEOREM NoPushMissed == Spec => []SleeperHasNoWork
<1>1. ControlInv => SleeperHasNoWork
  BY DEF ControlInv, IdleHasNoWork, SleeperHasNoWork
<1> QED
  BY ControlInvariance, <1>1, PTL

(* The main thread frees the decoders, frames and window (362-382) only once
   the three other threads have returned.                                  *)
THEOREM CleanupAfterJoins == Spec => []CleanupIsAlone
<1>1. ControlInv => CleanupIsAlone
  BY DEF ControlInv, Joined, CleanupIsAlone, Threads, Streams
<1> QED
  BY ControlInvariance, <1>1, PTL
-----------------------------------------------------------------------------
(* The shutdown.                                                           *)

(* Who has seen `quit`, or set it: the threads past the notifications, those
   past a loop that tests it, and the main thread past its own.            *)
QuitSeen ==
  /\ pc["reader"] \in {"NotifyAudio", "NotifyVideo", "Done"} => quit
  /\ pc["main"] \in MainLabels \ {"Loop", "Poll", "SetQuit"} => quit
  /\ \A c \in Streams : pc[c] = "Done" => quit

\* It holds at the start.
LEMMA QuitSeenInit == Init => QuitSeen
BY DEF Init, QuitSeen, Streams, Threads

\* Every step keeps it: nothing resets quit.
LEMMA QuitSeenStep == ControlInv /\ QuitSeen /\ [Next]_vars => QuitSeen'
<1> SUFFICES ASSUME ControlInv, QuitSeen, [Next]_vars PROVE QuitSeen'
  OBVIOUS
<1> USE DEF ControlInv, TypeOK, QuitSeen, NeverTakesFromEmpty, Streams, Threads, Goto, GotoAndWake,
   MainLabels
<1>1. CASE Reader
  <2>1. ASSUME NEW c \in Streams, ReaderPush(c) PROVE QuitSeen'
    BY <2>1 DEF ReaderPush
  <2>2. CASE ReaderLoop \/ ReaderLockAudio \/ ReaderLockVideo \/ ReaderCheck
    BY <2>2 DEF ReaderLoop, ReaderLockAudio, ReaderLockVideo, ReaderCheck
  <2>3. CASE ReaderReadFails \/ ReaderDiscard \/ \E k \in Kinds : ReaderRead(k)
    BY <2>3 DEF ReaderRead, ReaderReadFails, ReaderDiscard
  <2>4. CASE SetQuit("reader") \/ NotifyAudio("reader") \/ NotifyVideo("reader")
    BY <2>4 DEF SetQuit, NotifyAudio, NotifyVideo
  <2> QED BY <1>1, <2>1, <2>2, <2>3, <2>4 DEF Reader
<1>2. ASSUME NEW c \in Streams, Decoder(c) \/ SpuriousWake(c) PROVE QuitSeen'
  BY <1>2 DEF Decoder, DecoderLoop, DecoderLock, DecoderTest, DecoderBlock, DecoderBreak,
              DecoderTake, DecoderDecode, DecoderFree, SpuriousWake
<1>3. CASE Main
  BY <1>3 DEF Main, MainLoop, MainUserQuits, MainNoEvent, SetQuit, NotifyAudio, NotifyVideo,
              MainJoins, MainJoin, MainCleanup
<1>4. CASE Terminated \/ UNCHANGED vars
  BY <1>4 DEF Terminated, vars
<1> QED BY <1>1, <1>2, <1>3, <1>4 DEF Next

\* So it holds always.
LEMMA QuitSeenAlways == Spec => []QuitSeen
BY QuitSeenInit, QuitSeenStep, ControlInvariance, PTL DEF Spec

(* How many steps each thread has left, from where it is, once `quit` is set. *)
ReaderLeft(l) ==
  CASE l = "LockAudio" -> 9
    [] l = "LockVideo" -> 8
    [] l = "Check" -> 7
    [] l = "Read" -> 6
    [] l = "Push" -> 5
    [] l = "Loop" -> 4
    [] l = "SetQuit" -> 3
    [] l = "NotifyAudio" -> 2
    [] l = "NotifyVideo" -> 1
    [] OTHER -> 0

DecoderLeft(l) ==
  CASE l = "Block" -> 8
    [] l = "Asleep" -> 7
    [] l \in {"Lock", "Relock"} -> 6
    [] l = "Test" -> 5
    [] l = "Take" -> 4
    [] l = "Decode" -> 3
    [] l = "Free" -> 2
    [] l = "Loop" -> 1
    [] OTHER -> 0

MainLeft(l) ==
  CASE l = "Poll" -> 9
    [] l = "SetQuit" -> 8
    [] l = "NotifyAudio" -> 7
    [] l = "NotifyVideo" -> 6
    [] l = "Loop" -> 5
    [] l = "JoinReader" -> 4
    [] l = "JoinAudio" -> 3
    [] l = "JoinVideo" -> 2
    [] l = "Cleanup" -> 1
    [] OTHER -> 0

StepsLeft ==
  ReaderLeft(pc["reader"]) + DecoderLeft(pc["audio"]) + DecoderLeft(pc["video"])
    + MainLeft(pc["main"])

\* Each thread has a bounded number of steps left.
LEMMA LeftTypes ==
  /\ \A l : ReaderLeft(l) \in 0 .. 9
  /\ \A l : DecoderLeft(l) \in 0 .. 8
  /\ \A l : MainLeft(l) \in 0 .. 9
<1>1. \A l : ReaderLeft(l) \in 0 .. 9
  BY DEF ReaderLeft
<1>2. \A l : DecoderLeft(l) \in 0 .. 8
  BY DEF DecoderLeft
<1>3. \A l : MainLeft(l) \in 0 .. 9
  BY DEF MainLeft
<1> QED BY <1>1, <1>2, <1>3

\* A sum of four goes down when one part does and none goes up.
LEMMA SumGoesDown ==
  ASSUME NEW a \in Nat, NEW b \in Nat, NEW c \in Nat, NEW d \in Nat,
         NEW a1 \in Nat, NEW b1 \in Nat, NEW c1 \in Nat, NEW d1 \in Nat,
         a1 <= a, b1 <= b, c1 <= c, d1 <= d,
         a1 < a \/ b1 < b \/ c1 < c \/ d1 < d
  PROVE  a1 + b1 + c1 + d1 < a + b + c + d
OBVIOUS

\* No thread's number goes up, and one goes down: what a step has to show.
Descends ==
  /\ ReaderLeft(pc'["reader"]) <= ReaderLeft(pc["reader"])
  /\ \A c \in Streams : DecoderLeft(pc'[c]) <= DecoderLeft(pc[c])
  /\ MainLeft(pc'["main"]) <= MainLeft(pc["main"])
  /\ \/ ReaderLeft(pc'["reader"]) < ReaderLeft(pc["reader"])
     \/ \E c \in Streams : DecoderLeft(pc'[c]) < DecoderLeft(pc[c])
     \/ MainLeft(pc'["main"]) < MainLeft(pc["main"])

\* After quit the reader's steps go down its function; the thread it wakes
\* goes down its own.
LEMMA ReaderDescends == ControlInv /\ quit /\ Reader => Descends
<1> SUFFICES ASSUME ControlInv, quit, Reader PROVE Descends
  OBVIOUS
<1>1. pc \in [Threads -> ReaderLabels \cup DecoderLabels \cup MainLabels]
  BY DEF ControlInv, TypeOK
<1>2. /\ pc'["main"] = pc["main"]
      /\ \A c \in Streams : pc'[c] = pc[c] \/ (pc[c] = "Asleep" /\ pc'[c] = "Relock")
      /\ \/ pc["reader"] = "Loop" /\ pc'["reader"] = "SetQuit"
         \/ pc["reader"] = "LockAudio" /\ pc'["reader"] = "LockVideo"
         \/ pc["reader"] = "LockVideo" /\ pc'["reader"] = "Check"
         \/ pc["reader"] = "Check" /\ pc'["reader"] \in {"Loop", "Read"}
         \/ pc["reader"] = "Read" /\ pc'["reader"] \in {"Push", "SetQuit"}
         \/ pc["reader"] = "Push" /\ pc'["reader"] = "Loop"
         \/ pc["reader"] = "SetQuit" /\ pc'["reader"] = "NotifyAudio"
         \/ pc["reader"] = "NotifyAudio" /\ pc'["reader"] = "NotifyVideo"
         \/ pc["reader"] = "NotifyVideo" /\ pc'["reader"] = "Done"
  BY <1>1 DEF Reader, ReaderLoop, ReaderLockAudio, ReaderLockVideo, ReaderCheck, ReaderRead,
              ReaderReadFails, ReaderPush, ReaderDiscard, SetQuit, NotifyAudio, NotifyVideo,
              Goto, GotoAndWake, Streams, Threads
<1>3. \A c \in Streams : DecoderLeft(pc'[c]) <= DecoderLeft(pc[c])
  <2>1. DecoderLeft("Relock") <= DecoderLeft("Asleep")
    BY DEF DecoderLeft
  <2> QED BY <1>2, <2>1, LeftTypes
<1>4. ReaderLeft(pc'["reader"]) < ReaderLeft(pc["reader"])
  BY <1>2 DEF ReaderLeft
<1> QED BY <1>2, <1>3, <1>4, LeftTypes DEF Descends

\* So do a decoder thread's, through the break out of its loop.
LEMMA DecoderDescends ==
  ASSUME ControlInv, quit, NEW c \in Streams, Decoder(c) \/ SpuriousWake(c)
  PROVE  Descends
<1>1. pc \in [Threads -> ReaderLabels \cup DecoderLabels \cup MainLabels]
  BY DEF ControlInv, TypeOK
<1>2. /\ \A t \in Threads \ {c} : pc'[t] = pc[t]
      /\ \/ pc[c] = "Loop" /\ pc'[c] = "Done"
         \/ pc[c] \in {"Lock", "Relock"} /\ pc'[c] = "Test"
         \/ pc[c] = "Test" /\ pc'[c] = "Take"
         \/ pc[c] = "Block" /\ pc'[c] = "Asleep"
         \/ pc[c] = "Asleep" /\ pc'[c] = "Relock"
         \/ pc[c] = "Take" /\ pc'[c] \in {"Decode", "Done"}
         \/ pc[c] = "Decode" /\ pc'[c] = "Free"
         \/ pc[c] = "Free" /\ pc'[c] = "Loop"
  BY <1>1 DEF Decoder, DecoderLoop, DecoderLock, DecoderTest, DecoderBlock, DecoderBreak,
              DecoderTake, DecoderDecode, DecoderFree, SpuriousWake, MayProceed, Goto, Streams, Threads
<1>3. DecoderLeft(pc'[c]) < DecoderLeft(pc[c])
  BY <1>2 DEF DecoderLeft
<1>4. pc'["reader"] = pc["reader"] /\ pc'["main"] = pc["main"]
  BY <1>2 DEF Streams, Threads
<1>5. \A d \in Streams \ {c} : pc'[d] = pc[d]
  BY <1>2 DEF Threads
<1> QED BY <1>3, <1>4, <1>5, LeftTypes DEF Descends

\* And the main thread's, which does not go round its loop again.
LEMMA MainDescends == ControlInv /\ quit /\ Main => Descends
<1> SUFFICES ASSUME ControlInv, quit, Main PROVE Descends
  OBVIOUS
<1>1. pc \in [Threads -> ReaderLabels \cup DecoderLabels \cup MainLabels]
  BY DEF ControlInv, TypeOK
<1>2. /\ pc'["reader"] = pc["reader"]
      /\ \A c \in Streams : pc'[c] = pc[c] \/ (pc[c] = "Asleep" /\ pc'[c] = "Relock")
      /\ \/ pc["main"] = "Loop" /\ pc'["main"] = "JoinReader"
         \/ pc["main"] = "Poll" /\ pc'["main"] \in {"SetQuit", "Loop"}
         \/ pc["main"] = "SetQuit" /\ pc'["main"] = "NotifyAudio"
         \/ pc["main"] = "NotifyAudio" /\ pc'["main"] = "NotifyVideo"
         \/ pc["main"] = "NotifyVideo" /\ pc'["main"] = "Loop"
         \/ pc["main"] = "JoinReader" /\ pc'["main"] = "JoinAudio"
         \/ pc["main"] = "JoinAudio" /\ pc'["main"] = "JoinVideo"
         \/ pc["main"] = "JoinVideo" /\ pc'["main"] = "Cleanup"
         \/ pc["main"] = "Cleanup" /\ pc'["main"] = "Done"
  BY <1>1 DEF Main, MainLoop, MainUserQuits, MainNoEvent, SetQuit, NotifyAudio, NotifyVideo,
              MainJoins, MainJoin, MainCleanup, Goto, GotoAndWake, Streams, Threads
<1>3. \A c \in Streams : DecoderLeft(pc'[c]) <= DecoderLeft(pc[c])
  <2>1. DecoderLeft("Relock") <= DecoderLeft("Asleep")
    BY DEF DecoderLeft
  <2> QED BY <1>2, <2>1, LeftTypes
<1>4. MainLeft(pc'["main"]) < MainLeft(pc["main"])
  BY <1>2 DEF MainLeft
<1> QED BY <1>2, <1>3, <1>4, LeftTypes DEF Descends

(* The shutdown is short (lines 244-246, 356-359): once `quit` is set, no  *)
(* thread goes round its loop again, and however full the queues are and   *)
(* however the threads interleave, the program takes 34 steps at most.     *)
(* What can keep it from ending is only a thread that stands still.        *)
ShutdownIsShort ==
  [][quit => StepsLeft' < StepsLeft /\ StepsLeft \in 1 .. 34]_vars

\* Nothing spins or goes round once `quit` is set, for queues of any capacity.
THEOREM ShutdownIsBounded == Spec => ShutdownIsShort
<1>1. ControlInv /\ [Next]_vars => [quit => StepsLeft' < StepsLeft /\ StepsLeft \in 1 .. 34]_vars
  <2> SUFFICES ASSUME ControlInv, Next, vars' # vars, quit
               PROVE  StepsLeft' < StepsLeft /\ StepsLeft \in 1 .. 34
    OBVIOUS
  <2>1. Descends
    BY ReaderDescends, DecoderDescends, MainDescends DEF Next, Terminated, vars
  <2>2. StepsLeft' < StepsLeft
    BY <2>1, LeftTypes, SumGoesDown, SMTT(30) DEF Descends, StepsLeft, Streams
  <2>3. StepsLeft \in 0 .. 34 /\ StepsLeft' \in 0 .. 34
    BY LeftTypes DEF StepsLeft
  <2> QED BY <2>2, <2>3
<1> QED
  BY <1>1, ControlInvariance, PTL DEF Spec, ShutdownIsShort

-----------------------------------------------------------------------------
(* Where the threads can stand still.                                      *)

(* The mutexes a thread is about to lock. *)
Wants(t) ==
  IF t = "reader"
  THEN {c \in Streams : \/ pc[t] = "LockAudio" /\ c = "audio"
                        \/ pc[t] = "LockVideo" /\ c = "video"
                        \/ pc[t] = "Push" /\ demuxed[rpkt] = c}
  ELSE {c \in Streams : t = c /\ pc[t] \in {"Lock", "Relock"}}

(* The threads the main thread is waiting for. *)
Joins ==
  {t \in Threads : \/ pc["main"] = "JoinReader" /\ t = "reader"
                   \/ pc["main"] = "JoinAudio" /\ t = "audio"
                   \/ pc["main"] = "JoinVideo" /\ t = "video"}

(* A thread can take a step: the guards of its actions, collected. *)
CanMove(t) ==
  /\ pc[t] \notin {"Asleep", "Done"}
  /\ \A c \in Wants(t) : mutex[c] = "free"
  /\ t = "main" => \A u \in Joins : pc[u] = "Done"

\* No step is taken by a thread of which this is not true.
LEMMA OnlyWhoCanMoves ==
  ASSUME ControlInv
  PROVE  /\ Reader => CanMove("reader")
         /\ \A c \in Streams : Decoder(c) => CanMove(c)
         /\ Main => CanMove("main")
<1> USE DEF ControlInv, TypeOK, CanMove, Wants, Joins, Goto, GotoAndWake, Acquire
<1>1. Reader => CanMove("reader")
  BY DEF Reader, ReaderLoop, ReaderLockAudio, ReaderLockVideo, ReaderCheck, ReaderRead,
         ReaderReadFails, ReaderPush, ReaderDiscard, SetQuit, NotifyAudio, NotifyVideo, Streams
<1>2. ASSUME NEW c \in Streams, Decoder(c) PROVE CanMove(c)
  BY <1>2 DEF Decoder, DecoderLoop, DecoderLock, DecoderTest, DecoderBlock, DecoderBreak,
              DecoderTake, DecoderDecode, DecoderFree, Streams
<1>3. Main => CanMove("main")
  BY DEF Main, MainLoop, MainUserQuits, MainNoEvent, SetQuit, NotifyAudio, NotifyVideo,
         MainJoins, MainJoin, MainCleanup, Streams, Threads
<1> QED BY <1>1, <1>2, <1>3

(* The threads that use the queues do not block one another, although the
   reader holds the audio mutex while it waits for the video mutex: one of
   them can go on, or the reader is done and each decoder thread is done or
   asleep.                                                                 *)
QueueThreadsGoOn ==
  \/ \E t \in Threads \ {"main"} : CanMove(t)
  \/ pc["reader"] = "Done" /\ \A c \in Streams : pc[c] \in {"Asleep", "Done"}

\* The holder of a mutex can always go on to release it.
LEMMA HoldersGoOn ==
  ASSUME ControlInv, NEW c \in Streams
  PROVE  /\ mutex[c] = c => CanMove(c)
         /\ mutex[c] \in {c, "reader", "free"}
         /\ mutex[c] = "reader" => pc["reader"] \in {"LockVideo", "Check"}
<1>1. mutex[c] = c => pc[c] \in {"Test", "Block", "Take"}
  BY DEF ControlInv, Locks
<1>2. c # "reader" /\ c # "main"
  BY DEF Streams
<1>3. mutex[c] = c => CanMove(c)
  BY <1>1, <1>2 DEF CanMove, Wants
<1> QED BY <1>3 DEF ControlInv, Locks, Streams

\* A cycle would need the reader to wait for a mutex whose holder cannot move.
LEMMA NoCycle == ControlInv => QueueThreadsGoOn
<1> SUFFICES ASSUME ControlInv, \A t \in Threads \ {"main"} : ~CanMove(t)
             PROVE  pc["reader"] = "Done" /\ \A c \in Streams : pc[c] \in {"Asleep", "Done"}
  BY DEF QueueThreadsGoOn
<1>1. ~CanMove("reader") /\ \A c \in Streams : ~CanMove(c)
  BY DEF Threads, Streams
<1>2. \A c \in Streams : mutex[c] \in {"reader", "free"}
  BY <1>1, HoldersGoOn
<1>3. pc["reader"] = "Done"
  <2>1. SUFFICES ASSUME pc["reader"] # "Done" PROVE FALSE
    OBVIOUS
  <2>2. PICK c \in Wants("reader") : mutex[c] # "free"
    BY <1>1, <2>1 DEF CanMove, ControlInv, TypeOK, ReaderLabels
  <2>3. c \in Streams /\ mutex[c] = "reader"
    BY <1>2, <2>2 DEF Wants
  <2>4. pc["reader"] \in {"LockVideo", "Check"}
    BY <2>3, HoldersGoOn
  <2>5. c = "video" /\ pc["reader"] = "LockVideo"
    BY <2>2, <2>4 DEF Wants
  <2> QED BY <2>3, <2>5 DEF ControlInv, Locks
<1>4. ASSUME NEW c \in Streams PROVE pc[c] \in {"Asleep", "Done"}
  <2>1. mutex[c] = "free"
    BY <1>2, <1>3, HoldersGoOn
  <2>2. Wants(c) \subseteq {c}
    BY DEF Wants, Streams
  <2> QED BY <1>1, <2>1, <2>2 DEF CanMove, Streams
<1> QED BY <1>3, <1>4

(* No deadlock between the three threads of the pipeline, at any time.     *)
THEOREM PipelineGoesOn == Spec => []QueueThreadsGoOn
BY NoCycle, ControlInvariance, PTL

(* A decoder thread that slept through the shutdown: the notifications are
   over and the main thread waits for it, or will.                         *)
Overslept(c) ==
  /\ quit /\ pc[c] = "Asleep" /\ pc["reader"] = "Done"
  /\ pc["main"] \in {"JoinReader", "JoinAudio", "JoinVideo"}

(* The program stands still only at its end, or when a decoder thread that
   missed its wake-up sleeps on: there is no other way for it to hang.     *)
HangsOnlyAsleep ==
  \/ \E t \in Threads : CanMove(t)
  \/ pc["main"] = "Done"
  \/ \E c \in Streams : Overslept(c)

(* Lost wake-ups (lines 244-246 and 350-352 against 254 and 297) are the   *)
(* only way for the program to hang.                                       *)
THEOREM OnlyLostWakeupsHang == Spec => []HangsOnlyAsleep
<1>1. ControlInv /\ QuitSeen => HangsOnlyAsleep
  <2> SUFFICES ASSUME ControlInv, QuitSeen, pc["main"] # "Done",
                      \A t \in Threads : ~CanMove(t)
               PROVE  \E c \in Streams : Overslept(c)
    BY DEF HangsOnlyAsleep
  <2>1. pc["reader"] = "Done" /\ \A c \in Streams : pc[c] \in {"Asleep", "Done"}
    BY NoCycle DEF QueueThreadsGoOn
  <2>2. PICK u \in Joins : pc[u] # "Done"
    <3>1. ~CanMove("main") /\ pc["main"] # "Asleep"
      BY DEF Threads, ControlInv, TypeOK, MainLabels
    <3>2. Wants("main") = {}
      BY DEF Wants, Streams
    <3> QED BY <3>1, <3>2 DEF CanMove
  <2>3. u \in Streams /\ pc["main"] \in {"JoinAudio", "JoinVideo"}
    BY <2>1, <2>2 DEF Joins, Streams
  <2>4. quit
    BY <2>3 DEF QuitSeen, MainLabels
  <2> QED BY <2>1, <2>2, <2>3, <2>4 DEF Overslept
<1> QED
  BY <1>1, ControlInvariance, QuitSeenAlways, PTL

(* And such a hang is for good: no thread is left to wake the sleeper, so  *)
(* it sleeps until its condition variable wakes it without a notification. *)
SleepsForGood ==
  [][\A c \in Streams : Overslept(c) => Overslept(c)' \/ SpuriousWake(c)]_vars

\* Nothing but a spurious wake-up ends a hang.
THEOREM HangIsForGood == Spec => SleepsForGood
<1>1. ControlInv /\ [Next]_vars
        => [\A c \in Streams : Overslept(c) => Overslept(c)' \/ SpuriousWake(c)]_vars
  <2> SUFFICES ASSUME ControlInv, Next, NEW c \in Streams, Overslept(c), ~SpuriousWake(c)
               PROVE  Overslept(c)'
    OBVIOUS
  <2> USE DEF Overslept
  <2>1. ~Reader
    BY OnlyWhoCanMoves DEF CanMove
  <2>2. ASSUME NEW d \in Streams, Decoder(d) \/ SpuriousWake(d) PROVE Overslept(c)'
    <3>1. d # c
      BY <2>2, OnlyWhoCanMoves DEF CanMove
    <3>2. quit' = quit /\ \A t \in Threads \ {d} : pc'[t] = pc[t]
      BY <2>2 DEF Decoder, DecoderLoop, DecoderLock, DecoderTest, DecoderBlock, DecoderBreak,
                  DecoderTake, DecoderDecode, DecoderFree, SpuriousWake, Goto, ControlInv, TypeOK
    <3> QED BY <3>1, <3>2 DEF Threads, Streams
  <2>3. CASE Main
    <3>1. pc["main"] = "JoinVideo" => c = "video"
      BY DEF ControlInv, Joined, Streams
    <3>2. MainJoins
      BY <2>3 DEF Main, MainLoop, MainUserQuits, MainNoEvent, SetQuit, NotifyAudio, NotifyVideo,
                  MainCleanup, Goto, GotoAndWake
    <3>3. UNCHANGED quit /\ pc'[c] = pc[c] /\ pc'["reader"] = pc["reader"]
          /\ pc'["main"] \in {"JoinAudio", "JoinVideo"}
      BY <3>1, <3>2 DEF MainJoins, MainJoin, Goto, ControlInv, TypeOK, Threads, Streams
    <3> QED BY <3>3
  <2>4. CASE Terminated
    BY <2>4 DEF Terminated
  <2> QED BY <2>1, <2>2, <2>3, <2>4 DEF Next
<1> QED
  BY <1>1, ControlInvariance, PTL DEF Spec, SleepsForGood

(* A decoder thread that has not missed its wake-up when `quit` is set will *)
(* not miss it any more: its predicate is true from then on, so it does not *)
(* go to sleep again, and one that sleeps before the reader's notification  *)
(* is woken by it.  With ShutdownIsBounded and PipelineGoesOn this is the   *)
(* part of EndsUnlessWakeupMissed that does not need the scheduler.         *)
MissedInTimeOrNever ==
  [][\A c \in Streams : quit /\ ~MayMissWakeup(c) => ~MayMissWakeup(c)']_vars

\* The window for missing the wake-up is the one that EndsUnlessWakeupMissed names.
THEOREM NoLateMiss == Spec => MissedInTimeOrNever
<1>1. ControlInv /\ [Next]_vars
        => [\A c \in Streams : quit /\ ~MayMissWakeup(c) => ~MayMissWakeup(c)']_vars
  <2> SUFFICES ASSUME ControlInv, Next, quit, NEW c \in Streams, ~MayMissWakeup(c)
               PROVE  ~MayMissWakeup(c)'
    OBVIOUS
  <2> USE DEF MayMissWakeup, Notified, ControlInv, TypeOK, Streams, Threads, Goto, GotoAndWake
  <2>1. CASE Reader
    <3>1. ASSUME NEW d \in Streams, ReaderPush(d) PROVE ~MayMissWakeup(c)'
      BY <3>1 DEF ReaderPush
    <3>2. CASE ReaderLoop \/ ReaderLockAudio \/ ReaderLockVideo \/ ReaderCheck
      BY <3>2 DEF ReaderLoop, ReaderLockAudio, ReaderLockVideo, ReaderCheck
    <3>3. CASE ReaderReadFails \/ ReaderDiscard \/ \E k \in Kinds : ReaderRead(k)
      BY <3>3 DEF ReaderRead, ReaderReadFails, ReaderDiscard
    <3>4. CASE SetQuit("reader") \/ NotifyAudio("reader") \/ NotifyVideo("reader")
      BY <3>4 DEF SetQuit, NotifyAudio, NotifyVideo
    <3> QED BY <2>1, <3>1, <3>2, <3>3, <3>4 DEF Reader
  <2>2. ASSUME NEW d \in Streams, Decoder(d) \/ SpuriousWake(d) PROVE ~MayMissWakeup(c)'
    BY <2>2 DEF Decoder, DecoderLoop, DecoderLock, DecoderTest, DecoderBlock, DecoderBreak,
                DecoderTake, DecoderDecode, DecoderFree, SpuriousWake, MayProceed
  <2>3. CASE Main
    BY <2>3 DEF Main, MainLoop, MainUserQuits, MainNoEvent, SetQuit, NotifyAudio, NotifyVideo,
                MainJoins, MainJoin, MainCleanup
  <2>4. CASE Terminated
    BY <2>4 DEF Terminated, vars
  <2> QED BY <2>1, <2>2, <2>3, <2>4 DEF Next
<1> QED
  BY <1>1, ControlInvariance, PTL DEF Spec, MissedInTimeOrNever

=============================================================================
