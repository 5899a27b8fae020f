------------------------------ MODULE Pipeline ------------------------------
(***************************************************************************)
(* The four threads of ffmpeg_player.cpp and what they share: the reader   *)
(* (lines 208-247), the audio and video decoder threads (250-278 and       *)
(* 293-335, one shape, here parameterised by the stream c), and the main   *)
(* thread from the moment the others run (343-374).  They share `quit`, a  *)
(* sequentially consistent atomic, and for each stream a queue, the mutex  *)
(* that guards it and a condition variable.                                *)
(*                                                                         *)
(* A step is what a thread does between two points at which another        *)
(* thread can affect it: one read or write of `quit`, one lock             *)
(* acquisition, one notification, or the body of a critical section up to  *)
(* and including its unlock.  The decoder thread's predicate and its going *)
(* to sleep are separate steps, because `quit` is written without the      *)
(* mutex and may change in between.  What happens to a packet between      *)
(* avcodec_send_packet and av_packet_free is one step, Decode: see AvSync. *)
(***************************************************************************)
EXTENDS Naturals, Sequences, FiniteSets

CONSTANTS
  MaxQueue,    (* MAX_QUEUE_SIZE, 200 in the code.                         *)
  MaxPackets   (* Bound of the model: the longest file.                    *)

ASSUME MaxQueueAssumption == MaxQueue \in Nat \ {0}
ASSUME MaxPacketsAssumption == MaxPackets \in Nat

Streams == {"audio", "video"}
Kinds == Streams \cup {"other"}
Threads == Streams \cup {"reader", "main"}

(* A packet is named by its position in the file; 0 is the null pointer. *)
NoPacket == 0

VARIABLES
  quit,        (* std::atomic<bool> quit                                   *)
  queue,       (* audio_queue, video_queue                                 *)
  mutex,       (* audio_mutex, video_mutex: the holder, or "free"          *)
  demuxed,     (* the kind of each packet av_read_frame returned so far    *)
  rpkt,        (* the reader's local pkt                                   *)
  cpkt,        (* each decoder thread's local pkt                          *)
  freed,       (* the packets given to av_packet_free                      *)
  pc           (* where each thread is                                     *)

vars == <<quit, queue, mutex, demuxed, rpkt, cpkt, freed, pc>>
data == <<demuxed, rpkt, cpkt, freed>>

Packets == DOMAIN demuxed

ReaderLabels == {"Loop", "LockAudio", "LockVideo", "Check", "Read", "Push",
                 "SetQuit", "NotifyAudio", "NotifyVideo", "Done"}
DecoderLabels == {"Loop", "Lock", "Test", "Block", "Asleep", "Relock", "Take",
                  "Decode", "Free", "Done"}
MainLabels == {"Loop", "Poll", "SetQuit", "NotifyAudio", "NotifyVideo",
               "JoinReader", "JoinAudio", "JoinVideo", "Cleanup", "Done"}
-----------------------------------------------------------------------------
Init ==
  /\ quit = FALSE
  /\ queue = [c \in Streams |-> <<>>]
  /\ mutex = [c \in Streams |-> "free"]
  /\ demuxed = <<>>
  /\ rpkt = NoPacket
  /\ cpkt = [c \in Streams |-> NoPacket]
  /\ freed = {}
  /\ pc = [t \in Threads |-> "Loop"]

Goto(t, from, to) ==
  /\ pc[t] = from
  /\ pc' = [pc EXCEPT ![t] = to]

(* Fault: the notification is left out. *)
GotoWithoutWake(t, from, to, c) == Goto(t, from, to)

(* notify_one and notify_all, the same here since one thread waits on each
   condition variable: a sleeping decoder thread goes on to relock.        *)
GotoAndWake(t, from, to, c) ==
  /\ pc[t] = from
  /\ pc' = [pc EXCEPT ![t] = to, ![c] = IF @ = "Asleep" THEN "Relock" ELSE @]

Acquire(t, c) ==
  /\ mutex[c] = "free"
  /\ mutex' = [mutex EXCEPT ![c] = t]
-----------------------------------------------------------------------------
(* The reader. *)

(* Fault: the loop tests nothing. *)
ReaderLoopForever ==
  /\ Goto("reader", "Loop", "LockAudio")
  /\ UNCHANGED <<quit, queue, mutex, data>>

ReaderLoop ==
  /\ Goto("reader", "Loop", IF quit THEN "SetQuit" ELSE "LockAudio")
  /\ UNCHANGED <<quit, queue, mutex, data>>

ReaderLockAudio ==
  /\ Goto("reader", "LockAudio", "LockVideo")
  /\ Acquire("reader", "audio")
  /\ UNCHANGED <<quit, queue, data>>

ReaderLockVideo ==
  /\ Goto("reader", "LockVideo", "Check")
  /\ Acquire("reader", "video")
  /\ UNCHANGED <<quit, queue, data>>

(* Fault: > for >=. *)
QueueOverfull == \E c \in Streams : Len(queue[c]) > MaxQueue

QueueFull == \E c \in Streams : Len(queue[c]) >= MaxQueue

(* Both mutexes are released on both branches; the full branch sleeps 10 ms
   and starts over.                                                        *)
ReaderCheck ==
  /\ Goto("reader", "Check", IF QueueFull THEN "Loop" ELSE "Read")
  /\ mutex' = [c \in Streams |-> "free"]
  /\ UNCHANGED <<quit, queue, data>>

ReaderRead(k) ==
  /\ Len(demuxed) < MaxPackets
  /\ Goto("reader", "Read", "Push")
  /\ demuxed' = Append(demuxed, k)
  /\ rpkt' = Len(demuxed) + 1
  /\ UNCHANGED <<quit, queue, mutex, cpkt, freed>>

(* av_read_frame < 0: the end of the file or an error, at any point. *)
ReaderReadFails ==
  /\ Goto("reader", "Read", "SetQuit")
  /\ UNCHANGED <<quit, queue, mutex, data>>

(* Fault: a stack, not a queue. *)
PushedInFront(q, p) == <<p>> \o q

Pushed(q, p) == Append(q, p)

(* lock_guard, push, notify_one, unlock. *)
ReaderPush(c) ==
  /\ rpkt # NoPacket /\ demuxed[rpkt] = c
  /\ mutex[c] = "free"
  /\ queue' = [queue EXCEPT ![c] = Pushed(@, rpkt)]
  /\ rpkt' = NoPacket
  /\ GotoAndWake("reader", "Push", "Loop", c)
  /\ UNCHANGED <<quit, mutex, demuxed, cpkt, freed>>

(* A packet of any other stream is freed at once. *)
ReaderDiscard ==
  /\ rpkt # NoPacket /\ demuxed[rpkt] = "other"
  /\ freed' = freed \cup {rpkt}
  /\ rpkt' = NoPacket
  /\ Goto("reader", "Push", "Loop")
  /\ UNCHANGED <<quit, queue, mutex, demuxed, cpkt>>
-----------------------------------------------------------------------------
(* Ending the playback: the reader does it on leaving its loop, the main
   thread on SDL_QUIT.  No mutex is held.                                  *)

SetQuit(t) ==
  /\ quit' = TRUE
  /\ Goto(t, "SetQuit", "NotifyAudio")
  /\ UNCHANGED <<queue, mutex, data>>

NotifyAudio(t) ==
  /\ GotoAndWake(t, "NotifyAudio", "NotifyVideo", "audio")
  /\ UNCHANGED <<quit, queue, mutex, data>>

(* The reader's function ends here; the main thread goes round its loop. *)
NotifyVideo(t) ==
  /\ GotoAndWake(t, "NotifyVideo", IF t = "reader" THEN "Done" ELSE "Loop", "video")
  /\ UNCHANGED <<quit, queue, mutex, data>>
-----------------------------------------------------------------------------
(* The decoder thread of stream c. *)

DecoderLoop(c) ==
  /\ Goto(c, "Loop", IF quit THEN "Done" ELSE "Lock")
  /\ UNCHANGED <<quit, queue, mutex, data>>

(* Fault: a woken thread goes on without testing its predicate again. *)
DecoderLockNoRetest(c) ==
  /\ pc[c] \in {"Lock", "Relock"}
  /\ pc' = [pc EXCEPT ![c] = IF @ = "Relock" THEN "Take" ELSE "Test"]
  /\ Acquire(c, c)
  /\ UNCHANGED <<quit, queue, data>>

DecoderLock(c) ==
  /\ pc[c] \in {"Lock", "Relock"}
  /\ pc' = [pc EXCEPT ![c] = "Test"]
  /\ Acquire(c, c)
  /\ UNCHANGED <<quit, queue, data>>

(* Fault: the predicate forgets quit. *)
MayProceedOnWorkOnly(c) == queue[c] # <<>>

(* The predicate of cv.wait. *)
MayProceed(c) == queue[c] # <<>> \/ quit

DecoderTest(c) ==
  /\ Goto(c, "Test", IF MayProceed(c) THEN "Take" ELSE "Block")
  /\ UNCHANGED <<quit, queue, mutex, data>>

(* The atomic release-and-sleep inside cv.wait. *)
DecoderBlock(c) ==
  /\ Goto(c, "Block", "Asleep")
  /\ mutex' = [mutex EXCEPT ![c] = "free"]
  /\ UNCHANGED <<quit, queue, data>>

(* A condition variable may wake its waiter with no notification. *)
SpuriousWake(c) ==
  /\ Goto(c, "Asleep", "Relock")
  /\ UNCHANGED <<quit, queue, mutex, data>>

(* if (quit && queue.empty()) break; with the unlock at the end of the scope. *)
DecoderBreak(c) ==
  /\ quit /\ queue[c] = <<>>
  /\ Goto(c, "Take", "Done")
  /\ mutex' = [mutex EXCEPT ![c] = "free"]
  /\ UNCHANGED <<quit, queue, data>>

(* Fault: pop() without front(), pkt is still null. *)
DecoderTakeNull(c) ==
  /\ queue[c] # <<>>
  /\ Goto(c, "Take", "Decode")
  /\ queue' = [queue EXCEPT ![c] = Tail(@)]
  /\ mutex' = [mutex EXCEPT ![c] = "free"]
  /\ UNCHANGED <<quit, demuxed, rpkt, cpkt, freed>>

DecoderTake(c) ==
  /\ queue[c] # <<>>
  /\ Goto(c, "Take", "Decode")
  /\ cpkt' = [cpkt EXCEPT ![c] = Head(queue[c])]
  /\ queue' = [queue EXCEPT ![c] = Tail(@)]
  /\ mutex' = [mutex EXCEPT ![c] = "free"]
  /\ UNCHANGED <<quit, demuxed, rpkt, freed>>

DecoderDecode(c) ==
  /\ Goto(c, "Decode", "Free")
  /\ UNCHANGED <<quit, queue, mutex, data>>

DecoderFree(c) ==
  /\ Goto(c, "Free", "Loop")
  /\ freed' = freed \cup {cpkt[c]}
  /\ cpkt' = [cpkt EXCEPT ![c] = NoPacket]
  /\ UNCHANGED <<quit, queue, mutex, demuxed, rpkt>>
-----------------------------------------------------------------------------
(* The main thread. *)

MainLoop ==
  /\ Goto("main", "Loop", IF quit THEN "JoinReader" ELSE "Poll")
  /\ UNCHANGED <<quit, queue, mutex, data>>

(* SDL_PollEvent returned SDL_QUIT: the user closed the window. *)
MainUserQuits ==
  /\ Goto("main", "Poll", "SetQuit")
  /\ UNCHANGED <<quit, queue, mutex, data>>

(* No event is left (the others are ignored): SDL_Delay(10) and round again. *)
MainNoEvent ==
  /\ Goto("main", "Poll", "Loop")
  /\ UNCHANGED <<quit, queue, mutex, data>>

MainJoin(from, t, to) ==
  /\ Goto("main", from, to)
  /\ pc[t] = "Done"
  /\ UNCHANGED <<quit, queue, mutex, data>>

(* Fault: the video thread is not joined. *)
MainJoinsNoVideo ==
  \/ MainJoin("JoinReader", "reader", "JoinAudio")
  \/ MainJoin("JoinAudio", "audio", "Cleanup")

MainJoins ==
  \/ MainJoin("JoinReader", "reader", "JoinAudio")
  \/ MainJoin("JoinAudio", "audio", "JoinVideo")
  \/ MainJoin("JoinVideo", "video", "Cleanup")

(* Contexts, frames and the window are freed; the queues are not visited. *)
MainCleanup ==
  /\ Goto("main", "Cleanup", "Done")
  /\ UNCHANGED <<quit, queue, mutex, data>>
-----------------------------------------------------------------------------
Reader ==
  \/ ReaderLoop \/ ReaderLockAudio \/ ReaderLockVideo \/ ReaderCheck
  \/ \E k \in Kinds : ReaderRead(k)
  \/ ReaderReadFails
  \/ \E c \in Streams : ReaderPush(c)
  \/ ReaderDiscard
  \/ SetQuit("reader") \/ NotifyAudio("reader") \/ NotifyVideo("reader")

Decoder(c) ==
  \/ DecoderLoop(c) \/ DecoderLock(c) \/ DecoderTest(c) \/ DecoderBlock(c)
  \/ DecoderBreak(c) \/ DecoderTake(c) \/ DecoderDecode(c) \/ DecoderFree(c)

Main ==
  \/ MainLoop \/ MainUserQuits \/ MainNoEvent
  \/ SetQuit("main") \/ NotifyAudio("main") \/ NotifyVideo("main")
  \/ MainJoins \/ MainCleanup

(* main has returned: nothing more happens. *)
Terminated ==
  /\ pc["main"] = "Done"
  /\ UNCHANGED vars

Next ==
  \/ Reader
  \/ \E c \in Streams : Decoder(c) \/ SpuriousWake(c)
  \/ Main
  \/ Terminated

Spec == Init /\ [][Next]_vars
-----------------------------------------------------------------------------
(***************************************************************************)
(* Fairness.  Every thread keeps running (the scheduler is fair), and one  *)
(* that contends for a mutex gets it sooner or later, though others may    *)
(* take it in between: hence strong fairness for the three threads that    *)
(* lock.  Nothing makes the user quit, or a condition variable wake up by  *)
(* itself.  The audio thread's decode loop ends by itself; the video       *)
(* thread's is only known to end once `quit` is set, which its wait for    *)
(* the audio clock tests (line 316).                                       *)
(***************************************************************************)
DecoderProgress(c) ==
  Decoder(c) /\ (c = "video" /\ pc[c] = "Decode" => quit)

MainProgress == Main /\ ~ MainUserQuits

FairSpec ==
  /\ Spec
  /\ SF_vars(Reader)
  /\ \A c \in Streams : SF_vars(DecoderProgress(c))
  /\ WF_vars(MainProgress)
-----------------------------------------------------------------------------
(* Each variable has its type; in particular a local packet pointer is null
   or names a packet that was read.                                        *)
TypeOK ==
  /\ quit \in BOOLEAN
  /\ queue \in [Streams -> Seq(Packets)]
  /\ mutex \in [Streams -> Streams \cup {"reader", "free"}]
  /\ demuxed \in Seq(Kinds)
  /\ rpkt \in Packets \cup {NoPacket}
  /\ cpkt \in [Streams -> Packets \cup {NoPacket}]
  /\ freed \subseteq Packets
  /\ pc \in [Threads -> ReaderLabels \cup DecoderLabels \cup MainLabels]
  /\ pc["reader"] \in ReaderLabels /\ pc["main"] \in MainLabels
  /\ \A c \in Streams : pc[c] \in DecoderLabels

(* A queue never exceeds MAX_QUEUE_SIZE, although the reader measures both
   queues, lets both mutexes go, reads a packet, and only then locks one of
   them again to push (lines 216-238).                                     *)
QueueBound == \A c \in Streams : Len(queue[c]) <= MaxQueue

(* front() and pop() are never called on an empty queue (lines 257, 300):
   a decoder thread that finds its queue empty after cv.wait finds `quit`
   set too, and breaks.                                                    *)
NeverTakesFromEmpty ==
  \A c \in Streams : pc[c] = "Take" /\ queue[c] = <<>> => quit

(* A push is never missed: no decoder thread sleeps on its condition
   variable while its queue holds a packet (lines 232-238 against 254-256). *)
SleeperHasNoWork ==
  \A c \in Streams : pc[c] = "Asleep" => queue[c] = <<>>

Queued(c) == {queue[c][i] : i \in DOMAIN queue[c]}
Handed(c) == {p \in freed \cup {cpkt[c]} : p # NoPacket /\ demuxed[p] = c}

(* Every packet read is owned once: by the reader, by one queue, by one
   decoder thread, or it has been freed.  None is lost on the way, none is
   freed twice or while a thread still uses it.                            *)
OwnedOnce ==
  /\ \A p \in Packets :
       p \in freed \/ p = rpkt \/ \E c \in Streams : p \in Queued(c) \cup {cpkt[c]}
  /\ rpkt \notin freed
  /\ \A c \in Streams :
       /\ cpkt[c] \notin freed \cup Queued(c)
       /\ Queued(c) \cap freed = {}
       /\ rpkt \notin Queued(c)
       /\ rpkt # NoPacket => cpkt[c] # rpkt
       /\ \A p \in Queued(c) \cup ({cpkt[c]} \ {NoPacket}) :
            p \in Packets /\ demuxed[p] = c

(* The packets of a stream reach its decoder in file order: those waiting
   are in order, and all of them come after every one already handed over. *)
InFileOrder ==
  \A c \in Streams :
    /\ \A i, j \in DOMAIN queue[c] : i < j => queue[c][i] < queue[c][j]
    /\ \A p \in Handed(c), q \in Queued(c) : p < q

(* The reader, the queues and the decoder threads are two bounded FIFO
   channels: the abstract specification PacketFlow.                        *)
Flow == INSTANCE PacketFlow WITH
          Backlog <- MaxQueue,
          delivered <- [c \in Streams |-> Handed(c)]
FlowSpec == Flow!Spec

(* Nothing is freed under a running thread: the main thread frees the
   decoders, frames and window (lines 362-382) after all three threads
   returned.                                                               *)
CleanupIsAlone ==
  pc["main"] \in {"Cleanup", "Done"} => \A t \in Threads \ {"main"} : pc[t] = "Done"
-----------------------------------------------------------------------------
(* The reader always gets to the end of its function once `quit` is set,
   even when it spins on a full queue (lines 209-221).                     *)
ReaderStops == quit ~> pc["reader"] = "Done"

(* Each audio packet in the queue is taken, unless the playback ends: the
   audio thread never stops while there is work.                           *)
AudioIsServed ==
  \A n \in 1..MaxPackets :
    n \in Queued("audio") ~> (n \notin Queued("audio") \/ quit)

(* Every decoder thread ends after `quit` is set, but for one that has
   tested its predicate before and not yet gone to sleep, or that slept
   through the reader's notification: such a thread has missed its wake-up,
   because `quit` is set and notified without the mutex (lines 244-246).   *)
Notified(c) ==
  pc["reader"] \in IF c = "audio" THEN {"NotifyVideo", "Done"} ELSE {"Done"}

MayMissWakeup(c) == pc[c] = "Block" \/ (pc[c] = "Asleep" /\ Notified(c))

EndsUnlessWakeupMissed ==
  \A c \in Streams : (quit /\ ~ MayMissWakeup(c)) ~> pc[c] = "Done"

(* Playback that ends brings the program to its end (lines 356-359: wait
   for the threads to exit).                                               *)
ShutdownCompletes == quit ~> pc["main"] = "Done"

(* Every packet av_read_frame returned has been freed when the program ends
   (avformat.h: the packet must be freed when it is no longer needed).     *)
AllPacketsFreed == pc["main"] = "Done" => freed = Packets
=============================================================================
