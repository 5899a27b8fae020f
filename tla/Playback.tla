------------------------------ MODULE Playback ------------------------------
(***************************************************************************)
(* All of ffmpeg_player.cpp at work on a file: is it read to its end, and  *)
(* what of it is not played?  The reader waits for room in both queues     *)
(* (lines 209-242), the audio thread for packets (251-276), the video      *)
(* thread for packets and for the audio clock (294-333), and the clock for *)
(* the device.                                                             *)
(*                                                                         *)
(* Coarser than its parts, and resting on them.  The queues are channels   *)
(* of PacketFlow, which Pipeline implements: to check, read and push is    *)
(* one step, because only the reader adds packets.  AvSync says what the   *)
(* clock may do: no frame is shown before its audio was handed to SDL      *)
(* (FrameHasItsAudio), and it is shown once that audio was heard           *)
(* (CoveredFrameIsShown); a device has been opened.  A packet holds one    *)
(* frame.  A packet that was on its way from one thread to the next when   *)
(* `quit` was set counts as having arrived before.  The device plays out   *)
(* what it was given; in the code SDL_Quit (line 379) cuts it off.         *)
(***************************************************************************)
EXTENDS Integers, Sequences, FiniteSetsExt

CONSTANTS
  MaxQueue,    (* MAX_QUEUE_SIZE, 200 in the code.                         *)
  Tol,         (* The tolerance of line 316, 20 ms in the code.            *)
  MaxPackets,  (* Bound of the model: the longest file.                    *)
  MaxPts,      (* Bound of the model: the latest frame.                    *)
  MaxSound     (* Bound of the model: the most audio in a file.            *)

ASSUME QueueAssumption == MaxQueue \in Nat \ {0}
ASSUME TolAssumption == Tol \in Nat
ASSUME BoundsAssumption ==
  MaxPackets \in Nat /\ MaxPts \in Nat /\ MaxSound \in Nat

(* A packet, with the time of its frame, or the time at which its audio ends
   when the file's audio is played from the beginning with no gap.         *)
PacketType ==
  [stream : {"audio"}, time : 1..MaxSound] \cup [stream : {"video"}, time : 0..MaxPts]
  \cup [stream : {"other"}, time : {0}]

(* Each audio packet lasts for some time. *)
AudioAdvances(f) ==
  \A a, b \in {i \in DOMAIN f : f[i].stream = "audio"} : a < b => f[a].time < f[b].time

Files == {f \in UNION {[1..n -> PacketType] : n \in 0..MaxPackets} : AudioAdvances(f)}

Streams == {"audio", "video"}
NoPacket == 0

VARIABLES
  file,        (* what the reader can read before it meets an end          *)
  quit,        (* std::atomic<bool> quit                                   *)
  read,        (* how many packets av_read_frame has returned              *)
  ended,       (* history: av_read_frame failed                            *)
  queue,       (* audio_queue and video_queue, as positions in the file    *)
  frame,       (* the video packet whose frame waits for its time          *)
  sdlq,        (* the audio in SDL's queue                                 *)
  played,      (* the audio that was heard                                 *)
  done         (* history: the packets that SDL was given the audio of, or *)
               (* whose frame was shown in its time                        *)

vars == <<file, quit, read, ended, queue, frame, sdlq, played, done>>

Init ==
  /\ file \in Files
  /\ quit = FALSE
  /\ read = 0 /\ ended = FALSE
  /\ queue = [c \in Streams |-> <<>>]
  /\ frame = NoPacket
  /\ sdlq = 0 /\ played = 0
  /\ done = {}
-----------------------------------------------------------------------------
(* Fault: && for ||, the reader waits when both queues are full. *)
RoomInEither == \E c \in Streams : Len(queue[c]) < MaxQueue

(* Fault: one place is never used. *)
RoomButOne == \A c \in Streams : Len(queue[c]) + 1 < MaxQueue

(* What the reader needs before it reads: room in both queues, as it does
   not know which one the next packet is for.                              *)
Room == \A c \in Streams : Len(queue[c]) < MaxQueue

ReadPacket ==
  /\ ~ quit /\ Room /\ read < Len(file)
  /\ read' = read + 1
  /\ queue' = [c \in Streams |->
       IF file[read'].stream = c THEN Append(queue[c], read') ELSE queue[c]]
  /\ UNCHANGED <<file, quit, ended, frame, sdlq, played, done>>

(* Fault: the end of the file is met before there is room. *)
EndOfFileAtOnce ==
  /\ ~ quit /\ read = Len(file)
  /\ quit' = TRUE /\ ended' = TRUE
  /\ UNCHANGED <<file, read, queue, frame, sdlq, played, done>>

(* av_read_frame fails, and the reader ends the playback. *)
EndOfFile ==
  /\ ~ quit /\ Room /\ read = Len(file)
  /\ quit' = TRUE /\ ended' = TRUE
  /\ UNCHANGED <<file, read, queue, frame, sdlq, played, done>>

UserQuits ==
  /\ ~ quit
  /\ quit' = TRUE
  /\ UNCHANGED <<file, read, ended, queue, frame, sdlq, played, done>>

Videos == {i \in DOMAIN file : file[i].stream = "video"}
Audios == {i \in DOMAIN file : file[i].stream = "audio"}

(* How much audio the packet at position a holds. *)
Length(a) ==
  LET before == {b \in Audios : b < a} IN
    file[a].time - (IF before = {} THEN 0 ELSE file[Max(before)].time)

(* Fault: front() without pop(). *)
PlayAudioAgain ==
  /\ ~ quit /\ queue["audio"] # <<>>
  /\ sdlq' = sdlq + Length(Head(queue["audio"]))
  /\ done' = done \cup {Head(queue["audio"])}
  /\ UNCHANGED <<file, quit, read, ended, queue, frame, played>>

(* The audio thread takes a packet, decodes it and queues what it holds. *)
PlayAudio ==
  /\ ~ quit /\ queue["audio"] # <<>>
  /\ sdlq' = sdlq + Length(Head(queue["audio"]))
  /\ queue' = [queue EXCEPT !["audio"] = Tail(@)]
  /\ done' = done \cup {Head(queue["audio"])}
  /\ UNCHANGED <<file, quit, read, ended, frame, played>>

(* External: the device plays. *)
DevicePlays ==
  /\ sdlq > 0
  /\ sdlq' = sdlq - 1 /\ played' = played + 1
  /\ UNCHANGED <<file, quit, read, ended, queue, frame, done>>

TakeVideo ==
  /\ ~ quit /\ frame = NoPacket /\ queue["video"] # <<>>
  /\ frame' = Head(queue["video"])
  /\ queue' = [queue EXCEPT !["video"] = Tail(@)]
  /\ UNCHANGED <<file, quit, read, ended, sdlq, played, done>>

(* video_pts > audio_clock + 0.02, for a clock that says t. *)
AheadOf(t) == file[frame].time > t + Tol

(* Whatever the torn clock shows, it is not past what SDL was handed.  A
   frame that is shown because of quit was not waited for.                 *)
ShowVideo ==
  /\ frame # NoPacket
  /\ quit \/ ~ AheadOf(played + sdlq)
  /\ frame' = NoPacket
  /\ done' = IF quit THEN done ELSE done \cup {frame}
  /\ UNCHANGED <<file, quit, read, ended, queue, sdlq, played>>

Terminated ==
  /\ quit /\ frame = NoPacket /\ sdlq = 0
  /\ UNCHANGED vars

Next ==
  \/ ReadPacket \/ EndOfFile \/ UserQuits \/ PlayAudio \/ DevicePlays
  \/ TakeVideo \/ ShowVideo \/ Terminated

Spec == Init /\ [][Next]_vars

(* Threads and device run; a frame need not be shown before its audio was
   heard; and nothing makes the user quit.                                 *)
ShowInTime == ShowVideo /\ (quit \/ ~ AheadOf(played))

FairSpec ==
  /\ Spec
  /\ WF_vars(ReadPacket \/ EndOfFile)
  /\ WF_vars(PlayAudio) /\ WF_vars(DevicePlays)
  /\ WF_vars(TakeVideo) /\ WF_vars(ShowInTime)
-----------------------------------------------------------------------------
(* The audio that comes before position j of the file reaches time t. *)
HeardBefore(j, t) == t <= 0 \/ \E a \in Audios : a < j /\ t <= file[a].time

(* The file is interleaved closely enough for the queues: the audio that a
   frame waits for comes before the packet that, with the frame in hand,
   fills the video queue.                                                  *)
Interleaved ==
  \A i, j \in Videos :
    Cardinality({k \in Videos : i < k /\ k <= j}) = MaxQueue
      => HeardBefore(j, file[i].time - Tol)

(* The state nothing but the user gets the player out of: the reader waits
   for room in the video queue, the video thread for the clock, the audio
   thread for packets, and the device for audio.                           *)
Stalled ==
  /\ ~ quit
  /\ Len(queue["video"]) >= MaxQueue
  /\ frame # NoPacket /\ AheadOf(played)
  /\ queue["audio"] = <<>> /\ sdlq = 0

(* Each variable has its type, and no audio comes out that did not go in. *)
TypeOK ==
  /\ file \in Files
  /\ quit \in BOOLEAN /\ ended \in BOOLEAN
  /\ read \in 0..Len(file)
  /\ queue \in [Streams -> Seq(1..read)]
  /\ frame \in {NoPacket} \cup (Videos \cap 1..read)
  /\ done \subseteq 1..read
  /\ {sdlq, played} \subseteq Nat /\ HeardBefore(read + 1, sdlq + played)

(* The player gets to the end of a file only if it is interleaved closely
   enough: the reader's wait for room (lines 216-220) and the video
   thread's for the clock (316-319) together put a condition on the file.  *)
EndsOnlyIfInterleaved == ended => Interleaved

(* The queues are used as PacketFlow allows, and Pipeline is shown to make
   such queues of locks and condition variables (lines 209-242, 296-302).
   The bridge between the two models, it says nothing of the locks.        *)
Flow == INSTANCE PacketFlow WITH
          Backlog <- MaxQueue,
          demuxed <- [i \in 1..read |-> file[i].stream],
          delivered <- [c \in Streams |->
            {i \in 1..read : file[i].stream = c /\ \A n \in DOMAIN queue[c] : queue[c][n] # i}]
FlowSpec == Flow!Spec

(* Packet i and those of its stream that follow it in the file. *)
Rest(i) == {j \in DOMAIN file : i <= j /\ file[j].stream = file[i].stream}

(* Only the last packets of each stream were not shown or handed to SDL, no
   more than a queue holds.                                                *)
OnlyTailLeft ==
  \A i \in (Videos \cup Audios) \ done : Cardinality(Rest(i)) <= MaxQueue

(* When the reader meets the end of the file what is queued is dropped
   (lines 251, 294): no more than the last MAX_QUEUE_SIZE packets of each
   stream, the frame that still waits for its time among them.  All that
   came before was handed to SDL or shown, and no frame of it hurried.     *)
EndDropsOnlyTail == ended => read = Len(file) /\ OnlyTailLeft

(* A file interleaved closely enough is read to its end, and all but that
   tail is shown or handed to SDL, unless the user quits before.           *)
PlaysThrough == Interleaved => <> (IF ended THEN OnlyTailLeft ELSE quit)

(* Any other file brings the player to a stand. *)
StallsOtherwise == ~ Interleaved => <> (Stalled \/ quit)

(* A reader that waits because a queue is full (line 210) gets to go on. *)
FullQueueDrains == ~ Room ~> (Room \/ quit)
=============================================================================
