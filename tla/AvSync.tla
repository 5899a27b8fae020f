------------------------------- MODULE AvSync -------------------------------
(***************************************************************************)
(* Audio and video synchronisation in ffmpeg_player.cpp: what the audio    *)
(* thread does with a packet (lines 260-276), what the video thread does   *)
(* with one (303-333), the audio clock between them (281-290), and the SDL *)
(* audio device, which is external: a queue of bytes it plays from.        *)
(*                                                                         *)
(* Where packets come from is abstracted here (Pipeline has it): a thread  *)
(* at "Idle" waits for one, and one may arrive at any time until it ends.  *)
(* Bytes and time share a unit: one unit of audio is what a device opened  *)
(* as wanted plays in one unit of time.  SDL calls and accesses to the     *)
(* atomics quit and audio_written_bytes are steps of their own.            *)
(***************************************************************************)
EXTENDS Integers, FiniteSets

CONSTANTS
  MaxChunk,    (* Most that one swr_convert yields: 192000 in the code.    *)
  MaxAudio,    (* Bound of the model: all the audio of the file.           *)
  MaxPts,      (* Bound of the model: the latest frame of the file.        *)
  Tol,         (* The tolerance of line 316, 20 ms in the code.            *)
  Unset        (* Bound of the model: what an obtained_spec that SDL did   *)
               (* not fill in may hold, for channels and for freq (where a *)
               (* negative number does what 0 does).                       *)

ASSUME ChunkAssumption == MaxChunk \in Nat \ {0}
ASSUME AudioAssumption == MaxAudio \in Nat
ASSUME PtsAssumption == MaxPts \in Nat
ASSUME TolAssumption == Tol \in Nat
ASSUME UnsetAssumption == Unset \subseteq Nat

VARIABLES
  quit,        (* std::atomic<bool> quit                                   *)
  dev,         (* Was an audio device opened: dev # 0                      *)
  obtained,    (* obtained_spec: its channels and freq                     *)
  written,     (* audio_written_bytes                                      *)
  sdlq,        (* what SDL holds of the device's queue                     *)
  played,      (* what the device has taken from its queue                 *)
  lost,        (* what SDL_QueueAudio refused                              *)
  size,        (* the audio thread's data_size                             *)
  apc,         (* where the audio thread is                                *)
  pts,         (* the video thread's video_pts                             *)
  queued,      (* its audio_queued_bytes                                   *)
  clock,       (* its audio_clock, times the rate                          *)
  vpc,         (* where the video thread is                                *)
  heard        (* history: played when audio_queued_bytes was read         *)

audio == <<written, lost, size, apc>>
video == <<pts, queued, clock, vpc, heard>>
device == <<sdlq, played>>
config == <<dev, obtained>>
vars == <<quit, config, device, audio, video>>

AudioLabels == {"Loop", "Idle", "Receive", "Convert", "Queue", "Count", "Done", "Crashed"}
VideoLabels == {"Loop", "Idle", "Receive", "ReadQueued", "ReadWritten", "Test",
                "Show", "Done"}

(* bytes_per_sec, one for a device opened as wanted. *)
Rate == obtained.channels * obtained.freq

(* What was given to SDL_QueueAudio. *)
Handed == played + sdlq + lost
-----------------------------------------------------------------------------
(* A device that opens is opened as wanted; when SDL_OpenAudioDevice fails
   the program goes on with whatever obtained_spec holds.                  *)
Init ==
  /\ quit = FALSE
  /\ \/ dev = TRUE /\ obtained = [channels |-> 1, freq |-> 1]
     \/ dev = FALSE /\ obtained \in [channels : Unset, freq : Unset]
  /\ written = 0 /\ sdlq = 0 /\ played = 0 /\ lost = 0
  /\ size = 0 /\ apc = "Loop"
  /\ pts = 0 /\ queued = 0 /\ clock = 0 /\ vpc = "Loop" /\ heard = 0

(* The process has not died. *)
Alive == apc # "Crashed"

(* The end of the file, or the user. *)
Quit ==
  /\ Alive
  /\ quit' = TRUE
  /\ UNCHANGED <<config, device, audio, video>>

(* External: the device takes from its queue. *)
DevicePlays ==
  /\ Alive /\ sdlq > 0
  /\ sdlq' = sdlq - 1 /\ played' = played + 1
  /\ UNCHANGED <<quit, config, audio, video>>
-----------------------------------------------------------------------------
(* The audio thread. *)

AudioAt(from, to) ==
  /\ apc = from /\ apc' = to
  /\ UNCHANGED <<quit, config, video>>

AudioLoop ==
  /\ AudioAt("Loop", IF quit THEN "Done" ELSE "Idle")
  /\ UNCHANGED <<written, lost, size, device>>

(* Woken with nothing to do. *)
AudioBreak ==
  /\ quit
  /\ AudioAt("Idle", "Done")
  /\ UNCHANGED <<written, lost, size, device>>

(* avcodec_send_packet takes the packet or fails: then it is freed at once. *)
AudioSend ==
  /\ AudioAt("Idle", "Receive") \/ AudioAt("Idle", "Loop")
  /\ UNCHANGED <<written, lost, size, device>>

(* avcodec_receive_frame has a frame. *)
AudioFrame ==
  /\ AudioAt("Receive", "Convert")
  /\ UNCHANGED <<written, lost, size, device>>

AudioNoFrame ==
  /\ AudioAt("Receive", "Loop")
  /\ UNCHANGED <<written, lost, size, device>>

(* Fault: data_size is not tested. *)
AudioConvertUnchecked ==
  /\ obtained.channels # 0
  /\ size' \in -1..MaxChunk /\ Handed + size' <= MaxAudio
  /\ AudioAt("Convert", "Queue")
  /\ UNCHANGED <<written, lost, device>>

(* swr_convert into audio_buf.  The room in it is 192000 / channels / 2: with
   no channels the division traps.  With no freq swr_init has failed, unseen,
   and no conversion works.  A data_size that is not positive, whether the
   conversion failed or yielded nothing yet, goes no further.              *)
AudioConvert ==
  /\ \/ /\ obtained.channels = 0
        /\ AudioAt("Convert", "Crashed")
        /\ UNCHANGED size
     \/ /\ Rate > 0
        /\ \E n \in 1..MaxChunk :
             /\ Handed + n <= MaxAudio
             /\ size' = n
        /\ AudioAt("Convert", "Queue")
     \/ /\ obtained.channels # 0
        /\ AudioAt("Convert", "Receive")
        /\ UNCHANGED size
  /\ UNCHANGED <<written, lost, device>>

(* SDL_QueueAudio; its result is ignored. *)
AudioQueue ==
  /\ \/ dev /\ sdlq' = sdlq + size /\ UNCHANGED lost
     \/ lost' = lost + size /\ UNCHANGED sdlq
  /\ AudioAt("Queue", "Count")
  /\ UNCHANGED <<written, size, played>>

(* Fault: counted anew with every frame, as by = for +=. *)
AudioCountLast ==
  /\ AudioAt("Count", "Receive")
  /\ written' = size /\ size' = 0
  /\ UNCHANGED <<lost, device>>

AudioCount ==
  /\ AudioAt("Count", "Receive")
  /\ written' = written + size /\ size' = 0
  /\ UNCHANGED <<lost, device>>
-----------------------------------------------------------------------------
(* The video thread. *)

VideoAt(from, to) ==
  /\ Alive
  /\ vpc = from /\ vpc' = to
  /\ UNCHANGED <<quit, config, device, audio>>

VideoLoop ==
  /\ VideoAt("Loop", IF quit THEN "Done" ELSE "Idle")
  /\ UNCHANGED <<pts, queued, clock, heard>>

VideoBreak ==
  /\ quit
  /\ VideoAt("Idle", "Done")
  /\ UNCHANGED <<pts, queued, clock, heard>>

VideoSend ==
  /\ VideoAt("Idle", "Receive") \/ VideoAt("Idle", "Loop")
  /\ UNCHANGED <<pts, queued, clock, heard>>

(* A frame; one with no time stamp counts as the first. *)
VideoFrame ==
  /\ VideoAt("Receive", "ReadQueued")
  /\ pts' \in 0..MaxPts
  /\ UNCHANGED <<queued, clock, heard>>

VideoNoFrame ==
  /\ VideoAt("Receive", "Loop")
  /\ UNCHANGED <<pts, queued, clock, heard>>

(* get_audio_clock asks SDL for the size of its queue... *)
VideoReadQueued ==
  /\ VideoAt("ReadQueued", "ReadWritten")
  /\ queued' = sdlq /\ heard' = played
  /\ UNCHANGED <<pts, clock>>

(* Fault: what SDL has yet to play counts as played. *)
AudioClockOfWritten == IF Rate > 0 THEN written ELSE 0

AudioClock == IF Rate > 0 THEN written - queued ELSE 0

(* ... and then reads audio_written_bytes. *)
VideoReadWritten ==
  /\ VideoAt("ReadWritten", "Test")
  /\ clock' = AudioClock
  /\ UNCHANGED <<pts, queued, heard>>

(* Fault: twice the tolerance. *)
AheadTwice == IF Rate > 0 THEN (pts - 2 * Tol) * Rate > clock ELSE pts > 2 * Tol

(* video_pts > audio_clock + 0.02 *)
Ahead == IF Rate > 0 THEN (pts - Tol) * Rate > clock ELSE pts > Tol

(* Fault: the clock is not read again. *)
VideoTestStale ==
  /\ VideoAt("Test", IF ~ quit /\ Ahead THEN "Test" ELSE "Show")
  /\ UNCHANGED <<pts, queued, clock, heard>>

(* Fault: the wait goes on whatever quit says. *)
VideoTestNoQuit ==
  /\ VideoAt("Test", IF Ahead THEN "ReadQueued" ELSE "Show")
  /\ UNCHANGED <<pts, queued, clock, heard>>

VideoTest ==
  /\ VideoAt("Test", IF ~ quit /\ Ahead THEN "ReadQueued" ELSE "Show")
  /\ UNCHANGED <<pts, queued, clock, heard>>

VideoShow ==
  /\ VideoAt("Show", "Receive")
  /\ UNCHANGED <<pts, queued, clock, heard>>
-----------------------------------------------------------------------------
Audio ==
  \/ AudioLoop \/ AudioBreak \/ AudioSend \/ AudioFrame \/ AudioNoFrame
  \/ AudioConvert \/ AudioQueue \/ AudioCount

Video ==
  \/ VideoLoop \/ VideoBreak \/ VideoSend \/ VideoFrame \/ VideoNoFrame
  \/ VideoReadQueued \/ VideoReadWritten \/ VideoTest \/ VideoShow

(* Both threads returned, or the process died. *)
Terminated ==
  /\ apc = "Crashed" \/ (apc = "Done" /\ vpc = "Done")
  /\ UNCHANGED vars

Next == Quit \/ DevicePlays \/ Audio \/ Video \/ Terminated

Spec == Init /\ [][Next]_vars
-----------------------------------------------------------------------------
(***************************************************************************)
(* Fairness.  The device plays, both threads run, and a packet holds a     *)
(* bounded number of frames, so that avcodec_receive_frame comes to fail.  *)
(* Packets need not come, and a thread that waits for one need not wake:   *)
(* no fairness of the steps from "Idle".                                   *)
(***************************************************************************)
AudioRuns == apc # "Idle" /\ Audio
VideoRuns == vpc # "Idle" /\ Video

FairSpec ==
  /\ Spec
  /\ WF_vars(DevicePlays)
  /\ WF_vars(AudioRuns) /\ SF_vars(AudioNoFrame)
  /\ WF_vars(VideoRuns) /\ SF_vars(VideoNoFrame)
-----------------------------------------------------------------------------
(* Each variable has its type, and the counters stay within the audio. *)
TypeOK ==
  /\ quit \in BOOLEAN /\ dev \in BOOLEAN
  /\ obtained \in [channels : Unset \cup {1}, freq : Unset \cup {1}]
  /\ {written, sdlq, played, lost, queued, heard} \subseteq 0..MaxAudio
  /\ size \in 0..MaxChunk
  /\ apc \in AudioLabels /\ vpc \in VideoLabels
  /\ pts \in 0..MaxPts
  /\ clock \in Int

(* The bytes counted in audio_written_bytes, with those about to be, are
   those played, queued, or refused by SDL (lines 268-271).                *)
EveryByteCounted ==
  Handed = written + (IF apc = "Count" THEN size ELSE 0)

(* The clock never lags what was heard when it was read by more than the
   one chunk that is queued and not yet counted (lines 270-271 against
   282-287), however the audio thread runs between its two reads.          *)
ClockLagsOneChunk ==
  vpc = "Test" /\ Rate > 0 => clock >= heard - MaxChunk

(* While playback goes on no frame is shown whose time is more than the
   tolerance past the end of the audio handed to SDL: video cannot overtake
   what the audio thread decoded, torn as the clock is (lines 313-319).    *)
FrameHasItsAudio ==
  vpc = "Show" /\ ~ quit /\ Rate > 0 => (pts - Tol) * Rate <= Handed

(* If the device opened and takes all it is given, no frame is shown more
   than the tolerance ahead of the audio played (lines 315-316).           *)
FrameWaitsForAudio ==
  vpc = "Show" /\ ~ quit /\ dev /\ lost = 0 => pts <= played + Tol

(* A frame whose time is covered by the audio counted so far is shown: only
   a lack of decoded audio, or of a rate, can keep a frame waiting.        *)
Covered == Rate > 0 /\ (pts - Tol) * Rate <= written

CoveredFrameIsShown == (vpc = "Test" /\ Covered) ~> (vpc = "Show" \/ ~ Alive)

(* The clock and the wait for it, torn reads and all, are those of
   FrameClock (lines 281-290, 313-319).  A frame is made to wait only by a
   time that is right for the moment of the question, less one chunk.  One
   is shown by a time that leaves out what SDL held at the question, but may
   count as heard whatever was handed to SDL between question and answer.  *)
Promise == INSTANCE FrameClock WITH
             Lag <- MaxChunk, rate <- Rate, over <- quit,
             handed <- Handed, left <- sdlq, heard <- played,
             frame <- IF vpc \in {"ReadQueued", "ReadWritten", "Test"} THEN pts ELSE -1,
             asked <- IF vpc \in {"ReadWritten", "Test"} THEN heard ELSE -1,
             seen <- IF vpc \in {"ReadWritten", "Test"} THEN queued ELSE -1

ImplementsFrameClock == Promise!Spec

(* Once quit is set both threads are done with the packet in hand, the
   video thread even out of its wait for the clock (line 316).             *)
QuitEndsDecoding ==
  quit ~> (~ Alive \/ ({apc, vpc} \subseteq {"Idle", "Done"}))
=============================================================================
