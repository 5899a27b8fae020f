---------------------------- MODULE AvSyncProofs ----------------------------
(***************************************************************************)
(* Proofs about the audio clock and the wait for it in AvSync, for chunks, *)
(* files and tolerances of any size, and whatever an obtained_spec holds   *)
(* that SDL did not fill in.                                               *)
(***************************************************************************)
EXTENDS AvSync, TLAPS

(* The numbers alone: TypeOK bounds them by MaxAudio, which follows. *)
Numbers ==
  /\ quit \in BOOLEAN /\ dev \in BOOLEAN
  /\ obtained \in [channels : Unset \cup {1}, freq : Unset \cup {1}]
  /\ written \in Nat /\ sdlq \in Nat /\ played \in Nat /\ lost \in Nat
  /\ queued \in Nat /\ heard \in Nat
  /\ size \in 0..MaxChunk /\ clock \in Int
  /\ pts \in 0..MaxPts
  /\ apc \in AudioLabels /\ vpc \in VideoLabels

(* No more is handed to SDL than the file has, counting the chunk in hand. *)
Budget == Handed + (IF apc = "Queue" THEN size ELSE 0) <= MaxAudio

(* What the video thread remembers of SDL's queue was handed over by then. *)
Snapshot ==
  /\ queued <= Handed /\ heard <= played
  /\ vpc = "ReadWritten" => heard + queued <= written + MaxChunk

(* The clock counts nothing that was not counted, and leaves out what SDL
   held when it was asked.                                                 *)
ClockBehindWritten == vpc \in {"Test", "Show"} /\ Rate > 0 => clock + queued <= written

(* A frame that is let go while playback goes on has waited for the clock. *)
ShownOnTime == vpc = "Show" /\ ~ quit /\ Rate > 0 => (pts - Tol) * Rate <= clock

SyncInv ==
  /\ Numbers
  /\ Budget
  /\ EveryByteCounted
  /\ Snapshot
  /\ ClockLagsOneChunk
  /\ ClockBehindWritten
  /\ ShownOnTime

\* A product of integers is one: Zenon and SMT need it named.
LEMMA MultInt == ASSUME NEW a \in Int, NEW b \in Int PROVE a * b \in Int
  OBVIOUS

\* The same of a sum of three naturals.
LEMMA SumIsNat ==
  ASSUME NEW a \in Nat, NEW b \in Nat, NEW c \in Nat PROVE a + b + c \in Nat
  OBVIOUS

\* The byte rate is a natural number, whatever SDL left unset.
LEMMA RateIsNat == Numbers => Rate \in Nat
<1>1. ASSUME NEW a \in Nat, NEW b \in Nat PROVE a * b \in Nat
  OBVIOUS
<1>2. ASSUME Numbers PROVE obtained.channels \in Nat /\ obtained.freq \in Nat
  <2>1. Unset \cup {1} \subseteq Nat
    BY UnsetAssumption
  <2>2. obtained \in [channels : Unset \cup {1}, freq : Unset \cup {1}]
    BY <1>2 DEF Numbers
  <2> QED
    BY <2>1, <2>2
<1> QED
  BY <1>1, <1>2 DEF Rate

\* So is what SDL was handed.
LEMMA HandedIsNat == Numbers => Handed \in Nat
<1>1. Numbers => played \in Nat /\ sdlq \in Nat /\ lost \in Nat
  BY DEF Numbers
<1> QED
  BY <1>1 DEF Handed

\* The invariant holds at the start.
LEMMA SyncInit == Init => SyncInv
<1> SUFFICES ASSUME Init PROVE SyncInv
  OBVIOUS
<1>1. Numbers
  <2>1. obtained \in [channels : Unset \cup {1}, freq : Unset \cup {1}]
    <3>1. CASE obtained = [channels |-> 1, freq |-> 1]
      BY <3>1
    <3>2. CASE obtained \in [channels : Unset, freq : Unset]
      BY <3>2
    <3> QED
      BY <3>1, <3>2 DEF Init
  <2>2. quit \in BOOLEAN /\ dev \in BOOLEAN
    BY Zenon DEF Init
  <2>3. size \in 0..MaxChunk /\ pts \in 0..MaxPts
    BY ChunkAssumption, PtsAssumption DEF Init
  <2> QED
    BY <2>1, <2>2, <2>3 DEF Init, Numbers, AudioLabels, VideoLabels
<1>2. Budget /\ EveryByteCounted /\ Snapshot
  BY AudioAssumption, ChunkAssumption DEF Init, Budget, EveryByteCounted, Snapshot, Handed
<1>3. ClockLagsOneChunk /\ ClockBehindWritten /\ ShownOnTime
  BY DEF Init, ClockLagsOneChunk, ClockBehindWritten, ShownOnTime
<1> QED
  BY <1>1, <1>2, <1>3 DEF SyncInv

\* Every step keeps it.
LEMMA SyncStep == SyncInv /\ [Next]_vars => SyncInv'
<1> SUFFICES ASSUME SyncInv, [Next]_vars PROVE SyncInv'
  OBVIOUS
<1>r. Rate \in Nat /\ MaxChunk \in Nat
  BY RateIsNat, ChunkAssumption DEF SyncInv
<1> USE <1>r DEF SyncInv, Numbers, Budget, EveryByteCounted, Snapshot, ClockLagsOneChunk,
   ClockBehindWritten, ShownOnTime, Handed, AudioLabels, VideoLabels,
   config, device, audio, video, Alive
<1>1. CASE Quit
  BY <1>1 DEF Quit, Rate
<1>2. CASE DevicePlays
  BY <1>2 DEF DevicePlays, Rate
<1>3. CASE AudioLoop
  BY <1>3 DEF AudioLoop, AudioAt, Rate
<1>4. CASE AudioBreak
  BY <1>4 DEF AudioBreak, AudioAt, Rate
<1>5. CASE AudioSend
  BY <1>5 DEF AudioSend, AudioAt, Rate
<1>6. CASE AudioFrame
  BY <1>6 DEF AudioFrame, AudioAt, Rate
<1>7. CASE AudioNoFrame
  BY <1>7 DEF AudioNoFrame, AudioAt, Rate
<1>8. CASE AudioConvert
  BY <1>8 DEF AudioConvert, AudioAt, Rate
<1>9. CASE AudioQueue
  BY <1>9 DEF AudioQueue, AudioAt, Rate
<1>10. CASE AudioCount
  BY <1>10 DEF AudioCount, AudioAt, Rate
<1>11. CASE VideoLoop
  BY <1>11 DEF VideoLoop, VideoAt, Rate
<1>12. CASE VideoBreak
  BY <1>12 DEF VideoBreak, VideoAt, Rate
<1>13. CASE VideoSend
  BY <1>13 DEF VideoSend, VideoAt, Rate
<1>14. CASE VideoFrame
  BY <1>14 DEF VideoFrame, VideoAt, Rate
<1>15. CASE VideoNoFrame
  BY <1>15 DEF VideoNoFrame, VideoAt, Rate
<1>16. CASE VideoReadQueued
  BY <1>16 DEF VideoReadQueued, VideoAt, Rate
<1>17. CASE VideoReadWritten
  BY <1>17 DEF VideoReadWritten, VideoAt, AudioClock, Rate
<1>18. CASE VideoTest
  <2>1. Rate' = Rate
    BY <1>18 DEF VideoTest, VideoAt, Rate
  <2>2. CASE vpc' = "ReadQueued"
    BY <1>18, <2>1, <2>2 DEF VideoTest, VideoAt
  <2>3. CASE vpc' = "Show"
    <3>1. ~ quit' /\ Rate' > 0 => (pts' - Tol) * Rate' <= clock'
      <4>1. (pts - Tol) * Rate \in Int
        BY TolAssumption, MultInt
      <4> QED
        BY <1>18, <2>1, <2>3, <4>1 DEF VideoTest, VideoAt, Ahead
    <3> QED
      BY <1>18, <2>1, <2>3, <3>1 DEF VideoTest, VideoAt
  <2> QED
    BY <1>18, <2>2, <2>3 DEF VideoTest, VideoAt
<1>19. CASE VideoShow
  BY <1>19 DEF VideoShow, VideoAt, Rate
<1>20. CASE UNCHANGED vars
  BY <1>20 DEF vars, Rate
<1> QED
  BY <1>1, <1>2, <1>3, <1>4, <1>5, <1>6, <1>7, <1>8, <1>9, <1>10, <1>11, <1>12, <1>13,
     <1>14, <1>15, <1>16, <1>17, <1>18, <1>19, <1>20
     DEF Next, Audio, Video, Terminated

\* So it holds always.
LEMMA SyncInvariance == Spec => []SyncInv
<1> QED
  BY SyncInit, SyncStep, PTL DEF Spec
-----------------------------------------------------------------------------
(* Every variable keeps its type, and no counter exceeds the audio there is. *)
THEOREM TypeCorrect == Spec => []TypeOK
<1>1. SyncInv => TypeOK
  BY ChunkAssumption, AudioAssumption
     DEF SyncInv, Numbers, Budget, EveryByteCounted, Snapshot, TypeOK, Handed
<1> QED
  BY SyncInvariance, <1>1, PTL

(* Whatever the interleaving of queueing, counting and playing, the bytes
   counted are those played, queued or refused.                            *)
THEOREM BytesAreCounted == Spec => []EveryByteCounted
<1>1. SyncInv => EveryByteCounted
  BY DEF SyncInv
<1> QED
  BY SyncInvariance, <1>1, PTL

(* For chunks of any size, the torn clock lags by one chunk at most. *)
THEOREM ClockLagBounded == Spec => []ClockLagsOneChunk
<1>1. SyncInv => ClockLagsOneChunk
  BY DEF SyncInv
<1> QED
  BY SyncInvariance, <1>1, PTL

(* For any tolerance and any rate, no frame overtakes the audio handed to
   SDL while playback goes on.                                             *)
THEOREM VideoNeverOvertakes == Spec => []FrameHasItsAudio
<1>1. SyncInv => FrameHasItsAudio
  <2> SUFFICES ASSUME SyncInv, vpc = "Show", ~ quit, Rate > 0
               PROVE (pts - Tol) * Rate <= Handed
    BY DEF FrameHasItsAudio
  <2>1. (pts - Tol) * Rate \in Int /\ clock \in Int /\ written \in Nat /\ Handed \in Nat
    BY RateIsNat, TolAssumption, MultInt DEF SyncInv, Numbers, Handed
  <2>2. (pts - Tol) * Rate <= clock /\ clock <= written
    BY <2>1 DEF SyncInv, Numbers, ShownOnTime, ClockBehindWritten
  <2>3. written <= Handed
    BY ChunkAssumption DEF SyncInv, EveryByteCounted, Numbers, Handed
  <2> QED
    BY <2>1, <2>2, <2>3
<1> QED
  BY SyncInvariance, <1>1, PTL
-----------------------------------------------------------------------------
(* What of a step FrameClock does not see. *)
LEMMA Unseen ==
  ASSUME UNCHANGED <<quit, obtained, played, sdlq, heard, queued, pts>>, Handed' = Handed,
         vpc' = vpc \/ {vpc, vpc'} \subseteq {"Loop", "Idle", "Receive", "Show", "Done"}
                    \/ {vpc, vpc'} \subseteq {"ReadWritten", "Test"}
  PROVE  UNCHANGED Promise!vars
<1>1. Rate' = Rate
  BY DEF Rate
<1> QED
  BY <1>1 DEF Promise!vars, Promise!sound, Promise!Nothing

\* The refinement: initial states.
LEMMA PromiseInit == Init => Promise!Init
<1> SUFFICES ASSUME Init PROVE Promise!Init
  OBVIOUS
<1>1. Rate \in Nat
  BY SyncInit, RateIsNat DEF SyncInv
<1> QED
  BY <1>1 DEF Init, Promise!Init, Promise!Nothing, Handed

\* The refinement: each step is a step of FrameClock or a stutter.
LEMMA PromiseStep == SyncInv /\ SyncInv' /\ [Next]_vars => [Promise!Next]_Promise!vars
<1> SUFFICES ASSUME SyncInv, SyncInv', [Next]_vars
             PROVE  Promise!Next \/ UNCHANGED Promise!vars
  OBVIOUS
<1>n. Numbers /\ Numbers' /\ Rate \in Nat /\ Handed \in Nat /\ Handed' \in Nat
  <2>1. Numbers /\ Numbers'
    BY DEF SyncInv
  <2>2. Handed' \in Nat
    <3>1. played' \in Nat /\ sdlq' \in Nat /\ lost' \in Nat
      BY <2>1 DEF Numbers
    <3>2. played' + sdlq' + lost' \in Nat
      BY <3>1, SumIsNat
    <3> QED
      BY <3>2 DEF Handed
  <2> QED
    BY <2>1, <2>2, RateIsNat, HandedIsNat
<1>1. CASE Quit
  <2>1. quit' = TRUE /\ UNCHANGED <<obtained, played, sdlq, heard, queued, pts, vpc>> /\ Handed' = Handed
    BY <1>1 DEF Quit, config, device, audio, video, Handed
  <2>2. Rate' = Rate
    BY <2>1 DEF Rate
  <2>3. Promise!End
    BY <2>1, <2>2 DEF Promise!End, Promise!sound
  <2> QED
    BY <2>3 DEF Promise!Next
<1>2. CASE DevicePlays
  <2>1. /\ played' = played + 1 /\ sdlq' = sdlq - 1 /\ sdlq > 0
        /\ UNCHANGED <<quit, obtained, lost, heard, queued, pts, vpc>>
    BY <1>2 DEF DevicePlays, config, audio, video
  <2>2. Handed' = Handed
    BY <1>n, <2>1 DEF Numbers, Handed
  <2>3. Rate' = Rate
    BY <2>1 DEF Rate
  <2>4. Promise!Hear
    BY <2>1, <2>2, <2>3 DEF Promise!Hear
  <2> QED
    BY <2>4 DEF Promise!Next
<1>3. CASE AudioQueue
  <2>1. /\ UNCHANGED <<quit, obtained, played, heard, queued, pts, vpc>>
        /\ \/ sdlq' = sdlq + size /\ lost' = lost
           \/ lost' = lost + size /\ sdlq' = sdlq
    BY <1>3 DEF AudioQueue, AudioAt, config, video
  <2>2. Rate' = Rate
    BY <2>1 DEF Rate
  <2>3. Handed' = Handed + size /\ size \in Nat
    <3>1. played \in Nat /\ sdlq \in Nat /\ lost \in Nat /\ size \in Nat
      BY <1>n, ChunkAssumption DEF Numbers
    <3> QED
      BY <2>1, <3>1 DEF Handed
  <2>4. CASE size > 0
    <3>1. Handed' > Handed /\ Handed' - Handed = size
      BY <1>n, <2>3, <2>4
    <3>2. Promise!Hand
      BY <1>n, <2>1, <2>2, <3>1 DEF Promise!Hand
    <3> QED
      BY <3>2 DEF Promise!Next
  <2>5. CASE size = 0
    <3>1. sdlq' = sdlq /\ Handed' = Handed
      BY <1>n, <2>1, <2>3, <2>5 DEF Numbers
    <3> QED
      BY <2>1, <3>1, Unseen
  <2> QED
    BY <2>3, <2>4, <2>5
<1>4. CASE Audio /\ ~ AudioQueue
  <2>1. UNCHANGED <<quit, obtained, played, sdlq, lost, heard, queued, pts, vpc>>
    BY <1>4 DEF Audio, AudioLoop, AudioBreak, AudioSend, AudioFrame, AudioNoFrame, AudioConvert,
                AudioCount, AudioAt, config, device, video
  <2>2. Handed' = Handed
    BY <2>1 DEF Handed
  <2> QED
    BY <2>1, <2>2, Unseen
<1>5. CASE Video
  <2>1. UNCHANGED <<quit, obtained, played, sdlq, lost, written>>
    BY <1>5 DEF Video, VideoLoop, VideoBreak, VideoSend, VideoFrame, VideoNoFrame,
                VideoReadQueued, VideoReadWritten, VideoTest, VideoShow, VideoAt, config, device, audio
  <2>2. Handed' = Handed /\ Rate' = Rate
    BY <2>1 DEF Handed, Rate
  <2>3. CASE VideoLoop \/ VideoBreak \/ VideoSend \/ VideoNoFrame \/ VideoReadWritten \/ VideoShow
    <3>1. /\ UNCHANGED <<heard, queued, pts>>
          /\ \/ {vpc, vpc'} \subseteq {"Loop", "Idle", "Receive", "Show", "Done"}
             \/ {vpc, vpc'} \subseteq {"ReadWritten", "Test"}
      BY <2>3 DEF VideoLoop, VideoBreak, VideoSend, VideoNoFrame, VideoReadWritten, VideoShow, VideoAt
    <3> QED
      BY <2>1, <2>2, <3>1, Unseen
  <2>4. CASE VideoFrame
    <3>1. vpc = "Receive" /\ vpc' = "ReadQueued" /\ pts' \in Nat /\ UNCHANGED <<heard, queued>>
      BY <2>4, PtsAssumption DEF VideoFrame, VideoAt
    <3>2. Promise!Take
      BY <2>1, <2>2, <3>1 DEF Promise!Take, Promise!sound, Promise!Nothing
    <3> QED
      BY <3>2 DEF Promise!Next
  <2>5. CASE VideoReadQueued
    <3>1. vpc = "ReadQueued" /\ vpc' = "ReadWritten" /\ pts' = pts
          /\ heard' = played /\ queued' = sdlq
      BY <2>5 DEF VideoReadQueued, VideoAt
    <3>2. pts # -1
      BY <1>n, PtsAssumption DEF Numbers
    <3>3. Promise!Ask
      BY <2>1, <2>2, <3>1, <3>2 DEF Promise!Ask, Promise!sound, Promise!Nothing
    <3> QED
      BY <3>3 DEF Promise!Next
  <2>6. CASE VideoTest
    <3>1. vpc = "Test" /\ UNCHANGED <<pts, heard, queued>>
      BY <2>6 DEF VideoTest, VideoAt
    <3>2. heard # -1
      BY <1>n DEF Numbers
    <3>3. (pts - Tol) * Rate \in Int /\ MaxChunk \in Nat /\ Tol \in Nat /\ clock \in Int
          /\ heard \in Nat /\ written \in Nat /\ pts \in Nat /\ queued \in Nat
      BY <1>n, TolAssumption, ChunkAssumption, PtsAssumption, MultInt DEF Numbers
    <3>4. Rate > 0 => heard - MaxChunk <= clock /\ clock <= Handed - queued
      <4>1. Rate > 0 => heard - MaxChunk <= clock
        BY <1>n, <3>1, <3>3 DEF SyncInv, ClockLagsOneChunk
      <4>2. written <= Handed
        BY <1>n, <3>3, ChunkAssumption DEF SyncInv, EveryByteCounted, Numbers
      <4>3. Rate > 0 => clock + queued <= written
        BY <3>1 DEF SyncInv, ClockBehindWritten
      <4> QED
        BY <1>n, <3>3, <4>1, <4>2, <4>3
    <3>5. CASE ~ quit /\ Ahead
      <4>1. vpc' = "ReadQueued"
        BY <2>6, <3>5 DEF VideoTest, VideoAt
      <4>2. ~ (IF Rate > 0 THEN (pts - Tol) * Rate <= heard - MaxChunk ELSE pts <= Tol)
        BY <1>n, <3>3, <3>4, <3>5 DEF Ahead
      <4>3. Promise!Wait
        BY <2>1, <2>2, <3>1, <3>2, <3>5, <4>1, <4>2 DEF Promise!Wait, Promise!sound, Promise!Due, Promise!Nothing
      <4> QED
        BY <4>3 DEF Promise!Next
    <3>6. CASE quit \/ ~ Ahead
      <4>1. vpc' = "Show"
        BY <2>6, <3>6 DEF VideoTest, VideoAt
      <4>2. quit \/ (IF Rate > 0 THEN (pts - Tol) * Rate <= Handed - queued ELSE pts <= Tol)
        BY <1>n, <3>3, <3>4, <3>6 DEF Ahead
      <4>3. Promise!Show
        BY <2>1, <2>2, <3>1, <3>2, <4>1, <4>2 DEF Promise!Show, Promise!sound, Promise!Due, Promise!Nothing
      <4> QED
        BY <4>3 DEF Promise!Next
    <3> QED
      BY <3>5, <3>6
  <2> QED
    BY <1>5, <2>3, <2>4, <2>5, <2>6 DEF Video
<1>6. CASE UNCHANGED vars \/ Terminated
  <2>1. UNCHANGED <<quit, obtained, played, sdlq, lost, heard, queued, pts, vpc>>
    BY <1>6 DEF vars, Terminated, config, device, audio, video
  <2>2. Handed' = Handed
    BY <2>1 DEF Handed
  <2> QED
    BY <2>1, <2>2, Unseen
<1> QED
  BY <1>1, <1>2, <1>3, <1>4, <1>5, <1>6 DEF Next

(* What the wait for the torn clock is worth, for any chunk size, tolerance
   and rate: a frame is sent back to wait only if what was heard when SDL's
   queue was read, less one chunk, did not make it due; and it is shown only
   if all that was handed to SDL by now, less what SDL held at that read,
   does, be it heard or not (lines 281-290, 313-319).                      *)
THEOREM ClockKeepsPromise == Spec => ImplementsFrameClock
<1>1. SyncInv /\ SyncInv' /\ [Next]_vars => [Promise!Next]_Promise!vars
  BY PromiseStep
<1> QED
  BY PromiseInit, SyncInvariance, <1>1, PTL DEF Spec, ImplementsFrameClock, Promise!Spec
-----------------------------------------------------------------------------
(***************************************************************************)
(* The wait for the clock without fairness: what each step brings nearer.  *)
(***************************************************************************)
Waiting == vpc \in {"ReadQueued", "ReadWritten", "Test"}

(* How many steps of the video thread a covered frame may still wait when SDL
   has played all it has: a clock that was read before may be out of date. *)
Turns ==
  CASE vpc = "Test"        -> IF Ahead THEN 4 ELSE 1
    [] vpc = "ReadWritten" -> IF queued = 0 THEN 2 ELSE 5
    [] vpc = "ReadQueued"  -> 3
    [] OTHER               -> 0

WaitShortens ==
  [][Waiting /\ Covered =>
       /\ Covered'
       /\ Video /\ sdlq = 0 => Turns' < Turns
       /\ ~ Video => Turns' = Turns]_vars

(* What the device has still to be handed and to play. *)
SoundLeft == 2 * (MaxAudio - Handed) + sdlq

SoundIsSpent ==
  [][/\ SoundLeft \in Nat
     /\ \/ SoundLeft' < SoundLeft
        \/ UNCHANGED <<Handed, sdlq>>]_vars

\* The steps of the other threads, the device and the user leave the video thread alone.
LEMMA OthersLeaveVideo ==
  Quit \/ DevicePlays \/ Audio => UNCHANGED <<video, config>>
BY DEF Quit, DevicePlays, Audio, AudioLoop, AudioBreak, AudioSend, AudioFrame,
       AudioNoFrame, AudioConvert, AudioQueue, AudioCount, AudioAt

\* Only the count changes audio_written_bytes, and only upwards.
LEMMA WrittenGrows ==
  ASSUME Numbers, Quit \/ DevicePlays \/ Audio
  PROVE  written' >= written /\ written' \in Nat
<1>1. written \in Nat /\ size \in Nat
  BY ChunkAssumption DEF Numbers
<1>2. CASE AudioCount
  <2>1. written' = written + size
    BY <1>2 DEF AudioCount
  <2> QED
    BY <1>1, <2>1
<1>3. CASE ~ AudioCount
  <2>1. written' = written
    BY <1>3 DEF Quit, DevicePlays, Audio, AudioLoop, AudioBreak, AudioSend, AudioFrame,
                AudioNoFrame, AudioConvert, AudioQueue, audio
  <2> QED
    BY <1>1, <2>1
<1> QED
  BY <1>2, <1>3

(* A frame that waits and is covered stays covered; the other threads do not
   set it back; and once SDL's queue is empty each step of the video thread
   brings it nearer to the screen: five of them, and it is shown.          *)
THEOREM CoveredFrameNearsShowing == Spec => WaitShortens
<1>1. SyncInv /\ [Next]_vars
        => [Waiting /\ Covered => /\ Covered'
                                  /\ Video /\ sdlq = 0 => Turns' < Turns
                                  /\ ~ Video => Turns' = Turns]_vars
  <2> SUFFICES ASSUME SyncInv, Next, vars' # vars, Waiting, Covered
               PROVE  /\ Covered'
                      /\ Video /\ sdlq = 0 => Turns' < Turns
                      /\ ~ Video => Turns' = Turns
    OBVIOUS
  <2>n. Numbers /\ Rate \in Nat /\ written \in Nat /\ (pts - Tol) * Rate \in Int
    BY RateIsNat, TolAssumption, MultInt DEF SyncInv, Numbers
  <2>1. CASE Quit \/ DevicePlays \/ Audio
    <3>1. UNCHANGED <<vpc, pts, queued, clock, obtained>>
      BY <2>1, OthersLeaveVideo DEF video, config
    <3>2. Rate' = Rate
      BY <3>1 DEF Rate
    <3>3. Covered'
      <4>1. Rate > 0 /\ (pts - Tol) * Rate <= written
        BY DEF Covered
      <4>2. written' >= written /\ written' \in Nat
        BY <2>n, <2>1, WrittenGrows
      <4>3. (pts - Tol) * Rate <= written'
        BY <2>n, <4>1, <4>2
      <4> QED
        BY <3>1, <3>2, <4>1, <4>3 DEF Covered
    <3>4. Ahead' <=> Ahead
      BY <3>1, <3>2 DEF Ahead
    <3>5. Turns' = Turns
      BY <3>1, <3>4 DEF Turns
    <3>6. ~ Video
      <4>1. Video => vpc' # vpc
        BY DEF Waiting, Video, VideoLoop, VideoBreak, VideoSend, VideoFrame, VideoNoFrame,
               VideoReadQueued, VideoReadWritten, VideoTest, VideoShow, VideoAt
      <4> QED
        BY <3>1, <4>1
    <3> QED
      BY <3>3, <3>5, <3>6
  <2>2. CASE VideoReadQueued \/ VideoReadWritten \/ VideoTest
    <3>1. UNCHANGED <<pts, written, obtained>>
      BY <2>2 DEF VideoReadQueued, VideoReadWritten, VideoTest, VideoAt, config, audio
    <3>2. Rate' = Rate
      BY <3>1 DEF Rate
    <3>3. Covered'
      BY <3>1, <3>2 DEF Covered
    <3>4. Video
      BY <2>2 DEF Video
    <3>5. ASSUME sdlq = 0, VideoReadQueued PROVE Turns' < Turns
      <4>1. vpc = "ReadQueued" /\ vpc' = "ReadWritten" /\ queued' = 0
        BY <3>5 DEF VideoReadQueued, VideoAt
      <4> QED
        BY <4>1 DEF Turns
    <3>6. ASSUME VideoReadWritten PROVE Turns' < Turns
      <4>1. /\ vpc = "ReadWritten" /\ vpc' = "Test"
            /\ clock' = AudioClock
        BY <3>6 DEF VideoReadWritten, VideoAt
      <4>2. CASE queued = 0
        <5>1. Rate > 0 /\ (pts - Tol) * Rate <= written
          BY DEF Covered
        <5>2. clock' = written
          BY <2>n, <4>1, <4>2, <5>1 DEF AudioClock
        <5>3. ~ ((pts - Tol) * Rate > clock')
          BY <2>n, <5>1, <5>2
        <5>4. ~ Ahead'
          BY <3>1, <3>2, <5>1, <5>3 DEF Ahead
        <5>5. Turns' = 1 /\ Turns = 2
          BY <4>1, <4>2, <5>4 DEF Turns
        <5> QED
          BY <5>5
      <4>3. CASE queued # 0
        <5>1. Turns' \in {1, 4} /\ Turns = 5
          BY <4>1, <4>3 DEF Turns
        <5> QED
          BY <5>1
      <4> QED
        BY <4>2, <4>3
    <3>7. ASSUME VideoTest PROVE Turns' < Turns
      <4>1. vpc = "Test" /\ vpc' = (IF ~ quit /\ Ahead THEN "ReadQueued" ELSE "Show")
        BY <3>7 DEF VideoTest, VideoAt
      <4>2. CASE ~ quit /\ Ahead
        BY <4>1, <4>2 DEF Turns
      <4>3. CASE quit \/ ~ Ahead
        <5>1. vpc' = "Show"
          BY <4>1, <4>3
        <5>2. Turns' = 0 /\ Turns \in {1, 4}
          BY <4>1, <5>1 DEF Turns
        <5> QED
          BY <5>2
      <4> QED
        BY <4>2, <4>3
    <3> QED
      BY <2>2, <3>3, <3>4, <3>5, <3>6, <3>7
  <2>3. CASE Video /\ ~ (VideoReadQueued \/ VideoReadWritten \/ VideoTest)
    BY <2>3 DEF Waiting, Video, VideoLoop, VideoBreak, VideoSend, VideoFrame, VideoNoFrame,
                VideoShow, VideoAt
  <2> QED
    BY <2>1, <2>2, <2>3 DEF Next, Terminated
<1> QED
  BY SyncInvariance, <1>1, PTL DEF Spec, WaitShortens

(* And SDL's queue does empty, but for what the audio thread adds: every step
   that touches it uses up some of the audio of the file.                  *)
THEOREM SoundRunsOut == Spec => SoundIsSpent
<1>1. SyncInv => SoundLeft \in Nat
  <2> SUFFICES ASSUME SyncInv PROVE SoundLeft \in Nat
    OBVIOUS
  <2>1. Handed \in Nat /\ sdlq \in Nat /\ size \in Nat /\ MaxAudio \in Nat
    BY HandedIsNat, ChunkAssumption, AudioAssumption DEF SyncInv, Numbers
  <2>2. Handed <= MaxAudio
    BY <2>1 DEF SyncInv, Budget
  <2> QED
    BY <2>1, <2>2 DEF SoundLeft
<1>2. SyncInv /\ [Next]_vars
        => SoundLeft' < SoundLeft \/ UNCHANGED <<Handed, sdlq>>
  <2> SUFFICES ASSUME SyncInv, [Next]_vars
               PROVE  SoundLeft' < SoundLeft \/ UNCHANGED <<Handed, sdlq>>
    OBVIOUS
  <2>n. /\ played \in Nat /\ sdlq \in Nat /\ lost \in Nat /\ size \in Nat
        /\ Handed \in Nat /\ MaxAudio \in Nat
    BY HandedIsNat, ChunkAssumption, AudioAssumption DEF SyncInv, Numbers
  <2>1. CASE DevicePlays
    <3>1. sdlq' = sdlq - 1 /\ played' = played + 1 /\ lost' = lost
      BY <2>1 DEF DevicePlays, audio
    <3>2. Handed' = Handed
      BY <2>n, <3>1 DEF Handed
    <3> QED
      BY <2>n, <3>1, <3>2 DEF SoundLeft
  <2>2. CASE AudioQueue
    <3>1. /\ played' = played
          /\ \/ sdlq' = sdlq + size /\ lost' = lost
             \/ lost' = lost + size /\ sdlq' = sdlq
      BY <2>2 DEF AudioQueue
    <3>2. Handed' = Handed + size
      BY <2>n, <3>1 DEF Handed
    <3>3. sdlq' = sdlq \/ sdlq' = sdlq + size
      BY <3>1
    <3>4. CASE size = 0
      BY <2>n, <3>2, <3>3, <3>4
    <3>5. CASE size > 0
      BY <2>n, <3>2, <3>3, <3>5 DEF SoundLeft
    <3> QED
      BY <2>n, <3>4, <3>5
  <2>3. CASE UNCHANGED <<played, sdlq, lost>>
    BY <2>3 DEF Handed
  <2> QED
    BY <2>1, <2>2, <2>3
       DEF Next, Terminated, vars, device, audio, Quit, Audio, AudioLoop, AudioBreak,
           AudioSend, AudioFrame, AudioNoFrame, AudioConvert, AudioCount, Video, VideoLoop,
           VideoBreak, VideoSend, VideoFrame, VideoNoFrame, VideoReadQueued,
           VideoReadWritten, VideoTest, VideoShow, VideoAt
<1> QED
  BY SyncInvariance, <1>1, <1>2, PTL DEF Spec, SoundIsSpent
-----------------------------------------------------------------------------
(* How far each thread is from its end, if no packet holds another frame.  *)
AudioRank ==
  [Idle |-> 6, Convert |-> 5, Queue |-> 4, Count |-> 3, Receive |-> 2, Loop |-> 1,
   Done |-> 0, Crashed |-> 0]

VideoRank ==
  [Idle |-> 7, ReadQueued |-> 6, ReadWritten |-> 5, Test |-> 4, Show |-> 3, Receive |-> 2,
   Loop |-> 1, Done |-> 0]

QuitIsObeyed ==
  [][quit => /\ Audio /\ ~ AudioFrame => AudioRank[apc'] < AudioRank[apc]
             /\ Video /\ ~ VideoFrame => VideoRank[vpc'] < VideoRank[vpc]]_vars

(* Once quit is set no thread turns back, not even from the wait for the
   clock (line 316): only a further frame of the packet in hand keeps it.  *)
THEOREM QuitIsNearer == Spec => QuitIsObeyed
<1>1. ASSUME quit, Audio, ~ AudioFrame PROVE AudioRank[apc'] < AudioRank[apc]
  <2>1. CASE apc = "Idle" /\ apc' \in {"Done", "Receive", "Loop"}
    BY <2>1 DEF AudioRank
  <2>2. CASE apc = "Convert" /\ apc' \in {"Crashed", "Queue", "Receive"}
    BY <2>2 DEF AudioRank
  <2>3. CASE apc = "Queue" /\ apc' = "Count"
    BY <2>3 DEF AudioRank
  <2>4. CASE apc = "Count" /\ apc' = "Receive"
    BY <2>4 DEF AudioRank
  <2>5. CASE apc = "Receive" /\ apc' = "Loop"
    BY <2>5 DEF AudioRank
  <2>6. CASE apc = "Loop" /\ apc' = "Done"
    BY <2>6 DEF AudioRank
  <2> QED
    BY <1>1, <2>1, <2>2, <2>3, <2>4, <2>5, <2>6
       DEF Audio, AudioLoop, AudioBreak, AudioSend, AudioNoFrame, AudioConvert, AudioQueue,
           AudioCount, AudioAt
<1>2. ASSUME quit, Video, ~ VideoFrame PROVE VideoRank[vpc'] < VideoRank[vpc]
  <2>1. CASE vpc = "Idle" /\ vpc' \in {"Done", "Receive", "Loop"}
    BY <2>1 DEF VideoRank
  <2>2. CASE vpc = "ReadQueued" /\ vpc' = "ReadWritten"
    BY <2>2 DEF VideoRank
  <2>3. CASE vpc = "ReadWritten" /\ vpc' = "Test"
    BY <2>3 DEF VideoRank
  <2>4. CASE vpc = "Test" /\ vpc' = "Show"
    BY <2>4 DEF VideoRank
  <2>5. CASE vpc = "Show" /\ vpc' = "Receive"
    BY <2>5 DEF VideoRank
  <2>6. CASE vpc = "Receive" /\ vpc' = "Loop"
    BY <2>6 DEF VideoRank
  <2>7. CASE vpc = "Loop" /\ vpc' = "Done"
    BY <2>7 DEF VideoRank
  <2> QED
    BY <1>2, <2>1, <2>2, <2>3, <2>4, <2>5, <2>6, <2>7
       DEF Video, VideoLoop, VideoBreak, VideoSend, VideoNoFrame, VideoReadQueued,
           VideoReadWritten, VideoTest, VideoShow, VideoAt
<1> QED
  BY <1>1, <1>2, PTL DEF Spec, QuitIsObeyed
=============================================================================
