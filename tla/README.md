# Verification of ffmpeg_player

A TLA+ development of `src/src/ffmpeg_player.cpp`, the whole of the program's own code: an MP4
player that reads packets with FFmpeg, decodes them in two threads, plays sound through SDL2 and
shows each picture when the audio clock reaches it. Of the vendored FFmpeg it models the calls the
two decoding threads make, `avcodec_send_packet` and `avcodec_receive_frame`
(`src/src_ffmpeg/libavcodec/decode.c`, `bsf.c`). Line numbers without a file are of
`ffmpeg_player.cpp`.

Contents: 1 the system, 2 the modules, 3 the runs, 4 fairness, 5 what the checks found, 6 the
proofs, 7 what is not modelled, 8 the plan.

## 1. The system

| Component | State | Operations | Interaction |
|---|---|---|---|
| Startup and cleanup (20-198, 361-384) | pointers acquired so far | a ladder of acquisitions, checked down to the texture and unchecked after it; on each failure a list of releases written out by hand; one final list | makes everything the threads use |
| Reader thread (208-247) | its packet | wait until both queues have room, `av_read_frame`, push to a queue or free; at the end set `quit` and notify | `audio_mutex`, `video_mutex`, both queues, both condition variables, `quit` |
| Audio thread (250-278) | its packet, `data_size` | wait for a packet, send it, receive frames, convert, `SDL_QueueAudio`, add to `audio_written_bytes` | its queue, `quit`, the SDL device, the counter |
| Video thread (293-335) | its packet, `video_pts`, `audio_clock` | wait for a packet, send it, receive frames, wait for the clock, show | its queue, `quit`, `get_audio_clock` |
| Audio clock (281-290) | none | bytes counted minus bytes SDL still holds, over the byte rate | reads SDL and the counter one after the other |
| Main thread (342-384) | event | poll for `SDL_QUIT`, set `quit` and notify, join three threads, release | `quit`, both condition variables |
| SDL audio device | its queue | plays from the queue | external |
| FFmpeg decoders (`libavcodec/decode.c`, `bsf.c`) | the filter's packet slot and end flag, pieces of a superframe, the packet in decoding, frames the codec delays, a frame decoded ahead, draining flags and error count | `avcodec_send_packet`, `avcodec_receive_frame` | called by one decoding thread each |

**What is hard here.** Four threads share `quit`, which is an atomic written without the mutexes
under which the waiters test it. The reader measures both queues, releases both mutexes, reads from
the file, and only then locks one of them again to push. A packet's owner is written down nowhere.
The audio clock combines two values read at different times, while another thread changes them
one at a time. Three waits lean on each other: reader on room in the queues, video thread on the
clock, clock on the audio that the reader has yet to read. A decoder has five places where data may
wait, each of size one but for the codec's own; it must refuse input only while it has output, and
its errors may strike between any two places. Startup has some twenty steps, and each checked one
undoes by hand what came before it. `PROJECT.json` lists these hazards at their lines.

**What makes each component correct.**
- *Pipeline*: queues stay within `MAX_QUEUE_SIZE`; nothing is taken from an empty queue; no
  push is slept through; each packet has one owner at a time and is freed once; each decoder gets
  its packets in file order; nothing is released under a running thread; and `quit` ends all of it.
- *Synchronisation*: no byte is lost from the accounts; the clock is off by a bounded amount;
  no frame overtakes its audio; a frame that is due comes out; `quit` ends the wait.
- *Decoder*: what was accepted is delivered once, in order but for the codec's own reordering, or
  accounted for; EAGAIN means that the other call can go on, EOF that nothing is left; draining ends.
- *Decoding threads as callers*: a packet's loop ends, and leaves no frame behind for the next.
- *Playback*: a file that the queues can hold is read to its end, and no more of it is dropped there
  than the queues hold.
- *Startup*: whatever step fails, what was acquired is released once, the inner before the outer.

## 2. The modules

| Module | Models | How it corresponds |
|---|---|---|
| `PacketFlow` | what the reader and the decoding threads promise together | two bounded FIFO channels. `Produce` needs room in both channels, `Deliver` gives a decoder its earliest pending packet. The abstract specification that `Pipeline` and `Playback` implement |
| `Pipeline` | the four threads, queues, mutexes, condition variables, `quit` | `pc[t]` is where a thread is. One action per read or write of `quit`, lock acquisition, notification, or critical section up to its unlock. The two decoding threads are one text with the stream as parameter. `cv.wait` is `DecoderTest` (the predicate), `DecoderBlock` (release and sleep), a wake-up by notification or spurious, and `DecoderLock` again |
| `FrameClock` | what waiting for the audio clock promises | audio is handed over and heard; a frame asks, and is made to wait only if what was heard when it asked, less `Lag`, did not make it due. It is shown only if all that was handed over by now, less what the device held when it asked, does: a bound, not the time of any moment. The abstract specification that `AvSync` implements |
| `AvSync` | 260-276, 281-290, 303-333 and the SDL device | one action per SDL call or access to an atomic. `get_audio_clock` is two: `VideoReadQueued`, `VideoReadWritten`. The audio thread's `AudioQueue` and `AudioCount` are two as well. A failed `SDL_OpenAudioDevice` leaves `obtained` with any value, as the code never sets it |
| `Playback` | the threads composed, over a file | the queues are channels of `PacketFlow`; the clock may do what `AvSync` shows it may do; the file is a sequence of packets chosen at the start, each audio packet with the time at which its sound ends. `done` is a history: the packets whose sound SDL was given, or whose frame was shown in its time |
| `FrameQueue` | what a decoder promises | units are accepted, given up, or delivered, each once, and in order if the codec delays none. The abstract specification that `DecodeApi` implements |
| `DecodeApi` | `avcodec_send_packet`, `avcodec_receive_frame` | a call is `SendPacket`, `SendEmpty` (no data: the end mark), `SendHollow` (a buffer of no bytes: EINVAL) or `Receive`, then `Step`s of the loop in `decode_simple_internal` (fetch from the filter, decode, drain) until it answers. Packets are sets of numbered units, a unit being what one frame is made of. The kind of codec is chosen at the start: one that takes packets whole, one that takes a packet in pieces, one behind the splitting filter of VP9 |
| `PlayerDecode` | 260-261, 303-304, 332 | the decoding threads' loop as a caller of `DecodeApi` |
| `MCDecode` | | `DecodeApi` called by `PlayerDecode` or (`pc = "other"`) by any caller, in one state graph |
| `Startup` | 20-198 and 361-384 | `held` is what was acquired, `todo` the releases still to be made. `Try` is a checked step with its undo list, `Alloc` an unchecked one, `Use` a dereference |
| `PipelineProofs`, `PipelineFlowProofs`, `AvSyncProofs`, `PlaybackProofs`, `FrameQueueProofs`, `DecodeProofs`, `StartupProofs` | | theorems about the modules they extend (section 6) |
| `QueueLemmas` | | facts on sorted queues of positions, shared by two of them |

Conventions. A packet is its position in the file, 0 the null pointer. Time and audio bytes share a
unit: one unit of audio is what a device opened as wanted plays in one unit of time. An operator
commented `Fault:` is a plausible mistake in the definition after it; it is not part of any
specification and serves to test that a property can fail.

**How the models rest on each other.** `Pipeline` does not say what a decoding thread does between
`avcodec_send_packet` and `av_packet_free`: that is `AvSync` for the clock and `PlayerDecode` for the
decoder. `AvSync` does not say where packets come from: a thread at `"Idle"` may get one at any time.
It lets a decoder answer as it likes; that a packet holds finitely many frames, on which its fairness
rests, is `PacketsEnd` of `PlayerDecode`. `Pipeline`'s fairness uses a fact that `AvSync` checks
(`QuitEndsDecoding`: the video thread is done with its packet once `quit` is set). `Playback`
replaces the locks by the channels `Pipeline` is shown to implement, and the clock by what
`FrameClock` promises: no frame is shown before its audio was handed to SDL (a guard of
`ShowVideo`, weaker than `Show`), and one whose audio was heard is shown (`CoveredFrameIsShown`, the fairness of
`ShowInTime`). This last composition is an argument made here, not a machine-checked refinement.

## 3. The runs

| Run | Result | Shows |
|---|---|---|
| `pipeline_safety` | passes | in every interleaving: `QueueBound`, `NeverTakesFromEmpty`, `SleeperHasNoWork`, `OwnedOnce`, `InFileOrder`, `CleanupIsAlone`, and that `Pipeline` implements `PacketFlow` (`FlowSpec`) |
| `pipeline_live` | passes | the reader stops after `quit` even on a full queue; queued audio is taken; a decoding thread ends after `quit` unless it missed its wake-up, and exactly where it can miss it |
| `pipeline_shutdown` | violated | `ShutdownCompletes`: `quit` brings the program to its end |
| `pipeline_leak` | violated | `AllPacketsFreed`: at exit every packet was freed |
| `avsync` | passes | `EveryByteCounted`, `ClockLagsOneChunk`, `FrameHasItsAudio`, for all values an unset `obtained_spec` may have; a frame whose audio was counted is shown; `quit` ends both threads' work on a packet; the whole implements `FrameClock`: a frame waits by a time that is right within a chunk, and is shown by one that is bounded |
| `avsync_early` | violated | `FrameWaitsForAudio`: no frame is shown more than the tolerance before its sound |
| `playback_plays` | passes | a file that is `Interleaved`, and no other, is read to its end unless the user quits (`PlaysThrough`, `EndsOnlyIfInterleaved`); then all was shown or handed to SDL but the last packets of each stream, no more than a queue holds (`EndDropsOnlyTail`); any other stalls. |
| `playback_stall` | violated | `FullQueueDrains`: a reader that waits for room gets to go on |
| `decode` | passes | of the decoder, for any caller: `UnitsAccounted`, `ReceiveEagainMeansRoom`, `EofMeansDrained`, `EofIsFinal`, `FramesInOrder`, `DrainEnds`, and that it implements `FrameQueue`. Of the player: `PacketsEnd`, `NothingLeftBehind`, `OnlySplitRefuses`, `RefusedForGood` |
| `player_resend` | violated | `RefusedIsResent`: a packet that is refused for lack of room is not dropped |
| `startup` | passes | `NoLeak`, `InnerFirst`, `ReleasedOnce` on every path; the process dies of a null pointer only after an unchecked call failed, or without audio |
| `startup_silent` | violated | `AudioIsOptional`: a file without audio is played |

**Bounds, and why they are enough.**
- `MaxQueue` (200 in the code) is 2, or 1 where liveness is checked. What matters is a queue that
  is empty, in between, and full: 2 has all three. At 1 the reader is stopped by a full queue after
  a single packet, which is the case `ReaderStops` is about.
- `MaxPackets` bounds the file: 3 for safety (a queue of 2 is filled and the reader has a third in
  hand), 2 for liveness (one queue full and a packet pending), 4 for `Playback` (a frame in hand,
  two packets that fill the queue behind it, and audio that comes too late). Every kind of packet
  in every order is tried, and reading may fail at any point.
- `MaxChunk`, `MaxAudio`, `MaxPts`, `Tol`, and `MaxSound` of `Playback`: chunks of different
  sizes, a tolerance that is neither nothing nor everything, frames both within and past all the
  audio of the file.
- `Unset = {0, 1, 2}`: no channels (the division at 265 traps), a rate of 0, the wanted rate, and
  a wrong one.
- `MaxPacketUnits = 3` (a superframe that is still being split while its second piece is decoded),
  `MaxDelay = 2` (a codec that holds back none, one, or more than one frame), `MaxFed = 4` (packets
  behind the largest one), `MaxDrainingErrors = 1` for the 21 of `decode.c:470-471`: errors below,
  at and above the limit. `EmptyPackets`: the file may hold packets without data.
- `Startup` has no bound: all its behaviours are checked.

The theorems of section 6 hold for all values of these constants.

## 4. Fairness

- *Pipeline.* Threads run, and one that contends for a mutex gets it sooner or later: strong
  fairness for the three threads that lock, weak for main. The reader has strong fairness
  because two threads take its mutexes again and again. Nothing is assumed of spurious wake-ups,
  or of the user, who may never quit. The video thread's decoding is only known to end once `quit`
  is set: before that it may wait for the clock (see `Playback`).
- *AvSync.* The device plays; both threads run; a packet holds finitely many frames, so that
  `avcodec_receive_frame` comes to fail (`SF` of `AudioNoFrame`, `VideoNoFrame`). No fairness for
  the steps out of `"Idle"`: packets need not come.
- *Playback.* Reader, audio thread, video thread and device run. A frame is bound to be shown only
  once its audio was heard.
- *Decoder.* A call runs to its end, as it waits for nothing; so does the player's loop between two
  packets (`Runs`). For `DrainEnds` alone the other caller goes on receiving, as
  `avcodec.h` tells it to. No fairness for taking or sending packets, and none for what a codec
  does with data: it may fail each time.

`Startup` is sequential and has no liveness property.

## 5. What the checks found

1. **A wake-up is missed at shutdown** (244-246, also 347-349). `quit` is set and both condition
   variables notified without the mutexes. A decoding thread that has evaluated its predicate and
   not yet gone to sleep misses both; main then waits in `join` for ever. `EndsUnlessWakeupMissed`
   shows that this window is the only way, and the theorems `OnlyLostWakeupsHang` and
   `HangIsForGood` that nothing else hangs and nothing ends the hang.
2. **The end of the file drops what is queued** (251, 294). The decoding threads test `quit`
   before their queues: packets that were read and queued are neither decoded nor freed, and nothing
   in 361-384 frees them. `OnlyQueuesLeak`: these are all that is lost. So no file is played to its
   last picture but by luck; a file of fewer packets than a queue holds may end with none shown.
   `EndDropsOnlyTail` is what is left: all but the last `MAX_QUEUE_SIZE` packets of each stream were
   shown or handed to SDL.
3. **The audio clock runs ahead** (282-287). What the audio thread queues and counts between the two
   reads counts as played. The clock may show a time that no moment had, and a frame may be shown
   early, though never before its audio was handed to SDL. `FrameClock` says what is left. Waits are
   right, for the moment of the question and within one chunk. A show leaves out only what SDL held
   at the question: what was handed over after it, or refused by SDL, counts as heard.
4. **Playback stalls** (216, 316). If the audio ends early, or is interleaved more than a queue
   behind the video, the video thread waits for audio, the reader for room in the video queue, and
   the rest for the reader. `Interleaved` is the exact condition on the file, and a
   stall is final (section 6).
5. **A file with no audio stream ends the process** (169): `audio_dec_ctx` is null.
6. **A refused packet is dropped, and so are all after it** (303). The player frees a packet whose
   send fails and never receives after a failure. Behind the splitting filter (VP9), one error in a
   send leaves pieces in the filter, and a second one leaves the next packet in its slot: the third
   is refused with EAGAIN, and as nothing is received every call after it fails too, until a packet
   without data is taken for the end mark (`RefusedForGood`). With any other codec no packet is refused (`OnlySplitRefuses`).

Behaviour worth knowing that the model has and no run refutes:

- At the end of the file no decoder is sent a null packet, so that the last frames of a codec that
  delays frames are not shown. `NothingLeftBehind` bounds the loss: only those.
- A packet without data is an end mark (`SendEmpty`): the decoder then drains and refuses what
  follows. One that has a buffer of no bytes is refused with EINVAL (`SendHollow`). FFmpeg's own tool skips such packets (`src_ffmpeg/fftools/ffmpeg.c:2160-2162`).
- `av_bsf_send_packet` accepts the end mark while a packet waits in the filter (`bsf.c:207-212`), and
  `ff_bsf_get_packet_ref` tests the mark first (`bsf.c:261-265`): that packet is never decoded. It
  stays in `Held`, where `UnitsAccounted` still counts it; `EofMeansDrained` therefore speaks
  of the places behind the filter's slot.
- `avcodec.h:154-157` guarantees that after an EAGAIN on one end the call on the other end does not
  fail with EAGAIN. After a refused send it may: the receive decodes the packet that waits in the
  filter's slot, and if that packet yields no frame answers EAGAIN too. In the other direction the
  guarantee holds (`ReceiveEagainMeansRoom`).

## 6. The proofs

All theorems hold for every value of the constants that satisfies the assumptions the modules state of
them. Liveness rests on fairness and ENABLED, which are out of the provers' reach; where a run checks
a liveness property, a theorem proves the part of it that needs neither: a measure that every step
lowers, or that nothing can stand still in any other way. Such a theorem has a formula of its own,
defined before it in the proof module.

*`PipelineProofs`*: `TypeCorrect`, `QueueNeverOverfull`, `TakesOnlyWhatIsThere`, `NoPushMissed`,
`CleanupAfterJoins`. The invariant is `ControlInv`. `QueueBound` alone is not inductive: that the
room the reader saw is still there needs `RoomToPush` (between the check and the push neither queue
is full), which needs `Locks` (who holds which mutex, read off the program counters).
`SleeperHasNoWork` needs the same for a thread between its test and its sleep (`IdleHasNoWork`): it
holds the mutex, so that no push comes in between.

On the end of the playback, from `ControlInv` and `QuitSeen` (who is past the loop has seen `quit`):
- `ShutdownIsBounded`: once `quit` is set every step lowers `StepsLeft`, a sum of one rank per thread,
  at most 34. No thread spins at shutdown, however full the queues.
- `PipelineGoesOn`: reader and decoding threads never wait for each other in a circle, although the
  reader holds one mutex while it waits for the other (`HoldersGoOn`, `NoCycle`).
- `OnlyLostWakeupsHang`: where no thread can move, the program has ended or main joins a decoding
  thread that is asleep, with `quit` set and the notifications past.
- `HangIsForGood`: only a spurious wake-up ends such a sleep.
- `NoLateMiss`: a thread that has not missed its wake-up when `quit` is set will not miss it.

Together they are `EndsUnlessWakeupMissed` and `ReaderStops` but for the scheduler's fairness.
`CanMove` collects the guards of a thread's actions; that no thread moves without it is a lemma
(`OnlyWhoCanMoves`), that it moves with it (`CanMove(t)` is ENABLED of its actions) is read off the
definitions and not proved.

*`PipelineFlowProofs`*: `PacketsOwnedOnce`, `PacketsInFileOrder`, and `FlowImplemented`, the
refinement `Spec => FlowSpec`. `OwnedOnce` and `InFileOrder` are inductive together, on top of
`ControlInv`: the head of a queue that is taken is not queued twice because the queue is sorted, and
the queue stays sorted because the packet in the reader's hand is the last one read. The refinement
maps `delivered[c]` to the packets of `c` that are freed or in the decoding thread's hand; a read is
`Produce`, a take `Deliver`, all else stutters. `PendingIs` shows what is pending to be what is
queued or in the reader's hand, and with `RoomToPush` that gives the guard of `Produce`.
`NoPacketIsOvertaken` is `AudioIsServed` without the scheduler: the packets ahead of one become fewer
with each one its thread takes. `OnlyQueuesLeak` measures what `pipeline_leak` finds: the packets
never freed are those left in the queues, no more than two queues hold.

*`AvSyncProofs`*: `TypeCorrect`, `BytesAreCounted`, `ClockLagBounded`, `VideoNeverOvertakes`, and
`ClockKeepsPromise`, the refinement `Spec => ImplementsFrameClock`, for any chunk size, tolerance and
unset rate. `SyncInv` adds to the properties what the video thread may rely on between its two
reads: what it holds in `queued` and `heard` adds up to no more than the accounts (`Snapshot`), and
its clock and `queued` together are never past `written` (`ClockBehindWritten`). The refinement maps `handed` to all that
went to SDL, whether counted yet or not, and `asked` to what was heard when the queue was read. A
step of the test that waits is `Wait`, since the clock lags by a chunk at most; one that shows is
`Show`, since the clock is not past what was handed over less what SDL held when it was asked
(`left` is `sdlq`, `seen` is `queued`). Nothing better holds of a show: between the two reads the
audio thread may hand over any number of chunks, and `avsync_early` shows that it matters.

Of its liveness: `CoveredFrameNearsShowing` (a covered frame stays covered, is set back by no other
thread, and once SDL's queue is empty every step of the video thread lowers `Turns`, at most 5, a
clock read before that included), `SoundRunsOut` (every step on SDL's queue uses up audio, so that the
queue does empty), and `QuitIsNearer` (after `quit` each thread only gets nearer to its end, but for
further frames of the packet in hand).

*`PlaybackProofs`*: `TypeCorrect`, `EndNeedsInterleaving`, `OnlyTailIsDropped`, `ChannelsKept`, for
queues and files of any length. `EndsOnlyIfInterleaved` follows from `PlayInv`: a video packet not yet shown holds the
reader back at the packet that fills the queue behind it (`HeldBack`, by counting: the queue holds
all the video packets between), and the frame of one that was shown had its audio among what was
read before that packet (`ShownInTime`), since what was heard and what SDL holds is what the audio
packets taken so far add up to (`SoundFits`). `OnlyTailIsDropped` is `EndDropsOnlyTail`: a packet that
was read is done, queued, or the frame in hand (`DoneFits`, in `TailInv`), so that at the end of the
file the packets of a stream that come after one that is not done are all queued, and the reader, to
get there, needed room in the queue (`TailIsShort`).

The other half of the condition is proved but for fairness:
- `InterleavedGoesOn`: an interleaved file never stalls the player. In a stall the packet at place
  `MaxQueue` of the queue fills it behind the frame (`QueueIsFull`, by counting a sorted queue:
  `FirstOfSorted`); so the audio the frame waits for was read before it, was taken, and as SDL is
  empty was heard: the frame would be due.
- `NoOtherStand`: for every file, before `quit` something can go on or the player is stalled.
- `OnlyTheUserHelps`: a stall is final.
- `PlaybackIsFinite`: every step lowers `Left`, three steps a packet, one a unit of sound, one to
  quit. So a player whose threads run gets to `quit` or to a stall, to the former if the file is
  interleaved (`PlaysThrough`, with `OnlyTailIsDropped`), and if not, only by the user
  (`StallsOtherwise`).

`ChannelsKept` ties `Playback` to `PacketFlow`: it uses its queues as `PacketFlow` allows. To check, read
and push is one step there, so this bridges the two models and is no evidence for the locks; that is
`FlowImplemented`.

*`FrameQueueProofs`* and *`DecodeProofs`*: a queue of frames delivers each unit at most once, and in
order if the codec delays none (`QueueDelivers`); the decoder implements it (`DecoderIsQueue`), and
so delivers that way (`DecoderDelivers`, which cites the queue's theorem through an instance). On
the way: `DecoderTypes`, `RoomAfterEagain`, `DrainedAtEof`, `NoUnitVanishes`. `DecodeInv` needs, beside
the types, that a unit nearer the exit was sent earlier (`StagesInOrder`; this makes the places
disjoint), what the flags say of one another (`Protocol`), and what an answer says of the places.
`PlayerInv` adds what the player's loop keeps: at most one packet is outside the codec at a time
(`OneAtATime`), and a decoder that has refused once stays full (`StaysFull`). That a refusal is for good is `Jammed`: no
call in progress, the filter full, the last call failed; only the end mark leads out of it. From it
`PlayerLeavesNothing`, `PlayerNeedsNoResend`, `PlayerRefusedForGood` and `PlayerTypes`, for packets
of any size, any delay and any limit of draining errors. The player's theorems are about
`PlayerSpec`; `MCSpec` of the run also has the other caller.

`EofStaysEof` is `EofIsFinal`: that EOF was said means that the codec is finished and the places
behind the filter are empty (`Finished`), and no call undoes this. Of the liveness of calls:
- `CallsEnd`: every step inside a call lowers `Work`, which counts what is in the filter, the packet
  in decoding, what the codec delays, and the errors it may still make while draining.
- `DrainingEnds`: after the end mark each receive says EOF or leaves less to drain (`DrainIsShort`).
  The bound on errors (`decode.c:466-478`) is what makes it true.
- `PacketLoopsEnd`: every step of a decoding thread that has a packet lowers `PacketWork`, made of
  `Work` and of the thread's place in its loop.

With the fairness of section 4 these give `DrainEnds` and `PacketsEnd`. They rest on an assumption of
`DecodeApi`: a codec that is given data consumes some, gives a frame or fails. The loop of
`decode_simple_receive_frame` has no defence against one that does none of these
(`decode.c:484-499`), nor is a failure that comes with a frame counted (`decode.c:466`).

*`StartupProofs`*: `TypeCorrect`, `NothingLeaks`, `InnerGoesFirst`, `NothingTwice`,
`OnlyUncheckedKills`. The heart of `StartInv` is that a list of releases `Undoes` what is held:
complete, with nothing twice, and with the inner before the outer. `Stages` says what is held before
each checked step, one lemma shows of each hand-written list that it undoes just that, and
`UndoesTail` that releasing the first of a list leaves a list for what is left.

**Only model-checked:** the liveness properties themselves (`ReaderStops`, `AudioIsServed`,
`EndsUnlessWakeupMissed`, `CoveredFrameIsShown`, `QuitEndsDecoding`, `PlaysThrough`, `StallsOtherwise`,
`PacketsEnd`, `DrainEnds`). Every safety and action property of a passing run is a theorem.

## 7. What is not modelled

- The content of packets, frames and samples, picture size, scaling (321-329), messages to the
  user. A scaler made for another size than a later frame's is noted as a hazard.
- Of the decoder: `avcodec_flush_buffers`, which the player never calls, frame threads, codecs with
  a `receive_frame` callback of their own, subtitles, and allocation failures; the EAGAIN of a call
  that discarded more than `max_samples` samples (`decode.c:513-514`, INT_MAX unless set); a failure
  that comes together with a frame (`decode.c:466-473`); a codec that consumes nothing and gives no
  frame, for which the loop would not end. What a codec makes of
  its data is a choice: a frame or none, an error, part of the packet or all of it.
- The rest of the vendored FFmpeg source, by far the largest part of the repository: demuxers, codecs,
  scaling and resampling transform data, and the player links prebuilt libraries. A model of them
  would say nothing about the player. SDL2 is external, the build has no behaviour.
- In `Playback`: packets with several frames or none, an audio device that fails, a decoder error.
  Its composition with `FrameClock` and `DecodeApi` is by argument (section 2).
- Exceptions of the C++ library (out of memory in `push`, no thread to be had).

## 8. Plan

Done: the abstract specifications `PacketFlow`, `FrameClock` and `FrameQueue`, the modules
that implement them, `Startup`, `Playback`, and the proofs of section 6. What could still be added,
in this order:

1. The player's theorems about `MCSpec`, with the other caller in the same behaviour.
2. `Playback` with packets that hold several frames or none, and without a device.
3. `Playback` built on `FrameClock` by name, and its device as `AvSync` has it.
