------------------------------- MODULE Startup -------------------------------
(***************************************************************************)
(* What main acquires before it starts the threads (lines 20-198), what it *)
(* releases when a step of that fails, and what it releases at the end     *)
(* (361-382).  Steps down to the texture are checked, and each has its own *)
(* list of what to undo; the steps after it are not checked, and go on     *)
(* with a null pointer.  A null pointer that is dereferenced ends the      *)
(* process.  The threads themselves, from 202 to 359, are Pipeline.        *)
(***************************************************************************)
EXTENDS Naturals, Sequences

VARIABLES
  pc,          (* the next step of main                                    *)
  held,        (* what was acquired and not yet released                   *)
  todo,        (* while releasing: what is still to be released, in order  *)
  released,    (* history: what was released so far                        *)
  short        (* history: did a step fail whose result is not checked     *)

vars == <<pc, held, todo, released, short>>

Checked == {"fmt_ctx", "dec_ctx", "sdl", "window", "renderer", "texture"}

(* Nullable: what main goes on without.  The library allocates the first
   ones; the audio decoder and device are only there if they can be.       *)
Allocated == {"sws_ctx", "frame", "frame_yuv", "buffer", "pkt", "swr_ctx",
              "audio_frame", "audio_buf"}
Resources == Checked \cup Allocated \cup {"audio_dec_ctx", "dev"}

(* Who lives inside whom: the inner one must go first. *)
Inside == {<<"texture", "renderer">>, <<"renderer", "window">>,
           <<"window", "sdl">>, <<"dev", "sdl">>}

Init ==
  /\ pc = "Arguments"
  /\ held = {} /\ todo = <<>> /\ released = {}
  /\ short = FALSE
-----------------------------------------------------------------------------
Goto(step, next) ==
  /\ pc = step /\ pc' = next
  /\ UNCHANGED <<todo, released>>

(* return -1, after releasing what `undo` lists. *)
Fail(step, undo) ==
  /\ pc = step /\ pc' = "Release"
  /\ todo' = undo
  /\ UNCHANGED <<held, released, short>>

(* A step that is checked: it acquires `made`, or main gives up. *)
Try(step, made, undo, next) ==
  \/ Goto(step, next) /\ held' = held \cup made /\ UNCHANGED short
  \/ Fail(step, undo)

(* An allocation that is not checked. *)
Alloc(step, made, next) ==
  /\ Goto(step, next)
  /\ \/ held' = held \cup {made} /\ UNCHANGED short
     \/ short' = TRUE /\ UNCHANGED held

(* A step that dereferences `used`. *)
Use(step, used, next) ==
  /\ Goto(step, IF used \in held THEN next ELSE "Crashed")
  /\ UNCHANGED <<held, short>>
-----------------------------------------------------------------------------
Arguments == Try("Arguments", {}, <<>>, "OpenInput")

OpenInput == Try("OpenInput", {"fmt_ctx"}, <<>>, "StreamInfo")

StreamInfo == Try("StreamInfo", {}, <<"fmt_ctx">>, "BestVideo")

BestVideo == Try("BestVideo", {}, <<"fmt_ctx">>, "FindDecoder")

FindDecoder == Try("FindDecoder", {}, <<"fmt_ctx">>, "AllocDecoder")

AllocDecoder == Try("AllocDecoder", {"dec_ctx"}, <<"fmt_ctx">>, "CopyParameters")

(* Fault: the decoder context is forgotten. *)
CopyParametersLeaks ==
  Try("CopyParameters", {}, <<"fmt_ctx">>, "OpenDecoder")

(* Fault: the format context is released by the step's own cleanup too. *)
CopyParametersTwice ==
  Try("CopyParameters", {}, <<"fmt_ctx", "dec_ctx", "fmt_ctx">>, "OpenDecoder")

CopyParameters ==
  Try("CopyParameters", {}, <<"dec_ctx", "fmt_ctx">>, "OpenDecoder")

OpenDecoder == Try("OpenDecoder", {}, <<"dec_ctx", "fmt_ctx">>, "SDLInit")

SDLInit == Try("SDLInit", {"sdl"}, <<"dec_ctx", "fmt_ctx">>, "CreateWindow")

CreateWindow ==
  Try("CreateWindow", {"window"}, <<"sdl", "dec_ctx", "fmt_ctx">>, "CreateRenderer")

(* Fault: the renderer is not checked. *)
CreateRendererUnchecked == Alloc("CreateRenderer", "renderer", "CreateTexture")

CreateRenderer ==
  Try("CreateRenderer", {"renderer"}, <<"window", "sdl", "dec_ctx", "fmt_ctx">>,
      "CreateTexture")

(* Fault: copied from the step before with a line in the wrong place. *)
CreateTextureReordered ==
  Try("CreateTexture", {"texture"},
      <<"window", "renderer", "sdl", "dec_ctx", "fmt_ctx">>, "Scaler")

CreateTexture ==
  Try("CreateTexture", {"texture"},
      <<"renderer", "window", "sdl", "dec_ctx", "fmt_ctx">>, "Scaler")

(* From here on nothing is checked.  sws_getContext also returns null when
   it does not know the pixel format.                                      *)
Frames ==
  \/ Alloc("Scaler", "sws_ctx", "Frame")
  \/ Alloc("Frame", "frame", "FrameYuv")
  \/ Alloc("FrameYuv", "frame_yuv", "Buffer")
  \/ Alloc("Buffer", "buffer", "FillArrays")
  \/ Use("FillArrays", "frame_yuv", "Packet")
  \/ Alloc("Packet", "pkt", "FindAudio")

(* The file has no audio stream, or it has: a context is allocated and
   avcodec_parameters_to_context fills it in.                              *)
AudioDecoder ==
  \/ /\ Goto("FindAudio", "WantedSpec")
     /\ UNCHANGED <<held, short>>
  \/ Alloc("FindAudio", "audio_dec_ctx", "CopyAudio")
  \/ Use("CopyAudio", "audio_dec_ctx", "WantedSpec")

(* wanted_spec.freq = audio_dec_ctx->sample_rate, then the device. *)
AudioDevice ==
  \/ Use("WantedSpec", "audio_dec_ctx", "OpenDevice")
  \/ /\ Goto("OpenDevice", "AllocResampler")
     /\ held' \in {held, held \cup {"dev"}}
     /\ UNCHANGED short

Resampler ==
  \/ Alloc("AllocResampler", "swr_ctx", "InitResampler")
  \/ Use("InitResampler", "swr_ctx", "AudioFrame")
  \/ Alloc("AudioFrame", "audio_frame", "AudioBuffer")
  \/ Alloc("AudioBuffer", "audio_buf", "Play")
-----------------------------------------------------------------------------
(* The order of lines 361-382.  The device is not closed by itself: SDL_Quit
   closes it.                                                              *)
CleanupOrder ==
  <<"audio_dec_ctx", "audio_frame", "pkt", "buffer", "frame", "frame_yuv",
    "sws_ctx", "dec_ctx", "fmt_ctx", "texture", "renderer", "window", "sdl",
    "audio_buf", "swr_ctx">>

(* Fault: the threads cannot do without an audio device either. *)
NeededDevice == (Allocated \cup {"dev"}) \ {"pkt", "buffer"}

(* What the threads dereference as soon as there is a frame. *)
Needed == Allocated \ {"pkt", "buffer"}

(* The threads run, and die of a null pointer or come to an end. *)
Play ==
  /\ pc = "Play"
  /\ \/ ~ (Needed \subseteq held) /\ pc' = "Crashed" /\ UNCHANGED todo
     \/ pc' = "Release" /\ todo' = CleanupOrder
  /\ UNCHANGED <<held, released, short>>

(* SDL_Quit takes the open audio device with it. *)
Gone(r) == IF r = "sdl" THEN {"sdl", "dev"} ELSE {r}

(* Each release function accepts a null pointer. *)
Release ==
  /\ pc = "Release" /\ todo # <<>>
  /\ held' = held \ Gone(Head(todo))
  /\ released' = released \cup (Gone(Head(todo)) \cap held)
  /\ todo' = Tail(todo)
  /\ UNCHANGED <<pc, short>>

Return ==
  /\ todo = <<>>
  /\ Goto("Release", "Returned")
  /\ UNCHANGED <<held, short>>

Ended ==
  /\ pc \in {"Returned", "Crashed"}
  /\ UNCHANGED vars

Acquire ==
  \/ Arguments \/ OpenInput \/ StreamInfo \/ BestVideo \/ FindDecoder
  \/ AllocDecoder \/ CopyParameters \/ OpenDecoder
  \/ SDLInit \/ CreateWindow \/ CreateRenderer \/ CreateTexture
  \/ Frames \/ AudioDecoder \/ AudioDevice \/ Resampler

Next == Acquire \/ Play \/ Release \/ Return \/ Ended

Spec == Init /\ [][Next]_vars
-----------------------------------------------------------------------------
(* Each variable has its type. *)
TypeOK ==
  /\ held \subseteq Resources /\ released \subseteq Resources
  /\ todo \in Seq(Resources)
  /\ short \in BOOLEAN
  /\ pc = "Play" => Checked \subseteq held

(* Whichever step fails, and at the end of playback, main has released all
   it acquired when it returns: each hand-written list undoes what came
   before it (lines 31-132, 361-382).                                      *)
NoLeak == pc = "Returned" => held = {}

(* Nothing outlives what it lives in: texture before renderer before window
   before SDL_Quit, on every path.                                         *)
InnerFirst == \A p \in Inside : p[1] \in held => p[2] \in held

(* Nothing is released twice. *)
ReleasedOnce ==
  /\ held \cap released = {}
  /\ \A i, j \in DOMAIN todo : todo[i] = todo[j] => i = j
  /\ \A i \in DOMAIN todo : todo[i] \notin released

(* With an audio stream, the process dies of a null pointer only when a call
   that main does not check has failed.                                    *)
DiesOnlyUnchecked == pc = "Crashed" => short \/ "audio_dec_ctx" \notin held

(* A file without audio is played: main tests for it where it decodes and
   frees, `if (audio_dec_ctx)` (lines 157, 260, 362).                      *)
AudioIsOptional == pc = "Crashed" => short
=============================================================================
