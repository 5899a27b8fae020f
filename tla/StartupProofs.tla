---------------------------- MODULE StartupProofs ---------------------------
(***************************************************************************)
(* Proofs about Startup: whatever fails, each list of releases undoes what *)
(* came before it, once, and inner before outer.                           *)
(***************************************************************************)
EXTENDS Startup, TLAPS

(* What main holds before each step that is checked. *)
Held1 == {"fmt_ctx"}
Held2 == {"fmt_ctx", "dec_ctx"}
Held3 == Held2 \cup {"sdl"}
Held4 == Held3 \cup {"window"}
Held5 == Held4 \cup {"renderer"}

(* The steps that are not checked, by what was tried before them. *)
AfterAudioFrame == {"AudioBuffer", "Play"}
AfterSwr == {"InitResampler", "AudioFrame"} \cup AfterAudioFrame
AfterYuv == {"Buffer", "FillArrays", "Packet", "FindAudio", "CopyAudio",
             "WantedSpec", "OpenDevice", "AllocResampler"} \cup AfterSwr
AfterFrame == {"FrameYuv"} \cup AfterYuv
AfterSws == {"Frame"} \cup AfterFrame
Unchecked == {"Scaler"} \cup AfterSws

Stages ==
  /\ pc \in {"Arguments", "OpenInput"} => held = {}
  /\ pc \in {"StreamInfo", "BestVideo", "FindDecoder", "AllocDecoder"} => held = Held1
  /\ pc \in {"CopyParameters", "OpenDecoder", "SDLInit"} => held = Held2
  /\ pc = "CreateWindow" => held = Held3
  /\ pc = "CreateRenderer" => held = Held4
  /\ pc = "CreateTexture" => held = Held5
  /\ pc \in Unchecked => Checked \subseteq held

(* What was tried and is not held was not checked. *)
Tried ==
  \/ short
  \/ /\ pc \in AfterSws => "sws_ctx" \in held
     /\ pc \in AfterFrame => "frame" \in held
     /\ pc \in AfterYuv => "frame_yuv" \in held
     /\ pc \in AfterSwr => "swr_ctx" \in held
     /\ pc \in AfterAudioFrame => "audio_frame" \in held
     /\ pc = "Play" => "audio_buf" \in held

(* What a list of releases must be for what is held: complete, with nothing
   twice, and with each inner thing before its outer one.                  *)
Elems(l) == {l[i] : i \in DOMAIN l}

Complete(l, h) == h \subseteq UNION {Gone(r) : r \in Elems(l)}

Distinct(l) ==
  /\ "dev" \notin Elems(l)
  /\ \A i, j \in DOMAIN l : l[i] = l[j] => i = j

Nested(l, h) ==
  \A p \in Inside, i \in DOMAIN l :
    l[i] = p[2] /\ p[1] \in h \ Gone(p[2]) => \E k \in DOMAIN l : k < i /\ l[k] = p[1]

Undoes(l, h) == l \in Seq(Resources) /\ Complete(l, h) /\ Distinct(l) /\ Nested(l, h)

Releasing ==
  /\ pc # "Release" => todo = <<>>
  /\ pc \notin {"Release", "Returned"} => released = {}
  /\ pc = "Release" => Undoes(todo, held) /\ Elems(todo) \cap released = {}
  /\ pc = "Returned" => held = {}

StartInv ==
  /\ held \subseteq Resources /\ released \subseteq Resources
  /\ todo \in Seq(Resources) /\ short \in BOOLEAN
  /\ held \cap released = {}
  /\ Stages /\ Tried /\ Releasing
  /\ InnerFirst
  /\ DiesOnlyUnchecked
-----------------------------------------------------------------------------
(* Taking the first of a list leaves a list for what is left. *)
LEMMA UndoesTail ==
  ASSUME NEW l, NEW h \in SUBSET Resources, Undoes(l, h), l # <<>>
  PROVE  /\ Undoes(Tail(l), h \ Gone(Head(l)))
         /\ Head(l) \in Elems(l) /\ Elems(Tail(l)) \subseteq Elems(l)
         /\ Elems(Tail(l)) \cap Gone(Head(l)) = {}
         /\ \A p \in Inside : p[2] = Head(l) => p[1] \notin h \ Gone(p[2])
<1>1. /\ l \in Seq(Resources) /\ Len(l) \in Nat \ {0} /\ DOMAIN l = 1..Len(l)
      /\ Head(l) = l[1]
  BY DEF Undoes
<1>2. /\ Tail(l) \in Seq(Resources) /\ DOMAIN Tail(l) = 1..(Len(l) - 1)
      /\ \A i \in 1..(Len(l) - 1) : Tail(l)[i] = l[i + 1]
  BY <1>1
<1>3. \A i \in DOMAIN Tail(l) : i + 1 \in DOMAIN l /\ Tail(l)[i] = l[i + 1] /\ i + 1 # 1
  BY <1>1, <1>2
<1>4. 1 \in DOMAIN l
  BY <1>1
<1>5. Head(l) \in Elems(l) /\ Elems(Tail(l)) \subseteq Elems(l)
  BY <1>1, <1>3, <1>4 DEF Elems
<1>6. Head(l) \notin Elems(Tail(l))
  <2> SUFFICES ASSUME NEW i \in DOMAIN Tail(l) PROVE Tail(l)[i] # Head(l)
    BY DEF Elems
  <2> QED
    BY <1>1, <1>3, <1>4 DEF Undoes, Distinct
<1>7. Elems(Tail(l)) \cap Gone(Head(l)) = {}
  BY <1>5, <1>6 DEF Gone, Undoes, Distinct
<1>8. Elems(l) = {Head(l)} \cup Elems(Tail(l))
  <2> SUFFICES ASSUME NEW i \in DOMAIN l, i # 1 PROVE l[i] \in Elems(Tail(l))
    BY <1>1, <1>5 DEF Elems
  <2>1. i - 1 \in DOMAIN Tail(l) /\ (i - 1) + 1 = i
    BY <1>1, <1>2
  <2> QED
    BY <1>3, <2>1 DEF Elems
<1>9. Complete(Tail(l), h \ Gone(Head(l)))
  BY <1>8 DEF Undoes, Complete
<1>10. Distinct(Tail(l))
  <2>1. \A i, j \in DOMAIN Tail(l) : Tail(l)[i] = Tail(l)[j] => i = j
    <3> SUFFICES ASSUME NEW i \in DOMAIN Tail(l), NEW j \in DOMAIN Tail(l), Tail(l)[i] = Tail(l)[j]
                 PROVE  i = j
      OBVIOUS
    <3>1. i + 1 = j + 1
      BY <1>3 DEF Undoes, Distinct
    <3> QED
      BY <1>1, <1>2, <3>1
  <2> QED
    BY <1>5, <2>1 DEF Undoes, Distinct
<1>11. Nested(Tail(l), h \ Gone(Head(l)))
  <2> SUFFICES ASSUME NEW p \in Inside, NEW i \in DOMAIN Tail(l), Tail(l)[i] = p[2],
                      p[1] \in (h \ Gone(Head(l))) \ Gone(p[2])
               PROVE  \E k \in DOMAIN Tail(l) : k < i /\ Tail(l)[k] = p[1]
    BY DEF Nested
  <2>1. PICK k \in DOMAIN l : k < i + 1 /\ l[k] = p[1]
    BY <1>3 DEF Undoes, Nested
  <2>2. k # 1
    BY <1>1, <2>1 DEF Gone
  <2>3. k - 1 \in DOMAIN Tail(l) /\ (k - 1) + 1 = k /\ k - 1 < i
    BY <1>1, <1>2, <2>1, <2>2
  <2>4. Tail(l)[k - 1] = p[1]
    BY <1>3, <2>1, <2>3
  <2> QED
    BY <2>3, <2>4
<1>12. ASSUME NEW p \in Inside, p[2] = Head(l) PROVE p[1] \notin h \ Gone(p[2])
  <2> SUFFICES ASSUME p[1] \in h \ Gone(p[2]) PROVE FALSE
    OBVIOUS
  <2>1. PICK k \in DOMAIN l : k < 1 /\ l[k] = p[1]
    BY <1>1, <1>4, <1>12 DEF Undoes, Nested
  <2> QED
    BY <1>1, <2>1
<1> QED
  BY <1>2, <1>5, <1>7, <1>9, <1>10, <1>11, <1>12 DEF Undoes
-----------------------------------------------------------------------------
(* The lists of main. *)
LEMMA UndoNone == Undoes(<<>>, {})
<1>1. <<>> \in Seq(Resources) /\ DOMAIN <<>> = {}
  OBVIOUS
<1> QED
  BY <1>1 DEF Undoes, Complete, Distinct, Nested, Elems

\* Lines 36-65.
LEMMA UndoFormat == Undoes(<<"fmt_ctx">>, Held1)
<1> DEFINE l == <<"fmt_ctx">>
<1>1. l \in Seq(Resources) /\ DOMAIN l = {1} /\ l[1] = "fmt_ctx"
  BY DEF Resources, Checked
<1>2. Elems(l) = Held1
  BY <1>1 DEF Elems, Held1
<1>3. Complete(l, Held1)
  BY <1>2 DEF Complete, Gone, Held1
<1>4. Distinct(l)
  BY <1>1, <1>2 DEF Distinct, Held1
<1>5. Nested(l, Held1)
  BY <1>1 DEF Nested, Inside, Held1
<1> QED
  BY <1>1, <1>3, <1>4, <1>5 DEF Undoes

\* Lines 67-87.
LEMMA UndoDecoder == Undoes(<<"dec_ctx", "fmt_ctx">>, Held2)
<1> DEFINE l == <<"dec_ctx", "fmt_ctx">>
<1>1. l \in Seq(Resources) /\ DOMAIN l = {1, 2} /\ l[1] = "dec_ctx" /\ l[2] = "fmt_ctx"
  BY DEF Resources, Checked
<1>2. Elems(l) = Held2
  BY <1>1 DEF Elems, Held2
<1>3. Complete(l, Held2)
  BY <1>2 DEF Complete, Gone, Held2
<1>4. Distinct(l)
  BY <1>1, <1>2 DEF Distinct, Held2
<1>5. Nested(l, Held2)
  BY <1>1 DEF Nested, Inside, Held2
<1> QED
  BY <1>1, <1>3, <1>4, <1>5 DEF Undoes

\* Lines 89-104.
LEMMA UndoSDL == Undoes(<<"sdl", "dec_ctx", "fmt_ctx">>, Held3)
<1> DEFINE l == <<"sdl", "dec_ctx", "fmt_ctx">>
<1>1. /\ l \in Seq(Resources) /\ DOMAIN l = {1, 2, 3}
      /\ l[1] = "sdl" /\ l[2] = "dec_ctx" /\ l[3] = "fmt_ctx"
  BY DEF Resources, Checked
<1>2. Elems(l) = Held3
  BY <1>1 DEF Elems, Held3, Held2
<1>3. Complete(l, Held3)
  BY <1>2 DEF Complete, Gone, Held3, Held2
<1>4. Distinct(l)
  BY <1>1, <1>2 DEF Distinct, Held3, Held2
<1>5. Nested(l, Held3)
  BY <1>1 DEF Nested, Inside, Held3, Held2
<1> QED
  BY <1>1, <1>3, <1>4, <1>5 DEF Undoes

\* Lines 106-114.
LEMMA UndoWindow == Undoes(<<"window", "sdl", "dec_ctx", "fmt_ctx">>, Held4)
<1> DEFINE l == <<"window", "sdl", "dec_ctx", "fmt_ctx">>
<1>1. /\ l \in Seq(Resources) /\ DOMAIN l = {1, 2, 3, 4}
      /\ l[1] = "window" /\ l[2] = "sdl" /\ l[3] = "dec_ctx" /\ l[4] = "fmt_ctx"
  BY DEF Resources, Checked
<1>2. Elems(l) = Held4
  BY <1>1 DEF Elems, Held4, Held3, Held2
<1>3. Complete(l, Held4)
  BY <1>2 DEF Complete, Gone, Held4, Held3, Held2
<1>4. Distinct(l)
  BY <1>1, <1>2 DEF Distinct, Held4, Held3, Held2
<1>5. Nested(l, Held4)
  BY <1>1 DEF Nested, Inside, Held4, Held3, Held2
<1> QED
  BY <1>1, <1>3, <1>4, <1>5 DEF Undoes

\* Lines 116-132.
LEMMA UndoRenderer == Undoes(<<"renderer", "window", "sdl", "dec_ctx", "fmt_ctx">>, Held5)
<1> DEFINE l == <<"renderer", "window", "sdl", "dec_ctx", "fmt_ctx">>
<1>1. /\ l \in Seq(Resources) /\ DOMAIN l = {1, 2, 3, 4, 5}
      /\ l[1] = "renderer" /\ l[2] = "window" /\ l[3] = "sdl" /\ l[4] = "dec_ctx"
      /\ l[5] = "fmt_ctx"
  BY DEF Resources, Checked
<1>2. Elems(l) = Held5
  BY <1>1 DEF Elems, Held5, Held4, Held3, Held2
<1>3. Complete(l, Held5)
  BY <1>2 DEF Complete, Gone, Held5, Held4, Held3, Held2
<1>4. Distinct(l)
  BY <1>1, <1>2 DEF Distinct, Held5, Held4, Held3, Held2
<1>5. Nested(l, Held5)
  BY <1>1 DEF Nested, Inside, Held5, Held4, Held3, Held2
<1> QED
  BY <1>1, <1>3, <1>4, <1>5 DEF Undoes

\* Lines 361-382, for whatever was acquired.
LEMMA UndoAll == \A h \in SUBSET Resources : Undoes(CleanupOrder, h)
<1> SUFFICES ASSUME NEW h \in SUBSET Resources PROVE Undoes(CleanupOrder, h)
  OBVIOUS
<1> DEFINE l == CleanupOrder
<1>1. /\ l \in Seq(Resources) /\ DOMAIN l = 1..15
      /\ l[1] = "audio_dec_ctx" /\ l[2] = "audio_frame" /\ l[3] = "pkt" /\ l[4] = "buffer"
      /\ l[5] = "frame" /\ l[6] = "frame_yuv" /\ l[7] = "sws_ctx" /\ l[8] = "dec_ctx"
      /\ l[9] = "fmt_ctx" /\ l[10] = "texture" /\ l[11] = "renderer" /\ l[12] = "window"
      /\ l[13] = "sdl" /\ l[14] = "audio_buf" /\ l[15] = "swr_ctx"
  BY DEF CleanupOrder, Resources, Checked, Allocated
<1> HIDE DEF l
<1>2. 1..15 = {1, 2, 3, 4, 5, 6, 7, 8, 9, 10, 11, 12, 13, 14, 15}
  OBVIOUS
<1>3. Elems(l) = Resources \ {"dev"}
  BY <1>1, <1>2 DEF Elems, Resources, Checked, Allocated
<1>4. Complete(l, h)
  <2>1. "dev" \in Gone("sdl") /\ "sdl" \in Elems(l)
    BY <1>3 DEF Gone, Resources, Checked
  <2>2. \A r \in Resources \ {"dev"} : r \in Elems(l) /\ r \in Gone(r)
    BY <1>3 DEF Gone
  <2> QED
    BY <2>1, <2>2 DEF Complete
<1>5. Distinct(l)
  BY <1>1, <1>2, <1>3 DEF Distinct
<1>6. Nested(l, h)
  <2>1. \A i \in DOMAIN l : /\ l[i] = "renderer" => i = 11
                            /\ l[i] = "window" => i = 12
                            /\ l[i] = "sdl" => i = 13
    BY <1>1, <1>2
  <2>2. {10, 11, 12} \subseteq DOMAIN l
    BY <1>1, <1>2
  <2> QED
    BY <1>1, <2>1, <2>2 DEF Nested, Inside, Gone
<1> QED
  BY <1>1, <1>4, <1>5, <1>6 DEF Undoes, l
-----------------------------------------------------------------------------
\* The invariant holds at the start.
LEMMA StartInit == Init => StartInv
<1> SUFFICES ASSUME Init PROVE StartInv
  OBVIOUS
<1>1. pc = "Arguments" /\ held = {} /\ todo = <<>> /\ released = {} /\ short \in BOOLEAN
  BY Zenon DEF Init
<1>2. Stages /\ Tried
  BY <1>1 DEF Stages, Tried, Unchecked, AfterSws, AfterFrame, AfterYuv, AfterSwr, AfterAudioFrame
<1>3. Releasing /\ InnerFirst /\ DiesOnlyUnchecked
  BY <1>1 DEF Releasing, InnerFirst, Inside, DiesOnlyUnchecked
<1> QED
  BY <1>1, <1>2, <1>3 DEF StartInv

\* A checked step that fails, with a list that undoes what is held.
LEMMA FailStep ==
  ASSUME StartInv, NEW step, step \notin {"Release", "Returned"}, NEW undo,
         Fail(step, undo), Undoes(undo, held)
  PROVE  StartInv'
<1>1. /\ pc' = "Release" /\ todo' = undo /\ UNCHANGED <<held, released, short>>
      /\ released = {}
  BY DEF Fail, StartInv, Releasing
<1>2. Stages' /\ Tried'
  BY <1>1 DEF StartInv, Stages, Tried, Unchecked, AfterSws, AfterFrame, AfterYuv, AfterSwr,
              AfterAudioFrame
<1>3. Releasing'
  BY <1>1 DEF Releasing
<1>4. InnerFirst' /\ DiesOnlyUnchecked'
  BY <1>1 DEF StartInv, InnerFirst, DiesOnlyUnchecked
<1>5. todo' \in Seq(Resources)
  BY <1>1 DEF Undoes
<1> QED
  BY <1>1, <1>2, <1>3, <1>4, <1>5 DEF StartInv

\* A step that acquires or uses something and goes on.
LEMMA GoStep ==
  ASSUME StartInv, NEW step, NEW next, Goto(step, next),
         step \notin {"Release", "Returned"}, next \notin {"Release", "Returned"},
         held' \in SUBSET Resources, short' \in BOOLEAN,
         Stages', Tried', InnerFirst', DiesOnlyUnchecked'
  PROVE  StartInv'
<1>1. todo = <<>> /\ released = {} /\ UNCHANGED <<todo, released>> /\ pc' = next
  BY DEF StartInv, Releasing, Goto
<1>2. Releasing'
  BY <1>1 DEF Releasing
<1> QED
  BY <1>1, <1>2 DEF StartInv

\* The steps that are checked.
LEMMA CheckedStep ==
  ASSUME StartInv,
         \/ Arguments \/ OpenInput \/ StreamInfo \/ BestVideo \/ FindDecoder
         \/ AllocDecoder \/ CopyParameters \/ OpenDecoder
         \/ SDLInit \/ CreateWindow \/ CreateRenderer \/ CreateTexture
  PROVE  StartInv'
<1>1. PICK step, made, undo, next :
        /\ Try(step, made, undo, next)
        /\ \/ <<step, made, undo, next>> = <<"Arguments", {}, <<>>, "OpenInput">>
           \/ <<step, made, undo, next>> = <<"OpenInput", {"fmt_ctx"}, <<>>, "StreamInfo">>
           \/ <<step, made, undo, next>> = <<"StreamInfo", {}, <<"fmt_ctx">>, "BestVideo">>
           \/ <<step, made, undo, next>> = <<"BestVideo", {}, <<"fmt_ctx">>, "FindDecoder">>
           \/ <<step, made, undo, next>> = <<"FindDecoder", {}, <<"fmt_ctx">>, "AllocDecoder">>
           \/ <<step, made, undo, next>> =
                <<"AllocDecoder", {"dec_ctx"}, <<"fmt_ctx">>, "CopyParameters">>
           \/ <<step, made, undo, next>> =
                <<"CopyParameters", {}, <<"dec_ctx", "fmt_ctx">>, "OpenDecoder">>
           \/ <<step, made, undo, next>> =
                <<"OpenDecoder", {}, <<"dec_ctx", "fmt_ctx">>, "SDLInit">>
           \/ <<step, made, undo, next>> =
                <<"SDLInit", {"sdl"}, <<"dec_ctx", "fmt_ctx">>, "CreateWindow">>
           \/ <<step, made, undo, next>> =
                <<"CreateWindow", {"window"}, <<"sdl", "dec_ctx", "fmt_ctx">>, "CreateRenderer">>
           \/ <<step, made, undo, next>> =
                <<"CreateRenderer", {"renderer"}, <<"window", "sdl", "dec_ctx", "fmt_ctx">>,
                  "CreateTexture">>
           \/ <<step, made, undo, next>> =
                <<"CreateTexture", {"texture"},
                  <<"renderer", "window", "sdl", "dec_ctx", "fmt_ctx">>, "Scaler">>
  BY DEF Arguments, OpenInput, StreamInfo, BestVideo, FindDecoder, AllocDecoder, CopyParameters,
         OpenDecoder, SDLInit, CreateWindow, CreateRenderer, CreateTexture
<1>2. step \notin {"Release", "Returned"} /\ next \notin {"Release", "Returned"}
  BY <1>1
<1>3. CASE Fail(step, undo)
  <2>1. pc = step
    BY <1>3 DEF Fail
  <2>2. Undoes(undo, held)
    BY <1>1, <2>1, UndoNone, UndoFormat, UndoDecoder, UndoSDL, UndoWindow, UndoRenderer
       DEF StartInv, Stages
  <2> QED
    BY <1>2, <1>3, <2>2, FailStep
<1>4. CASE Goto(step, next) /\ held' = held \cup made /\ UNCHANGED short
  <2>1. pc = step /\ pc' = next
    BY <1>4 DEF Goto
  <2>2. held' \in SUBSET Resources /\ short' \in BOOLEAN
    <3>1. made \subseteq Resources
      BY <1>1 DEF Resources, Checked
    <3>2. held \subseteq Resources /\ short \in BOOLEAN
      BY DEF StartInv
    <3> QED
      BY <1>4, <3>1, <3>2, Zenon
  <2>3. Stages' /\ Tried'
    BY <1>1, <1>4, <2>1 DEF StartInv, Stages, Tried, Unchecked, AfterSws, AfterFrame, AfterYuv, AfterSwr,
       AfterAudioFrame, Checked, Held1, Held2, Held3, Held4, Held5
  <2>4. InnerFirst'
    BY <1>1, <1>4, <2>1 DEF StartInv, Stages, InnerFirst, Inside, Held1, Held2, Held3, Held4, Held5
  <2>5. DiesOnlyUnchecked'
    BY <1>1, <2>1 DEF DiesOnlyUnchecked
  <2> QED
    BY <1>2, <1>4, <2>2, <2>3, <2>4, <2>5, GoStep
<1> QED
  BY <1>1, <1>3, <1>4 DEF Try

\* The steps that are not.
LEMMA UncheckedStep ==
  ASSUME StartInv, Frames \/ AudioDecoder \/ AudioDevice \/ Resampler
  PROVE  StartInv'
<1> USE DEF Unchecked, AfterSws, AfterFrame, AfterYuv, AfterSwr, AfterAudioFrame
<1>1. PICK step, next : /\ Goto(step, next) /\ step \in Unchecked \ {"Play"}
                        /\ next \in Unchecked \cup {"Crashed"}
                        /\ held \subseteq held' /\ (short => short')
                        /\ held' \ held \subseteq Allocated \cup {"audio_dec_ctx", "dev"}
                        /\ short' \in BOOLEAN
                        /\ Tried'
                        /\ DiesOnlyUnchecked'
  <2>1. short \in BOOLEAN /\ Tried /\ DiesOnlyUnchecked
    BY DEF StartInv
  <2>2. CASE Frames
    BY <2>1, <2>2, ZenonT(40) DEF Frames, Alloc, Use, Goto, Tried, DiesOnlyUnchecked, Allocated
  <2>3. CASE AudioDecoder
    BY <2>1, <2>3 DEF AudioDecoder, Alloc, Use, Goto, Tried, DiesOnlyUnchecked
  <2>4. CASE AudioDevice
    BY <2>1, <2>4 DEF AudioDevice, Use, Goto, Tried, DiesOnlyUnchecked
  <2>5. CASE Resampler
    BY <2>1, <2>5 DEF Resampler, Alloc, Use, Goto, Tried, DiesOnlyUnchecked, Allocated
  <2> QED
    BY <2>2, <2>3, <2>4, <2>5
<1>2. pc = step /\ pc' = next
  BY <1>1 DEF Goto
<1>3. Checked \subseteq held'
  BY <1>1, <1>2 DEF StartInv, Stages
<1>4. held' \in SUBSET Resources
  BY <1>1 DEF StartInv, Resources
<1>5. Stages' /\ InnerFirst'
  BY <1>1, <1>2, <1>3 DEF Stages, InnerFirst, Inside, Checked
<1> QED
  BY <1>1, <1>4, <1>5, GoStep

\* The threads run, and after them main releases all there is.
LEMMA PlayStep == ASSUME StartInv, Play PROVE StartInv'
<1>1. pc = "Play" /\ UNCHANGED <<held, released, short>> /\ todo = <<>> /\ released = {}
  BY DEF Play, StartInv, Releasing
<1>2. held \in SUBSET Resources /\ short \in BOOLEAN /\ todo \in Seq(Resources)
  BY DEF StartInv
<1>3. InnerFirst'
  BY <1>1 DEF StartInv, InnerFirst
<1>4. CASE ~ (Needed \subseteq held) /\ pc' = "Crashed" /\ UNCHANGED todo
  <2>1. short
    <3>1. Needed = {"sws_ctx", "frame", "frame_yuv", "swr_ctx", "audio_frame", "audio_buf"}
      BY DEF Needed, Allocated
    <3>2. short \/ Needed \subseteq held
      BY <1>1, <3>1 DEF StartInv, Tried, AfterSws, AfterFrame, AfterYuv, AfterSwr,
                        AfterAudioFrame
    <3> QED
      BY <1>4, <3>2
  <2>2. Stages' /\ Tried' /\ DiesOnlyUnchecked'
    BY <1>1, <1>4, <2>1 DEF Stages, Tried, DiesOnlyUnchecked, Unchecked, AfterSws, AfterFrame,
       AfterYuv, AfterSwr, AfterAudioFrame
  <2>3. Releasing'
    BY <1>1, <1>4 DEF Releasing
  <2> QED
    BY <1>1, <1>2, <1>3, <1>4, <2>2, <2>3 DEF StartInv
<1>5. CASE pc' = "Release" /\ todo' = CleanupOrder
  <2>1. Undoes(todo', held')
    BY <1>1, <1>2, <1>5, UndoAll
  <2>2. Stages' /\ Tried' /\ DiesOnlyUnchecked'
    BY <1>1, <1>5 DEF Stages, Tried, DiesOnlyUnchecked, Unchecked, AfterSws, AfterFrame,
       AfterYuv, AfterSwr, AfterAudioFrame
  <2>3. Releasing' /\ todo' \in Seq(Resources)
    BY <1>1, <1>5, <2>1 DEF Releasing, Undoes
  <2> QED
    BY <1>1, <1>2, <1>3, <2>2, <2>3 DEF StartInv
<1> QED
  BY <1>4, <1>5 DEF Play

\* One release: what is left of the list undoes what is left.
LEMMA ReleaseStep == ASSUME StartInv, Release PROVE StartInv'
<1> DEFINE r == Head(todo)
<1>1. /\ pc = "Release" /\ pc' = "Release" /\ todo # <<>> /\ todo' = Tail(todo)
      /\ held' = held \ Gone(r) /\ released' = released \cup (Gone(r) \cap held)
      /\ short' = short
  BY DEF Release
<1>2. /\ held \in SUBSET Resources /\ released \in SUBSET Resources /\ short \in BOOLEAN
      /\ held \cap released = {} /\ Undoes(todo, held) /\ Elems(todo) \cap released = {}
  BY <1>1 DEF StartInv, Releasing
<1>3. /\ Undoes(Tail(todo), held \ Gone(r))
      /\ Elems(Tail(todo)) \subseteq Elems(todo)
      /\ Elems(Tail(todo)) \cap Gone(r) = {}
      /\ \A p \in Inside : p[2] = r => p[1] \notin held \ Gone(p[2])
  BY <1>1, <1>2, UndoesTail
<1> HIDE DEF r
<1>4. Elems(todo') \cap released' = {}
  BY <1>1, <1>2, <1>3
<1>5. held' \subseteq Resources /\ released' \subseteq Resources /\ held' \cap released' = {}
  BY <1>1, <1>2
<1>6. todo' \in Seq(Resources) /\ Undoes(todo', held')
  BY <1>1, <1>3 DEF Undoes
<1>7. Releasing'
  BY <1>1, <1>4, <1>6 DEF Releasing
<1>8. Stages' /\ Tried' /\ DiesOnlyUnchecked'
  BY <1>1 DEF Stages, Tried, DiesOnlyUnchecked, Unchecked, AfterSws, AfterFrame,
     AfterYuv, AfterSwr, AfterAudioFrame, StartInv
<1>9. InnerFirst'
  <2> SUFFICES ASSUME NEW p \in Inside, p[1] \in held' PROVE p[2] \in held'
    BY DEF InnerFirst
  <2>1. p[1] \in held /\ p[1] \notin Gone(r) /\ p[2] \in held
    BY <1>1 DEF StartInv, InnerFirst
  <2>2. p[2] # r
    BY <1>3, <2>1
  <2>3. p[2] # "dev"
    BY DEF Inside
  <2> QED
    BY <1>1, <2>1, <2>2, <2>3 DEF Gone
<1> QED
  BY <1>1, <1>2, <1>5, <1>6, <1>7, <1>8, <1>9 DEF StartInv

\* The list is empty: what it undoes is nothing.
LEMMA ReturnStep == ASSUME StartInv, Return PROVE StartInv'
<1>1. /\ pc = "Release" /\ pc' = "Returned" /\ todo = <<>>
      /\ UNCHANGED <<held, todo, released, short>>
  BY DEF Return, Goto
<1>2. held = {}
  <2>1. Complete(<<>>, held)
    BY <1>1 DEF StartInv, Releasing, Undoes
  <2>2. DOMAIN <<>> = {}
    OBVIOUS
  <2> QED
    BY <2>1, <2>2 DEF Complete, Elems
<1>3. Releasing'
  BY <1>1, <1>2 DEF Releasing
<1>4. Stages' /\ Tried' /\ DiesOnlyUnchecked' /\ InnerFirst'
  BY <1>1 DEF Stages, Tried, DiesOnlyUnchecked, Unchecked, AfterSws, AfterFrame,
     AfterYuv, AfterSwr, AfterAudioFrame, StartInv, InnerFirst
<1> QED
  BY <1>1, <1>3, <1>4 DEF StartInv

\* The invariant is kept by every step.
LEMMA StartStep == StartInv /\ [Next]_vars => StartInv'
<1> SUFFICES ASSUME StartInv, [Next]_vars PROVE StartInv'
  OBVIOUS
<1>1. CASE Acquire
  BY <1>1, CheckedStep, UncheckedStep, Zenon DEF Acquire
<1>2. CASE Play
  BY <1>2, PlayStep
<1>3. CASE Release
  BY <1>3, ReleaseStep
<1>4. CASE Return
  BY <1>4, ReturnStep
<1>5. CASE UNCHANGED vars
  BY <1>5 DEF vars, StartInv, Stages, Tried, Releasing, InnerFirst, DiesOnlyUnchecked
<1> QED
  BY <1>1, <1>2, <1>3, <1>4, <1>5, Zenon DEF Next, Ended

(* StartInv holds always: what main holds is known before each checked step
   and undone by its list.                                                 *)
THEOREM StartInvariance == Spec => []StartInv
BY StartInit, StartStep, PTL DEF Spec
-----------------------------------------------------------------------------
(* The variables keep their types. *)
THEOREM TypeCorrect == Spec => []TypeOK
<1>1. StartInv => TypeOK
  BY DEF StartInv, TypeOK, Stages, Unchecked, AfterSws, AfterFrame, AfterYuv, AfterSwr,
         AfterAudioFrame
<1> QED
  BY <1>1, StartInvariance, PTL

(* Whatever fails, main returns with everything released. *)
THEOREM NothingLeaks == Spec => []NoLeak
<1>1. StartInv => NoLeak
  BY DEF StartInv, Releasing, NoLeak
<1> QED
  BY <1>1, StartInvariance, PTL

(* Texture, renderer, window and SDL go in this order on every path. *)
THEOREM InnerGoesFirst == Spec => []InnerFirst
<1>1. StartInv => InnerFirst
  BY DEF StartInv
<1> QED
  BY <1>1, StartInvariance, PTL

(* No list releases what was released, or names anything twice. *)
THEOREM NothingTwice == Spec => []ReleasedOnce
<1>1. StartInv => ReleasedOnce
  <2> SUFFICES ASSUME StartInv PROVE ReleasedOnce
    OBVIOUS
  <2>1. CASE pc = "Release"
    BY <2>1 DEF StartInv, Releasing, Undoes, Distinct, Elems, ReleasedOnce
  <2>2. CASE pc # "Release"
    <3>1. todo = <<>> /\ DOMAIN <<>> = {}
      BY <2>2 DEF StartInv, Releasing
    <3> QED
      BY <3>1 DEF StartInv, ReleasedOnce
  <2> QED
    BY <2>1, <2>2
<1> QED
  BY <1>1, StartInvariance, PTL

(* A null pointer is dereferenced only if an allocation failed that main does
   not check, or the file has no audio.                                    *)
THEOREM OnlyUncheckedKills == Spec => []DiesOnlyUnchecked
<1>1. StartInv => DiesOnlyUnchecked
  BY DEF StartInv
<1> QED
  BY <1>1, StartInvariance, PTL
=============================================================================
