----------------------------- MODULE FrameClock -----------------------------
(***************************************************************************)
(* What the video thread's wait promises, with no threads, byte counters   *)
(* or torn reads in sight.  Audio is handed to a device, which queues or   *)
(* refuses it, and is heard.  A frame in hand asks for the time.  It is    *)
(* made to wait only if what was heard when it asked, less Lag, did not    *)
(* make it due.  That it is shown promises less: the answer may count as   *)
(* heard all that was handed over since the question, and all that was     *)
(* refused before; only what the device held then is taken off.  So a      *)
(* frame may be shown by a time that no moment had.  AvSync implements it. *)
(***************************************************************************)
EXTENDS Integers

CONSTANTS
  Tol,         (* How far a frame may be ahead of the audio.               *)
  Lag          (* How much of the audio the clock may not know of yet.     *)

VARIABLES
  rate,        (* audio per unit of time; 0: a clock that stands still     *)
  over,        (* the playback has ended                                   *)
  handed,      (* audio handed to the device                               *)
  left,        (* audio it holds                                           *)
  heard,       (* audio it has played                                      *)
  frame,       (* the time of the frame in hand, or Nothing                *)
  asked,       (* what was heard when the frame asked, or Nothing          *)
  seen         (* what the device held when the frame asked, or Nothing    *)

sound == <<handed, left, heard>>
vars == <<rate, over, sound, frame, asked, seen>>

Nothing == -1

Init ==
  /\ rate \in Nat
  /\ over = FALSE
  /\ handed = 0 /\ left = 0 /\ heard = 0
  /\ frame = Nothing /\ asked = Nothing /\ seen = Nothing

(* The frame is due for a clock that has counted n of the audio. *)
Due(n) == IF rate > 0 THEN (frame - Tol) * rate <= n ELSE frame <= Tol

End == over' = TRUE /\ UNCHANGED <<rate, sound, frame, asked, seen>>

(* The device queues the audio, or refuses it. *)
Hand ==
  /\ handed' \in Nat /\ handed' > handed
  /\ left' \in {left, left + (handed' - handed)}
  /\ UNCHANGED <<rate, over, heard, frame, asked, seen>>

Hear ==
  /\ left > 0
  /\ left' = left - 1 /\ heard' = heard + 1
  /\ UNCHANGED <<rate, over, handed, frame, asked, seen>>

Take ==
  /\ frame = Nothing
  /\ frame' \in Nat
  /\ UNCHANGED <<rate, over, sound, asked, seen>>

Ask ==
  /\ frame # Nothing /\ asked = Nothing
  /\ asked' = heard /\ seen' = left
  /\ UNCHANGED <<rate, over, sound, frame>>

(* The frame is sent back to wait. *)
Wait ==
  /\ ~ over /\ asked # Nothing
  /\ ~ Due(asked - Lag)
  /\ asked' = Nothing /\ seen' = Nothing
  /\ UNCHANGED <<rate, over, sound, frame>>

Show ==
  /\ asked # Nothing
  /\ over \/ Due(handed - seen)
  /\ frame' = Nothing /\ asked' = Nothing /\ seen' = Nothing
  /\ UNCHANGED <<rate, over, sound>>

Next == End \/ Hand \/ Hear \/ Take \/ Ask \/ Wait \/ Show

Spec == Init /\ [][Next]_vars
=============================================================================
