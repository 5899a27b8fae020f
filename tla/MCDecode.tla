------------------------------ MODULE MCDecode ------------------------------
(***************************************************************************)
(* Model checking of DecodeApi and PlayerDecode in one run.  The context   *)
(* belongs to one of the player's decoding threads, or (pc = "other") to a *)
(* caller that makes any call at any time, as the interface allows.        *)
(***************************************************************************)
EXTENDS PlayerDecode

MCInit == Init /\ pc \in {"take", "other"}

\* The other caller makes a call.
OtherSends == pc = "other" /\ (Send \/ SendEmpty \/ SendHollow) /\ UNCHANGED pc

OtherReceives == pc = "other" /\ Receive /\ UNCHANGED pc

MCNext == PlayerNext \/ OtherSends \/ OtherReceives

\* Calls run to their end, the player's threads run, and the other caller
\* goes on receiving.
MCSpec ==
  /\ MCInit
  /\ [][MCNext]_playerVars
  /\ Runs
  /\ WF_playerVars(OtherReceives)

-----------------------------------------------------------------------------
(* A caller that has sent the end mark and goes on receiving is told EOF,  *)
(* even when the codec fails again and again while it drains.              *)
OtherSentEnd == pc = "other" /\ eof
SaidEof == answer = Said("receive", "eof")
DrainEnds == OtherSentEnd ~> SaidEof

=============================================================================
