---------------------------- MODULE PlayerDecode ----------------------------
(***************************************************************************)
(* The player as a caller of DecodeApi: the loop both decoding threads run *)
(* on a packet they took from their queue (the audio thread on             *)
(* audio_dec_ctx, the video thread on dec_ctx).                            *)
(*                                                                         *)
(*     if (avcodec_send_packet(ctx, pkt) == 0)                             *)
(*         while (avcodec_receive_frame(ctx, frame) == 0) ...              *)
(*     av_packet_free(&pkt);                                               *)
(*                                                                         *)
(* The thread tells a refusal from an error in no way, never sends a       *)
(* packet twice, and sends nothing when the file ends.                     *)
(***************************************************************************)
EXTENDS DecodeApi

CONSTANT EmptyPackets    \* whether the file may hold packets without data

ASSUME PlayerAssumption == EmptyPackets \in BOOLEAN

VARIABLE pc     \* where the decoding thread is

playerVars == <<vars, pc>>

PlayerInit == Init /\ pc = "take"

\* The thread takes a packet from its queue and sends it.
SendTaken ==
  /\ pc = "take"
  /\ Send
  /\ pc' = "sending"

\* The packet it took has no data: for the decoder the end of the stream, or
\* an error if the packet has a buffer.
SendTakenEmpty ==
  /\ EmptyPackets
  /\ pc = "take"
  /\ SendEmpty \/ SendHollow
  /\ pc' = "sending"

\* Fault: receive whatever the send said.
FirstReceiveAnyway ==
  /\ pc = "sending" /\ call = "none"
  /\ Receive
  /\ pc' = "receiving"

\* The send succeeded: receive.
FirstReceive ==
  /\ pc = "sending" /\ Answered("send", "ok")
  /\ Receive
  /\ pc' = "receiving"

\* Fault: the thread keeps a packet that is refused for lack of room.
PacketFreedNotAgain ==
  /\ pc = "sending" /\ call = "none" /\ answer.ret \notin {"ok", "again"}
  /\ pc' = "take"
  /\ UNCHANGED vars

\* The send failed: the packet is freed.
PacketFreed ==
  /\ pc = "sending" /\ call = "none" /\ answer.ret # "ok"
  /\ pc' = "take"
  /\ UNCHANGED vars

\* A frame came: use it and receive again.
ReceiveAgain ==
  /\ pc = "receiving" /\ Answered("receive", "ok")
  /\ Receive
  /\ UNCHANGED pc

\* Fault: one frame of a packet is received, not all of them.
PacketDoneAfterOne ==
  /\ pc = "receiving" /\ call = "none"
  /\ pc' = "take"
  /\ UNCHANGED vars

\* No frame came: the packet is done and freed.
PacketDone ==
  /\ pc = "receiving" /\ call = "none" /\ answer.ret # "ok"
  /\ pc' = "take"
  /\ UNCHANGED vars

\* A call goes on.
Decoding == Step /\ UNCHANGED pc

\* The reader came to the end of the file and the queue is empty: the
\* thread ends.
Ended ==
  /\ pc = "take"
  /\ pc' = "ended"
  /\ UNCHANGED vars

PlayerNext ==
  \/ SendTaken \/ SendTakenEmpty \/ Ended
  \/ FirstReceive \/ PacketFreed \/ ReceiveAgain \/ PacketDone
  \/ Decoding

PlayerSpec == PlayerInit /\ [][PlayerNext]_playerVars

\* Between two takes the thread runs without waiting for anything but the
\* decoder (the video thread also waits for the clock; see AvSync).
Runs == WF_playerVars(FirstReceive \/ PacketFreed \/ ReceiveAgain \/ PacketDone \/ Decoding)

PlayerLiveSpec == PlayerSpec /\ Runs

-----------------------------------------------------------------------------
Refused == answer = Said("send", "again")

(* The position of the thread and the call it is in agree, whatever the    *)
(* decoder does: it comes back to its queue with no call in progress, and  *)
(* with no frame left waiting for it.                                      *)
PlayerTypeOK ==
  /\ TypeOK
  /\ pc \in {"take", "sending", "receiving", "ended"}
  /\ pc \in {"take", "ended"} => call = "none"
  /\ call # "none" => (pc = "sending" <=> call = "send")

(* When the thread goes for its next packet, all it sent has left the      *)
(* places outside the codec: received, held, skipped or lost.  A codec     *)
(* fed through the splitting filter is the exception, after an error.      *)
NothingLeftBehind ==
  pc \in {"take", "ended"} =>
    /\ buffer_frame = {}
    /\ kind # "split" => bsf_pkt = {} /\ superframe = {} /\ in_pkt = {}

(* The player never sends again, so a refused packet is a lost packet: the *)
(* decoder refuses one for lack of room only behind the splitting filter.  *)
OnlySplitRefuses ==
  Refused /\ pc \in {"take", "sending", "ended"} => kind = "split"

(* Once a packet is refused for lack of room the player never receives, so *)
(* nothing makes room: from then on every call fails at once and runs no   *)
(* decoder, so no packet is accepted and no frame comes, until a packet    *)
(* without data is taken for the end mark.                                 *)
RefusedForGood ==
  [](Refused /\ pc \in {"take", "sending"}
       => [](eof \/ (call = "none" /\ answer.ret # "ok")))

(* Every packet the thread takes is done with: its loop over the frames of *)
(* a packet ends, which the decoding threads' termination rests on.  It    *)
(* ends through sends, receives and errors in any order, as long as each   *)
(* call of the codec consumes data, gives a frame or fails.                *)
Busy == pc \in {"sending", "receiving"}
PacketsEnd == Busy ~> ~Busy

(* "The packet should be resent" (avcodec.h:2585): when the decoder        *)
(* refuses a packet for lack of room, the thread does not drop it.         *)
RefusedIsResent == ~(Refused /\ pc = "take")

=============================================================================
