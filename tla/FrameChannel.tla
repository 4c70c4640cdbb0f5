---------------------------- MODULE FrameChannel ----------------------------
(***************************************************************************)
(* What the receiving side of a WebSocket promises to the program above    *)
(* it: the frames the peer sent, each of them whole and once, in the order *)
(* of sending, however the transport cut their bytes into reads.           *)
(***************************************************************************)
EXTENDS Naturals, Sequences

CONSTANT Frames         \* the frames a peer may send

VARIABLES
  sent,                 \* frames in the order of sending
  delivered             \* frames in the order they were handed up

vars == <<sent, delivered>>

Init == sent = <<>> /\ delivered = <<>>

Send(f) ==
  /\ sent' = Append(sent, f)
  /\ UNCHANGED delivered

Deliver ==
  /\ Len(delivered) < Len(sent)
  /\ delivered' = Append(delivered, sent[Len(delivered) + 1])
  /\ UNCHANGED sent

Next == (\E f \in Frames : Send(f)) \/ Deliver

Spec == Init /\ [][Next]_vars
=============================================================================
