------------------------------- MODULE MCWire -------------------------------
(***************************************************************************)
(* What goes over the wire, for TLC: the packets as both sides lay them    *)
(* out (PacketCodec) and the sockets that carry them (GameSocket).  The    *)
(* two share no state, so a behaviour follows one of them.                 *)
(***************************************************************************)
EXTENDS PacketCodec, GameSocket

VARIABLE follows

wireVars == <<codecVars, socketVars, follows>>

FollowCodec(A) == follows = "codec" /\ A /\ UNCHANGED <<socketVars, follows>>
FollowSocket(A) == follows = "socket" /\ A /\ UNCHANGED <<codecVars, follows>>

Init == follows \in {"codec", "socket"} /\ CodecInit /\ SocketInit

Next == FollowCodec(CodecNext) \/ FollowSocket(SocketNext)

Spec == Init /\ [][Next]_wireVars /\ WF_wireVars(FollowSocket(Receive))
=============================================================================
