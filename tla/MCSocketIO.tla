----------------------------- MODULE MCSocketIO -----------------------------
(* TLC instance of SocketIO: two small packets and one larger than the send
   buffer. *)
EXTENDS SocketIO, TLC

CONSTANTS small1, small2, large, world, map

MCPackets == {small1, small2, large}
MCSize == (small1 :> 1) @@ (small2 :> 2) @@ (large :> 3)
MCSenders == {world, map}
=============================================================================
