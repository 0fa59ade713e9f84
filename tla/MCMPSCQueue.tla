---------------------------- MODULE MCMPSCQueue -----------------------------
(* TLC instance of MPSCQueue. *)
EXTENDS MPSCQueue, TLC

CONSTANTS p1, p2, x1, x2, x3

MCProducers == {p1, p2}
MCItems == {x1, x2, x3}
=============================================================================
