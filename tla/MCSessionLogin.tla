--------------------------- MODULE MCSessionLogin ---------------------------
(* TLC instance of SessionLogin. *)
EXTENDS SessionLogin
=============================================================================
