---------------------------- MODULE MCMapUpdater ----------------------------
(* TLC instance of MapUpdater. *)
EXTENDS MapUpdater, TLC

CONSTANTS m1, m2, m3, w1, w2, w3

MCMaps == {m1, m2, m3}
MCWorkers == {w1, w2, w3}
=============================================================================
