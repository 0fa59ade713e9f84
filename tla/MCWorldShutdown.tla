-------------------------- MODULE MCWorldShutdown ---------------------------
(* TLC instance of WorldShutdown. *)
EXTENDS WorldShutdown, TLC

CONSTANTS a, b, a1, b1

MCAccounts == {a, b}
MCSessions == {a1, b1}
MCAccountOf == (a1 :> a) @@ (b1 :> b)
MCStaff == {}
MCLimits == {1}
MCDelays == {0, 3}
=============================================================================
