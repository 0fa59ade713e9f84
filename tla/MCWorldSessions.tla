-------------------------- MODULE MCWorldSessions ---------------------------
(* TLC instances of WorldSessions. *)
EXTENDS WorldSessions, TLC

CONSTANTS a, b, c, a1, a2, b1, c1

MCAccounts == {a, b, c}
MCSessions == {a1, a2, b1, c1}
MCAccountOf == (a1 :> a) @@ (a2 :> a) @@ (b1 :> b) @@ (c1 :> c)
MCStaff == {c}

\* The two sessions of account a are interchangeable.
MCSymmetry == Permutations({a1, a2})

MCLimits == {0, 1}

MCLimit1 == {1}
MCFewSessions == {a1, a2, b1}
MCFewAccounts == {a, b}
MCFewAccountOf == (a1 :> a) @@ (a2 :> a) @@ (b1 :> b)
MCNoStaff == {}
=============================================================================
