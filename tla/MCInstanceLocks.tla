-------------------------- MODULE MCInstanceLocks ---------------------------
(* TLC instances of InstanceLocks. *)
EXTENDS InstanceLocks

CONSTANTS p1, p2, d1, d2, e1

MCPlayers == {p1, p2}
MCDungeons == {d1, d2}
MCEncounters == {e1}
MCRowOrder == <<<<p1, d1>>, <<p1, d2>>, <<p2, d1>>, <<p2, d2>>>>
MCCases == {[kind |-> (d1 :> "raid") @@ (d2 :> "normal"), entries |-> 3, events |-> 2],
            [kind |-> d1 :> "encounter", entries |-> 3, events |-> 2],
            [kind |-> d1 :> "flex", entries |-> 3, events |-> 2]}
=============================================================================
