--------------------------- MODULE MCDatabasePool ---------------------------
(* TLC instance of DatabasePool: a transaction of two statements, one of one
   and a single statement. *)
EXTENDS DatabasePool, TLC

CONSTANTS long, short, single, c1, c2, d

MCTasks == {long, short, single}
MCSize == (long :> 2) @@ (short :> 1) @@ (single :> 1)
MCSingles == {single}
MCAsync == {c1, c2}
MCSync == {d}
=============================================================================
