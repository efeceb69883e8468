--------------------------- MODULE MCResultQueue ---------------------------
(***************************************************************************)
(* ResultQueue on four attempts and payloads below, at and above the limit *)
(* of one record.  Three small results reach MaxRecords, three worst-case  *)
(* reservations exceed MaxBytes: the count limit and the byte limit both   *)
(* bind, and two reserved attempts can be in flight beside a stored one.   *)
(***************************************************************************)
EXTENDS ResultQueue, TLC

CONSTANTS a1, a2, a3, a4, small, large, huge

MCIds == {a1, a2, a3, a4}
MCEvents == {small, large, huge}
MCSize == (small :> 1) @@ (large :> 2) @@ (huge :> 3)

Symmetry == Permutations(MCIds)
=============================================================================
