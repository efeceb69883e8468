--------------------------- MODULE MCTaskChannel ---------------------------
(***************************************************************************)
(* TaskChannel with two workers and three attempts, two of them of the     *)
(* same task.  Of one attempt the result file may be in doubt, after a     *)
(* failed write or a removal that was not made durable.                    *)
(***************************************************************************)
EXTENDS TaskChannel, TLC

CONSTANTS a1, a2, b1, w1, w2

MCAttempts == {a1, a2, b1}
MCTaskOf == [a \in MCAttempts |-> IF a = b1 THEN "B" ELSE "A"]
MCWorkers == {w1, w2}

Doubtful == {b1}

BoundedSpec == Init /\ [][Next /\ unsure' \subseteq Doubtful]_vars

Symmetry == Permutations({a1, a2}) \cup Permutations(MCWorkers)
=============================================================================
