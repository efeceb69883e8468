------------------------------- MODULE MCNode -------------------------------
(***************************************************************************)
(* Three parts of the node that are checked for safety, each on its own    *)
(* instance: the rotation of its key, its process with the web console,    *)
(* and the task channel with one slot and four attempts, one more than the *)
(* assignment channel holds; what a restart finds on disk is in no doubt   *)
(* there.  A behaviour runs the one that `part` names.                     *)
(***************************************************************************)
EXTENDS KeyRotation, NodeConsole, TaskChannel, TLC

CONSTANTS k0, k1, k2, a1, a2, b1, b2, w1

VARIABLE part

\* The first key and two rotations.
MCKeys == {k0, k1, k2}

MCAttempts == {a1, a2, b1, b2}
MCTaskOf == [a \in MCAttempts |-> IF a \in {a1, a2} THEN "A" ELSE "B"]
MCWorkers == {w1}

PartInit ==
    /\ part \in {"rotation", "console", "slot"}
    /\ RotationInit /\ ConsoleInit /\ Init

PartNext ==
    /\ UNCHANGED part
    /\ \/ part = "rotation" /\ RotationNext /\ UNCHANGED <<consoleVars, vars>>
       \/ part = "console" /\ ConsoleNext /\ UNCHANGED <<rotationVars, vars>>
       \/ part = "slot" /\ Next /\ unsure' = {} /\ UNCHANGED <<rotationVars, consoleVars>>

PartSpec == PartInit /\ [][PartNext]_<<part, rotationVars, consoleVars, vars>>

Symmetry == Permutations({k1, k2}) \cup Permutations({a1, a2}) \cup Permutations({b1, b2})
=============================================================================
