----------------------------- MODULE MCLiveness -----------------------------
(***************************************************************************)
(* What must come to an end in a running node: the attempts and the        *)
(* reservations of the task channel, and the rotations of the key, each on *)
(* an instance small enough for liveness.  A behaviour runs the one that   *)
(* `part` names and leaves the other alone, with none of its fair actions  *)
(* enabled.                                                                *)
(***************************************************************************)
EXTENDS TaskChannel, KeyRotation

CONSTANTS a1, a2, w1, k0, k1

VARIABLE part

\* Two attempts of one task, one slot, and a queue of one record (see the cfg).
MCAttempts == {a1, a2}
MCTaskOf == [a \in MCAttempts |-> "A"]
MCWorkers == {w1}

\* The first key and one rotation.
MCKeys == {k0, k1}

\* A node that is left alone has authenticated with its first key.
AtRest ==
    /\ session = "on" /\ cred = k0
    /\ step = "idle" /\ restarts = 0 /\ wire = {}
    /\ mem = [keys |-> [k \in MCKeys |-> IF k = k0 THEN "ACTIVE" ELSE "none"],
              current |-> k0, pend |-> NoKey, known |-> FALSE, confirmed |-> FALSE]
    /\ disk = mem
    /\ srv = [k \in MCKeys |-> IF k = k0 THEN "ACTIVE" ELSE "none"]

PartInit ==
    /\ part \in {"channel", "rotation"}
    /\ Init
    /\ IF part = "rotation" THEN RotationInit ELSE AtRest

PartNext ==
    /\ UNCHANGED part
    /\ \/ part = "channel" /\ Next /\ UNCHANGED rotationVars
       \/ part = "rotation" /\ RotationNext /\ UNCHANGED vars

PartSpec ==
    /\ PartInit /\ [][PartNext]_<<part, vars, rotationVars>>
    /\ Fairness /\ RotationFairness
=============================================================================
