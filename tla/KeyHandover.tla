---------------------------- MODULE KeyHandover ----------------------------
(***************************************************************************)
(* What a rotation of the node's key promises (rotation/rotation.go:3),    *)
(* without requests, statuses and phases: the server passes from one key   *)
(* to the next in one step, never back, and only to a key whose private    *)
(* half is in the node's file; the node follows it, never ahead of it;     *)
(* and a key that either side relies on stays in the file.                 *)
(*                                                                         *)
(* KeyRotation implements this specification.                              *)
(***************************************************************************)

CONSTANTS
    Keys,     \* all keys
    FirstKey  \* the key of the enrolment

VARIABLES
    active,   \* the key that the server takes for the node's
    past,     \* the keys it took for the node's before
    current,  \* the key that the node uses
    kept      \* the keys whose private half is in the file

handoverVars == <<active, past, current, kept>>

\* confirm, whenever and however often it arrives.
ServerSwitches(k) ==
    /\ k \in kept \ (past \cup {active})
    /\ active' = k
    /\ past' = past \cup {active}
    /\ UNCHANGED <<current, kept>>

\* A write of the store, or a restart from it: keys come and go, and the node may
\* take up the active key.
NodeStores(key) ==
    /\ key \in {current, active}
    /\ current' = key
    /\ kept' \subseteq Keys
    /\ {key, active} \subseteq kept'
    /\ UNCHANGED <<active, past>>

HandoverInit ==
    active = FirstKey /\ past = {} /\ current = FirstKey /\ kept = {FirstKey}

HandoverNext == \E k \in Keys : ServerSwitches(k) \/ NodeStores(k)

HandoverSpec == HandoverInit /\ [][HandoverNext]_handoverVars
=============================================================================
