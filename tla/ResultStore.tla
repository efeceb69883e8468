---------------------------- MODULE ResultStore ----------------------------
(***************************************************************************)
(* What the durable result queue (internal/hnieoj/resultqueue/queue.go)    *)
(* promises to the node, without payloads, files and clocks: MaxRecords    *)
(* places, each of them free, reserved for an attempt, or taken by the     *)
(* result of one; and results that every later start finds again until     *)
(* they are removed.  Only about the ids in `unsure` does a restart decide *)
(* freely: a failed write may have left its file behind, and a removal     *)
(* that was not made durable may come undone.  A successful write leaves   *)
(* nothing unsure.                                                         *)
(*                                                                         *)
(* ResultQueue implements this specification; TaskChannel and its workers  *)
(* use the queue through these actions.                                    *)
(***************************************************************************)
EXTENDS Integers, FiniteSets

CONSTANTS
    Ids,        \* the attempts
    MaxRecords  \* number of places

VARIABLES
    records,       \* ids with a result that is not acknowledged yet
    reservations,  \* ids with a place for their result
    degraded,      \* a write has failed: nothing more is admitted
    unsure         \* ids of which the next start may or may not find a result

resultVars == <<records, reservations, degraded, unsure>>

\* There is a place for a result of id: its own reservation counts as one.
Room(id) == Cardinality(records) + Cardinality(reservations \ {id}) < MaxRecords

\* Enqueue would write a new record / answers ErrFull.
Writes(id) == ~degraded /\ id \notin records /\ Room(id)
Full(id) == ~degraded /\ id \notin records /\ ~Room(id)

\* Faulty variant: capacity promised to others does not count.
ReserveIgnoresReservations(id) ==
    /\ ~degraded
    /\ Cardinality(records) < MaxRecords
    /\ reservations' = IF id \in records THEN reservations ELSE reservations \cup {id}
    /\ UNCHANGED <<records, degraded, unsure>>

\* Reserve returns nil.  An id that has a place keeps it; a queued result of the
\* same id counts as one.
Reserve(id) ==
    /\ ~degraded
    /\ id \in records \cup reservations \/ Room(id)
    /\ reservations' = IF id \in records THEN reservations ELSE reservations \cup {id}
    /\ UNCHANGED <<records, degraded, unsure>>

Release(id) ==
    /\ reservations' = reservations \ {id}
    /\ UNCHANGED <<records, degraded, unsure>>

\* Enqueue of a new record, with a write that succeeds ...
Stored(id) ==
    /\ Writes(id)
    /\ records' = records \cup {id}
    /\ reservations' = reservations \ {id}
    /\ unsure' = {}
    /\ UNCHANGED degraded

\* ... or one that fails: the place stays reserved, and the file may be there.
WriteFails(id, left) ==
    /\ Writes(id)
    /\ left \subseteq {id}
    /\ degraded' = TRUE
    /\ unsure' = unsure \cup left
    /\ UNCHANGED <<records, reservations>>

\* Ack and Prune; afterwards `doubt` is what a restart may decide.
Remove(gone, doubt) ==
    /\ gone \subseteq records
    /\ records' = records \ gone
    /\ doubt \subseteq unsure \cup gone
    /\ unsure' = doubt
    /\ UNCHANGED <<reservations, degraded>>

\* The process ends, however it ends, and the next one finds what is on disk.
Restart(found, doubt) ==
    /\ records \ unsure \subseteq found
    /\ found \subseteq records \cup unsure
    /\ records' = found
    /\ doubt \subseteq unsure
    /\ unsure' = doubt
    /\ reservations' = {} /\ degraded' = FALSE

ResultInit ==
    records = {} /\ reservations = {} /\ degraded = FALSE /\ unsure = {}

ResultNext ==
    \/ \E id \in Ids :
        \/ Reserve(id) \/ Release(id) \/ Stored(id)
        \/ \E left \in SUBSET {id} : WriteFails(id, left)
    \/ \E gone \in SUBSET records : \E doubt \in SUBSET (unsure \cup gone) : Remove(gone, doubt)
    \/ \E found \in SUBSET (records \cup unsure), doubt \in SUBSET unsure : Restart(found, doubt)

ResultSpec == ResultInit /\ [][ResultNext]_resultVars
=============================================================================
