---------------------------- MODULE ResultQueue ----------------------------
(***************************************************************************)
(* The durable, bounded queue of terminal judge results:                   *)
(* internal/hnieoj/resultqueue/queue.go, with the file operations of       *)
(* internal/hnieoj/securefile it rests on.                                 *)
(*                                                                         *)
(* Every method holds q.mu for its whole body, and Open shares the queue   *)
(* only after its load, which writes nothing: every method is one action,  *)
(* with one variant per outcome of its file operations.  Methods that      *)
(* return without a change of state have no action; the reason is an       *)
(* operator (EnqueueOutcome, ReserveOutcome) the properties speak of.      *)
(* The disk is two sets of records: what the kernel shows now (disk) and   *)
(* what the last successful directory fsync made durable (synced).  A      *)
(* killed process finds disk again; a power loss leaves a mixture of both. *)
(* A record's payload comes from json.Marshal and is written by another    *)
(* json.Marshal, which leaves it byte for byte the same, so a payload has  *)
(* one Size in memory, on disk and after a load.                           *)
(***************************************************************************)
EXTENDS Integers, FiniteSets

CONSTANTS
    Ids,         \* record identities (one per attempt)
    Events,      \* terminal event payloads
    Size,        \* Size[e]: bytes of payload e
    MaxRecords,  \* q.maxRecords
    MaxBytes,    \* q.maxBytes
    MaxRecord,   \* q.maxRecord: limit of one payload, and the byte budget of a reservation
    TTL,         \* q.ttl in ticks; 0 disables Prune
    MaxTime      \* bound of the clock

ASSUME QueueAssumption ==
    /\ MaxRecords \in Nat \ {0}
    /\ MaxBytes \in Nat \ {0}
    /\ MaxRecord \in Nat \ {0}
    /\ TTL \in Nat
    /\ MaxTime \in Nat
    /\ Size \in [Events -> Nat]

VARIABLES
    mode,          \* "down", "open" or "refused" (Open returned an error)
    records,       \* q.records: the set of unacknowledged results
    reservations,  \* q.reservations: the ids of admitted attempts without a result
    bytes,         \* q.bytes
    degraded,      \* q.degraded
    disk,          \* records whose file is in the directory now
    synced,        \* records whose file was in the directory at the last fsync of it
    now,           \* time.Now()
    stored,        \* history: records whose Enqueue returned nil, not yet acked or pruned
    torn           \* history: the directory was torn by a power loss (Torn), no Open since

qvars == <<mode, records, reservations, bytes, degraded, disk, synced, now, stored, torn>>

Record == [id : Ids, event : Events, at : 0..MaxTime]

IdsOf(S) == {r.id : r \in S}

\* The payload bytes of a set of records, one element per byte, and their number.
Cells(S) == UNION {{r} \X (1..Size[r.event]) : r \in S}
SumSize(S) == Cardinality(Cells(S))

-----------------------------------------------------------------------------
(* Decisions *)

\* admissionExceedsLocked: would these increments break a limit?
AdmissionExceeds(extraRecords, extraReservations, extraBytes) ==
    LET reserved == Cardinality(reservations) + extraReservations IN
    \/ degraded
    \/ Cardinality(records) + reserved + extraRecords > MaxRecords
    \/ bytes + reserved * MaxRecord + extraBytes > MaxBytes

\* Faulty variant: a second result of the same id is written like the first.
EnqueueOutcomeNoDuplicateCheck(id, e) ==
    CASE Size[e] > MaxRecord -> "too large"
      [] Size[e] <= MaxRecord /\ degraded -> "degraded"
      [] OTHER ->
            IF AdmissionExceeds(1, IF id \in reservations THEN -1 ELSE 0, Size[e])
            THEN "full" ELSE "write"

\* The branches of Enqueue in the order of the code.
EnqueueOutcome(id, e) ==
    CASE Size[e] > MaxRecord -> "too large"
      [] Size[e] <= MaxRecord /\ degraded -> "degraded"
      [] Size[e] <= MaxRecord /\ ~degraded /\ id \in IdsOf(records) ->
            IF \E r \in records : r.id = id /\ r.event = e THEN "same" ELSE "conflict"
      [] OTHER ->
            IF AdmissionExceeds(1, IF id \in reservations THEN -1 ELSE 0, Size[e])
            THEN "full" ELSE "write"

\* Faulty variant: admits while the queue is not full (fullLocked) instead of
\* checking the worst case of the new reservation.
ReserveUnlessFull(id) ==
    LET reserved == Cardinality(reservations) IN
    CASE degraded -> "degraded"
      [] ~degraded /\ id \in IdsOf(records) \cup reservations -> "held"
      [] OTHER -> IF \/ Cardinality(records) + reserved >= MaxRecords
                     \/ bytes + reserved * MaxRecord >= MaxBytes
                  THEN "full" ELSE "reserve"

\* The branches of Reserve in the order of the code.
ReserveOutcome(id) ==
    CASE degraded -> "degraded"
      [] ~degraded /\ id \in IdsOf(records) \cup reservations -> "held"
      [] OTHER -> IF AdmissionExceeds(0, 1, 0) THEN "full" ELSE "reserve"

-----------------------------------------------------------------------------
(* Operations of the open queue *)

\* Faulty variant: the directory is not fsynced after the rename.
EnqueueWithoutSync(id, e) ==
    /\ mode = "open"
    /\ EnqueueOutcome(id, e) = "write"
    /\ LET rec == [id |-> id, event |-> e, at |-> now] IN
        /\ records' = records \cup {rec}
        /\ disk' = {r \in disk : r.id # id} \cup {rec}
        /\ stored' = stored \cup {rec}
    /\ reservations' = reservations \ {id}
    /\ bytes' = bytes + Size[e]
    /\ UNCHANGED <<mode, degraded, synced, now, torn>>

\* Enqueue, the write of a new record succeeding.  WriteFileAtomic fsyncs the
\* directory after its rename, so every earlier removal is durable as well.
EnqueueStored(id, e) ==
    /\ mode = "open"
    /\ EnqueueOutcome(id, e) = "write"
    /\ LET rec == [id |-> id, event |-> e, at |-> now] IN
        /\ records' = records \cup {rec}
        /\ disk' = {r \in disk : r.id # id} \cup {rec}
        /\ synced' = disk'
    /\ reservations' = reservations \ {id}
    /\ bytes' = bytes + Size[e]
    /\ stored' = stored \cup {[id |-> id, event |-> e, at |-> now]}
    /\ UNCHANGED <<mode, degraded, now, torn>>

\* Faulty variant: a failed write does not stop the queue from admitting more,
\* whose files come on top of the one it may have left.
EnqueueFailsUnnoticed(id, e, renamed) ==
    /\ mode = "open"
    /\ EnqueueOutcome(id, e) = "write"
    /\ disk' = IF renamed
               THEN {r \in disk : r.id # id} \cup {[id |-> id, event |-> e, at |-> now]}
               ELSE disk
    /\ UNCHANGED <<mode, records, reservations, bytes, degraded, synced, now, stored, torn>>

\* Enqueue, WriteFileAtomic failing: before the rename nothing reached the
\* directory; a failure of the second harden or of SyncDir leaves the file
\* there although the caller is told that the write failed.
EnqueueFails(id, e, renamed) ==
    /\ mode = "open"
    /\ EnqueueOutcome(id, e) = "write"
    /\ degraded' = TRUE
    /\ disk' = IF renamed
               THEN {r \in disk : r.id # id} \cup {[id |-> id, event |-> e, at |-> now]}
               ELSE disk
    /\ UNCHANGED <<mode, records, reservations, bytes, synced, now, stored, torn>>

\* Reserve admits an attempt: one record and MaxRecord bytes are set aside.
Reserve(id) ==
    /\ mode = "open"
    /\ ReserveOutcome(id) = "reserve"
    /\ reservations' = reservations \cup {id}
    /\ UNCHANGED <<mode, records, bytes, degraded, disk, synced, now, stored, torn>>

\* Release: idempotent, never touches a stored record.
Release(id) ==
    /\ mode = "open"
    /\ reservations' = reservations \ {id}
    /\ UNCHANGED <<mode, records, bytes, degraded, disk, synced, now, stored, torn>>

\* The clamp of Ack and Prune: q.bytes never goes below zero.
Clamp(b) == IF b < 0 THEN 0 ELSE b

\* Ack of a known record whose file could be removed; SyncDir may still fail
\* (then Ack returns an error but the record is gone from memory).
Ack(id, syncOk) ==
    /\ mode = "open"
    /\ \E r \in records :
        /\ r.id = id
        /\ records' = records \ {r}
        /\ bytes' = Clamp(bytes - Size[r.event])
    /\ disk' = {r \in disk : r.id # id}
    /\ stored' = {r \in stored : r.id # id}
    /\ synced' = IF syncOk THEN disk' ELSE synced
    /\ UNCHANGED <<mode, reservations, degraded, now, torn>>

Expired == {r \in records : now - r.at > TTL}

\* Faulty variant: a walk that stops early forgets the bytes it has freed.
PruneCountsAtEnd(gone, syncOk) ==
    /\ mode = "open"
    /\ TTL > 0
    /\ gone # {} /\ gone \subseteq Expired
    /\ records' = records \ gone
    /\ bytes' = IF gone = Expired THEN Clamp(bytes - SumSize(gone)) ELSE bytes
    /\ disk' = {r \in disk : r.id \notin IdsOf(gone)}
    /\ stored' = {r \in stored : r.id \notin IdsOf(gone)}
    /\ syncOk => gone = Expired
    /\ synced' = IF syncOk THEN disk' ELSE synced
    /\ UNCHANGED <<mode, reservations, degraded, now, torn>>

\* Prune walks the map in an arbitrary order and stops at the first file it
\* cannot remove: then only a part of the expired records is gone, and the
\* directory is not fsynced.  When all are gone SyncDir may still fail.
Prune(gone, syncOk) ==
    /\ mode = "open"
    /\ TTL > 0
    /\ gone # {} /\ gone \subseteq Expired
    /\ records' = records \ gone
    /\ bytes' = Clamp(bytes - SumSize(gone))
    /\ disk' = {r \in disk : r.id \notin IdsOf(gone)}
    /\ stored' = {r \in stored : r.id \notin IdsOf(gone)}
    /\ syncOk => gone = Expired
    /\ synced' = IF syncOk THEN disk' ELSE synced
    /\ UNCHANGED <<mode, reservations, degraded, now, torn>>

-----------------------------------------------------------------------------
(* Process and machine *)

\* What load accepts: counts files first, then adds up the payloads.
LoadFits(files) ==
    /\ Cardinality(files) <= MaxRecords
    /\ \A r \in files : Size[r.event] <= MaxRecord
    /\ SumSize(files) <= MaxBytes

\* Open: on an error the node does not start, and a later start tries again.
Open ==
    /\ mode \in {"down", "refused"}
    /\ IF LoadFits(disk)
       THEN mode' = "open" /\ records' = disk /\ bytes' = SumSize(disk) /\ torn' = FALSE
       ELSE mode' = "refused" /\ UNCHANGED <<records, bytes, torn>>
    /\ UNCHANGED <<reservations, degraded, disk, synced, now, stored>>

\* The memory of a process that is gone.
Forget ==
    /\ mode' = "down"
    /\ records' = {} /\ reservations' = {} /\ bytes' = 0 /\ degraded' = FALSE

\* The process ends, in any way: the kernel keeps the directory as it is.
Kill ==
    /\ mode = "open"
    /\ Forget
    /\ UNCHANGED <<disk, synced, now, stored, torn>>

\* The machine loses power: of the directory operations after the last fsync
\* any part survives, one file per name.
Images ==
    {S \in SUBSET (disk \cup synced) :
        /\ disk \cap synced \subseteq S
        /\ \A r, t \in S : r.id = t.id => r = t}

\* Two kinds of directory operations are not durable at once: a removal whose
\* SyncDir failed or was not reached (a file of synced is gone from disk), and the
\* rename of a write that failed behind it (a file of disk is not in synced).
Torn == ~(disk \subseteq synced) /\ ~(synced \subseteq disk)

\* The power may go while the queue is open, closed or refused.
PowerLoss ==
    /\ Forget
    /\ disk' \in Images
    /\ synced' = disk'
    /\ torn' = (torn \/ Torn)
    /\ UNCHANGED <<now, stored>>

Tick ==
    /\ now < MaxTime
    /\ now' = now + 1
    /\ UNCHANGED <<mode, records, reservations, bytes, degraded, disk, synced, stored, torn>>

Init ==
    /\ mode = "down"
    /\ records = {} /\ reservations = {} /\ bytes = 0 /\ degraded = FALSE
    /\ disk = {} /\ synced = {} /\ stored = {}
    /\ now = 0 /\ torn = FALSE

Next ==
    \/ \E id \in Ids :
        \/ \E e \in Events :
            \/ EnqueueStored(id, e)
            \/ \E renamed \in BOOLEAN : EnqueueFails(id, e, renamed)
        \/ Reserve(id)
        \/ Release(id)
        \/ \E syncOk \in BOOLEAN : Ack(id, syncOk)
    \/ \E gone \in SUBSET Expired, syncOk \in BOOLEAN : Prune(gone, syncOk)
    \/ Open \/ Kill \/ PowerLoss \/ Tick

Spec == Init /\ [][Next]_qvars

-----------------------------------------------------------------------------
(* Properties *)

\* Every variable keeps its type, and the clock stays within its bound.
TypeOK ==
    /\ mode \in {"down", "open", "refused"}
    /\ records \in SUBSET Record
    /\ reservations \in SUBSET Ids
    /\ bytes \in Nat
    /\ degraded \in BOOLEAN /\ torn \in BOOLEAN
    /\ disk \in SUBSET Record /\ synced \in SUBSET Record /\ stored \in SUBSET Record
    /\ now \in 0..MaxTime

\* Whatever mixture of Reserve, Enqueue, Release, Ack, Prune and restarts came
\* before, the stored results and the worst case of every admitted attempt fit
\* the two limits of the queue together.
WithinLimits ==
    /\ Cardinality(records) + Cardinality(reservations) <= MaxRecords
    /\ bytes + Cardinality(reservations) * MaxRecord <= MaxBytes

\* The promise of a reservation (queue.go:48): an attempt that holds one never
\* sees Enqueue answer ErrFull, however many others finish at the same time.
ReservedNeverFull ==
    mode = "open" =>
        \A id \in reservations, e \in Events : EnqueueOutcome(id, e) # "full"

\* q.bytes is the exact size of the unacknowledged payloads: increments of
\* load and Enqueue and decrements of Ack and Prune never drift apart.
BytesExact == mode = "open" => bytes = SumSize(records)

\* No id is charged twice, as a reservation and as a stored record.
NoDoubleCharge == reservations \cap IdsOf(records) = {}

\* No end of the process, at any moment and with any outcome of the file
\* operations, leaves a directory that load refuses: neither what the kernel shows
\* nor what was last made durable ever exceeds the limits, and a queue that runs is
\* as safe after a restart.  The one exception is a torn directory: a power loss
\* while a removal and the file of a failed write were both not durable may keep
\* both kinds of files, more than the limits allow (queue.go:283, 358 and 182).
Reopenable ==
    /\ torn \/ (LoadFits(disk) /\ LoadFits(synced))
    /\ mode = "open" => ~torn
    /\ mode = "refused" => torn

\* A result whose Enqueue returned nil is on stable storage until it is acked
\* or pruned: no kill and no power loss can take it away.
StoredIsDurable == stored \subseteq disk \cap synced

\* What the node sees of the queue.  While no process has it open, that is what
\* the directory holds; unsure are the files without a record (a failed write)
\* and those on which the directory and its last durable state differ.
Seen == IF mode = "open" THEN records ELSE disk
Unsure == (disk \ Seen) \cup (disk \ synced) \cup (synced \ disk)

Results == INSTANCE ResultStore WITH
    records <- IdsOf(Seen), unsure <- IdsOf(Unsure)

\* The queue implements ResultStore: whatever the sizes of the payloads, the
\* outcomes of the file operations and the moments of the crashes, a caller sees
\* MaxRecords places, none of them given away twice, and every start finds what
\* was stored and not removed, and brings back nothing that was surely gone.
ImplementsStore == Results!ResultSpec

\* One terminal result per attempt: while a process runs, a result file is
\* never overwritten by a different result of the same id.
TerminalNeverReplaced ==
    [][mode = "open" /\ mode' = "open" =>
        \A r \in disk, t \in disk' : r.id = t.id => r = t]_qvars

-----------------------------------------------------------------------------
(* The inductive invariant behind the properties *)

\* Finitely many files and bytes, one file per name.
DirectoryShape ==
    /\ IsFiniteSet(reservations)
    /\ IsFiniteSet(disk) /\ IsFiniteSet(synced)
    /\ IsFiniteSet(Cells(disk)) /\ IsFiniteSet(Cells(synced))
    /\ \A r, t \in disk : r.id = t.id => r = t

\* How memory and directory relate: nothing in memory while no process has the
\* queue open; in an open queue every record has its file, and a file without a
\* record exists only after a failed write.
MemoryMatchesDisk ==
    /\ mode # "open" =>
        records = {} /\ reservations = {} /\ bytes = 0 /\ degraded = FALSE
    /\ records \subseteq disk
    /\ mode = "open" /\ ~degraded => disk = records

\* A torn directory is the durable one until Open accepts it.
TornIsDurable == torn => synced = disk

\* The conjunction that every step of the queue preserves: the promises above
\* and the facts about memory and directory they depend on.
QueueInv ==
    /\ TypeOK
    /\ DirectoryShape
    /\ MemoryMatchesDisk
    /\ BytesExact
    /\ WithinLimits
    /\ NoDoubleCharge
    /\ TornIsDurable
    /\ Reopenable
    /\ StoredIsDurable
=============================================================================
