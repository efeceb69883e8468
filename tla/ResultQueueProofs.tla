------------------------- MODULE ResultQueueProofs -------------------------
(***************************************************************************)
(* Proofs about ResultQueue for every set of attempts, every payload size  *)
(* and every limit.  A number of bytes is the cardinality of a set of      *)
(* cells, so that sums are reasoned about with the theorems on finite      *)
(* sets, without induction.                                                *)
(***************************************************************************)
EXTENDS ResultQueue, FiniteSetTheorems, TLAPS

-----------------------------------------------------------------------------
(* Payload bytes of a set of records *)

\* The cells of one record are as many as its payload has bytes.
LEMMA CellsOfOne ==
    ASSUME NEW r \in Record
    PROVE  /\ IsFiniteSet(Cells({r}))
           /\ Cardinality(Cells({r})) = Size[r.event]
PROOF
<1> DEFINE n == Size[r.event]
           T == Cells({r})
           f == [i \in 1..n |-> <<r, i>>]
<1>1. n \in Nat
  BY QueueAssumption DEF Record
<1>2. T = {<<r, i>> : i \in 1..n}
  BY DEF Cells
<1>3. f \in Bijection(1..n, T)
  <2>1. f \in [1..n -> T]
    BY <1>2
  <2>2. \A i, j \in 1..n : f[i] = f[j] => i = j
    OBVIOUS
  <2>3. \A t \in T : \E i \in 1..n : f[i] = t
    BY <1>2
  <2>4. f \in Injection(1..n, T)
    BY <2>1, <2>2 DEF Injection, IsInjective
  <2>5. f \in Surjection(1..n, T)
    BY <2>1, <2>3 DEF Surjection
  <2> QED
    BY <2>4, <2>5 DEF Bijection
<1>4. IsFiniteSet(1..n) /\ Cardinality(1..n) = n
  <2> HIDE DEF f
  <2>1. 1 \in Int /\ n \in Int
    BY <1>1
  <2>2. IsFiniteSet(1..n) /\ Cardinality(1..n) = IF 1 > n THEN 0 ELSE n - 1 + 1
    BY <2>1, FS_Interval, Zenon
  <2> QED
    BY <1>1, <2>2
<1>5. ExistsBijection(1..n, T)
  BY <1>3 DEF ExistsBijection
<1> QED
  BY <1>4, <1>5, FS_Bijection

\* Cells distributes over union, and keeps disjoint sets apart.
LEMMA CellsAlgebra ==
    ASSUME NEW S, NEW T
    PROVE  /\ Cells(S \cup T) = Cells(S) \cup Cells(T)
           /\ S \cap T = {} => Cells(S) \cap Cells(T) = {}
           /\ S \subseteq T => Cells(S) \subseteq Cells(T)
BY DEF Cells

\* The cardinality of a union of two disjoint finite sets.
LEMMA DisjointUnion ==
    ASSUME NEW A, NEW B, IsFiniteSet(A), IsFiniteSet(B), A \cap B = {}
    PROVE  /\ IsFiniteSet(A \cup B)
           /\ Cardinality(A) \in Nat /\ Cardinality(B) \in Nat
           /\ Cardinality(A \cup B) = Cardinality(A) + Cardinality(B)
PROOF
<1>1. /\ IsFiniteSet(A \cup B)
      /\ Cardinality(A \cup B) =
            Cardinality(A) + Cardinality(B) - Cardinality(A \cap B)
  BY FS_Union
<1>2. Cardinality(A) \in Nat /\ Cardinality(B) \in Nat
  BY FS_CardinalityType
<1>3. Cardinality(A \cap B) = 0
  BY FS_EmptySet
<1> QED
  BY <1>1, <1>2, <1>3

\* Adding a new record adds its payload size.
LEMMA SumSizeAdd ==
    ASSUME NEW S, NEW r \in Record, r \notin S, IsFiniteSet(Cells(S))
    PROVE  /\ IsFiniteSet(Cells(S \cup {r}))
           /\ SumSize(S) \in Nat
           /\ SumSize(S \cup {r}) = SumSize(S) + Size[r.event]
PROOF
<1>1. Cells(S \cup {r}) = Cells(S) \cup Cells({r})
  BY CellsAlgebra
<1>2. Cells(S) \cap Cells({r}) = {}
  <2>1. S \cap {r} = {}
    OBVIOUS
  <2> QED
    BY <2>1, CellsAlgebra
<1>3. /\ IsFiniteSet(Cells({r}))
      /\ Cardinality(Cells({r})) = Size[r.event]
  BY CellsOfOne
<1>4. /\ IsFiniteSet(Cells(S) \cup Cells({r}))
      /\ Cardinality(Cells(S)) \in Nat
      /\ Cardinality(Cells(S) \cup Cells({r})) =
            Cardinality(Cells(S)) + Cardinality(Cells({r}))
  BY <1>2, <1>3, DisjointUnion
<1> QED
  BY <1>1, <1>3, <1>4 DEF SumSize

\* Removing records removes their payload size, and never more than there is.
LEMMA SumSizeRemove ==
    ASSUME NEW S, NEW T, T \subseteq S, IsFiniteSet(Cells(S))
    PROVE  /\ IsFiniteSet(Cells(T)) /\ IsFiniteSet(Cells(S \ T))
           /\ SumSize(S) \in Nat /\ SumSize(T) \in Nat /\ SumSize(S \ T) \in Nat
           /\ SumSize(S) = SumSize(S \ T) + SumSize(T)
PROOF
<1>1. /\ Cells(S) = Cells(S \ T) \cup Cells(T)
      /\ Cells(S \ T) \cap Cells(T) = {}
  <2>1. S = (S \ T) \cup T /\ (S \ T) \cap T = {}
    OBVIOUS
  <2> QED
    BY <2>1, CellsAlgebra
<1>2. IsFiniteSet(Cells(T)) /\ IsFiniteSet(Cells(S \ T))
  BY <1>1, FS_Subset
<1>3. /\ Cardinality(Cells(T)) \in Nat
      /\ Cardinality(Cells(S \ T)) \in Nat
      /\ Cardinality(Cells(S \ T) \cup Cells(T)) =
            Cardinality(Cells(S \ T)) + Cardinality(Cells(T))
  BY <1>1, <1>2, DisjointUnion
<1>4. Cardinality(Cells(S)) = Cardinality(Cells(S \ T)) + Cardinality(Cells(T))
  BY <1>1, <1>3
<1> QED
  BY <1>2, <1>3, <1>4 DEF SumSize

\* A directory that load accepts keeps being accepted when files disappear.
LEMMA LoadFitsSubset ==
    ASSUME NEW S, NEW T \in SUBSET S,
           IsFiniteSet(S), IsFiniteSet(Cells(S)), LoadFits(S)
    PROVE  LoadFits(T) /\ IsFiniteSet(T) /\ IsFiniteSet(Cells(T))
PROOF
<1>1. /\ IsFiniteSet(T) /\ Cardinality(T) <= Cardinality(S)
      /\ Cardinality(T) \in Nat /\ Cardinality(S) \in Nat
  BY FS_Subset, FS_CardinalityType
<1>2. Cells(T) \subseteq Cells(S)
  BY CellsAlgebra
<1>3. /\ IsFiniteSet(Cells(T)) /\ SumSize(T) <= SumSize(S)
      /\ SumSize(T) \in Nat /\ SumSize(S) \in Nat
  BY <1>2, FS_Subset, FS_CardinalityType DEF SumSize
<1> QED
  BY <1>1, <1>3, QueueAssumption DEF LoadFits

-----------------------------------------------------------------------------
(* The steps of the queue *)

\* The state Open starts from satisfies the invariant.
LEMMA InitInv == Init => QueueInv
PROOF
<1> SUFFICES ASSUME Init PROVE QueueInv
  OBVIOUS
<1>1. IsFiniteSet({}) /\ Cardinality({}) = 0
  BY FS_EmptySet
<1>2. Cells({}) = {}
  BY DEF Cells
<1>3. TypeOK
  <2>1. degraded \in BOOLEAN /\ torn \in BOOLEAN
    BY Zenon DEF Init
  <2>2. now \in 0..MaxTime /\ bytes \in Nat
    BY QueueAssumption DEF Init
  <2> QED
    BY <2>1, <2>2 DEF Init, TypeOK
<1>4. DirectoryShape
  BY <1>1, <1>2 DEF Init, DirectoryShape
<1>5. WithinLimits
  BY <1>1, QueueAssumption DEF Init, WithinLimits
<1>6. LoadFits({})
  BY <1>1, <1>2, QueueAssumption DEF LoadFits, SumSize
<1>7. Reopenable /\ TornIsDurable
  BY <1>6 DEF Init, Reopenable, TornIsDurable
<1> QED
  BY <1>1, <1>2, <1>3, <1>4, <1>5, <1>7 DEF Init, QueueInv, MemoryMatchesDisk,
     BytesExact, NoDoubleCharge, StoredIsDurable, IdsOf, SumSize

\* What Enqueue's admission check leaves for a record that it lets through.
LEMMA Admitted ==
    ASSUME QueueInv, mode = "open", NEW id \in Ids, NEW e \in Events,
           EnqueueOutcome(id, e) = "write"
    PROVE  /\ ~degraded
           /\ disk = records
           /\ [id |-> id, event |-> e, at |-> now] \in Record
           /\ \A r \in records : r.id # id
           /\ Size[e] \in Nat /\ Size[e] <= MaxRecord
           /\ LET left == Cardinality(reservations \ {id}) IN
               /\ left \in Nat
               /\ IsFiniteSet(reservations \ {id})
               /\ Cardinality(records) + 1 + left <= MaxRecords
               /\ bytes + Size[e] + left * MaxRecord <= MaxBytes
PROOF
<1>1. Size[e] \in Nat /\ MaxRecord \in Nat
  BY QueueAssumption
<1>2. /\ Size[e] <= MaxRecord
      /\ ~degraded
      /\ id \notin IdsOf(records)
      /\ ~AdmissionExceeds(1, IF id \in reservations THEN -1 ELSE 0, Size[e])
  <2>1. ~(Size[e] > MaxRecord)
    BY DEF EnqueueOutcome
  <2>2. Size[e] <= MaxRecord
    BY <2>1, <1>1
  <2>3. ~degraded
    BY <2>2, <1>1 DEF EnqueueOutcome
  <2>4. id \notin IdsOf(records)
    BY <2>2, <2>3, <1>1 DEF EnqueueOutcome
  <2> QED
    BY <2>1, <2>2, <2>3, <2>4 DEF EnqueueOutcome
<1>3. disk = records
  BY <1>2 DEF QueueInv, MemoryMatchesDisk
<1>4. [id |-> id, event |-> e, at |-> now] \in Record
  BY DEF QueueInv, TypeOK, Record
<1>5. \A r \in records : r.id # id
  BY <1>2 DEF IdsOf
<1>6. /\ IsFiniteSet(reservations \ {id})
      /\ Cardinality(reservations \ {id}) =
            IF id \in reservations THEN Cardinality(reservations) - 1
                                  ELSE Cardinality(reservations)
      /\ Cardinality(reservations \ {id}) \in Nat
      /\ Cardinality(reservations) \in Nat
  BY FS_RemoveElement, FS_CardinalityType DEF QueueInv, DirectoryShape
<1>7. bytes \in Nat /\ Cardinality(records) \in Nat
  BY <1>3, FS_CardinalityType DEF QueueInv, TypeOK, DirectoryShape
<1>8. /\ Cardinality(records) + 1 + Cardinality(reservations \ {id}) <= MaxRecords
      /\ bytes + Size[e] + Cardinality(reservations \ {id}) * MaxRecord <= MaxBytes
  <2> DEFINE delta == IF id \in reservations THEN -1 ELSE 0
             left == Cardinality(reservations \ {id})
  <2>1. left = Cardinality(reservations) + delta
    BY <1>6
  <2>2. /\ ~(Cardinality(records) + left + 1 > MaxRecords)
        /\ ~(bytes + left * MaxRecord + Size[e] > MaxBytes)
    BY <1>2, <2>1 DEF AdmissionExceeds
  <2>3. left \in Nat /\ left * MaxRecord \in Nat
    BY <1>1, <1>6
  <2> QED
    BY <1>1, <1>7, <2>2, <2>3, QueueAssumption
<1> QED
  BY <1>1, <1>2, <1>3, <1>4, <1>5, <1>6, <1>8

\* A successful Enqueue: the reservation turns into the record it was made for.
LEMMA EnqueueStoredInv ==
    ASSUME QueueInv, NEW id \in Ids, NEW e \in Events, EnqueueStored(id, e)
    PROVE  QueueInv'
PROOF
<1> DEFINE rec == [id |-> id, event |-> e, at |-> now]
           left == Cardinality(reservations \ {id})
<1>1. /\ ~degraded
      /\ disk = records
      /\ rec \in Record
      /\ \A r \in records : r.id # id
      /\ Size[e] \in Nat /\ Size[e] <= MaxRecord
      /\ left \in Nat
      /\ IsFiniteSet(reservations \ {id})
      /\ Cardinality(records) + 1 + left <= MaxRecords
      /\ bytes + Size[e] + left * MaxRecord <= MaxBytes
  BY Admitted DEF EnqueueStored
<1>2. /\ mode = "open" /\ mode' = "open"
      /\ records' = records \cup {rec}
      /\ disk' = records \cup {rec} /\ synced' = records \cup {rec}
      /\ reservations' = reservations \ {id}
      /\ bytes' = bytes + Size[e]
      /\ stored' = stored \cup {rec}
      /\ degraded' = degraded /\ now' = now /\ torn' = torn
  BY <1>1 DEF EnqueueStored
<1>3. rec \notin records /\ rec.event = e /\ rec.id = id
  BY <1>1
<1>4. /\ IsFiniteSet(records \cup {rec})
      /\ Cardinality(records \cup {rec}) = Cardinality(records) + 1
      /\ Cardinality(records) \in Nat
  BY <1>1, <1>3, FS_AddElement, FS_CardinalityType DEF QueueInv, DirectoryShape
<1>5. /\ IsFiniteSet(Cells(records \cup {rec}))
      /\ SumSize(records) \in Nat
      /\ SumSize(records \cup {rec}) = SumSize(records) + Size[e]
  BY <1>1, <1>3, SumSizeAdd DEF QueueInv, DirectoryShape
<1>6. bytes = SumSize(records) /\ bytes \in Nat
  BY <1>2, <1>5 DEF QueueInv, BytesExact
<1>7. MaxRecord \in Nat /\ MaxBytes \in Nat /\ MaxRecords \in Nat
      /\ left * MaxRecord \in Nat
  BY <1>1, QueueAssumption
<1>8. TypeOK'
  BY <1>1, <1>2, <1>6 DEF QueueInv, TypeOK
<1>9. DirectoryShape'
  BY <1>1, <1>2, <1>3, <1>4, <1>5 DEF QueueInv, DirectoryShape
<1>10. MemoryMatchesDisk' /\ NoDoubleCharge'
  BY <1>1, <1>2, <1>3 DEF QueueInv, MemoryMatchesDisk, NoDoubleCharge, IdsOf
<1>11. BytesExact'
  BY <1>2, <1>5, <1>6 DEF BytesExact, SumSize, Cells
<1>12. WithinLimits'
  BY <1>1, <1>2, <1>4, <1>6, <1>7 DEF WithinLimits
<1>13. LoadFits(records \cup {rec})
  <2>1. \A r \in records : Size[r.event] <= MaxRecord
    BY <1>1, <1>2 DEF QueueInv, Reopenable, LoadFits
  <2>2. SumSize(records \cup {rec}) <= MaxBytes
    BY <1>1, <1>5, <1>6, <1>7
  <2>3. Cardinality(records \cup {rec}) <= MaxRecords
    BY <1>1, <1>4, <1>7
  <2> QED
    BY <1>1, <1>3, <2>1, <2>2, <2>3 DEF LoadFits
<1>14. Reopenable' /\ TornIsDurable'
  BY <1>2, <1>13 DEF QueueInv, Reopenable, TornIsDurable, LoadFits, SumSize, Cells
<1>15. StoredIsDurable'
  BY <1>1, <1>2 DEF QueueInv, StoredIsDurable
<1> QED
  BY <1>8, <1>9, <1>10, <1>11, <1>12, <1>14, <1>15 DEF QueueInv

\* A failed write only degrades the queue; the file it may leave behind was
\* admitted, so the directory still loads.
LEMMA EnqueueFailsInv ==
    ASSUME QueueInv, NEW id \in Ids, NEW e \in Events, NEW renamed \in BOOLEAN,
           EnqueueFails(id, e, renamed)
    PROVE  QueueInv'
PROOF
<1> DEFINE rec == [id |-> id, event |-> e, at |-> now]
           left == Cardinality(reservations \ {id})
<1>1. /\ ~degraded
      /\ disk = records
      /\ rec \in Record
      /\ \A r \in records : r.id # id
      /\ Size[e] \in Nat /\ Size[e] <= MaxRecord
      /\ left \in Nat
      /\ Cardinality(records) + 1 + left <= MaxRecords
      /\ bytes + Size[e] + left * MaxRecord <= MaxBytes
  BY Admitted DEF EnqueueFails
<1>2. /\ mode = "open" /\ mode' = "open"
      /\ records' = records /\ reservations' = reservations /\ bytes' = bytes
      /\ synced' = synced /\ now' = now /\ stored' = stored /\ torn' = torn
      /\ disk' = records \/ disk' = records \cup {rec}
  BY <1>1 DEF EnqueueFails
<1>3. rec \notin records /\ rec.event = e /\ rec.id = id
  BY <1>1
<1>4. /\ IsFiniteSet(records \cup {rec})
      /\ Cardinality(records \cup {rec}) = Cardinality(records) + 1
      /\ Cardinality(records) \in Nat
  BY <1>1, <1>3, FS_AddElement, FS_CardinalityType DEF QueueInv, DirectoryShape
<1>5. /\ IsFiniteSet(Cells(records \cup {rec}))
      /\ SumSize(records) \in Nat
      /\ SumSize(records \cup {rec}) = SumSize(records) + Size[e]
  BY <1>1, <1>3, SumSizeAdd DEF QueueInv, DirectoryShape
<1>6. bytes = SumSize(records) /\ bytes \in Nat
  BY <1>2, <1>5 DEF QueueInv, BytesExact
<1>7. MaxRecord \in Nat /\ MaxBytes \in Nat /\ MaxRecords \in Nat
      /\ left * MaxRecord \in Nat
  BY <1>1, QueueAssumption
<1>8. TypeOK'
  <2>1. degraded' \in BOOLEAN
    BY Zenon DEF EnqueueFails
  <2> QED
    BY <1>1, <1>2, <2>1 DEF QueueInv, TypeOK
<1>9. DirectoryShape'
  BY <1>1, <1>2, <1>3, <1>4, <1>5 DEF QueueInv, DirectoryShape
<1>10. MemoryMatchesDisk'
  <2>1. degraded'
    BY DEF EnqueueFails
  <2> QED
    BY <1>1, <1>2, <2>1 DEF QueueInv, MemoryMatchesDisk
<1>11. BytesExact'
  BY <1>2, <1>6 DEF BytesExact, SumSize, Cells
<1>12. WithinLimits' /\ NoDoubleCharge'
  BY <1>2 DEF QueueInv, WithinLimits, NoDoubleCharge, IdsOf
<1>13. LoadFits(records \cup {rec}) /\ LoadFits(records) /\ LoadFits(synced)
  <2>1. LoadFits(records) /\ LoadFits(synced)
    BY <1>1, <1>2 DEF QueueInv, Reopenable
  <2>2. SumSize(records \cup {rec}) <= MaxBytes
    BY <1>1, <1>5, <1>6, <1>7
  <2>3. Cardinality(records \cup {rec}) <= MaxRecords
    BY <1>1, <1>4, <1>7
  <2> QED
    BY <1>1, <1>3, <2>1, <2>2, <2>3 DEF LoadFits
<1>14. Reopenable' /\ TornIsDurable'
  BY <1>2, <1>13 DEF QueueInv, Reopenable, TornIsDurable, LoadFits, SumSize, Cells
<1>15. StoredIsDurable'
  BY <1>1, <1>2 DEF QueueInv, StoredIsDurable
<1> QED
  BY <1>8, <1>9, <1>10, <1>11, <1>12, <1>14, <1>15 DEF QueueInv

\* Removing records: what Ack and Prune have in common.
LEMMA RemovalInv ==
    ASSUME QueueInv, mode = "open", NEW gone \in SUBSET records,
           records' = records \ gone,
           bytes' = Clamp(bytes - SumSize(gone)),
           disk' = {r \in disk : r.id \notin IdsOf(gone)},
           stored' = {r \in stored : r.id \notin IdsOf(gone)},
           synced' = disk' \/ synced' = synced,
           UNCHANGED <<mode, reservations, degraded, now, torn>>
    PROVE  QueueInv'
PROOF
<1>1. /\ \A r, t \in disk : r.id = t.id => r = t
      /\ records \subseteq disk
      /\ IsFiniteSet(disk) /\ IsFiniteSet(Cells(disk))
      /\ IsFiniteSet(synced) /\ IsFiniteSet(Cells(synced))
      /\ LoadFits(disk) /\ LoadFits(synced)
  BY DEF QueueInv, DirectoryShape, MemoryMatchesDisk, Reopenable
<1>2. /\ LoadFits(disk') /\ IsFiniteSet(disk') /\ IsFiniteSet(Cells(disk'))
      /\ LoadFits(synced') /\ IsFiniteSet(synced') /\ IsFiniteSet(Cells(synced'))
  <2>1. disk' \in SUBSET disk
    OBVIOUS
  <2>2. LoadFits(disk') /\ IsFiniteSet(disk') /\ IsFiniteSet(Cells(disk'))
    BY <1>1, <2>1, LoadFitsSubset
  <2> QED
    BY <1>1, <2>2
<1>3. /\ IsFiniteSet(Cells(records)) /\ IsFiniteSet(records)
      /\ LoadFits(records)
  BY <1>1, LoadFitsSubset
<1>4. /\ SumSize(records) \in Nat /\ SumSize(gone) \in Nat
      /\ SumSize(records \ gone) \in Nat
      /\ SumSize(records) = SumSize(records \ gone) + SumSize(gone)
  BY <1>3, SumSizeRemove
<1>5. bytes' = SumSize(records \ gone) /\ bytes' \in Nat /\ bytes' <= bytes
      /\ bytes \in Nat
  BY <1>4 DEF QueueInv, BytesExact, Clamp
<1>6. /\ Cardinality(records \ gone) <= Cardinality(records)
      /\ Cardinality(records \ gone) \in Nat /\ Cardinality(records) \in Nat
  BY <1>3, FS_Subset, FS_CardinalityType
<1>7. TypeOK'
  BY <1>5 DEF QueueInv, TypeOK
<1>8. DirectoryShape'
  BY <1>1, <1>2 DEF QueueInv, DirectoryShape, Cells
<1>9. MemoryMatchesDisk'
  <2>1. records' \subseteq disk'
    BY <1>1 DEF IdsOf
  <2>2. ~degraded => disk' = records'
    BY <1>1 DEF QueueInv, MemoryMatchesDisk, IdsOf
  <2> QED
    BY <2>1, <2>2 DEF MemoryMatchesDisk
<1>10. BytesExact'
  BY <1>5 DEF BytesExact, SumSize, Cells
<1>11. WithinLimits'
  <2>1. Cardinality(reservations) \in Nat /\ Cardinality(reservations) * MaxRecord \in Nat
    BY FS_CardinalityType, QueueAssumption DEF QueueInv, DirectoryShape
  <2>2. Cardinality(records') + Cardinality(reservations) <= MaxRecords
    BY <1>6, <2>1, QueueAssumption DEF QueueInv, WithinLimits
  <2>3. bytes' + Cardinality(reservations) * MaxRecord <= MaxBytes
    BY <1>5, <2>1, QueueAssumption DEF QueueInv, WithinLimits
  <2> QED
    BY <2>2, <2>3 DEF WithinLimits
<1>12. NoDoubleCharge'
  BY DEF QueueInv, NoDoubleCharge, IdsOf
<1>13. Reopenable' /\ TornIsDurable'
  BY <1>2 DEF QueueInv, Reopenable, TornIsDurable, LoadFits, SumSize, Cells
<1>14. StoredIsDurable'
  BY DEF QueueInv, StoredIsDurable
<1> QED
  BY <1>7, <1>8, <1>9, <1>10, <1>11, <1>12, <1>13, <1>14 DEF QueueInv

\* Ack removes exactly the record of its id.
LEMMA AckInv ==
    ASSUME QueueInv, NEW id \in Ids, NEW syncOk \in BOOLEAN, Ack(id, syncOk)
    PROVE  QueueInv'
PROOF
<1>1. PICK r \in records :
        /\ r.id = id
        /\ records' = records \ {r}
        /\ bytes' = Clamp(bytes - Size[r.event])
  BY DEF Ack
<1>2. r \in Record
  BY DEF QueueInv, TypeOK
<1>3. SumSize({r}) = Size[r.event] /\ IdsOf({r}) = {id}
  BY <1>1, <1>2, CellsOfOne DEF SumSize, IdsOf
<1> DEFINE gone == {r}
<1>4. /\ gone \in SUBSET records
      /\ records' = records \ gone
      /\ bytes' = Clamp(bytes - SumSize(gone))
  BY <1>1, <1>3
<1>5. /\ disk' = {t \in disk : t.id \notin IdsOf(gone)}
      /\ stored' = {t \in stored : t.id \notin IdsOf(gone)}
      /\ synced' = disk' \/ synced' = synced
      /\ mode = "open"
      /\ UNCHANGED <<mode, reservations, degraded, now, torn>>
  BY <1>3 DEF Ack
<1> HIDE DEF gone
<1> QED
  BY <1>4, <1>5, RemovalInv

\* Prune removes expired records, all of them or those before a failure.
LEMMA PruneInv ==
    ASSUME QueueInv, NEW gone \in SUBSET Expired, NEW syncOk \in BOOLEAN,
           Prune(gone, syncOk)
    PROVE  QueueInv'
BY RemovalInv DEF Prune, Expired

\* Reserve and Release change only the reservations, within the limits.
LEMMA ReserveReleaseInv ==
    ASSUME QueueInv, NEW id \in Ids, Reserve(id) \/ Release(id)
    PROVE  QueueInv'
PROOF
<1> DEFINE n == Cardinality(reservations)
<1>1. /\ UNCHANGED <<mode, records, bytes, degraded, disk, synced, now, stored, torn>>
      /\ mode = "open"
  BY DEF Reserve, Release
<1>2. /\ n \in Nat /\ Cardinality(records) \in Nat /\ bytes \in Nat
      /\ MaxRecord \in Nat /\ MaxRecords \in Nat /\ MaxBytes \in Nat
  <2>1. IsFiniteSet(records)
    BY FS_Subset DEF QueueInv, DirectoryShape, MemoryMatchesDisk
  <2> QED
    BY <2>1, FS_CardinalityType, QueueAssumption DEF QueueInv, DirectoryShape, TypeOK
<1>3. /\ IsFiniteSet(reservations') /\ reservations' \subseteq Ids
      /\ reservations' \cap IdsOf(records) = {}
      /\ WithinLimits'
  <2>1. CASE Reserve(id)
    <3>1. /\ id \notin IdsOf(records) \cup reservations
          /\ ~AdmissionExceeds(0, 1, 0)
      BY <2>1 DEF Reserve, ReserveOutcome, AdmissionExceeds
    <3>2. IsFiniteSet(reservations') /\ Cardinality(reservations') = n + 1
      BY <2>1, <3>1, FS_AddElement DEF Reserve, QueueInv, DirectoryShape
    <3>3. /\ Cardinality(records) + (n + 1) <= MaxRecords
          /\ bytes + (n + 1) * MaxRecord <= MaxBytes
      BY <1>2, <3>1 DEF AdmissionExceeds
    <3> QED
      BY <1>1, <2>1, <3>1, <3>2, <3>3 DEF Reserve, QueueInv, TypeOK, NoDoubleCharge,
         WithinLimits
  <2>2. CASE Release(id)
    <3>1. /\ IsFiniteSet(reservations')
          /\ Cardinality(reservations') = n \/ Cardinality(reservations') = n - 1
      BY <2>2, FS_RemoveElement DEF Release, QueueInv, DirectoryShape
    <3>2. /\ Cardinality(records) + Cardinality(reservations') <= MaxRecords
          /\ bytes + Cardinality(reservations') * MaxRecord <= MaxBytes
      <4>1. /\ Cardinality(records) + n <= MaxRecords
            /\ bytes + n * MaxRecord <= MaxBytes
        BY DEF QueueInv, WithinLimits
      <4>2. /\ Cardinality(records) + (n - 1) <= MaxRecords
            /\ bytes + (n - 1) * MaxRecord <= MaxBytes
        BY <1>2, <4>1
      <4> QED
        BY <3>1, <4>1, <4>2
    <3> QED
      BY <1>1, <2>2, <3>1, <3>2 DEF Release, QueueInv, TypeOK, NoDoubleCharge,
         WithinLimits
  <2> QED
    BY <2>1, <2>2
<1>4. TypeOK' /\ DirectoryShape' /\ NoDoubleCharge'
  BY <1>1, <1>3 DEF QueueInv, TypeOK, DirectoryShape, NoDoubleCharge, IdsOf, Cells
<1>5. /\ MemoryMatchesDisk' /\ BytesExact'
      /\ TornIsDurable' /\ Reopenable' /\ StoredIsDurable'
  BY <1>1 DEF QueueInv, MemoryMatchesDisk, BytesExact, TornIsDurable, Reopenable,
     StoredIsDurable, LoadFits, SumSize, Cells
<1> QED
  BY <1>3, <1>4, <1>5 DEF QueueInv

\* Open accepts only what fits, and starts without reservations.
LEMMA OpenInv ==
    ASSUME QueueInv, Open
    PROVE  QueueInv'
PROOF
<1>1. /\ UNCHANGED <<reservations, degraded, disk, synced, now, stored>>
      /\ torn' = FALSE \/ torn' = torn
      /\ mode # "open" /\ reservations = {} /\ records = {} /\ bytes = 0
  BY DEF Open, QueueInv, MemoryMatchesDisk
<1>2. IsFiniteSet({}) /\ Cardinality({}) = 0
  BY FS_EmptySet
<1>3. /\ Cardinality(disk) \in Nat /\ SumSize(disk) \in Nat
      /\ Cardinality({}) * MaxRecord = 0 /\ MaxRecords \in Nat /\ MaxBytes \in Nat
  BY <1>2, FS_CardinalityType, QueueAssumption DEF QueueInv, DirectoryShape, SumSize
<1>4. DirectoryShape' /\ StoredIsDurable' /\ NoDoubleCharge' /\ TornIsDurable'
  BY <1>1 DEF QueueInv, DirectoryShape, StoredIsDurable, NoDoubleCharge, TornIsDurable,
     LoadFits, SumSize, Cells
<1>5. CASE LoadFits(disk)
  <2>1. mode' = "open" /\ records' = disk /\ bytes' = SumSize(disk) /\ ~torn'
    BY <1>5 DEF Open
  <2>2. TypeOK' /\ MemoryMatchesDisk' /\ BytesExact'
    BY <1>1, <1>3, <2>1 DEF QueueInv, TypeOK, MemoryMatchesDisk, BytesExact, SumSize, Cells
  <2>3. WithinLimits'
    BY <1>1, <1>3, <1>5, <1>2, <2>1 DEF WithinLimits, LoadFits
  <2>4. Reopenable'
    <3>1. LoadFits(disk) /\ LoadFits(synced)
      BY <1>5 DEF QueueInv, TornIsDurable, Reopenable
    <3> QED
      BY <1>1, <2>1, <3>1 DEF Reopenable, LoadFits, SumSize, Cells
  <2> QED
    BY <1>4, <2>2, <2>3, <2>4 DEF QueueInv
<1>6. CASE ~LoadFits(disk)
  <2>1. mode' = "refused" /\ records' = records /\ bytes' = bytes /\ torn' = torn
    BY <1>6 DEF Open
  <2>2. torn
    BY <1>6 DEF QueueInv, Reopenable
  <2>3. Reopenable'
    BY <2>1, <2>2 DEF Reopenable
  <2> QED
    BY <1>1, <1>4, <2>1, <2>3 DEF QueueInv, TypeOK, MemoryMatchesDisk, BytesExact,
       WithinLimits
<1> QED
  BY <1>5, <1>6

\* A crash forgets the memory; the directory is the old one or a mixture of it
\* with the last durable one, which still holds every stored result.
LEMMA CrashInv ==
    ASSUME QueueInv, Kill \/ PowerLoss
    PROVE  QueueInv'
PROOF
<1>1. /\ mode' = "down" /\ now' = now /\ stored' = stored
      /\ records' = {} /\ reservations' = {} /\ bytes' = 0
  BY DEF Kill, PowerLoss, Forget
<1>2. degraded' = FALSE
  BY DEF Kill, PowerLoss, Forget
<1>3. IsFiniteSet({}) /\ Cardinality({}) = 0
  BY FS_EmptySet
<1>4. WithinLimits'
  BY <1>1, <1>3, QueueAssumption DEF WithinLimits
<1>5. /\ disk' \in SUBSET Record /\ synced' \in SUBSET Record
      /\ IsFiniteSet(disk') /\ IsFiniteSet(Cells(disk'))
      /\ IsFiniteSet(synced') /\ IsFiniteSet(Cells(synced'))
      /\ \A r, t \in disk' : r.id = t.id => r = t
      /\ torn' \in BOOLEAN
      /\ TornIsDurable'
      /\ torn' \/ (LoadFits(disk') /\ LoadFits(synced'))
      /\ StoredIsDurable'
  <2>1. CASE Kill
    BY <1>1, <2>1 DEF Kill, QueueInv, TypeOK, DirectoryShape, TornIsDurable,
       Reopenable, StoredIsDurable, LoadFits, SumSize, Cells
  <2>2. CASE PowerLoss
    <3>1. /\ disk' \in SUBSET (disk \cup synced)
          /\ disk \cap synced \subseteq disk'
          /\ \A r, t \in disk' : r.id = t.id => r = t
          /\ synced' = disk'
      BY <2>2 DEF PowerLoss, Images
    <3>2. IsFiniteSet(disk \cup synced) /\ IsFiniteSet(Cells(disk) \cup Cells(synced))
      BY FS_Union DEF QueueInv, DirectoryShape
    <3>3. Cells(disk') \subseteq Cells(disk) \cup Cells(synced)
      <4>1. Cells(disk') \subseteq Cells(disk \cup synced)
        BY <3>1, CellsAlgebra
      <4> QED
        BY <4>1, CellsAlgebra
    <3>4. IsFiniteSet(disk') /\ IsFiniteSet(Cells(disk'))
      BY <3>1, <3>2, <3>3, FS_Subset
    <3>5. torn' \in BOOLEAN /\ TornIsDurable'
      BY <2>2, <3>1 DEF PowerLoss, QueueInv, TypeOK, TornIsDurable
    <3>6. torn' \/ LoadFits(disk')
      <4>1. SUFFICES ASSUME ~torn' PROVE LoadFits(disk')
        OBVIOUS
      <4>2. ~torn /\ ~Torn
        BY <2>2, <4>1 DEF PowerLoss
      <4>3. LoadFits(disk) /\ LoadFits(synced)
        BY <4>2 DEF QueueInv, Reopenable
      <4>4. disk' \in SUBSET disk \/ disk' \in SUBSET synced
        BY <3>1, <4>2 DEF Torn
      <4> QED
        BY <4>3, <4>4, LoadFitsSubset DEF QueueInv, DirectoryShape
    <3> QED
      BY <1>1, <3>1, <3>4, <3>5, <3>6 DEF QueueInv, TypeOK, StoredIsDurable
  <2> QED
    BY <2>1, <2>2
<1>6. TypeOK'
  <2>1. degraded' \in BOOLEAN
    BY <1>2, Zenon
  <2> QED
    BY <1>1, <1>5, <2>1 DEF QueueInv, TypeOK
<1>7. DirectoryShape'
  BY <1>1, <1>3, <1>5 DEF DirectoryShape, Cells
<1>8. MemoryMatchesDisk' /\ BytesExact' /\ NoDoubleCharge' /\ Reopenable'
  BY <1>1, <1>2, <1>5 DEF MemoryMatchesDisk, BytesExact, NoDoubleCharge, Reopenable
<1> QED
  BY <1>4, <1>5, <1>6, <1>7, <1>8 DEF QueueInv

\* A tick of the clock, or no step at all, changes nothing the invariant reads.
LEMMA TickInv ==
    ASSUME QueueInv, Tick \/ UNCHANGED qvars
    PROVE  QueueInv'
PROOF
<1>1. /\ UNCHANGED <<mode, records, reservations, bytes, degraded, disk, synced, stored, torn>>
      /\ now' \in 0..MaxTime
  BY QueueAssumption DEF Tick, qvars, QueueInv, TypeOK
<1>2. TypeOK' /\ DirectoryShape' /\ MemoryMatchesDisk'
  BY <1>1 DEF QueueInv, TypeOK, DirectoryShape, MemoryMatchesDisk, Cells
<1>3. BytesExact' /\ WithinLimits' /\ NoDoubleCharge'
  BY <1>1 DEF QueueInv, BytesExact, WithinLimits, NoDoubleCharge, IdsOf, SumSize, Cells
<1>4. TornIsDurable' /\ Reopenable' /\ StoredIsDurable'
  BY <1>1 DEF QueueInv, TornIsDurable, Reopenable, StoredIsDurable, LoadFits, SumSize, Cells
<1> QED
  BY <1>2, <1>3, <1>4 DEF QueueInv

-----------------------------------------------------------------------------
(* The theorems *)

\* Every step of the queue, of the process and of the machine keeps QueueInv.
LEMMA StepInv == QueueInv /\ [Next]_qvars => QueueInv'
PROOF
<1> SUFFICES ASSUME QueueInv, [Next]_qvars PROVE QueueInv'
  OBVIOUS
<1>1. ASSUME NEW id \in Ids, NEW e \in Events, EnqueueStored(id, e) PROVE QueueInv'
  BY <1>1, EnqueueStoredInv
<1>2. ASSUME NEW id \in Ids, NEW e \in Events, NEW renamed \in BOOLEAN,
             EnqueueFails(id, e, renamed)
      PROVE  QueueInv'
  BY <1>2, EnqueueFailsInv
<1>3. ASSUME NEW id \in Ids, Reserve(id) \/ Release(id) PROVE QueueInv'
  BY <1>3, ReserveReleaseInv
<1>4. ASSUME NEW id \in Ids, NEW syncOk \in BOOLEAN, Ack(id, syncOk) PROVE QueueInv'
  BY <1>4, AckInv
<1>5. ASSUME NEW gone \in SUBSET Expired, NEW syncOk \in BOOLEAN, Prune(gone, syncOk)
      PROVE  QueueInv'
  BY <1>5, PruneInv
<1>6. CASE Open
  BY <1>6, OpenInv
<1>7. CASE Kill \/ PowerLoss
  BY <1>7, CrashInv
<1>8. CASE Tick \/ UNCHANGED qvars
  BY <1>8, TickInv
<1> QED
  BY <1>1, <1>2, <1>3, <1>4, <1>5, <1>6, <1>7, <1>8 DEF Next

\* The inductive invariant holds in every reachable state of the queue, for
\* every number of attempts, every payload size and every limit.
THEOREM QueueInvariance == Spec => []QueueInv
PROOF
<1>1. Init => QueueInv
  BY InitInv
<1>2. QueueInv /\ [Next]_qvars => QueueInv'
  BY StepInv
<1> QED
  BY <1>1, <1>2, PTL DEF Spec

\* An attempt that was admitted by Reserve is never answered ErrFull: the size
\* of its result is at most the budget that was set aside for it.
THEOREM ReservationHonoured == Spec => []ReservedNeverFull
PROOF
<1>1. QueueInv => ReservedNeverFull
  <2> SUFFICES ASSUME QueueInv, mode = "open",
                      NEW id \in reservations, NEW e \in Events
               PROVE  EnqueueOutcome(id, e) # "full"
    BY DEF ReservedNeverFull
  <2>1. CASE Size[e] > MaxRecord \/ degraded \/ id \in IdsOf(records)
    BY <2>1, QueueAssumption DEF EnqueueOutcome
  <2>2. CASE ~(Size[e] > MaxRecord) /\ ~degraded /\ id \notin IdsOf(records)
    <3> DEFINE n == Cardinality(reservations)
    <3>1. /\ n \in Nat /\ n - 1 \in Nat
      <4>1. n \in Nat /\ n # 0
        BY FS_EmptySet, FS_CardinalityType DEF QueueInv, DirectoryShape
      <4> QED
        BY <4>1
    <3>2. /\ Cardinality(records) \in Nat /\ bytes \in Nat /\ Size[e] \in Nat
          /\ MaxRecord \in Nat /\ MaxRecords \in Nat /\ MaxBytes \in Nat
      <4>1. IsFiniteSet(records)
        BY FS_Subset DEF QueueInv, DirectoryShape, MemoryMatchesDisk
      <4> QED
        BY <4>1, FS_CardinalityType, QueueAssumption DEF QueueInv, TypeOK
    <3>3. /\ Cardinality(records) + n <= MaxRecords
          /\ bytes + n * MaxRecord <= MaxBytes
      BY DEF QueueInv, WithinLimits
    <3>4. /\ ~(Cardinality(records) + (n + -1) + 1 > MaxRecords)
          /\ ~(bytes + (n + -1) * MaxRecord + Size[e] > MaxBytes)
      BY <2>2, <3>1, <3>2, <3>3
    <3>5. ~AdmissionExceeds(1, -1, Size[e])
      BY <2>2, <3>4 DEF AdmissionExceeds
    <3> QED
      BY <2>2, <3>5 DEF EnqueueOutcome
  <2> QED
    BY <2>1, <2>2
<1> QED
  BY <1>1, QueueInvariance, PTL

\* A result whose Enqueue succeeded survives every kill and every power loss
\* until the server acknowledged it or its time to live ran out.
THEOREM StoredSurvivesCrash == Spec => []StoredIsDurable
PROOF
<1>1. QueueInv => StoredIsDurable
  BY DEF QueueInv
<1> QED
  BY <1>1, QueueInvariance, PTL

\* Whenever the process ends, by a kill or by a power loss and with whatever file
\* operation failed before, load accepts what it left, a torn directory excepted.
THEOREM RestartOpens == Spec => []Reopenable
PROOF
<1>1. QueueInv => Reopenable
  BY DEF QueueInv
<1> QED
  BY <1>1, QueueInvariance, PTL

\* The byte counter equals the payload bytes of the records it stands for, so
\* neither admission nor Full ever judges by a drifted number.
THEOREM ByteAccounting == Spec => []BytesExact
PROOF
<1>1. QueueInv => BytesExact
  BY DEF QueueInv
<1> QED
  BY <1>1, QueueInvariance, PTL

\* While a process runs, no step puts a different result under the name of an
\* existing result file: the refusals of Enqueue cover the file that a failed
\* write left behind, too.
THEOREM OneTerminalPerAttempt == Spec => TerminalNeverReplaced
PROOF
<1> DEFINE Kept == mode = "open" /\ mode' = "open" =>
                     \A r \in disk, t \in disk' : r.id = t.id => r = t
<1>1. QueueInv /\ [Next]_qvars => [Kept]_qvars
  <2> SUFFICES ASSUME QueueInv, Next, mode = "open", mode' = "open",
                      NEW r \in disk, NEW t \in disk', r.id = t.id
               PROVE  r = t
    BY DEF qvars
  <2>1. \A u, v \in disk : u.id = v.id => u = v
    BY DEF QueueInv, DirectoryShape
  <2>2. CASE t \in disk
    BY <2>1, <2>2
  <2>3. CASE t \notin disk
    <3>1. PICK id \in Ids, e \in Events :
            /\ EnqueueOutcome(id, e) = "write"
            /\ disk' = {u \in disk : u.id # id} \cup {[id |-> id, event |-> e, at |-> now]}
      <4>1. ~Open /\ ~Kill /\ ~PowerLoss
        BY DEF Open, Kill, PowerLoss, Forget
      <4>2. ~Tick
        BY <2>3 DEF Tick
      <4>3. ASSUME NEW id \in Ids
            PROVE  /\ ~Reserve(id) /\ ~Release(id)
                   /\ \A syncOk \in BOOLEAN : ~Ack(id, syncOk)
        BY <2>3 DEF Reserve, Release, Ack
      <4>4. \A gone \in SUBSET Expired, syncOk \in BOOLEAN : ~Prune(gone, syncOk)
        BY <2>3 DEF Prune
      <4>5. \E id \in Ids, e \in Events :
                EnqueueStored(id, e) \/ \E renamed \in BOOLEAN : EnqueueFails(id, e, renamed)
        BY <4>1, <4>2, <4>3, <4>4 DEF Next
      <4> QED
        BY <2>3, <4>5 DEF EnqueueStored, EnqueueFails
    <3>2. t.id = id
      BY <2>3, <3>1
    <3>3. disk = records /\ \A u \in records : u.id # id
      BY <3>1, Admitted
    <3> QED
      BY <3>2, <3>3
  <2> QED
    BY <2>2, <2>3
<1> QED
  BY <1>1, QueueInvariance, PTL DEF Spec, TerminalNeverReplaced

-----------------------------------------------------------------------------
(* The queue implements ResultStore *)

\* The instance counts as the queue does.
LEMMA SameCount ==
    ASSUME NEW S
    PROVE  Results!Cardinality(S) = Cardinality(S)
BY DEF Results!Cardinality, Cardinality

\* The ids of a finite set of records are at most as many as the records.
LEMMA FewIds ==
    ASSUME NEW S, IsFiniteSet(S)
    PROVE  /\ IsFiniteSet(IdsOf(S))
           /\ Cardinality(IdsOf(S)) \in Nat /\ Cardinality(S) \in Nat
           /\ Cardinality(IdsOf(S)) <= Cardinality(S)
PROOF
<1> DEFINE f == [r \in S |-> r.id]
<1>1. f \in Surjection(S, IdsOf(S))
  BY DEF Surjection, IdsOf
<1> QED
  BY <1>1, FS_Surjection, FS_CardinalityType

\* A successful Enqueue takes a place and leaves nothing unsure.
LEMMA EnqueueStoredImplements ==
    ASSUME QueueInv, NEW id \in Ids, NEW e \in Events, EnqueueStored(id, e)
    PROVE  Results!Stored(id)
PROOF
<1> DEFINE rec == [id |-> id, event |-> e, at |-> now]
           left == Cardinality(reservations \ {id})
<1>1. /\ ~degraded
      /\ disk = records
      /\ \A r \in records : r.id # id
      /\ left \in Nat
      /\ Cardinality(records) + 1 + left <= MaxRecords
  BY Admitted DEF EnqueueStored
<1>2. /\ mode = "open" /\ mode' = "open"
      /\ records' = records \cup {rec}
      /\ disk' = records \cup {rec} /\ synced' = records \cup {rec}
      /\ reservations' = reservations \ {id}
      /\ degraded' = degraded
  BY <1>1 DEF EnqueueStored
<1>3. Seen = records /\ Seen' = records \cup {rec}
  BY <1>2 DEF Seen
<1>4. IdsOf(Unsure)' = {}
  BY <1>2, <1>3 DEF Unsure, IdsOf
<1>5. id \notin IdsOf(Seen) /\ IdsOf(Seen)' = IdsOf(Seen) \cup {id}
  <2>1. rec.id = id
    OBVIOUS
  <2> HIDE DEF rec
  <2> QED
    BY <1>1, <1>3, <2>1 DEF IdsOf
<1>6. Cardinality(IdsOf(Seen)) + left < MaxRecords
  <2>1. IsFiniteSet(records)
    BY <1>1 DEF QueueInv, DirectoryShape
  <2>2. /\ Cardinality(IdsOf(records)) <= Cardinality(records)
        /\ Cardinality(IdsOf(records)) \in Nat /\ Cardinality(records) \in Nat
    BY <2>1, FewIds
  <2> QED
    BY <1>1, <1>3, <2>2, QueueAssumption
<1>7. Results!Writes(id)
  BY <1>1, <1>5, <1>6, SameCount DEF Results!Writes, Results!Room
<1> QED
  BY <1>2, <1>4, <1>5, <1>7 DEF Results!Stored

\* A failed Enqueue admits nothing more, and at most its own id becomes unsure.
LEMMA EnqueueFailsImplements ==
    ASSUME QueueInv, NEW id \in Ids, NEW e \in Events, NEW renamed \in BOOLEAN,
           EnqueueFails(id, e, renamed)
    PROVE  \E left \in SUBSET {id} : Results!WriteFails(id, left)
PROOF
<1> DEFINE rec == [id |-> id, event |-> e, at |-> now]
           n == Cardinality(reservations \ {id})
<1>1. /\ ~degraded
      /\ disk = records
      /\ \A r \in records : r.id # id
      /\ n \in Nat
      /\ Cardinality(records) + 1 + n <= MaxRecords
  BY Admitted DEF EnqueueFails
<1>2. /\ mode = "open" /\ mode' = "open"
      /\ records' = records /\ reservations' = reservations /\ synced' = synced
      /\ disk' = records \/ disk' = records \cup {rec}
  BY <1>1 DEF EnqueueFails
<1>3. Seen = records /\ Seen' = records
  BY <1>2 DEF Seen
<1>4. /\ id \notin IdsOf(Seen) /\ IdsOf(Seen)' = IdsOf(Seen)
  BY <1>1, <1>3 DEF IdsOf
<1>5. Results!Writes(id)
  <2>1. IsFiniteSet(records)
    BY <1>1 DEF QueueInv, DirectoryShape
  <2>2. /\ Cardinality(IdsOf(records)) <= Cardinality(records)
        /\ Cardinality(IdsOf(records)) \in Nat /\ Cardinality(records) \in Nat
    BY <2>1, FewIds
  <2>3. Cardinality(IdsOf(Seen)) + n < MaxRecords
    BY <1>1, <1>3, <2>2, QueueAssumption
  <2> QED
    BY <1>1, <1>4, <2>3, SameCount DEF Results!Writes, Results!Room
<1>6. \E left \in SUBSET {id} : IdsOf(Unsure)' = IdsOf(Unsure) \cup left
  <2>1. CASE disk' = records
    <3>1. Unsure' = Unsure
      BY <1>1, <1>2, <1>3, <2>1 DEF Unsure
    <3>2. IdsOf(Unsure)' = IdsOf(Unsure) \cup {} /\ {} \in SUBSET {id}
      BY <3>1 DEF IdsOf
    <3> QED
      BY <3>2
  <2>2. CASE disk' = records \cup {rec}
    <3>1. rec.id = id /\ rec \notin records
      BY <1>1
    <3> HIDE DEF rec
    <3>2. Unsure' \cup {rec} = Unsure \cup {rec} /\ rec \in Unsure'
      BY <1>1, <1>2, <1>3, <2>2, <3>1 DEF Unsure
    <3>3. IdsOf(Unsure)' = IdsOf(Unsure) \cup {id}
      BY <3>1, <3>2 DEF IdsOf
    <3> QED
      BY <3>3
  <2> QED
    BY <1>2, <2>1, <2>2
<1>7. degraded' = TRUE
  BY DEF EnqueueFails
<1>8. PICK left \in SUBSET {id} : IdsOf(Unsure)' = IdsOf(Unsure) \cup left
  BY <1>6
<1>9. Results!WriteFails(id, left)
  BY <1>2, <1>4, <1>5, <1>7, <1>8 DEF Results!WriteFails
<1> QED
  BY <1>9

\* Reserve and Release are those of the abstract store.
LEMMA ReserveReleaseImplements ==
    ASSUME QueueInv, NEW id \in Ids
    PROVE  /\ Reserve(id) => Results!Reserve(id)
           /\ Release(id) => Results!Release(id)
PROOF
<1>1. ASSUME Reserve(id) \/ Release(id)
      PROVE  /\ IdsOf(Seen)' = IdsOf(Seen) /\ IdsOf(Unsure)' = IdsOf(Unsure)
             /\ Seen = records /\ degraded' = degraded
  BY <1>1 DEF Reserve, Release, Seen, Unsure, IdsOf
<1>2. ASSUME Reserve(id) PROVE Results!Reserve(id)
  <2>1. /\ ~degraded /\ id \notin IdsOf(records) \cup reservations
        /\ ~AdmissionExceeds(0, 1, 0)
    BY <1>2 DEF Reserve, ReserveOutcome, AdmissionExceeds
  <2>2. IsFiniteSet(records) /\ IsFiniteSet(reservations)
    BY FS_Subset DEF QueueInv, DirectoryShape, MemoryMatchesDisk
  <2>3. /\ Cardinality(IdsOf(records)) <= Cardinality(records)
        /\ Cardinality(IdsOf(records)) \in Nat /\ Cardinality(records) \in Nat
        /\ Cardinality(reservations) \in Nat
    BY <2>2, FewIds, FS_CardinalityType
  <2>4. Cardinality(records) + (Cardinality(reservations) + 1) <= MaxRecords
    BY <2>1, <2>3, QueueAssumption DEF AdmissionExceeds
  <2>5. reservations \ {id} = reservations
    BY <2>1
  <2>6. Cardinality(IdsOf(Seen)) + Cardinality(reservations \ {id}) < MaxRecords
    BY <1>1, <1>2, <2>3, <2>4, <2>5, QueueAssumption
  <2>7. Results!Room(id)
    BY <2>6, SameCount DEF Results!Room
  <2> QED
    BY <1>1, <1>2, <2>1, <2>7 DEF Reserve, Results!Reserve
<1>3. ASSUME Release(id) PROVE Results!Release(id)
  BY <1>1, <1>3 DEF Release, Results!Release
<1> QED
  BY <1>2, <1>3

\* Ack and Prune remove exactly the ids of their records; only these may become
\* unsure, when the directory was not synced.
LEMMA RemovalImplements ==
    ASSUME QueueInv, mode = "open", mode' = "open", NEW gone \in SUBSET records,
           records' = records \ gone,
           disk' = {r \in disk : r.id \notin IdsOf(gone)},
           synced' = disk' \/ synced' = synced,
           UNCHANGED <<reservations, degraded>>
    PROVE  Results!Remove(IdsOf(gone), IdsOf(Unsure)')
PROOF
<1>1. /\ \A r, t \in disk : r.id = t.id => r = t
      /\ records \subseteq disk
  BY DEF QueueInv, DirectoryShape, MemoryMatchesDisk
<1>2. Seen = records /\ Seen' = records'
  BY DEF Seen
<1>3. IdsOf(gone) \subseteq IdsOf(Seen) /\ IdsOf(Seen)' = IdsOf(Seen) \ IdsOf(gone)
  <2>1. \A r \in records \ gone : r.id \notin IdsOf(gone)
    BY <1>1 DEF IdsOf
  <2>2. IdsOf(records \ gone) = IdsOf(records) \ IdsOf(gone)
    BY <2>1 DEF IdsOf
  <2> QED
    BY <1>2, <2>2 DEF IdsOf
<1>4. IdsOf(Unsure)' \subseteq IdsOf(Unsure) \cup IdsOf(gone)
  <2>1. ASSUME NEW r \in Unsure'
        PROVE  r.id \in IdsOf(Unsure) \cup IdsOf(gone)
    <3>1. CASE r.id \in IdsOf(gone)
      BY <3>1
    <3>2. CASE r.id \notin IdsOf(gone)
      <4>1. r \notin gone /\ (r \in disk' <=> r \in disk)
        BY <3>2 DEF IdsOf
      <4>2. r \in Unsure
        BY <1>2, <2>1, <4>1 DEF Unsure
      <4> QED
        BY <4>2 DEF IdsOf
    <3> QED
      BY <3>1, <3>2
  <2> QED
    BY <2>1 DEF IdsOf
<1> QED
  BY <1>3, <1>4 DEF Results!Remove

\* The end of a process keeps what was sure and brings back only what was unsure.
LEMMA CrashImplements ==
    ASSUME QueueInv, Kill \/ PowerLoss
    PROVE  Results!Restart(IdsOf(Seen)', IdsOf(Unsure)')
PROOF
<1>1. /\ mode' = "down" /\ reservations' = {}
      /\ Seen \subseteq disk
  BY DEF Kill, PowerLoss, Forget, QueueInv, MemoryMatchesDisk, Seen
<1>2. degraded' = FALSE
  BY DEF Kill, PowerLoss, Forget
<1>3. Seen' = disk'
  BY <1>1 DEF Seen
<1>4. /\ disk' \subseteq disk \cup synced
      /\ disk \cap synced \subseteq disk'
      /\ \/ disk' = disk /\ synced' = synced
         \/ synced' = disk'
  BY DEF Kill, PowerLoss, Images
<1>5. disk' \subseteq Seen \cup Unsure
  BY <1>4 DEF Unsure
<1>6. \A r \in Seen : r \in disk' \/ r \in Unsure
  BY <1>1, <1>4 DEF Unsure
<1>7. Unsure' \subseteq Unsure
  BY <1>3, <1>4 DEF Unsure
<1>8. /\ IdsOf(Seen) \ IdsOf(Unsure) \subseteq IdsOf(Seen)'
      /\ IdsOf(Seen)' \subseteq IdsOf(Seen) \cup IdsOf(Unsure)
      /\ IdsOf(Unsure)' \subseteq IdsOf(Unsure)
  BY <1>3, <1>5, <1>6, <1>7 DEF IdsOf
<1> QED
  BY <1>1, <1>2, <1>8 DEF Results!Restart

\* Opening the directory, successfully or not, the clock, and no step at all are
\* not seen.
LEMMA UnseenSteps ==
    ASSUME QueueInv, Open \/ Tick \/ UNCHANGED qvars
    PROVE  UNCHANGED Results!resultVars
PROOF
<1>1. CASE Open
  <2>1. UNCHANGED <<reservations, degraded, disk, synced>> /\ mode # "open"
    BY <1>1 DEF Open
  <2>2. Seen = disk /\ Seen' = disk
    BY <1>1, <2>1 DEF Open, Seen
  <2>3. IdsOf(Seen)' = IdsOf(Seen) /\ IdsOf(Unsure)' = IdsOf(Unsure)
    BY <2>1, <2>2 DEF Unsure, IdsOf
  <2> QED
    BY <2>1, <2>3 DEF Results!resultVars
<1>2. CASE Tick \/ UNCHANGED qvars
  <2>1. UNCHANGED <<mode, records, reservations, degraded, disk, synced>>
    BY <1>2 DEF Tick, qvars
  <2>2. IdsOf(Seen)' = IdsOf(Seen) /\ IdsOf(Unsure)' = IdsOf(Unsure)
    BY <2>1 DEF Seen, Unsure, IdsOf
  <2> QED
    BY <2>1, <2>2 DEF Results!resultVars
<1> QED
  BY <1>1, <1>2

\* Every step of the queue is a step of the abstract store, or is not seen.
LEMMA StepImplements ==
    QueueInv /\ [Next]_qvars => [Results!ResultNext]_(Results!resultVars)
PROOF
<1> SUFFICES ASSUME QueueInv, [Next]_qvars
             PROVE  Results!ResultNext \/ UNCHANGED Results!resultVars
  OBVIOUS
<1>1. ASSUME NEW id \in Ids, NEW e \in Events, EnqueueStored(id, e)
      PROVE  Results!ResultNext
  BY <1>1, EnqueueStoredImplements DEF Results!ResultNext
<1>2. ASSUME NEW id \in Ids, NEW e \in Events, NEW renamed \in BOOLEAN,
             EnqueueFails(id, e, renamed)
      PROVE  Results!ResultNext
  BY <1>2, EnqueueFailsImplements DEF Results!ResultNext
<1>3. ASSUME NEW id \in Ids, Reserve(id) \/ Release(id)
      PROVE  Results!ResultNext
  BY <1>3, ReserveReleaseImplements DEF Results!ResultNext
<1>4. ASSUME NEW gone \in SUBSET records, Results!Remove(IdsOf(gone), IdsOf(Unsure)')
      PROVE  Results!ResultNext
  BY <1>4 DEF Results!ResultNext, Results!Remove
<1>5. ASSUME NEW id \in Ids, NEW syncOk \in BOOLEAN, Ack(id, syncOk)
      PROVE  Results!ResultNext
  <2>1. PICK r \in records : r.id = id /\ records' = records \ {r}
    BY <1>5 DEF Ack
  <2>2. IdsOf({r}) = {id}
    BY <2>1 DEF IdsOf
  <2>3. /\ mode = "open" /\ mode' = "open"
        /\ disk' = {t \in disk : t.id \notin IdsOf({r})}
        /\ synced' = disk' \/ synced' = synced
        /\ UNCHANGED <<reservations, degraded>>
    BY <1>5, <2>2 DEF Ack
  <2>4. Results!Remove(IdsOf({r}), IdsOf(Unsure)')
    BY <2>1, <2>3, RemovalImplements
  <2> QED
    BY <1>4, <2>4
<1>6. ASSUME NEW gone \in SUBSET Expired, NEW syncOk \in BOOLEAN, Prune(gone, syncOk)
      PROVE  Results!ResultNext
  <2>1. gone \in SUBSET records
    BY DEF Expired
  <2>2. /\ mode = "open" /\ mode' = "open"
        /\ records' = records \ gone
        /\ disk' = {t \in disk : t.id \notin IdsOf(gone)}
        /\ synced' = disk' \/ synced' = synced
        /\ UNCHANGED <<reservations, degraded>>
    BY <1>6 DEF Prune
  <2>3. Results!Remove(IdsOf(gone), IdsOf(Unsure)')
    BY <2>1, <2>2, RemovalImplements
  <2> QED
    BY <1>4, <2>1, <2>3
<1>7. CASE Kill \/ PowerLoss
  <2>1. Results!Restart(IdsOf(Seen)', IdsOf(Unsure)')
    BY <1>7, CrashImplements
  <2> QED
    BY <2>1 DEF Results!ResultNext, Results!Restart
<1>8. CASE Open \/ Tick \/ UNCHANGED qvars
  BY <1>8, UnseenSteps
<1> QED
  BY <1>1, <1>2, <1>3, <1>5, <1>6, <1>7, <1>8 DEF Next

\* For every set of attempts, every payload size and every limit the queue
\* implements the abstract store: its files, fsyncs and byte counts give MaxRecords
\* places, none promised twice, and results that survive any crash until they
\* are acked or pruned.
THEOREM QueueImplementsStore == Spec => ImplementsStore
PROOF
<1>1. Init => Results!ResultInit
  <2> SUFFICES ASSUME Init PROVE Results!ResultInit
    OBVIOUS
  <2>1. Seen = {} /\ Unsure = {}
    BY DEF Init, Seen, Unsure
  <2>2. IdsOf(Seen) = {} /\ IdsOf(Unsure) = {}
    BY <2>1 DEF IdsOf
  <2>3. degraded = FALSE /\ reservations = {}
    BY DEF Init
  <2> QED
    BY <2>2, <2>3 DEF Results!ResultInit
<1>2. QueueInv /\ [Next]_qvars => [Results!ResultNext]_(Results!resultVars)
  BY StepImplements
<1> QED
  BY <1>1, <1>2, QueueInvariance, PTL DEF Spec, ImplementsStore, Results!ResultSpec

=============================================================================
