-------------------------- MODULE TaskChannelProofs -------------------------
(***************************************************************************)
(* The path of an attempt through the node, for any number of attempts,    *)
(* workers and places in the queue.                                        *)
(*                                                                         *)
(* One invariant carries the theorems.  Its parts: where an attempt is     *)
(* (HoldersOK), how the capacity of the queue is promised (CapacityOK and  *)
(* PromisesOK), what the session knows (FenceOK) and how many attempts    *)
(* are in flight when one more is admitted (RoomOK).                       *)
(***************************************************************************)
EXTENDS TaskChannel, FiniteSetTheorems, SequenceTheorems, TLAPS

Places == {"idle", "exited", "claimed", "running", "ended", "releasing"}
Working == {"claimed", "running", "ended"}

\* The types that the steps rely on.
ChannelTypeOK ==
    /\ conn \in {"off", "auth", "resuming", "ready"}
    /\ approved \in 1 .. LocalConcurrency
    /\ entries \subseteq Attempts /\ done \subseteq Attempts
    /\ assignCh \in Seq(Attempts)
    /\ admitting \in Attempts \cup {None}
    /\ pc \in [Workers -> Places] /\ held \in [Workers -> Attempts \cup {None}]
    /\ records \subseteq Attempts /\ reservations \subseteq Attempts /\ unsure \subseteq Attempts

\* Every entry of the registry is in the channel or with a worker, in one place
\* only; an attempt that is being admitted is new, and one that a worker is about
\* to release is in the done memory.
HoldersOK ==
    /\ entries \cap done = {}
    /\ admitting \notin entries \cup done
    /\ \A w \in Workers :
          /\ held[w] = None <=> pc[w] \in {"idle", "exited"}
          /\ pc[w] \in Working => held[w] \in entries
          /\ pc[w] = "releasing" => held[w] \in done
    /\ \A i \in 1 .. Len(assignCh) : assignCh[i] \in entries
    /\ \A i, j \in 1 .. Len(assignCh) : assignCh[i] = assignCh[j] => i = j
    /\ \A i \in 1 .. Len(assignCh), w \in Workers : assignCh[i] # held[w]
    /\ \A v, w \in Workers : v # w /\ held[v] # None => held[v] # held[w]
    /\ \A a \in entries :
          \/ \E i \in 1 .. Len(assignCh) : assignCh[i] = a
          \/ \E w \in Workers : pc[w] \in Working /\ held[w] = a

\* The attempt has its place in the queue, or was admitted while an earlier
\* result of it had one.
Promised(a) == a \in readmitted \cup reservations

\* The queue promises no more than it has, whatever the last start has found.
CapacityOK ==
    /\ IsFiniteSet(records) /\ IsFiniteSet(reservations) /\ IsFiniteSet(unsure)
    /\ Cardinality(records) + Cardinality(reservations) <= MaxRecords

\* What it promises to an attempt lasts until that attempt has been handled, and
\* not longer.
PromisesOK ==
    /\ admitting # None => Promised(admitting)
    /\ \A i \in 1 .. Len(assignCh) : Promised(assignCh[i])
    /\ \A w \in Workers : pc[w] \in {"claimed", "running"} => Promised(held[w])
    /\ \A a \in reservations :
          \/ a \in entries \/ a = admitting
          \/ \E w \in Workers : pc[w] = "releasing" /\ held[w] = a

\* A session that is not ready admits nothing, and asks for every entry.
FenceOK ==
    /\ conn \in {"auth", "resuming"} => admitting = None
    /\ conn = "resuming" => entries \subseteq asked
    /\ conn = "ready" => entries \ cancelled \subseteq owned

\* An attempt is admitted below the local concurrency only.
RoomOK ==
    /\ IsFiniteSet(entries)
    /\ admitting # None => Cardinality(entries) < LocalConcurrency

ChannelInv == ChannelTypeOK /\ HoldersOK /\ CapacityOK /\ PromisesOK /\ FenceOK /\ RoomOK

-----------------------------------------------------------------------------
(* Facts about the operators *)

\* The pool has a positive number of slots, and the server's limit stays within.
LEMMA Slots ==
    /\ LocalConcurrency \in Nat \ {0}
    /\ \A n \in Int : ApprovedSlots(n) \in 1 .. LocalConcurrency
  <1>1. LocalConcurrency \in Nat \ {0}
    BY ChannelAssumption, FS_CardinalityType, FS_EmptySet DEF LocalConcurrency
  <1> QED
    BY <1>1 DEF ApprovedSlots

\* What Append does to the channel, element by element.
LEMMA Pushed ==
    ASSUME NEW s \in Seq(Attempts), NEW a \in Attempts
    PROVE  /\ Append(s, a) \in Seq(Attempts) /\ Len(s) \in Nat
           /\ Len(Append(s, a)) = Len(s) + 1 /\ Append(s, a)[Len(s) + 1] = a
           /\ \A i \in 1 .. Len(s) : Append(s, a)[i] = s[i]
  OBVIOUS

\* What taking the head does to it.
LEMMA Popped ==
    ASSUME NEW s \in Seq(Attempts), s # << >>
    PROVE  /\ Len(s) \in Nat \ {0} /\ Head(s) = s[1] /\ Head(s) \in Attempts
           /\ Tail(s) \in Seq(Attempts) /\ Len(Tail(s)) = Len(s) - 1
           /\ \A i \in 1 .. Len(s) - 1 : Tail(s)[i] = s[i + 1]
  BY HeadTailProperties, EmptySeq

\* Adding and removing one element of a finite set.
LEMMA OneMore ==
    ASSUME NEW S, IsFiniteSet(S), NEW x
    PROVE  /\ IsFiniteSet(S \cup {x}) /\ Cardinality(S) \in Nat /\ Cardinality(S \cup {x}) \in Nat
           /\ Cardinality(S \cup {x}) = IF x \in S THEN Cardinality(S) ELSE Cardinality(S) + 1
  BY FS_AddElement, FS_CardinalityType

LEMMA OneLess ==
    ASSUME NEW S, IsFiniteSet(S), NEW x
    PROVE  /\ IsFiniteSet(S \ {x}) /\ Cardinality(S) \in Nat /\ Cardinality(S \ {x}) \in Nat
           /\ Cardinality(S \ {x}) = IF x \in S THEN Cardinality(S) - 1 ELSE Cardinality(S)
  BY FS_RemoveElement, FS_CardinalityType

\* The instance of the store counts as the node does.
LEMMA SameCount ==
    ASSUME NEW S
    PROVE  Results!Cardinality(S) = Cardinality(S)
  BY DEF Results!Cardinality, Cardinality

\* A part of a finite set is finite and not larger.
LEMMA PartOf ==
    ASSUME NEW S, IsFiniteSet(S), NEW T, T \subseteq S
    PROVE  /\ IsFiniteSet(T) /\ Cardinality(T) \in Nat /\ Cardinality(S) \in Nat
           /\ Cardinality(T) <= Cardinality(S)
  BY FS_Subset, FS_CardinalityType

\* Every way in which the node uses the queue keeps its promises within its
\* capacity: Reserve, Release, Enqueue, Ack, Prune and the next start.
LEMMA CapacityKept ==
    ASSUME CapacityOK, NEW a,
           \/ Results!Reserve(a) \/ Results!Release(a) \/ Results!Stored(a)
           \/ \E left \in SUBSET {a} : Results!WriteFails(a, left)
           \/ \E gone, doubt : IsFiniteSet(gone) /\ Results!Remove(gone, doubt)
           \/ \E found, doubt : Cardinality(found) <= MaxRecords /\ Results!Restart(found, doubt)
           \/ UNCHANGED queueVars
    PROVE  CapacityOK'
  <1>1. /\ IsFiniteSet(records) /\ Cardinality(records) \in Nat
        /\ IsFiniteSet(reservations) /\ Cardinality(reservations) \in Nat
        /\ IsFiniteSet(unsure) /\ Cardinality({}) = 0 /\ IsFiniteSet({})
        /\ MaxRecords \in Nat
    BY FS_CardinalityType, FS_EmptySet, ChannelAssumption DEF CapacityOK
  <1>2. IsFiniteSet(records \cup unsure) /\ Cardinality(records \cup unsure) \in Nat
    BY <1>1, FS_Union, FS_CardinalityType
  <1>3. /\ IsFiniteSet(reservations \ {a}) /\ Cardinality(reservations \ {a}) \in Nat
        /\ Cardinality(reservations \ {a}) <= Cardinality(reservations)
    BY <1>1, PartOf
  <1>4. /\ IsFiniteSet(reservations \cup {a}) /\ Cardinality(reservations \cup {a}) \in Nat
        /\ Cardinality(reservations \cup {a}) = IF a \in reservations THEN Cardinality(reservations)
                                                ELSE Cardinality(reservations) + 1
        /\ IsFiniteSet(records \cup {a}) /\ Cardinality(records \cup {a}) \in Nat
        /\ a \notin records => Cardinality(records \cup {a}) = Cardinality(records) + 1
    BY <1>1, OneMore
  <1>5. Results!Room(a) => Cardinality(records) + Cardinality(reservations \ {a}) < MaxRecords
    BY SameCount DEF Results!Room
  <1>6. CASE Results!Release(a)
    BY <1>1, <1>3, <1>6 DEF Results!Release, CapacityOK
  <1>7. CASE Results!Reserve(a)
    <2>1. /\ UNCHANGED <<records, degraded, unsure>>
          /\ \/ reservations' = reservations
             \/ /\ reservations' = reservations \cup {a} /\ a \notin records
                /\ a \in reservations \/ Results!Room(a)
      BY <1>7 DEF Results!Reserve
    <2>2. CASE reservations' = reservations
      BY <2>1, <2>2 DEF CapacityOK
    <2>3. CASE reservations' = reservations \cup {a} /\ a \notin reservations /\ Results!Room(a)
      <3>1. reservations \ {a} = reservations
        BY <2>3
      <3> QED
        BY <1>1, <1>4, <1>5, <2>1, <2>3, <3>1 DEF CapacityOK
    <2>4. CASE reservations' = reservations \cup {a} /\ a \in reservations
      <3>1. reservations' = reservations
        BY <2>4
      <3> QED
        BY <2>1, <3>1 DEF CapacityOK
    <2> QED
      BY <2>1, <2>2, <2>3, <2>4
  <1>8. CASE Results!Stored(a)
    <2>1. /\ a \notin records /\ Results!Room(a)
          /\ records' = records \cup {a} /\ reservations' = reservations \ {a} /\ unsure' = {}
      BY <1>8 DEF Results!Stored, Results!Writes
    <2> QED
      BY <1>1, <1>3, <1>4, <1>5, <2>1 DEF CapacityOK
  <1>9. ASSUME NEW left \in SUBSET {a}, Results!WriteFails(a, left) PROVE CapacityOK'
    <2>1. /\ UNCHANGED <<records, reservations>> /\ unsure' = unsure \cup left
      BY <1>9 DEF Results!WriteFails
    <2>2. IsFiniteSet(unsure')
      BY <1>1, <2>1, FS_Union, FS_Subset, FS_Singleton
    <2> QED
      BY <2>1, <2>2 DEF CapacityOK
  <1>10. ASSUME NEW gone, NEW doubt, IsFiniteSet(gone), Results!Remove(gone, doubt) PROVE CapacityOK'
    <2>1. /\ records' = records \ gone /\ UNCHANGED <<reservations, degraded>>
          /\ unsure' \subseteq unsure \cup gone
      BY <1>10 DEF Results!Remove
    <2>2. /\ IsFiniteSet(records') /\ Cardinality(records') \in Nat
          /\ Cardinality(records') <= Cardinality(records)
      BY <1>1, <2>1, PartOf
    <2>3. IsFiniteSet(unsure')
      BY <1>1, <1>10, <2>1, FS_Union, FS_Subset
    <2> QED
      BY <1>1, <2>1, <2>2, <2>3 DEF CapacityOK
  <1>11. ASSUME NEW found, NEW doubt, Cardinality(found) <= MaxRecords, Results!Restart(found, doubt)
         PROVE  CapacityOK'
    <2>1. /\ records' = found /\ found \subseteq records \cup unsure
          /\ reservations' = {} /\ unsure' = doubt /\ doubt \subseteq unsure
      BY <1>11 DEF Results!Restart
    <2>2. IsFiniteSet(records') /\ Cardinality(records') \in Nat /\ IsFiniteSet(unsure')
      BY <1>1, <1>2, <2>1, PartOf
    <2> QED
      BY <1>1, <1>11, <2>1, <2>2 DEF CapacityOK
  <1>12. CASE UNCHANGED queueVars
    BY <1>12 DEF queueVars, CapacityOK
  <1> QED
    BY <1>6, <1>7, <1>8, <1>9, <1>10, <1>11, <1>12

-----------------------------------------------------------------------------
(* The steps *)

\* Steps that move no attempt: the session's, cancels, drain and stop.
LEMMA SessionKeeps ==
    ASSUME ChannelInv,
           \/ Session \/ BeginDrain \/ StopClaims \/ Revoke
           \/ \E a \in Attempts : Cancel(a) \/ \E m \in BOOLEAN : AssignBeyondApproval(a, m)
           \/ \E d \in BOOLEAN : NodeState(d)
    PROVE  ChannelInv'
  <1>1. /\ UNCHANGED <<entries, done, assignCh, admitting, pc, held, readmitted>>
        /\ UNCHANGED <<records, reservations, degraded, unsure>>
    BY DEF Session, Dial, Disconnect, AuthOK, Refresh, ResumeResult, BeginDrain, StopClaims, Revoke,
           Cancel, AssignBeyondApproval, NodeState, registryVars, workerVars, queueVars, sessionVars
  <1>2. HoldersOK'
    BY <1>1 DEF ChannelInv, HoldersOK
  <1>3. CapacityOK' /\ PromisesOK'
    BY <1>1 DEF ChannelInv, CapacityOK, PromisesOK, Promised
  <1>4. RoomOK'
    BY <1>1 DEF ChannelInv, RoomOK
  <1>5. conn' \in {"off", "auth", "resuming", "ready"}
    BY DEF ChannelInv, ChannelTypeOK, Session, Dial, Disconnect, AuthOK, Refresh, ResumeResult,
           BeginDrain, StopClaims, Revoke, Cancel, AssignBeyondApproval, NodeState, sessionVars
  <1>6. approved' \in 1 .. LocalConcurrency
    <2>1. \A n \in 0 .. LocalConcurrency + 1 : ApprovedSlots(n) \in 1 .. LocalConcurrency
      BY Slots
    <2> QED
      BY <2>1
      DEF ChannelInv, ChannelTypeOK, Session, Dial, Disconnect, AuthOK, Refresh, ResumeResult,
          BeginDrain, StopClaims, Revoke, Cancel, AssignBeyondApproval, NodeState, sessionVars
  <1>7. ChannelTypeOK'
    BY <1>1, <1>5, <1>6 DEF ChannelInv, ChannelTypeOK
  <1>8. FenceOK'
    <2>1. CASE \E answer \in [asked \cap entries -> Answers] : ResumeResult(answer)
      <3>1. PICK answer \in [asked \cap entries -> Answers] : ResumeResult(answer)
        BY <2>1
      <3>2. conn = "resuming" /\ entries \subseteq asked /\ DOMAIN answer = entries
        BY <3>1 DEF ResumeResult, ChannelInv, FenceOK
      <3>3. entries \ cancelled' \subseteq owned'
        BY <3>1, <3>2 DEF ResumeResult
      <3>4. conn' = "ready"
        BY <3>1 DEF ResumeResult
      <3> QED
        BY <1>1, <3>3, <3>4 DEF FenceOK
    <2>2. CASE Dial \/ Disconnect \/ \E n \in 0 .. LocalConcurrency + 1 : AuthOK(n) \/ Refresh(n)
      BY <1>1, <2>2 DEF Dial, Disconnect, AuthOK, Refresh, Snapshot, ChannelInv, FenceOK, registryVars
    <2>3. CASE BeginDrain \/ StopClaims \/ \E d \in BOOLEAN : NodeState(d)
      BY <1>1, <2>3 DEF BeginDrain, StopClaims, NodeState, ChannelInv, FenceOK, registryVars, sessionVars
    <2>4. CASE Revoke \/ \E a \in Attempts : Cancel(a)
      BY <1>1, <2>4 DEF Revoke, CancelAll, Cancel, ChannelInv, FenceOK, sessionVars
    <2>5. CASE \E a \in Attempts, m \in BOOLEAN : AssignBeyondApproval(a, m)
      BY <1>1, <2>5 DEF AssignBeyondApproval, FenceOK
    <2> QED
      BY <2>1, <2>2, <2>3, <2>4, <2>5 DEF Session
  <1> QED
    BY <1>2, <1>3, <1>4, <1>7, <1>8 DEF ChannelInv

\* handleAssign up to Reserve.
LEMMA AssignChecksKeeps ==
    ASSUME ChannelInv, NEW a \in Attempts, AssignChecks(a)
    PROVE  ChannelInv'
  <1> USE DEF ChannelInv
  <1>1. /\ UNCHANGED <<conn, asked, approved, entries, cancelled, owned, done, assignCh, pc, held, records,
                       unsure>>
        /\ conn = "ready" /\ admitting = None /\ admitting' = a /\ a \notin entries \cup done
        /\ Cardinality(entries) < approved /\ a # None
    BY ChannelAssumption
    DEF AssignChecks, Results!Reserve, Has, InFlight, Snapshot, sessionVars, registryVars, workerVars
  <1>2. ChannelTypeOK'
    BY <1>1 DEF AssignChecks, Results!Reserve, ChannelTypeOK
  <1>3. HoldersOK'
    BY <1>1 DEF HoldersOK
  <1>4. CapacityOK'
    BY CapacityKept DEF AssignChecks
  <1>5. PromisesOK'
    <2>1. reservations \subseteq reservations' /\ reservations' \subseteq reservations \cup {a}
      BY DEF AssignChecks, Results!Reserve
    <2>2. readmitted \subseteq readmitted' /\ a \in readmitted' \cup reservations'
      BY DEF AssignChecks, Results!Reserve
    <2> QED
      BY <1>1, <2>1, <2>2, ChannelAssumption DEF PromisesOK, Promised, ChannelTypeOK
  <1>6. FenceOK' /\ RoomOK'
    <2>1. Cardinality(entries) < LocalConcurrency
      BY <1>1, Slots, FS_CardinalityType DEF ChannelTypeOK, RoomOK
    <2> QED
      BY <1>1, <2>1 DEF FenceOK, RoomOK
  <1> QED
    BY <1>2, <1>3, <1>4, <1>5, <1>6

\* handleAssign from registry.Start on: the attempt goes into the channel.
LEMMA AssignPushKeeps ==
    ASSUME ChannelInv, AssignPush
    PROVE  ChannelInv'
  <1> USE DEF ChannelInv
  <1> DEFINE a == admitting
             n == Len(assignCh)
  <1>1. /\ a # None /\ admitting' = None /\ entries' = entries \cup {a}
        /\ owned' = IF conn = "ready" THEN owned \cup {a} ELSE owned
        /\ cancelled' = cancelled \ {a} /\ assignCh' = Append(assignCh, a)
        /\ UNCHANGED <<conn, asked, approved, done, pc, held, records, reservations, degraded, unsure,
                       readmitted>>
    BY DEF AssignPush, RegistryStart, sessionVars, workerVars, queueVars
  <1>2. a \in Attempts /\ a \notin entries \cup done /\ assignCh \in Seq(Attempts)
    BY <1>1 DEF ChannelTypeOK, HoldersOK
  <1>3. /\ assignCh' \in Seq(Attempts) /\ n \in Nat /\ Len(assignCh') = n + 1 /\ assignCh'[n + 1] = a
        /\ \A i \in 1 .. n : assignCh'[i] = assignCh[i]
    BY <1>1, <1>2, Pushed
  <1>4. ChannelTypeOK'
    BY <1>1, <1>2, <1>3 DEF ChannelTypeOK
  <1>5. \A w \in Workers : held[w] # a
    BY <1>1, <1>2 DEF HoldersOK, ChannelTypeOK, Places, Working
  <1> HIDE DEF a, n
  <1>6. \A i \in 1 .. n + 1 : i \in 1 .. n \/ i = n + 1
    BY <1>3
  <1>7. \A i \in 1 .. n : i \in 1 .. n + 1 /\ assignCh[i] # a
    BY <1>2, <1>3 DEF HoldersOK, n
  <1>8. HoldersOK'
    <2>1. /\ entries' \cap done' = {} /\ admitting' \notin entries' \cup done'
      BY <1>1, <1>2, ChannelAssumption DEF HoldersOK, ChannelTypeOK
    <2>2. /\ \A w \in Workers :
                /\ held'[w] = None <=> pc'[w] \in {"idle", "exited"}
                /\ pc'[w] \in Working => held'[w] \in entries'
                /\ pc'[w] = "releasing" => held'[w] \in done'
          /\ \A v, w \in Workers : v # w /\ held'[v] # None => held'[v] # held'[w]
      BY <1>1 DEF HoldersOK
    <2>3. \A i \in 1 .. Len(assignCh') : assignCh'[i] \in entries'
      BY <1>1, <1>3, <1>6 DEF HoldersOK, n
    <2>4. \A i, j \in 1 .. Len(assignCh') : assignCh'[i] = assignCh'[j] => i = j
      BY <1>3, <1>6, <1>7 DEF HoldersOK, n
    <2>5. \A i \in 1 .. Len(assignCh'), w \in Workers : assignCh'[i] # held'[w]
      BY <1>1, <1>3, <1>5, <1>6 DEF HoldersOK, n
    <2>6. \A b \in entries' :
             \/ \E i \in 1 .. Len(assignCh') : assignCh'[i] = b
             \/ \E w \in Workers : pc'[w] \in Working /\ held'[w] = b
      <3> SUFFICES ASSUME NEW b \in entries'
                   PROVE  \/ \E i \in 1 .. Len(assignCh') : assignCh'[i] = b
                          \/ \E w \in Workers : pc'[w] \in Working /\ held'[w] = b
        OBVIOUS
      <3>1. CASE b = a
        BY <1>3, <3>1
      <3>2. CASE b # a
        <4>1. b \in entries
          BY <1>1, <3>2
        <4> QED
          BY <1>1, <1>3, <1>7, <4>1 DEF HoldersOK, n
      <3> QED
        BY <3>1, <3>2
    <2> QED
      BY <2>1, <2>2, <2>3, <2>4, <2>5, <2>6 DEF HoldersOK
  <1>9. CapacityOK'
    BY <1>1 DEF CapacityOK
  <1>10. PromisesOK'
    BY <1>1, <1>3, <1>6 DEF PromisesOK, Promised, a, n
  <1>11. FenceOK' /\ RoomOK'
    <2>1. IsFiniteSet(entries')
      BY <1>1, OneMore DEF RoomOK
    <2> QED
      BY <1>1, <2>1 DEF FenceOK, RoomOK, a
  <1> QED
    BY <1>4, <1>8, <1>9, <1>10, <1>11

\* handleAssign on a closed session.
LEMMA AssignAbandonKeeps ==
    ASSUME ChannelInv, AssignAbandon
    PROVE  ChannelInv'
  <1> USE DEF ChannelInv
  <1> DEFINE a == admitting
  <1>1. /\ a # None /\ admitting' = None /\ done' = done \cup {a} /\ reservations' = reservations \ {a}
        /\ readmitted' = readmitted \ {a}
        /\ UNCHANGED <<conn, asked, approved, entries, cancelled, owned, assignCh, pc, held, records, unsure>>
    BY DEF AssignAbandon, ReleaseResultCapacity, Results!Release, sessionVars, workerVars
  <1>2. a \in Attempts /\ a \notin entries \cup done
    BY <1>1 DEF ChannelTypeOK, HoldersOK
  <1>3. \A w \in Workers : held[w] # a
    BY <1>1, <1>2 DEF HoldersOK, ChannelTypeOK, Places, Working
  <1>4. \A i \in 1 .. Len(assignCh) : assignCh[i] # a
    BY <1>2 DEF HoldersOK
  <1>5. ChannelTypeOK'
    BY <1>1, <1>2 DEF ChannelTypeOK
  <1> HIDE DEF a
  <1>6. HoldersOK'
    BY <1>1, <1>2, ChannelAssumption DEF HoldersOK, ChannelTypeOK
  <1>7. CapacityOK'
    BY CapacityKept DEF AssignAbandon, ReleaseResultCapacity, a
  <1>8. PromisesOK'
    BY <1>1, <1>3, <1>4 DEF PromisesOK, Promised, a
  <1>9. FenceOK' /\ RoomOK'
    BY <1>1 DEF FenceOK, RoomOK
  <1> QED
    BY <1>5, <1>6, <1>7, <1>8, <1>9

\* Claim: the oldest assignment goes from the channel to the worker.
LEMMA ClaimKeeps ==
    ASSUME ChannelInv, NEW w \in Workers, Claim(w)
    PROVE  ChannelInv'
  <1> USE DEF ChannelInv
  <1> DEFINE a == Head(assignCh)
             n == Len(assignCh)
  <1>1. /\ pc[w] = "idle" /\ assignCh # << >> /\ assignCh' = Tail(assignCh)
        /\ pc' = [pc EXCEPT ![w] = "claimed"] /\ held' = [held EXCEPT ![w] = a]
        /\ UNCHANGED <<conn, asked, approved, entries, cancelled, owned, done, admitting, records,
                       reservations, degraded, unsure, readmitted>>
    BY DEF Claim, sessionVars, registryVars, queueVars
  <1>2. /\ n \in Nat \ {0} /\ a = assignCh[1] /\ a \in Attempts
        /\ assignCh' \in Seq(Attempts) /\ Len(assignCh') = n - 1
        /\ \A i \in 1 .. n - 1 : assignCh'[i] = assignCh[i + 1]
    BY <1>1, Popped DEF ChannelTypeOK
  <1> HIDE DEF a, n
  <1>3. ChannelTypeOK'
    BY <1>1, <1>2 DEF ChannelTypeOK, Places
  <1>4. /\ a \in entries /\ a # None
        /\ \A i \in 1 .. n - 1 : i + 1 \in 1 .. n /\ assignCh[i + 1] # a
    BY <1>2, ChannelAssumption DEF HoldersOK, n
  <1>5. /\ held'[w] = a /\ pc'[w] = "claimed"
        /\ \A v \in Workers : v # w => held'[v] = held[v] /\ pc'[v] = pc[v]
    BY <1>1 DEF ChannelTypeOK
  <1>6. \A v \in Workers : held[v] # a
    BY <1>2 DEF HoldersOK, n
  <1>7. HoldersOK'
    <2>1. /\ entries' \cap done' = {} /\ admitting' \notin entries' \cup done'
      BY <1>1 DEF HoldersOK
    <2>2. \A v \in Workers :
             /\ held'[v] = None <=> pc'[v] \in {"idle", "exited"}
             /\ pc'[v] \in Working => held'[v] \in entries'
             /\ pc'[v] = "releasing" => held'[v] \in done'
      BY <1>1, <1>4, <1>5 DEF HoldersOK
    <2>3. \A u, v \in Workers : u # v /\ held'[u] # None => held'[u] # held'[v]
      BY <1>5, <1>6 DEF HoldersOK
    <2>4. \A i \in 1 .. Len(assignCh') : assignCh'[i] \in entries'
      BY <1>1, <1>2, <1>4 DEF HoldersOK, n
    <2>5. \A i, j \in 1 .. Len(assignCh') : assignCh'[i] = assignCh'[j] => i = j
      <3> SUFFICES ASSUME NEW i \in 1 .. n - 1, NEW j \in 1 .. n - 1, assignCh'[i] = assignCh'[j]
                   PROVE  i = j
        BY <1>2
      <3>1. assignCh[i + 1] = assignCh[j + 1] /\ i + 1 \in 1 .. n /\ j + 1 \in 1 .. n
        BY <1>2, <1>4
      <3>2. i + 1 = j + 1
        BY <3>1 DEF HoldersOK, n
      <3> QED
        BY <1>2, <3>2
    <2>6. \A i \in 1 .. Len(assignCh'), v \in Workers : assignCh'[i] # held'[v]
      BY <1>2, <1>4, <1>5 DEF HoldersOK, n
    <2>7. \A b \in entries' :
             \/ \E i \in 1 .. Len(assignCh') : assignCh'[i] = b
             \/ \E v \in Workers : pc'[v] \in Working /\ held'[v] = b
      <3> SUFFICES ASSUME NEW b \in entries
                   PROVE  \/ \E i \in 1 .. Len(assignCh') : assignCh'[i] = b
                          \/ \E v \in Workers : pc'[v] \in Working /\ held'[v] = b
        BY <1>1
      <3>1. CASE b = a
        BY <1>5, <3>1 DEF Working
      <3>2. CASE \E v \in Workers : pc[v] \in Working /\ held[v] = b
        BY <1>1, <1>5, <3>2 DEF Working
      <3>3. CASE b # a /\ \E i \in 1 .. n : assignCh[i] = b
        <4>1. PICK i \in 1 .. n : assignCh[i] = b
          BY <3>3
        <4>2. i - 1 \in 1 .. n - 1 /\ assignCh'[i - 1] = b
          <5>1. i # 1
            BY <1>2, <3>3, <4>1
          <5>2. i - 1 \in 1 .. n - 1 /\ (i - 1) + 1 = i
            BY <1>2, <5>1
          <5> QED
            BY <1>2, <4>1, <5>2
        <4> QED
          BY <1>2, <4>2
      <3> QED
        BY <3>1, <3>2, <3>3 DEF HoldersOK, n
    <2> QED
      BY <2>1, <2>2, <2>3, <2>4, <2>5, <2>6, <2>7 DEF HoldersOK
  <1>8. CapacityOK' /\ FenceOK' /\ RoomOK'
    BY <1>1 DEF CapacityOK, FenceOK, RoomOK
  <1>9. PromisesOK'
    <2>1. Promised(a) /\ \A i \in 1 .. n - 1 : Promised(assignCh[i + 1])
      BY <1>2, <1>4 DEF PromisesOK, n
    <2>3. \A i \in 1 .. Len(assignCh') : assignCh'[i] \in readmitted' \cup reservations'
      BY <1>1, <1>2, <2>1 DEF Promised
    <2>4. \A v \in Workers :
             pc'[v] \in {"claimed", "running"} => held'[v] \in readmitted' \cup reservations'
      BY <1>1, <1>5, <2>1 DEF PromisesOK, Promised
    <2>5. \A b \in reservations' :
             \/ b \in entries' \/ b = admitting'
             \/ \E v \in Workers : pc'[v] = "releasing" /\ held'[v] = b
      BY <1>1, <1>5 DEF PromisesOK
    <2>6. admitting' # None => admitting' \in readmitted' \cup reservations'
      BY <1>1 DEF PromisesOK, Promised
    <2> QED
      BY <2>3, <2>4, <2>5, <2>6 DEF PromisesOK, Promised
  <1> QED
    BY <1>3, <1>7, <1>8, <1>9

\* Steps of a worker that keep its attempt: the handler starts or ends without a
\* result; an idle worker leaves.
LEMMA HandlerKeeps ==
    ASSUME ChannelInv, NEW w \in Workers, WorkerExit(w) \/ StartHandler(w) \/ EndWithoutResult(w)
    PROVE  ChannelInv'
  <1> USE DEF ChannelInv
  <1>1. UNCHANGED <<conn, asked, approved, entries, cancelled, owned, done, assignCh, admitting, held,
                    records, reservations, degraded, unsure, readmitted>>
    BY DEF WorkerExit, StartHandler, EndWithoutResult, sessionVars, registryVars, queueVars
  <1>2. /\ \A v \in Workers : v # w => pc'[v] = pc[v]
        /\ pc' \in [Workers -> Places]
        /\ \/ pc[w] = "idle" /\ pc'[w] = "exited"
           \/ pc[w] = "claimed" /\ pc'[w] = "running"
           \/ pc[w] \in {"claimed", "running"} /\ pc'[w] = "ended"
    BY DEF WorkerExit, StartHandler, EndWithoutResult, ChannelTypeOK, Places
  <1>3. \A v \in Workers :
           /\ pc'[v] \in {"idle", "exited"} <=> pc[v] \in {"idle", "exited"}
           /\ pc'[v] \in Working <=> pc[v] \in Working
           /\ pc'[v] = "releasing" <=> pc[v] = "releasing"
           /\ pc'[v] \in {"claimed", "running"} => pc[v] \in {"claimed", "running"}
    BY <1>2 DEF Working
  <1>4. ChannelTypeOK'
    BY <1>1, <1>2 DEF ChannelTypeOK
  <1>5. HoldersOK'
    BY <1>1, <1>3 DEF HoldersOK
  <1>6. CapacityOK' /\ FenceOK' /\ RoomOK'
    BY <1>1 DEF CapacityOK, FenceOK, RoomOK
  <1>7. PromisesOK'
    BY <1>1, <1>3 DEF PromisesOK, Promised
  <1> QED
    BY <1>4, <1>5, <1>6, <1>7

\* reportTerminal: the reserved place becomes the place of the record.
LEMMA ReportKeeps ==
    ASSUME ChannelInv, NEW w \in Workers, ReportTerminal(w)
    PROVE  ChannelInv'
  <1> USE DEF ChannelInv
  <1> DEFINE a == held[w]
  <1>1. /\ pc[w] = "running" /\ pc' = [pc EXCEPT ![w] = "ended"]
        /\ UNCHANGED <<conn, asked, approved, entries, cancelled, owned, done, assignCh, admitting, held,
                       readmitted>>
        /\ \/ UNCHANGED <<records, reservations>>
           \/ records' = records \cup {a} /\ reservations' = reservations \ {a}
        /\ unsure' \subseteq unsure \cup {a}
    BY DEF ReportTerminal, Results!Stored, Results!WriteFails, sessionVars, registryVars, queueVars
  <1>2. /\ pc'[w] = "ended" /\ \A v \in Workers : v # w => pc'[v] = pc[v]
        /\ pc' \in [Workers -> Places]
    BY <1>1 DEF ChannelTypeOK, Places
  <1>3. a \in Attempts /\ a \in entries /\ a # None
    BY <1>1, ChannelAssumption DEF ChannelTypeOK, HoldersOK, Working
  <1>4. ChannelTypeOK'
    BY <1>1, <1>2, <1>3 DEF ChannelTypeOK
  <1>5. HoldersOK'
    BY <1>1, <1>2 DEF HoldersOK, Working
  <1>6. CapacityOK'
    BY CapacityKept DEF ReportTerminal
  <1>7. PromisesOK'
    <2>1. reservations \ {a} \subseteq reservations' /\ reservations' \subseteq reservations
      BY <1>1
    <2>2. /\ \A i \in 1 .. Len(assignCh) : assignCh[i] # a
          /\ \A v \in Workers : v # w => held[v] # a
          /\ admitting # a
      BY <1>3 DEF HoldersOK
    <2> HIDE DEF a
    <2>3. \A i \in 1 .. Len(assignCh') : assignCh'[i] \in readmitted' \cup reservations'
      BY <1>1, <2>1, <2>2 DEF PromisesOK, Promised
    <2>4. \A v \in Workers :
             pc'[v] \in {"claimed", "running"} => held'[v] \in readmitted' \cup reservations'
      BY <1>1, <1>2, <2>1, <2>2 DEF PromisesOK, Promised
    <2>5. \A b \in reservations' :
             \/ b \in entries' \/ b = admitting'
             \/ \E v \in Workers : pc'[v] = "releasing" /\ held'[v] = b
      BY <1>1, <1>2, <2>1 DEF PromisesOK
    <2>6. admitting' # None => admitting' \in readmitted' \cup reservations'
      BY <1>1, <2>1, <2>2 DEF PromisesOK, Promised
    <2> QED
      BY <2>3, <2>4, <2>5, <2>6 DEF PromisesOK, Promised
  <1>8. FenceOK' /\ RoomOK'
    BY <1>1 DEF FenceOK, RoomOK
  <1> QED
    BY <1>4, <1>5, <1>6, <1>7, <1>8

\* Registry.Complete: the attempt goes from the entries to the done memory.
LEMMA CompleteKeeps ==
    ASSUME ChannelInv, NEW w \in Workers, Complete(w)
    PROVE  ChannelInv'
  <1> USE DEF ChannelInv
  <1> DEFINE a == held[w]
  <1>1. /\ pc[w] = "ended" /\ pc' = [pc EXCEPT ![w] = "releasing"]
        /\ entries' = entries \ {a} /\ cancelled' = cancelled \ {a} /\ done' = done \cup {a}
        /\ owned' = owned \ {a} /\ readmitted' = readmitted \ {a}
        /\ UNCHANGED <<conn, asked, approved, assignCh, admitting, held, records, reservations,
                       degraded, unsure>>
    BY DEF Complete, sessionVars, queueVars
  <1>2. /\ pc'[w] = "releasing" /\ \A v \in Workers : v # w => pc'[v] = pc[v]
        /\ pc' \in [Workers -> Places]
    BY <1>1 DEF ChannelTypeOK, Places
  <1>3. a \in Attempts /\ a \in entries /\ a # None
    BY <1>1, ChannelAssumption DEF ChannelTypeOK, HoldersOK, Working
  <1>4. /\ \A i \in 1 .. Len(assignCh) : assignCh[i] # a
        /\ \A v \in Workers : v # w => held[v] # a
        /\ admitting # a
    BY <1>3 DEF HoldersOK
  <1>5. ChannelTypeOK'
    BY <1>1, <1>2, <1>3 DEF ChannelTypeOK
  <1>6. HoldersOK'
    <2>1. entries' \cap done' = {} /\ admitting' \notin entries' \cup done'
      BY <1>1, <1>4 DEF HoldersOK
    <2>2. \A v \in Workers :
             /\ held'[v] = None <=> pc'[v] \in {"idle", "exited"}
             /\ pc'[v] \in Working => held'[v] \in entries'
             /\ pc'[v] = "releasing" => held'[v] \in done'
      BY <1>1, <1>2, <1>3, <1>4 DEF HoldersOK, Working
    <2>3. /\ \A i \in 1 .. Len(assignCh') : assignCh'[i] \in entries'
          /\ \A i, j \in 1 .. Len(assignCh') : assignCh'[i] = assignCh'[j] => i = j
          /\ \A i \in 1 .. Len(assignCh'), v \in Workers : assignCh'[i] # held'[v]
          /\ \A u, v \in Workers : u # v /\ held'[u] # None => held'[u] # held'[v]
      BY <1>1, <1>4 DEF HoldersOK
    <2>4. \A b \in entries' :
             \/ \E i \in 1 .. Len(assignCh') : assignCh'[i] = b
             \/ \E v \in Workers : pc'[v] \in Working /\ held'[v] = b
      BY <1>1, <1>2 DEF HoldersOK
    <2> QED
      BY <2>1, <2>2, <2>3, <2>4 DEF HoldersOK
  <1>7. CapacityOK'
    BY <1>1 DEF CapacityOK
  <1> HIDE DEF a
  <1>8. PromisesOK'
    <2>3. \A i \in 1 .. Len(assignCh') : assignCh'[i] \in readmitted' \cup reservations'
      BY <1>1, <1>4 DEF PromisesOK, Promised
    <2>4. \A v \in Workers :
             pc'[v] \in {"claimed", "running"} => held'[v] \in readmitted' \cup reservations'
      BY <1>1, <1>2, <1>4 DEF PromisesOK, Promised
    <2>5. \A b \in reservations' :
             \/ b \in entries' \/ b = admitting'
             \/ \E v \in Workers : pc'[v] = "releasing" /\ held'[v] = b
      BY <1>1, <1>2 DEF PromisesOK, a
    <2>6. admitting' # None => admitting' \in readmitted' \cup reservations'
      BY <1>1, <1>4 DEF PromisesOK, Promised
    <2> QED
      BY <2>3, <2>4, <2>5, <2>6 DEF PromisesOK, Promised
  <1>9. FenceOK'
    BY <1>1 DEF FenceOK
  <1>10. RoomOK'
    <2>1. /\ IsFiniteSet(entries') /\ Cardinality(entries') \in Nat
          /\ Cardinality(entries') = Cardinality(entries) - 1 /\ Cardinality(entries) \in Nat
      BY <1>1, <1>3, OneLess DEF RoomOK
    <2> QED
      BY <1>1, <2>1, Slots DEF RoomOK
  <1> QED
    BY <1>5, <1>6, <1>7, <1>8, <1>9, <1>10

\* The observer of Complete: the place in the queue is given back.
LEMMA ReleaseKeeps ==
    ASSUME ChannelInv, NEW w \in Workers, ReleaseReservation(w)
    PROVE  ChannelInv'
  <1> USE DEF ChannelInv
  <1> DEFINE a == held[w]
  <1>1. /\ pc[w] = "releasing" /\ pc' = [pc EXCEPT ![w] = "idle"] /\ held' = [held EXCEPT ![w] = None]
        /\ reservations' = reservations \ {a}
        /\ UNCHANGED <<conn, asked, approved, entries, cancelled, owned, done, assignCh, admitting, records,
                       unsure, readmitted>>
    BY DEF ReleaseReservation, ReleaseResultCapacity, Results!Release, sessionVars, registryVars
  <1>2. /\ pc'[w] = "idle" /\ held'[w] = None
        /\ \A v \in Workers : v # w => pc'[v] = pc[v] /\ held'[v] = held[v]
        /\ pc' \in [Workers -> Places] /\ held' \in [Workers -> Attempts \cup {None}]
    BY <1>1 DEF ChannelTypeOK, Places
  <1>3. a \in done /\ a \in Attempts /\ a \notin entries /\ a # None
    BY <1>1, ChannelAssumption DEF ChannelTypeOK, HoldersOK
  <1>4. /\ \A i \in 1 .. Len(assignCh) : assignCh[i] # a /\ assignCh[i] # None
        /\ \A v \in Workers : v # w => held[v] # a
        /\ admitting # a
    BY <1>3, ChannelAssumption DEF HoldersOK, ChannelTypeOK
  <1> HIDE DEF a
  <1>5. ChannelTypeOK'
    BY <1>1, <1>2 DEF ChannelTypeOK
  <1>6. HoldersOK'
    <2>1. entries' \cap done' = {} /\ admitting' \notin entries' \cup done'
      BY <1>1 DEF HoldersOK
    <2>2. \A v \in Workers :
             /\ held'[v] = None <=> pc'[v] \in {"idle", "exited"}
             /\ pc'[v] \in Working => held'[v] \in entries'
             /\ pc'[v] = "releasing" => held'[v] \in done'
      BY <1>1, <1>2 DEF HoldersOK, Working
    <2>3. /\ \A i \in 1 .. Len(assignCh') : assignCh'[i] \in entries'
          /\ \A i, j \in 1 .. Len(assignCh') : assignCh'[i] = assignCh'[j] => i = j
      BY <1>1 DEF HoldersOK
    <2>4. \A i \in 1 .. Len(assignCh'), v \in Workers : assignCh'[i] # held'[v]
      BY <1>1, <1>2, <1>4 DEF HoldersOK
    <2>5. \A u, v \in Workers : u # v /\ held'[u] # None => held'[u] # held'[v]
      BY <1>2 DEF HoldersOK
    <2>6. \A b \in entries' :
             \/ \E i \in 1 .. Len(assignCh') : assignCh'[i] = b
             \/ \E v \in Workers : pc'[v] \in Working /\ held'[v] = b
      BY <1>1, <1>2 DEF HoldersOK, Working
    <2> QED
      BY <2>1, <2>2, <2>3, <2>4, <2>5, <2>6 DEF HoldersOK
  <1>7. CapacityOK'
    BY CapacityKept DEF ReleaseReservation, ReleaseResultCapacity
  <1>8. PromisesOK'
    <2>3. \A i \in 1 .. Len(assignCh') : assignCh'[i] \in readmitted' \cup reservations'
      BY <1>1, <1>4 DEF PromisesOK, Promised
    <2>4. \A v \in Workers :
             pc'[v] \in {"claimed", "running"} => held'[v] \in readmitted' \cup reservations'
      BY <1>1, <1>2, <1>4 DEF PromisesOK, Promised
    <2>5. \A b \in reservations' :
             \/ b \in entries' \/ b = admitting'
             \/ \E v \in Workers : pc'[v] = "releasing" /\ held'[v] = b
      BY <1>1, <1>2 DEF PromisesOK, a
    <2>6. admitting' # None => admitting' \in readmitted' \cup reservations'
      BY <1>1, <1>4 DEF PromisesOK, Promised
    <2> QED
      BY <2>3, <2>4, <2>5, <2>6 DEF PromisesOK, Promised
  <1>9. FenceOK' /\ RoomOK'
    BY <1>1 DEF FenceOK, RoomOK
  <1> QED
    BY <1>5, <1>6, <1>7, <1>8, <1>9

\* Results that are acknowledged or pruned, a forgotten attempt and a restart.
LEMMA OthersKeep ==
    ASSUME ChannelInv,
           \/ Restart \/ \E a \in Attempts : AckResult(a) \/ ForgetDone(a)
           \/ \E gone \in SUBSET records : PruneResults(gone)
    PROVE  ChannelInv'
  <1> USE DEF ChannelInv
  <1>1. ASSUME NEW gone \in SUBSET records, NEW doubt, Results!Remove(gone, doubt),
               UNCHANGED <<sessionVars, registryVars, assignCh, admitting, workerVars, readmitted>>
        PROVE  ChannelInv'
    <2>1. /\ records' = records \ gone /\ unsure' \subseteq unsure \cup gone
          /\ UNCHANGED <<conn, asked, approved, entries, cancelled, owned, done, assignCh, admitting, pc, held,
                         reservations, readmitted>>
      BY <1>1 DEF Results!Remove, sessionVars, registryVars, workerVars
    <2>2. CapacityOK'
      <3>1. IsFiniteSet(gone)
        BY FS_Subset DEF CapacityOK
      <3> QED
        BY <1>1, <3>1, CapacityKept
    <2>3. ChannelTypeOK' /\ HoldersOK' /\ FenceOK' /\ RoomOK'
      BY <2>1 DEF ChannelTypeOK, HoldersOK, FenceOK, RoomOK
    <2>4. PromisesOK'
      BY <2>1 DEF PromisesOK, Promised
    <2> QED
      BY <2>2, <2>3, <2>4
  <1>2. ASSUME NEW a \in Attempts, ForgetDone(a) PROVE ChannelInv'
    <2>1. /\ done' = done \ {a} /\ \A w \in Workers : pc[w] = "releasing" => held[w] # a
          /\ UNCHANGED <<conn, asked, approved, entries, cancelled, owned, assignCh, admitting, pc, held,
                         records, reservations, degraded, unsure, readmitted>>
      BY <1>2 DEF ForgetDone, sessionVars, workerVars, queueVars
    <2>2. HoldersOK'
      BY <2>1 DEF HoldersOK
    <2>3. ChannelTypeOK' /\ CapacityOK' /\ FenceOK' /\ RoomOK'
      BY <2>1 DEF ChannelTypeOK, CapacityOK, FenceOK, RoomOK
    <2>4. PromisesOK'
      BY <2>1 DEF PromisesOK, Promised
    <2> QED
      BY <2>2, <2>3, <2>4
  <1>3. CASE Restart
    <2>1. /\ conn' = "off" /\ entries' = {} /\ done' = {} /\ assignCh' = << >> /\ admitting' = None
          /\ pc' = [w \in Workers |-> "idle"] /\ held' = [w \in Workers |-> None]
          /\ reservations' = {} /\ records' \subseteq records \cup unsure /\ unsure' \subseteq unsure
          /\ approved' = LocalConcurrency
      BY <1>3 DEF Restart, Results!Restart
    <2>2. << >> \in Seq(Attempts) /\ Len(<< >>) = 0
      BY EmptySeq
    <2>3. ChannelTypeOK'
      BY <2>1, <2>2, Slots DEF ChannelTypeOK, Places
    <2>4. HoldersOK'
      BY <2>1, <2>2 DEF HoldersOK, Working
    <2>5. CapacityOK'
      BY <1>3, CapacityKept DEF Restart
    <2>6. PromisesOK' /\ FenceOK'
      BY <2>1, <2>2 DEF PromisesOK, Promised, FenceOK
    <2>7. RoomOK'
      BY <2>1, FS_EmptySet DEF RoomOK
    <2> QED
      BY <2>3, <2>4, <2>5, <2>6, <2>7
  <1>4. ASSUME NEW a \in Attempts, AckResult(a) PROVE ChannelInv'
    <2>1. {a} \in SUBSET records
      BY <1>4 DEF AckResult
    <2> QED
      BY <1>1, <1>4, <2>1 DEF AckResult
  <1> QED
    BY <1>1, <1>2, <1>3, <1>4 DEF PruneResults

-----------------------------------------------------------------------------
(* Theorems *)

\* The inductive invariant holds in every state of the node (wss/client.go,
\* tasks/registry.go, worker/worker.go), across sessions and restarts.
THEOREM ChannelInvariance == Spec => []ChannelInv
  <1>1. Init => ChannelInv
    <2> SUFFICES ASSUME Init PROVE ChannelInv
      OBVIOUS
    <2>1. << >> \in Seq(Attempts) /\ Len(<< >>) = 0
      BY EmptySeq
    <2>2. ChannelTypeOK
      BY <2>1, Slots DEF Init, Results!ResultInit, ChannelTypeOK, Places
    <2>3. HoldersOK /\ PromisesOK /\ FenceOK
      BY <2>1 DEF Init, Results!ResultInit, HoldersOK, PromisesOK, FenceOK, Working
    <2>4. CapacityOK /\ RoomOK
      BY FS_EmptySet, ChannelAssumption DEF Init, Results!ResultInit, CapacityOK, RoomOK
    <2> QED
      BY <2>2, <2>3, <2>4 DEF ChannelInv
  <1>2. ChannelInv /\ [Next]_vars => ChannelInv'
    <2> SUFFICES ASSUME ChannelInv, [Next]_vars PROVE ChannelInv'
      OBVIOUS
    <2>1. CASE UNCHANGED vars
      BY <2>1
      DEF vars, sessionVars, registryVars, workerVars, queueVars, ChannelInv, ChannelTypeOK, HoldersOK,
          CapacityOK, PromisesOK, Promised, FenceOK, RoomOK
    <2>2. CASE Session \/ BeginDrain \/ StopClaims
      BY <2>2, SessionKeeps
    <2>3. CASE Reader
      BY <2>3, SessionKeeps, AssignChecksKeeps, AssignPushKeeps, AssignAbandonKeeps DEF Reader
    <2>4. ASSUME NEW w \in Workers, WorkerStep(w) PROVE ChannelInv'
      BY <2>4, ClaimKeeps, HandlerKeeps, ReportKeeps, CompleteKeeps, ReleaseKeeps DEF WorkerStep
    <2>5. CASE \/ Restart \/ \E a \in Attempts : AckResult(a) \/ ForgetDone(a)
               \/ \E gone \in SUBSET records : PruneResults(gone)
      BY <2>5, OthersKeep
    <2> QED
      BY <2>1, <2>2, <2>3, <2>4, <2>5 DEF Next
  <1> QED
    BY <1>1, <1>2, PTL DEF Spec

\* A sequence without repetitions is as long as the set of its elements is large.
LEMMA DistinctCounted ==
    ASSUME ChannelInv
    PROVE  IsFiniteSet(InChannel) /\ Len(assignCh) = Cardinality(InChannel) /\ Len(assignCh) \in Nat
  <1> DEFINE n == Len(assignCh)
             f == [i \in 1 .. n |-> assignCh[i]]
  <1>1. n \in Nat
    BY DEF ChannelInv, ChannelTypeOK
  <1>2. f \in Bijection(1 .. n, InChannel)
    <2>1. f \in [1 .. n -> InChannel]
      BY DEF InChannel
    <2>2. \A i, j \in 1 .. n : f[i] = f[j] => i = j
      BY DEF ChannelInv, HoldersOK
    <2>3. \A b \in InChannel : \E i \in 1 .. n : f[i] = b
      BY DEF InChannel
    <2> HIDE DEF f, n
    <2>4. f \in Injection(1 .. n, InChannel)
      BY <2>1, <2>2 DEF Injection, IsInjective
    <2>5. f \in Surjection(1 .. n, InChannel)
      BY <2>1, <2>3 DEF Surjection
    <2> QED
      BY <2>4, <2>5 DEF Bijection
  <1>3. IsFiniteSet(1 .. n) /\ Cardinality(1 .. n) = n
    <2> HIDE DEF f, n
    <2>1. 1 \in Int /\ n \in Int
      BY <1>1
    <2>2. IsFiniteSet(1 .. n) /\ Cardinality(1 .. n) = IF 1 > n THEN 0 ELSE n - 1 + 1
      BY <2>1, FS_Interval, Zenon
    <2> QED
      BY <1>1, <2>2
  <1>4. ExistsBijection(1 .. n, InChannel)
    BY <1>2 DEF ExistsBijection
  <1> QED
    BY <1>1, <1>3, <1>4, FS_Bijection

\* An attempt in flight is in exactly one place, waiting in the channel or with
\* one worker: no redelivery, cancel, reconnect or restart runs it twice at a
\* time (handleAssign's Has, Registry.Start and Complete, Pool.runTask).
THEOREM EveryAttemptHasOneHolder == Spec => []ExactlyOneHolder
  <1>1. ChannelInv => ExactlyOneHolder
    <2> SUFFICES ASSUME ChannelInv PROVE ExactlyOneHolder
      OBVIOUS
    <2> USE DEF ChannelInv
    <2>1. \A b : b \in InWork <=> \E w \in Workers : pc[w] \in Working /\ held[w] = b
      BY ChannelAssumption
      DEF InWork, HeldBy, HoldersOK, ChannelTypeOK, Places, Working
    <2>2. \A b : b \in InChannel <=> \E i \in 1 .. Len(assignCh) : assignCh[i] = b
      BY DEF InChannel
    <2>3. entries = InChannel \cup InWork
      BY <2>1, <2>2 DEF HoldersOK
    <2>4. InChannel \cap InWork = {}
      BY <2>1, <2>2 DEF HoldersOK
    <2>5. Len(assignCh) = Cardinality(InChannel)
      BY DistinctCounted
    <2>6. \A v, w \in Workers : v # w /\ held[v] # None => held[v] # held[w]
      BY DEF HoldersOK
    <2> QED
      BY <2>3, <2>4, <2>5, <2>6 DEF ExactlyOneHolder
  <1> QED
    BY <1>1, ChannelInvariance, PTL

\* Reserved capacity always belongs to an attempt that is being admitted, in
\* flight or about to be released (Queue.Reserve against the doneObserver).
THEOREM ReservationsNeverLeak == Spec => []NoReservationLeak
  <1>1. ChannelInv => NoReservationLeak
    <2> SUFFICES ASSUME ChannelInv, NEW a \in reservations
                 PROVE  \/ a \in entries \cup {admitting}
                        \/ \E w \in Workers : pc[w] = "releasing" /\ a \in HeldBy(w)
      BY DEF NoReservationLeak
    <2>1. a \in Attempts /\ a # None
      BY ChannelAssumption DEF ChannelInv, ChannelTypeOK
    <2> QED
      BY <2>1 DEF ChannelInv, PromisesOK, HeldBy
  <1> QED
    BY <1>1, ChannelInvariance, PTL

\* The handler of an attempt finds the queue full only if the attempt was
\* admitted again while its first result was still queued (Queue.Reserve
\* against Queue.Enqueue).
THEOREM FullNeedsReadmission == Spec => []FullOnlyAfterReadmission
  <1>1. ChannelInv => FullOnlyAfterReadmission
    <2> SUFFICES ASSUME ChannelInv, NEW w \in Workers, pc[w] = "running", held[w] \notin readmitted
                 PROVE  ~Results!Full(held[w])
      BY DEF FullOnlyAfterReadmission
    <2> DEFINE a == held[w]
    <2>1. a \in reservations
      BY DEF ChannelInv, PromisesOK, Promised
    <2>2. /\ IsFiniteSet(reservations) /\ Cardinality(records) \in Nat
          /\ Cardinality(records) + Cardinality(reservations) <= MaxRecords
      BY FS_CardinalityType DEF ChannelInv, CapacityOK
    <2>3. /\ Cardinality(reservations \ {a}) = Cardinality(reservations) - 1
          /\ Cardinality(reservations) \in Nat
      BY <2>1, <2>2, OneLess
    <2> QED
      BY <2>2, <2>3, SameCount, ChannelAssumption DEF Results!Full, Results!Room
  <1> QED
    BY <1>1, ChannelInvariance, PTL

\* On a ready session every attempt that is not cancelled was assigned or resumed
\* in it: the epoch fence of AUTH_OK and RESUME_RESULT (wss/run.go).
THEOREM ReadyMeansFenced == Spec => []ResumeFence
  <1>1. ChannelInv => ResumeFence
    BY DEF ChannelInv, FenceOK, ResumeFence
  <1> QED
    BY <1>1, ChannelInvariance, PTL

\* The channel has room for every attempt that is admitted: the default branch of
\* handleAssign (client.go:658) is dead code, for any concurrency.
THEOREM RoomForEveryAdmission == Spec => []ChannelHasRoom
  <1>1. ChannelInv => ChannelHasRoom
    <2> SUFFICES ASSUME ChannelInv, admitting # None PROVE Len(assignCh) < LocalConcurrency + 2
      BY DEF ChannelHasRoom
    <2>1. InChannel \subseteq entries
      BY DEF InChannel, ChannelInv, HoldersOK
    <2>2. IsFiniteSet(entries) /\ Cardinality(entries) < LocalConcurrency /\ Cardinality(entries) \in Nat
      BY FS_CardinalityType DEF ChannelInv, RoomOK
    <2>3. Cardinality(InChannel) <= Cardinality(entries)
      BY <2>1, <2>2, FS_Subset
    <2>4. Len(assignCh) = Cardinality(InChannel) /\ Len(assignCh) \in Nat
      BY DistinctCounted
    <2> QED
      BY <2>2, <2>3, <2>4, Slots
  <1> QED
    BY <1>1, ChannelInvariance, PTL

\* After a local stop no attempt is admitted, whatever the server says, until a
\* new process starts (client.go:319, BeginDrain against handleAssign).
THEOREM StopIsFinal == Spec => DrainIsFinal
  <1>1. [Next]_vars =>
            [localDraining /\ admitting = None =>
                \/ localDraining' /\ entries' \subseteq entries /\ admitting' = None
                \/ Restart]_vars
    <2> SUFFICES ASSUME Next, localDraining, admitting = None, ~Restart
                 PROVE  localDraining' /\ entries' \subseteq entries /\ admitting' = None
      OBVIOUS
    <2>1. CASE Session
      BY <2>1 DEF Session, Dial, Disconnect, AuthOK, Refresh, ResumeResult, registryVars, stopVars
    <2>2. CASE Reader
      BY <2>2 DEF Reader, AssignChecks, AssignBeyondApproval, Cancel, AssignPush, AssignAbandon,
                  NodeState, Revoke, Draining, registryVars, stopVars
    <2>3. CASE BeginDrain \/ StopClaims
      BY <2>3 DEF BeginDrain, StopClaims, registryVars
    <2>4. ASSUME NEW w \in Workers, WorkerStep(w)
          PROVE  localDraining' /\ entries' \subseteq entries /\ admitting' = None
      BY <2>4 DEF WorkerStep, Claim, WorkerExit, StartHandler, EndWithoutResult, ReportTerminal,
         Complete,
                  ReleaseReservation, registryVars, stopVars
    <2>5. CASE \/ \E a \in Attempts : AckResult(a) \/ ForgetDone(a)
               \/ \E gone \in SUBSET records : PruneResults(gone)
      BY <2>5 DEF AckResult, ForgetDone, PruneResults, registryVars, stopVars
    <2> QED
      BY <2>1, <2>2, <2>3, <2>4, <2>5 DEF Next
  <1> QED
    BY <1>1, PTL DEF Spec, DrainIsFinal
=============================================================================
