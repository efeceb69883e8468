------------------------- MODULE KeyRotationProofs -------------------------
(***************************************************************************)
(* Proofs about KeyRotation, for any set of keys and any number of         *)
(* restarts: RotationInv is inductive, and the promises of the rotation    *)
(* follow from it.                                                         *)
(***************************************************************************)
EXTENDS KeyRotation, TLAPS

\* The node that has just enrolled satisfies the invariant.
LEMMA InitInv == RotationInit => RotationInv
  BY RotationAssumption
  DEF RotationInit, RotationInv, TypeOK, StoreOK, ServerOK, StepOK, FileOK, WireOK, Candidates,
      LocalStatus, ServerStatus, Steps, Store

\* What a commit of the store has to respect, whatever the outcome of the
\* write: the new state is in order, it keeps a rotation the server may still
\* act on, and it brings in no key the server knows.
Respects(next) ==
  /\ next \in Store
  /\ StoreOK(next)
  /\ mem.pend # NoKey /\ srv[mem.pend] \in {"none", "PENDING"} =>
        next.pend = mem.pend /\ (mem.known => next.known)
  /\ \A k \in Keys : mem.keys[k] = "none" /\ next.keys[k] # "none" => srv[k] = "none"

\* A commit that respects these rules preserves the invariant.
LEMMA CommitInv ==
  ASSUME RotationInv, NEW STATE next, NEW outcome \in Outcomes, Commit(next, outcome),
         Respects(next), UNCHANGED <<nodeVars, srv, wire>>,
         step' \in Steps, StepOK'
  PROVE  RotationInv'
  <1>0. /\ srv' = srv /\ wire' = wire /\ cred' = cred /\ session' = session
        /\ restarts' = restarts
    BY DEF nodeVars
  <1>1. \/ mem' = next /\ disk' = next
        \/ mem' = mem /\ disk' = next
        \/ mem' = mem /\ disk' = disk
    BY DEF Commit, Outcomes
  <1>2. TypeOK'
    BY <1>0, <1>1 DEF TypeOK, RotationInv, Respects
  <1>3. StoreOK(mem)' /\ StoreOK(disk)'
    BY <1>0, <1>1 DEF StoreOK, Candidates, RotationInv, Respects
  <1>4. ServerOK'
    BY <1>0, <1>1, RotationAssumption DEF ServerOK, RotationInv, Respects
  <1>5. FileOK'
    BY <1>0, <1>1 DEF FileOK, RotationInv, Respects
  <1>6. WireOK'
    BY <1>0, <1>1, RotationAssumption DEF WireOK, RotationInv, Respects
  <1> QED BY <1>2, <1>3, <1>4, <1>5, <1>6 DEF RotationInv

\* BeginRotation.
LEMMA BeginInv ==
  ASSUME RotationInv, NEW k \in Keys, NEW outcome \in Outcomes, Begin(k, outcome)
  PROVE  RotationInv'
  <1> DEFINE next == Begun(mem, k)
  <1>1. /\ next \in Store
        /\ next.keys = [mem.keys EXCEPT ![k] = "PENDING"]
        /\ next.current = mem.current /\ next.pend = k
        /\ next.known = FALSE /\ next.confirmed = FALSE
    BY DEF Begun, RotationInv, TypeOK, Store, LocalStatus
  <1>2. Respects(next)
    BY <1>1, RotationAssumption
    DEF Respects, Begin, RotationInv, TypeOK, Store, StoreOK, Candidates
  <1>3. step' \in Steps /\ StepOK'
    BY <1>1, RotationAssumption DEF Begin, Commit, StepOK, Steps, Outcomes, nodeVars
  <1>4. Commit(next, outcome) /\ UNCHANGED <<nodeVars, srv, wire>>
    BY DEF Begin
  <1> HIDE DEF next
  <1> QED BY <1>2, <1>3, <1>4, CommitInv

\* RecordRotationPrepared.
LEMMA RecordInv ==
  ASSUME RotationInv, NEW outcome \in Outcomes, Record(outcome)
  PROVE  RotationInv'
  <1> DEFINE next == Prepared(mem)
  <1>1. /\ next \in Store
        /\ next.keys = mem.keys /\ next.current = mem.current /\ next.pend = mem.pend
        /\ next.known = TRUE /\ next.confirmed = mem.confirmed
    BY DEF Prepared, RotationInv, TypeOK, Store
  <1>2. Respects(next)
    BY <1>1 DEF Respects, Record, RotationInv, StepOK, StoreOK, Candidates
  <1>3. step' \in Steps /\ StepOK'
    BY <1>1 DEF Record, Commit, RotationInv, StepOK, Steps, Outcomes, nodeVars
  <1>4. Commit(next, outcome) /\ UNCHANGED <<nodeVars, srv, wire>>
    BY DEF Record
  <1> HIDE DEF next
  <1> QED BY <1>2, <1>3, <1>4, CommitInv

\* MarkRotationConfirmed.
LEMMA MarkInv ==
  ASSUME RotationInv, NEW outcome \in Outcomes, Mark(outcome)
  PROVE  RotationInv'
  <1> DEFINE next == Confirmed(mem)
  <1>1. /\ next \in Store
        /\ next.keys = mem.keys /\ next.current = mem.current /\ next.pend = mem.pend
        /\ next.known = mem.known /\ next.confirmed = TRUE
    BY DEF Confirmed, RotationInv, TypeOK, Store
  <1>2. Respects(next)
    BY <1>1 DEF Respects, Mark, RotationInv, StepOK, StoreOK, Candidates
  <1>3. step' \in Steps /\ StepOK'
    BY <1>1 DEF Mark, Commit, RotationInv, StepOK, Steps, Outcomes, nodeVars
  <1>4. Commit(next, outcome) /\ UNCHANGED <<nodeVars, srv, wire>>
    BY DEF Mark
  <1> HIDE DEF next
  <1> QED BY <1>2, <1>3, <1>4, CommitInv

\* ActivateRotatedKey: the new key is the only one active on the server.
LEMMA ActivateInv ==
  ASSUME RotationInv, NEW outcome \in Outcomes, Activate(outcome)
  PROVE  RotationInv'
  <1> DEFINE next == Activated(mem)
  <1>0. /\ mem.pend \in Keys /\ mem.current \in Keys /\ mem.pend # mem.current
        /\ srv[mem.pend] = "ACTIVE" /\ mem.keys[mem.pend] = "PENDING"
    BY DEF Activate, RotationInv, StepOK, StoreOK, TypeOK, Store
  <1>1. /\ next \in Store
        /\ next.keys = [mem.keys EXCEPT ![mem.current] = "GRACE", ![mem.pend] = "ACTIVE"]
        /\ next.current = mem.pend /\ next.pend = NoKey
        /\ next.known = FALSE /\ next.confirmed = FALSE
    BY <1>0 DEF Activated, RotationInv, TypeOK, Store, LocalStatus
  <1>2. Respects(next)
    BY <1>0, <1>1, RotationAssumption
    DEF Respects, RotationInv, TypeOK, Store, ServerOK, StoreOK, Candidates
  <1>3. step' \in Steps /\ StepOK'
    BY DEF Activate, StepOK, Steps
  <1>4. Commit(next, outcome) /\ UNCHANGED <<nodeVars, srv, wire>>
    BY DEF Activate
  <1> HIDE DEF next
  <1> QED BY <1>2, <1>3, <1>4, CommitInv

\* DiscardPendingRotation: only a rotation that has expired on the server.
LEMMA DiscardInv ==
  ASSUME RotationInv, NEW outcome \in Outcomes, Discard(outcome)
  PROVE  RotationInv'
  <1> DEFINE next == Discarded(mem)
  <1>0. /\ mem.pend \in Keys /\ mem.current \in Keys /\ mem.pend # mem.current
        /\ srv[mem.pend] = "EXPIRED" /\ mem.confirmed = FALSE
    BY DEF Discard, RotationInv, StepOK, StoreOK, TypeOK, Store
  <1>1. /\ next \in Store
        /\ next.keys = [mem.keys EXCEPT ![mem.pend] = "none"]
        /\ next.current = mem.current /\ next.pend = NoKey
        /\ next.known = FALSE /\ next.confirmed = FALSE
    BY <1>0 DEF Discarded, RotationInv, TypeOK, Store, LocalStatus
  <1>2. Respects(next)
    BY <1>0, <1>1, RotationAssumption
    DEF Respects, RotationInv, TypeOK, Store, StoreOK, Candidates
  <1>3. step' \in Steps /\ StepOK'
    BY DEF Discard, StepOK, Steps
  <1>4. Commit(next, outcome) /\ UNCHANGED <<nodeVars, srv, wire>>
    BY DEF Discard
  <1> HIDE DEF next
  <1> QED BY <1>2, <1>3, <1>4, CommitInv

\* ExpireGrace.
LEMMA ExpireGraceInv ==
  ASSUME RotationInv, NEW gone \in SUBSET Keys, NEW outcome \in Outcomes, ExpireGrace(gone, outcome)
  PROVE  RotationInv'
  <1> DEFINE next == Expired(mem, gone)
  <1>1. /\ next \in Store
        /\ next.keys = [k \in Keys |-> IF k \in gone THEN "none" ELSE mem.keys[k]]
        /\ next.current = mem.current /\ next.pend = mem.pend
        /\ next.known = mem.known /\ next.confirmed = mem.confirmed
    BY DEF Expired, RotationInv, TypeOK, Store, LocalStatus
  <1>2. Respects(next)
    BY <1>1 DEF Respects, ExpireGrace, RotationInv, TypeOK, Store, StoreOK, Candidates
  <1>3. step' \in Steps /\ StepOK'
    BY DEF ExpireGrace, StepOK, Steps
  <1>4. Commit(next, outcome) /\ UNCHANGED <<nodeVars, srv, wire>>
    BY DEF ExpireGrace
  <1> HIDE DEF next
  <1> QED BY <1>2, <1>3, <1>4, CommitInv

\* Recover only chooses the next step.
LEMMA RecoverInv ==
  ASSUME RotationInv, Recover
  PROVE  RotationInv'
  <1>1. /\ mem' = mem /\ disk' = disk /\ srv' = srv /\ wire' = wire
        /\ cred' = cred /\ session' = session /\ restarts' = restarts
        /\ step' \in {"activate", "confirm", "prepare"}
        /\ mem.pend # NoKey
        /\ step' = "activate" => mem.confirmed
        /\ step' = "confirm" => mem.known
    BY DEF Recover, storeVars, nodeVars
  <1> QED
    BY <1>1
    DEF RotationInv, TypeOK, Steps, StoreOK, ServerOK, StepOK, FileOK, WireOK, Candidates

\* The server opens the rotation the node keeps pending, if it did not know it.
LEMMA OpenedInv ==
  ASSUME RotationInv, mem.pend # NoKey,
         srv' = SrvPrepare(mem.pend), step' \in Steps,
         mem' = mem, disk' = disk, nodeVars' = nodeVars, wire' \subseteq wire,
         \/ step' = step
         \/ step' = "idle"
         \/ step' = "record"
  PROVE  RotationInv'
  <1> DEFINE k == mem.pend
  <1>0. k \in Keys /\ disk \in Store /\ mem \in Store /\ srv \in [Keys -> ServerStatus]
    BY DEF RotationInv, TypeOK, Store
  <1>1. /\ srv' \in [Keys -> ServerStatus]
        /\ \A j \in Keys \ {k} : srv'[j] = srv[j]
        /\ srv[k] = "none" => srv'[k] = "PENDING"
        /\ srv[k] # "none" => srv'[k] = srv[k]
    BY <1>0 DEF SrvPrepare, ServerStatus
  <1>2. TypeOK'
    BY <1>1 DEF RotationInv, TypeOK, nodeVars
  <1>3. StoreOK(mem)' /\ StoreOK(disk)'
    BY <1>0, <1>1, RotationAssumption DEF RotationInv, StoreOK, Candidates, Store
  <1>4. ServerOK'
    BY <1>1 DEF RotationInv, ServerOK
  <1>5. StepOK'
    BY <1>0, <1>1 DEF RotationInv, StepOK
  <1>6. FileOK'
    BY <1>0, <1>1 DEF RotationInv, FileOK, StoreOK
  <1>7. WireOK'
    BY <1>1 DEF RotationInv, WireOK
  <1> QED BY <1>2, <1>3, <1>4, <1>5, <1>6, <1>7 DEF RotationInv

\* The server activates the rotation the node keeps pending, whose keyId both
\* memory and file know.
LEMMA ActivatedInv ==
  ASSUME RotationInv, mem.pend # NoKey, mem.known,
         srv' = SrvConfirm(mem.pend), step' \in Steps,
         mem' = mem, disk' = disk, nodeVars' = nodeVars, wire' \subseteq wire,
         \/ step' = step
         \/ step' \in {"idle", "query"}
         \/ step' = AfterStatus(srv'[mem.pend])
  PROVE  RotationInv'
  <1> DEFINE k == mem.pend
  <1>0. k \in Keys /\ disk \in Store /\ mem \in Store /\ srv \in [Keys -> ServerStatus]
    BY DEF RotationInv, TypeOK, Store
  <1>1. CASE srv[k] # "PENDING"
    <2>1. srv' = srv
      BY <1>1 DEF SrvConfirm
    <2> QED
      BY <2>1
      DEF RotationInv, TypeOK, StoreOK, ServerOK, StepOK, FileOK, WireOK, Candidates, nodeVars,
          AfterStatus
  <1>2. CASE srv[k] = "PENDING"
    <2>1. /\ srv' \in [Keys -> ServerStatus]
          /\ srv'[k] = "ACTIVE"
          /\ \A j \in Keys \ {k} :
                srv'[j] = IF srv[j] = "ACTIVE" THEN "GRACE" ELSE srv[j]
      BY <1>0, <1>2 DEF SrvConfirm, ServerStatus
    <2>2. /\ disk.pend = k /\ disk.known
          /\ mem.current # k /\ disk.current # k
          /\ ~mem.confirmed /\ ~disk.confirmed
      BY <1>0, <1>2 DEF RotationInv, FileOK, StoreOK, TypeOK, Store
    <2>3. TypeOK'
      BY <2>1 DEF RotationInv, TypeOK, nodeVars
    <2>4. StoreOK(mem)' /\ StoreOK(disk)'
      BY <1>0, <2>1, <2>2 DEF RotationInv, StoreOK, Candidates, Store
    <2>5. ServerOK'
      BY <1>0, <2>1 DEF RotationInv, ServerOK
    <2>6. StepOK'
      BY <1>0, <1>2, <2>1, <2>2 DEF RotationInv, StepOK, AfterStatus
    <2>7. FileOK'
      BY <1>0, <2>1 DEF RotationInv, FileOK, StoreOK
    <2>8. WireOK'
      BY <1>0, <2>1 DEF RotationInv, WireOK
    <2> QED BY <2>3, <2>4, <2>5, <2>6, <2>7, <2>8 DEF RotationInv
  <1> QED BY <1>1, <1>2

\* The request of prepare.
LEMMA PrepareInv ==
  ASSUME RotationInv, NEW answered \in BOOLEAN, NEW processed \in BOOLEAN,
         Prepare(answered, processed)
  PROVE  RotationInv'
  <1>0. /\ mem.pend # NoKey /\ mem.pend \in Keys
        /\ mem' = mem /\ disk' = disk /\ nodeVars' = nodeVars
        /\ step' \in {"record", "idle"} /\ step' \in Steps
    BY DEF Prepare, RotationInv, StepOK, TypeOK, Store, storeVars, Steps
  <1>1. CASE processed
    <2>1. srv' = SrvPrepare(mem.pend) /\ wire' \subseteq wire
      BY <1>1 DEF Prepare
    <2> QED BY <1>0, <2>1, OpenedInv
  <1>2. CASE ~processed
    <2>1. srv' = srv /\ step' = "idle" /\ wire' \subseteq wire \cup {<<"prepare", mem.pend>>}
      BY <1>2 DEF Prepare
    <2>2. TypeOK'
      BY <1>0, <2>1 DEF RotationInv, TypeOK, nodeVars
    <2>3. WireOK'
      BY <1>0, <2>1 DEF RotationInv, WireOK
    <2> QED
      BY <1>0, <2>1, <2>2, <2>3
      DEF RotationInv, StoreOK, ServerOK, StepOK, FileOK, Candidates
  <1> QED BY <1>1, <1>2

\* The request of confirmOnce.
LEMMA ConfirmInv ==
  ASSUME RotationInv, NEW answered \in BOOLEAN, NEW processed \in BOOLEAN,
         Confirm(answered, processed)
  PROVE  RotationInv'
  <1>0. /\ mem.pend # NoKey /\ mem.pend \in Keys /\ mem.known
        /\ mem' = mem /\ disk' = disk /\ nodeVars' = nodeVars
        /\ step' \in {"query", AfterStatus(srv'[mem.pend])} /\ step' \in Steps
    BY DEF Confirm, RotationInv, StepOK, TypeOK, Store, storeVars, Steps, AfterStatus
  <1>1. CASE processed
    <2>1. srv' = SrvConfirm(mem.pend) /\ wire' \subseteq wire
      BY <1>1 DEF Confirm
    <2> QED BY <1>0, <2>1, ActivatedInv
  <1>2. CASE ~processed
    <2>1. srv' = srv /\ step' = "query" /\ wire' \subseteq wire \cup {<<"confirm", mem.pend>>}
      BY <1>2 DEF Confirm
    <2>2. TypeOK'
      BY <1>0, <2>1 DEF RotationInv, TypeOK, nodeVars
    <2>3. WireOK'
      BY <1>0, <2>1 DEF RotationInv, WireOK
    <2> QED
      BY <1>0, <2>1, <2>2, <2>3
      DEF RotationInv, StoreOK, ServerOK, StepOK, FileOK, Candidates
  <1> QED BY <1>1, <1>2

\* The request of query only reads the server.
LEMMA QueryInv ==
  ASSUME RotationInv, NEW answered \in BOOLEAN, Query(answered)
  PROVE  RotationInv'
  <1>1. /\ mem' = mem /\ disk' = disk /\ srv' = srv /\ wire' = wire
        /\ cred' = cred /\ session' = session /\ restarts' = restarts
        /\ step' \in {"idle", AfterStatus(srv[mem.pend])}
        /\ mem.pend # NoKey /\ mem.known
    BY DEF Query, storeVars, nodeVars, RotationInv, StepOK
  <1>2. step' \in Steps /\ StepOK'
    BY <1>1 DEF StepOK, Steps, AfterStatus
  <1> QED
    BY <1>1, <1>2 DEF RotationInv, TypeOK, StoreOK, ServerOK, FileOK, WireOK, Candidates

\* A late request opens or activates only the rotation the node still keeps.
LEMMA LateRequestInv ==
  ASSUME RotationInv, NEW kind \in {"prepare", "confirm"}, NEW k \in Keys, LateRequest(kind, k)
  PROVE  RotationInv'
  <1>0. /\ <<kind, k>> \in wire /\ wire' \subseteq wire
        /\ mem' = mem /\ disk' = disk /\ nodeVars' = nodeVars
        /\ step' = step /\ step' \in Steps
    BY DEF LateRequest, storeVars, RotationInv, TypeOK
  <1>1. CASE kind = "prepare" /\ srv[k] = "none"
    <2>1. srv' = SrvPrepare(k) /\ mem.pend = k /\ mem.pend # NoKey
      BY <1>0, <1>1, RotationAssumption DEF LateRequest, RotationInv, WireOK
    <2> QED BY <1>0, <2>1, OpenedInv
  <1>2. CASE kind = "confirm" /\ srv[k] = "PENDING"
    <2>1. srv' = SrvConfirm(k) /\ mem.pend = k /\ mem.pend # NoKey /\ mem.known
      BY <1>0, <1>2, RotationAssumption DEF LateRequest, RotationInv, WireOK
    <2> QED BY <1>0, <2>1, ActivatedInv
  <1>3. CASE \/ kind = "prepare" /\ srv[k] # "none"
             \/ kind = "confirm" /\ srv[k] # "PENDING"
    <2>1. srv' = srv
      BY <1>3 DEF LateRequest, SrvPrepare, SrvConfirm
    <2> QED
      BY <1>0, <2>1
      DEF RotationInv, TypeOK, nodeVars, StoreOK, ServerOK, StepOK, FileOK, WireOK, Candidates
  <1> QED BY <1>1, <1>2, <1>3

\* The server expires an open rotation, or ends a grace period.
LEMMA ServerTimeInv ==
  ASSUME RotationInv, NEW k \in Keys, RotationExpires(k) \/ GraceEnds(k)
  PROVE  RotationInv'
  <1>0. mem \in Store /\ disk \in Store /\ srv \in [Keys -> ServerStatus]
    BY DEF RotationInv, TypeOK
  <1>1. /\ mem' = mem /\ disk' = disk /\ wire' = wire /\ step' = step
        /\ cred' = cred /\ session' = session /\ restarts' = restarts
        /\ srv' \in [Keys -> ServerStatus]
        /\ \A j \in Keys \ {k} : srv'[j] = srv[j]
        /\ \/ srv[k] = "PENDING" /\ srv'[k] = "EXPIRED"
           \/ srv[k] = "GRACE" /\ srv'[k] = "DEAD"
    BY <1>0 DEF RotationExpires, GraceEnds, storeVars, nodeVars, ServerStatus
  <1>2. TypeOK'
    BY <1>1 DEF RotationInv, TypeOK
  <1>3. StoreOK(mem)' /\ StoreOK(disk)'
    BY <1>0, <1>1 DEF RotationInv, StoreOK, Candidates, Store
  <1>4. ServerOK'
    BY <1>1 DEF RotationInv, ServerOK
  <1>5. StepOK'
    BY <1>0, <1>1, RotationAssumption DEF RotationInv, StepOK, StoreOK, Store
  <1>6. FileOK'
    BY <1>0, <1>1 DEF RotationInv, FileOK, Store
  <1>7. WireOK'
    BY <1>1 DEF RotationInv, WireOK
  <1> QED BY <1>2, <1>3, <1>4, <1>5, <1>6, <1>7 DEF RotationInv

\* The WSS session only chooses the key of the token.
LEMMA WssInv ==
  ASSUME RotationInv, Wss
  PROVE  RotationInv'
  <1>0. mem \in Store
    BY DEF RotationInv, TypeOK
  <1>1. /\ mem' = mem /\ disk' = disk /\ wire' = wire /\ step' = step /\ srv' = srv
        /\ restarts' = restarts
        /\ session' \in {"off", "on", "failed"}
    BY DEF Wss, Authenticate, RefreshToken, RefreshRejected, SessionEnds, storeVars
  <1>2. cred' \in Keys \cup {NoKey}
    BY <1>0 DEF Wss, Authenticate, RefreshToken, RefreshRejected, SessionEnds, Accepts, RotationInv,
                TypeOK
  <1> QED
    BY <1>1, <1>2
    DEF RotationInv, TypeOK, StoreOK, ServerOK, StepOK, FileOK, WireOK, Candidates

\* A restart continues from the file.
LEMMA RestartInv ==
  ASSUME RotationInv, NodeRestart
  PROVE  RotationInv'
  <1>0. mem \in Store /\ disk \in Store /\ srv \in [Keys -> ServerStatus]
    BY DEF RotationInv, TypeOK
  <1>1. /\ mem' = disk /\ disk' = disk /\ srv' = srv /\ wire' = wire
        /\ step' = "idle" /\ cred' = NoKey /\ session' = "off"
        /\ restarts' \in 0..MaxRestarts
    BY RotationAssumption DEF NodeRestart, RotationInv, TypeOK
  <1>2. TypeOK'
    BY <1>1 DEF RotationInv, TypeOK, Steps
  <1>3. StoreOK(mem)' /\ StoreOK(disk)'
    BY <1>1 DEF RotationInv, StoreOK, Candidates
  <1>4. ServerOK'
    BY <1>0, <1>1, RotationAssumption DEF RotationInv, ServerOK, FileOK, Store
  <1>5. StepOK'
    BY <1>1 DEF StepOK
  <1>6. FileOK'
    BY <1>1 DEF FileOK
  <1>7. WireOK'
    BY <1>0, <1>1, RotationAssumption DEF RotationInv, WireOK, FileOK, Store
  <1> QED BY <1>2, <1>3, <1>4, <1>5, <1>6, <1>7 DEF RotationInv

\* Every step of the specification preserves the invariant.
LEMMA StepInv == RotationInv /\ [RotationNext]_rotationVars => RotationInv'
  <1> SUFFICES ASSUME RotationInv, [RotationNext]_rotationVars PROVE RotationInv'
    OBVIOUS
  <1>1. CASE Server
    BY <1>1, ServerTimeInv, LateRequestInv DEF Server
  <1>2. CASE Rotation
    BY <1>2, RecoverInv, BeginInv, ExpireGraceInv, PrepareInv, ConfirmInv, QueryInv, RecordInv,
       MarkInv, ActivateInv, DiscardInv DEF Rotation
  <1>3. CASE Wss
    BY <1>3, WssInv
  <1>4. CASE NodeRestart
    BY <1>4, RestartInv
  <1>5. CASE UNCHANGED rotationVars
    BY <1>5
    DEF rotationVars, RotationInv, TypeOK, StoreOK, ServerOK, StepOK, FileOK, WireOK, Candidates
  <1> QED BY <1>1, <1>2, <1>3, <1>4, <1>5 DEF RotationNext

\* The store, the server, the rotation manager and the requests on their way
\* agree with each other in every reachable state, through every loss, crash
\* and failed write.
THEOREM RotationInvariance == RotationSpec => []RotationInv
  BY InitInv, StepInv, PTL DEF RotationSpec

\* The key the server regards as active can always authenticate the node, from
\* memory and after a restart from the file (authCandidates).
THEOREM ActiveKeyUsable == RotationSpec => []NeverLockedOut
  <1>1. RotationInv => NeverLockedOut
    BY RotationAssumption DEF RotationInv, TypeOK, Store, StoreOK, NeverLockedOut, Candidates
  <1> QED BY <1>1, RotationInvariance, PTL

\* ActivateRotatedKey only ever installs a key that the server has activated.
THEOREM SwitchAfterActivation == RotationSpec => []NoPrematureSwitch
  <1>1. RotationInv => NoPrematureSwitch
    BY DEF RotationInv, StoreOK, NoPrematureSwitch
  <1> QED BY <1>1, RotationInvariance, PTL

\* DiscardPendingRotation and ExpireGrace never delete the private key of the
\* active key or of a rotation the server still holds open.
THEOREM KeyKeptWhileNeeded == RotationSpec => KeyNotDroppedEarly
  <1> DEFINE Kept == \A k \in Keys : disk.keys[k] # "none" /\ disk'.keys[k] = "none" =>
                          srv[k] \notin {"PENDING", "ACTIVE"}
  <1>1. ASSUME RotationInv, RotationInv', [RotationNext]_rotationVars PROVE [Kept]_rotationVars
    <2> SUFFICES ASSUME NEW k \in Keys, disk.keys[k] # "none", disk'.keys[k] = "none",
                        srv[k] \in {"PENDING", "ACTIVE"}
                 PROVE  FALSE
      OBVIOUS
    <2>1. srv' = srv
      BY <1>1
      DEF RotationNext, Server, RotationExpires, GraceEnds, LateRequest, Rotation, Recover, Begin,
          ExpireGrace, Prepare, Confirm, Query, Record, Mark, Activate, Discard, Wss,
          Authenticate, RefreshToken, RefreshRejected, SessionEnds, NodeRestart, rotationVars, storeVars
    <2>2. disk'.pend = k \/ disk'.current = k
      BY <1>1, <2>1, RotationAssumption
      DEF RotationInv, ServerOK, FileOK, StoreOK, Candidates
    <2>3. disk'.keys[k] \in {"PENDING", "ACTIVE"}
      BY <1>1, <2>2, RotationAssumption DEF RotationInv, StoreOK
    <2> QED BY <2>3
  <1> QED BY <1>1, RotationInvariance, PTL DEF RotationSpec, KeyNotDroppedEarly

-----------------------------------------------------------------------------
(* The handover *)

\* What the refinement needs beyond RotationInv: the server has an active key, the
\* file is ahead of memory by an activation at most, and has the key that memory uses.
HandoverInv ==
  /\ \E k \in Keys : srv[k] = "ACTIVE"
  /\ disk.current = mem.current \/ (mem.confirmed /\ disk.current = mem.pend)
  /\ disk.keys[mem.current] # "none"

\* The active key is the only one of that status, and the file has it.
LEMMA ActiveIs ==
  ASSUME RotationInv, HandoverInv
  PROVE  /\ ActiveKey \in Keys /\ srv[ActiveKey] = "ACTIVE"
         /\ \A k \in Keys : srv[k] = "ACTIVE" => k = ActiveKey
         /\ disk.keys[ActiveKey] # "none"
  <1>1. ActiveKey \in Keys /\ srv[ActiveKey] = "ACTIVE"
    BY DEF ActiveKey, HandoverInv
  <1>2. \A k \in Keys : srv[k] = "ACTIVE" => k = ActiveKey
    BY <1>1 DEF RotationInv, ServerOK
  <1>3. ActiveKey = disk.current \/ (disk.known /\ ActiveKey = disk.pend)
    BY <1>1 DEF RotationInv, StoreOK, Candidates
  <1>4. disk.keys[ActiveKey] # "none"
    BY <1>1, <1>3, RotationAssumption DEF RotationInv, StoreOK
  <1> QED BY <1>1, <1>2, <1>4

\* A commit that keeps the current key, or takes up the active one, is a step of the
\* handover or none, whatever the outcome of the write.
LEMMA CommitHandsOver ==
  ASSUME RotationInv, RotationInv', HandoverInv, NEW STATE next, NEW outcome \in Outcomes,
         Commit(next, outcome), UNCHANGED srv, next \in Store,
         next.keys[mem.current] # "none",
         \/ next.current = mem.current
         \/ next.current = mem.pend /\ mem.confirmed
  PROVE  HandoverInv' /\ [Handover!HandoverNext]_(Handover!handoverVars)
  <1>1. \/ mem' = next /\ disk' = next
        \/ mem' = mem /\ disk' = next
        \/ mem' = mem /\ disk' = disk
    BY DEF Commit, Outcomes
  <1>2. ActiveKey' = ActiveKey
    BY DEF ActiveKey
  <1>3. disk'.keys[mem'.current] # "none"
    <2>1. mem'.keys[mem'.current] = "ACTIVE"
      BY DEF RotationInv, StoreOK
    <2> QED
      BY <1>1, <2>1 DEF HandoverInv
  <1>4. HandoverInv'
    BY <1>1, <1>3 DEF HandoverInv
  <1>5. /\ ActiveKey \in Keys /\ disk'.keys[ActiveKey] # "none"
        /\ mem.confirmed => mem.pend = ActiveKey
    <2>1. ActiveKey \in Keys /\ srv[ActiveKey] = "ACTIVE"
      BY ActiveIs
    <2>2. ActiveKey = disk'.current \/ (disk'.known /\ ActiveKey = disk'.pend)
      BY <2>1 DEF RotationInv, StoreOK, Candidates
    <2>3. disk'.keys[ActiveKey] # "none"
      BY <2>1, <2>2, RotationAssumption DEF RotationInv, StoreOK
    <2>4. mem.confirmed => mem.pend \in Keys /\ srv[mem.pend] = "ACTIVE"
      BY DEF RotationInv, StoreOK, TypeOK, Store
    <2> QED
      BY <2>1, <2>3, <2>4, ActiveIs
  <1>6. mem.current \in Keys /\ mem'.current \in Keys
    BY DEF RotationInv, TypeOK, Store
  <1>7. mem'.current \in {mem.current, ActiveKey}
    BY <1>1, <1>5
  <1>8. PICK key \in Keys : key = mem'.current
    BY <1>6
  <1>9. Handover!NodeStores(key)
    BY <1>2, <1>3, <1>5, <1>7, <1>8 DEF Handover!NodeStores
  <1>10. Handover!HandoverNext
    BY <1>9 DEF Handover!HandoverNext
  <1> QED
    BY <1>4, <1>10

\* Neither store nor server: nothing that the handover sees.
LEMMA UnseenHandsOver ==
  ASSUME HandoverInv, UNCHANGED <<mem, disk, srv>>
  PROVE  HandoverInv' /\ [Handover!HandoverNext]_(Handover!handoverVars)
  <1>1. HandoverInv'
    BY DEF HandoverInv
  <1>2. UNCHANGED Handover!handoverVars
    BY DEF Handover!handoverVars, ActiveKey
  <1> QED
    BY <1>1, <1>2

\* The server opens a rotation, closes one or ends a grace period.
LEMMA ServerMovesOn ==
  ASSUME RotationInv, HandoverInv, UNCHANGED <<mem, disk>>, NEW k \in Keys,
         \/ srv' = SrvPrepare(k)
         \/ srv[k] = "PENDING" /\ srv' = [srv EXCEPT ![k] = "EXPIRED"]
         \/ srv[k] = "GRACE" /\ srv' = [srv EXCEPT ![k] = "DEAD"]
  PROVE  HandoverInv' /\ [Handover!HandoverNext]_(Handover!handoverVars)
  <1>1. \A j \in Keys : /\ srv'[j] = "ACTIVE" <=> srv[j] = "ACTIVE"
                        /\ srv'[j] \in {"GRACE", "DEAD"} <=> srv[j] \in {"GRACE", "DEAD"}
    BY DEF SrvPrepare, RotationInv, TypeOK
  <1>2. HandoverInv'
    BY <1>1 DEF HandoverInv
  <1>3. ActiveKey' = ActiveKey
    BY <1>1 DEF ActiveKey
  <1>4. {j \in Keys : srv'[j] \in {"GRACE", "DEAD"}} = {j \in Keys : srv[j] \in {"GRACE", "DEAD"}}
    BY <1>1
  <1>5. UNCHANGED Handover!handoverVars
    BY <1>3, <1>4 DEF Handover!handoverVars
  <1> QED
    BY <1>2, <1>5

\* The server activates the rotation that is open.
LEMMA ServerSwitchesOver ==
  ASSUME RotationInv, RotationInv', HandoverInv, UNCHANGED <<mem, disk>>, NEW k \in Keys,
         srv' = SrvConfirm(k)
  PROVE  HandoverInv' /\ [Handover!HandoverNext]_(Handover!handoverVars)
  <1>1. CASE srv[k] # "PENDING"
    <2>1. srv' = srv
      BY <1>1 DEF SrvConfirm
    <2> QED
      BY <2>1, UnseenHandsOver
  <1>2. CASE srv[k] = "PENDING"
    <2>1. /\ srv'[k] = "ACTIVE"
          /\ \A j \in Keys \ {k} : srv'[j] = IF srv[j] = "ACTIVE" THEN "GRACE" ELSE srv[j]
      BY <1>2 DEF SrvConfirm
    <2>2. HandoverInv'
      BY <2>1 DEF HandoverInv
    <2>3. ActiveKey' = k
      <3>1. ActiveKey' \in Keys /\ srv'[ActiveKey'] = "ACTIVE"
        BY <2>2 DEF HandoverInv, ActiveKey
      <3> QED
        BY <2>1, <3>1 DEF RotationInv, ServerOK
    <2>4. /\ ActiveKey \in Keys /\ srv[ActiveKey] = "ACTIVE"
          /\ \A j \in Keys : srv[j] = "ACTIVE" => j = ActiveKey
      BY ActiveIs
    <2>5. {j \in Keys : srv'[j] \in {"GRACE", "DEAD"}}
             = {j \in Keys : srv[j] \in {"GRACE", "DEAD"}} \cup {ActiveKey}
      BY <1>2, <2>1, <2>4
    <2>6. disk.keys[k] # "none"
      <3>1. mem.pend = k /\ disk.pend = k
        BY <1>2, RotationAssumption DEF RotationInv, ServerOK, FileOK
      <3> QED
        BY <3>1, RotationAssumption DEF RotationInv, StoreOK
    <2>7. Handover!ServerSwitches(k)
      BY <1>2, <2>3, <2>4, <2>5, <2>6 DEF Handover!ServerSwitches
    <2> QED
      BY <2>2, <2>7 DEF Handover!HandoverNext
  <1> QED
    BY <1>1, <1>2

\* A request that the server takes, or not.
LEMMA RequestHandsOver ==
  ASSUME RotationInv, RotationInv', HandoverInv,
         \/ Server
         \/ \E answered, processed \in BOOLEAN :
               Prepare(answered, processed) \/ Confirm(answered, processed)
  PROVE  HandoverInv' /\ [Handover!HandoverNext]_(Handover!handoverVars)
  <1>1. UNCHANGED <<mem, disk>>
    BY DEF Server, RotationExpires, GraceEnds, LateRequest, Prepare, Confirm, storeVars
  <1>2. (\E answered, processed \in BOOLEAN :
            Prepare(answered, processed) \/ Confirm(answered, processed)) => mem.pend \in Keys
    BY DEF Prepare, Confirm, RotationInv, StepOK, TypeOK, Store
  <1>3. \/ srv' = srv
        \/ \E k \in Keys : \/ srv' = SrvPrepare(k) \/ srv' = SrvConfirm(k)
                           \/ srv[k] = "PENDING" /\ srv' = [srv EXCEPT ![k] = "EXPIRED"]
                           \/ srv[k] = "GRACE" /\ srv' = [srv EXCEPT ![k] = "DEAD"]
    <2>1. CASE Server
      BY <2>1 DEF Server, RotationExpires, GraceEnds, LateRequest
    <2>2. CASE \E answered, processed \in BOOLEAN :
                  Prepare(answered, processed) \/ Confirm(answered, processed)
      BY <1>2, <2>2 DEF Prepare, Confirm
    <2> QED
      BY <2>1, <2>2
  <1> QED
    BY <1>1, <1>3, UnseenHandsOver, ServerMovesOn, ServerSwitchesOver

\* The writes of the store.
LEMMA WriteHandsOver ==
  ASSUME RotationInv, RotationInv', HandoverInv, NEW outcome \in Outcomes,
         \/ \E k \in Keys : Begin(k, outcome)
         \/ \E gone \in SUBSET Keys : ExpireGrace(gone, outcome)
         \/ Record(outcome) \/ Mark(outcome) \/ Activate(outcome) \/ Discard(outcome)
  PROVE  HandoverInv' /\ [Handover!HandoverNext]_(Handover!handoverVars)
  <1>0. mem \in Store /\ mem.keys[mem.current] = "ACTIVE" /\ mem.current \in Keys
    BY DEF RotationInv, TypeOK, StoreOK, Store
  <1>1. ASSUME NEW k \in Keys, Begin(k, outcome)
        PROVE  HandoverInv' /\ [Handover!HandoverNext]_(Handover!handoverVars)
    <2> DEFINE next == Begun(mem, k)
    <2>1. next \in Store /\ next.current = mem.current /\ next.keys[mem.current] # "none"
      BY <1>0, <1>1 DEF Begun, Store, LocalStatus
    <2>2. Commit(next, outcome) /\ UNCHANGED srv
      BY <1>1 DEF Begin
    <2> HIDE DEF next
    <2> QED
      BY <2>1, <2>2, CommitHandsOver
  <1>2. ASSUME NEW gone \in SUBSET Keys, ExpireGrace(gone, outcome)
        PROVE  HandoverInv' /\ [Handover!HandoverNext]_(Handover!handoverVars)
    <2> DEFINE next == Expired(mem, gone)
    <2>1. next \in Store /\ next.current = mem.current /\ next.keys[mem.current] # "none"
      BY <1>0, <1>2 DEF ExpireGrace, Expired, Store, LocalStatus
    <2>2. Commit(next, outcome) /\ UNCHANGED srv
      BY <1>2 DEF ExpireGrace
    <2> HIDE DEF next
    <2> QED
      BY <2>1, <2>2, CommitHandsOver
  <1>3. CASE Record(outcome)
    <2> DEFINE next == Prepared(mem)
    <2>1. next \in Store /\ next.current = mem.current /\ next.keys[mem.current] # "none"
      BY <1>0 DEF Prepared, Store
    <2>2. Commit(next, outcome) /\ UNCHANGED srv
      BY <1>3 DEF Record
    <2> HIDE DEF next
    <2> QED
      BY <2>1, <2>2, CommitHandsOver
  <1>4. CASE Mark(outcome)
    <2> DEFINE next == Confirmed(mem)
    <2>1. next \in Store /\ next.current = mem.current /\ next.keys[mem.current] # "none"
      BY <1>0 DEF Confirmed, Store
    <2>2. Commit(next, outcome) /\ UNCHANGED srv
      BY <1>4 DEF Mark
    <2> HIDE DEF next
    <2> QED
      BY <2>1, <2>2, CommitHandsOver
  <1>5. CASE Activate(outcome)
    <2> DEFINE next == Activated(mem)
    <2>0. mem.confirmed /\ mem.pend \in Keys
      BY <1>5 DEF Activate, RotationInv, StepOK, TypeOK, Store
    <2>1. next \in Store /\ next.current = mem.pend /\ next.keys[mem.current] # "none"
      BY <1>0, <2>0 DEF Activated, Store, LocalStatus
    <2>2. Commit(next, outcome) /\ UNCHANGED srv
      BY <1>5 DEF Activate
    <2> HIDE DEF next
    <2> QED
      BY <2>0, <2>1, <2>2, CommitHandsOver
  <1>6. CASE Discard(outcome)
    <2> DEFINE next == Discarded(mem)
    <2>0. mem.pend \in Keys /\ mem.pend # mem.current
      BY <1>6 DEF Discard, RotationInv, StepOK, StoreOK, TypeOK, Store
    <2>1. next \in Store /\ next.current = mem.current /\ next.keys[mem.current] # "none"
      BY <1>0, <2>0 DEF Discarded, Store, LocalStatus
    <2>2. Commit(next, outcome) /\ UNCHANGED srv
      BY <1>6 DEF Discard
    <2> HIDE DEF next
    <2> QED
      BY <2>1, <2>2, CommitHandsOver
  <1> QED
    BY <1>1, <1>2, <1>3, <1>4, <1>5, <1>6

\* A restart takes up what the file says: the current key or the active one.
LEMMA RestartHandsOver ==
  ASSUME RotationInv, RotationInv', HandoverInv, NodeRestart
  PROVE  HandoverInv' /\ [Handover!HandoverNext]_(Handover!handoverVars)
  <1>1. mem' = disk /\ disk' = disk /\ srv' = srv
    BY DEF NodeRestart
  <1>2. disk.current \in Keys /\ disk.keys[disk.current] # "none"
    BY DEF RotationInv, TypeOK, StoreOK, Store
  <1>3. HandoverInv'
    BY <1>1, <1>2 DEF HandoverInv
  <1>4. mem.confirmed => mem.pend \in Keys /\ srv[mem.pend] = "ACTIVE"
    BY DEF RotationInv, StoreOK, TypeOK, Store
  <1>5. /\ disk.current \in {mem.current, ActiveKey}
        /\ ActiveKey \in Keys /\ disk.keys[ActiveKey] # "none"
    BY <1>4, ActiveIs DEF HandoverInv
  <1>6. ActiveKey' = ActiveKey
    BY <1>1 DEF ActiveKey
  <1>7. PICK key \in Keys : key = disk.current
    BY <1>2
  <1>8. Handover!NodeStores(key)
    BY <1>1, <1>2, <1>5, <1>6, <1>7 DEF Handover!NodeStores
  <1>9. Handover!HandoverNext
    BY <1>8 DEF Handover!HandoverNext
  <1> QED
    BY <1>3, <1>9

\* The rotation implements the handover: whatever is lost, late, written halfway or
\* restarted, the server passes from key to key only forward and only to a key of
\* the node's file, the node follows it, and no key that one of them relies on leaves
\* the file (rotation.go RotateOnce, Recover and cleanupExpired, identity.go
\* commitLocked).
THEOREM RotationHandsOver == RotationSpec => ImplementsHandover
  <1>1. RotationInit => HandoverInv /\ Handover!HandoverInit
    <2> SUFFICES ASSUME RotationInit PROVE HandoverInv /\ Handover!HandoverInit
      OBVIOUS
    <2>1. HandoverInv
      BY RotationAssumption DEF RotationInit, HandoverInv
    <2>2. ActiveKey = FirstKey
      BY RotationAssumption DEF RotationInit, ActiveKey
    <2>3. /\ {k \in Keys : srv[k] \in {"GRACE", "DEAD"}} = {}
          /\ {k \in Keys : disk.keys[k] # "none"} = {FirstKey}
          /\ mem.current = FirstKey
      BY RotationAssumption DEF RotationInit
    <2> QED
      BY <2>1, <2>2, <2>3 DEF Handover!HandoverInit
  <1>2. RotationInv /\ RotationInv' /\ HandoverInv /\ [RotationNext]_rotationVars
           => HandoverInv' /\ [Handover!HandoverNext]_(Handover!handoverVars)
    <2> SUFFICES ASSUME RotationInv, RotationInv', HandoverInv, [RotationNext]_rotationVars
                 PROVE  HandoverInv' /\ [Handover!HandoverNext]_(Handover!handoverVars)
      OBVIOUS
    <2>1. CASE Server
      BY <2>1, RequestHandsOver
    <2>2. CASE Rotation
      <3>1. CASE Recover \/ \E answered \in BOOLEAN : Query(answered)
        <4>1. UNCHANGED <<mem, disk, srv>>
          BY <3>1 DEF Recover, Query, storeVars
        <4> QED
          BY <4>1, UnseenHandsOver
      <3> QED
        BY <2>2, <3>1, RequestHandsOver, WriteHandsOver DEF Rotation
    <2>3. CASE Wss \/ UNCHANGED rotationVars
      <3>1. UNCHANGED <<mem, disk, srv>>
        BY <2>3
        DEF Wss, Authenticate, RefreshToken, RefreshRejected, SessionEnds, storeVars, rotationVars
      <3> QED
        BY <3>1, UnseenHandsOver
    <2>4. CASE NodeRestart
      BY <2>4, RestartHandsOver
    <2> QED
      BY <2>1, <2>2, <2>3, <2>4 DEF RotationNext
  <1> QED
    BY <1>1, <1>2, RotationInvariance, PTL DEF RotationSpec, ImplementsHandover, Handover!HandoverSpec
=============================================================================
