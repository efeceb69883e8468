---------------------------- MODULE KeyRotation ----------------------------
(***************************************************************************)
(* Two-phase rotation of the node's identity key: identity/identity.go     *)
(* (the durable key store), rotation/rotation.go (prepare, confirm, query, *)
(* activate), and the parts of wss/run.go that choose the key of an        *)
(* authentication.                                                         *)
(*                                                                         *)
(* A key stands for its key pair and for the keyId the server gives it; a  *)
(* rotation is named by its new key.  The store is a record st:            *)
(*   keys       the local status of every key, "none" when not in the file *)
(*   current    CurrentKeyID                                               *)
(*   pend       PendingRotation (NoKey: nil)                               *)
(*   known      PendingRotation.NewKeyID is recorded                       *)
(*   confirmed  PendingRotation.Confirmed                                  *)
(* Every change of it is copy, persist, publish: mem is what the process   *)
(* uses, disk what a restart loads.  The rotation manager is one goroutine *)
(* (step), the WSS session runs beside it.  HTTP requests may be lost,     *)
(* answered into the void, or arrive after the client has given up (wire). *)
(* The server is external, modelled from what the code says of it: prepare *)
(* is idempotent per rotation, confirm activates the new key and moves the *)
(* old one to a grace period, an unconfirmed rotation may expire, and only *)
(* active and grace keys authenticate.                                     *)
(***************************************************************************)
EXTENDS Integers

CONSTANTS
    Keys,        \* key pairs the node may ever generate
    FirstKey,    \* the key of the enrolment
    NoKey,       \* no key
    MaxRestarts  \* bound on the number of times a running process ends

ASSUME RotationAssumption ==
    /\ FirstKey \in Keys /\ NoKey \notin Keys
    /\ MaxRestarts \in Nat

VARIABLES
    mem, disk,   \* the identity store in memory and in its file
    step,        \* what the rotation manager does next
    cred,        \* the key the access token is bound to
    session,     \* "off", "on", or "failed": the node has stopped
    srv,         \* server: status of every key
    wire,        \* late requests: <<"prepare", k>> and <<"confirm", k>>
    restarts

rotationVars == <<mem, disk, step, cred, session, srv, wire, restarts>>
storeVars == <<mem, disk>>
nodeVars == <<cred, session, restarts>>

LocalStatus == {"none", "ACTIVE", "GRACE", "PENDING"}
ServerStatus == {"none", "PENDING", "ACTIVE", "GRACE", "DEAD", "EXPIRED"}
Steps == {"idle", "prepare", "record", "confirm", "query", "mark", "activate", "discard"}
Store == [keys : [Keys -> LocalStatus], current : Keys, pend : Keys \cup {NoKey},
          known : BOOLEAN, confirmed : BOOLEAN]

-----------------------------------------------------------------------------
(* The store: what each operation makes of a state *)

\* BeginRotation, with a new key pair
Begun(st, k) == [st EXCEPT !.keys[k] = "PENDING", !.pend = k,
                           !.known = FALSE, !.confirmed = FALSE]

\* RecordRotationPrepared
Prepared(st) == [st EXCEPT !.known = TRUE]

\* MarkRotationConfirmed
Confirmed(st) == [st EXCEPT !.confirmed = TRUE]

\* ActivateRotatedKey
Activated(st) == [st EXCEPT !.keys[st.current] = "GRACE", !.keys[st.pend] = "ACTIVE",
                            !.current = st.pend, !.pend = NoKey,
                            !.known = FALSE, !.confirmed = FALSE]

\* DiscardPendingRotation
Discarded(st) == IF st.confirmed THEN st
                 ELSE [st EXCEPT !.keys[st.pend] = "none", !.pend = NoKey, !.known = FALSE]

\* ExpireGrace: every key whose grace period is over goes in one write.
Expired(st, gone) ==
    [st EXCEPT !.keys = [k \in Keys |-> IF k \in gone THEN "none" ELSE st.keys[k]]]

\* commitLocked: the write succeeds, fails before the rename, or fails after it,
\* when the file already has the new content but memory keeps the old one.
Outcomes == {"ok", "failed", "renamed"}
Commit(next, outcome) ==
    /\ mem' = IF outcome = "ok" THEN next ELSE mem
    /\ disk' = IF outcome = "failed" THEN disk ELSE next

-----------------------------------------------------------------------------
(* The server (external) *)

Accepts(k) == k \in Keys /\ srv[k] \in {"ACTIVE", "GRACE"}

SrvPrepare(k) == IF srv[k] = "none" THEN [srv EXCEPT ![k] = "PENDING"] ELSE srv

SrvConfirm(k) ==
    IF srv[k] = "PENDING"
    THEN [j \in Keys |-> IF j = k THEN "ACTIVE"
                         ELSE IF srv[j] = "ACTIVE" THEN "GRACE" ELSE srv[j]]
    ELSE srv

\* A pending rotation is not confirmed in time.
RotationExpires(k) ==
    /\ srv[k] = "PENDING"
    /\ srv' = [srv EXCEPT ![k] = "EXPIRED"]
    /\ UNCHANGED <<storeVars, step, nodeVars, wire>>

\* The grace period of an old key ends.
GraceEnds(k) ==
    /\ srv[k] = "GRACE"
    /\ srv' = [srv EXCEPT ![k] = "DEAD"]
    /\ UNCHANGED <<storeVars, step, nodeVars, wire>>

\* A request whose client has given up is processed after all.
LateRequest(kind, k) ==
    /\ <<kind, k>> \in wire
    /\ srv' = IF kind = "prepare" THEN SrvPrepare(k) ELSE SrvConfirm(k)
    /\ wire' = wire \ {<<kind, k>>}
    /\ UNCHANGED <<storeVars, step, nodeVars>>

-----------------------------------------------------------------------------
(* The rotation manager *)

\* SignWithCredential: signed HTTPS uses the key the token is bound to.
CanSign ==
    \/ cred \in Keys /\ mem.keys[cred] \in {"ACTIVE", "GRACE"}
    \/ cred # NoKey /\ mem.pend = cred /\ mem.known

Running == session # "failed" /\ cred # NoKey

\* RotateOnce without a pending rotation: the new key is on disk before the
\* server hears of it.
Begin(k, outcome) ==
    /\ Running /\ step = "idle" /\ mem.pend = NoKey
    /\ srv[k] = "none" /\ mem.keys[k] = "none" /\ disk.keys[k] = "none"
    /\ Commit(Begun(mem, k), outcome)
    /\ step' = IF outcome = "ok" THEN "prepare" ELSE "idle"
    /\ UNCHANGED <<nodeVars, srv, wire>>

\* RotateOnce and Recover with a pending rotation: where to go on.
Recover ==
    /\ Running /\ step = "idle" /\ mem.pend # NoKey
    /\ step' = IF mem.confirmed THEN "activate"
               ELSE IF mem.known THEN "confirm" ELSE "prepare"
    /\ UNCHANGED <<storeVars, nodeVars, srv, wire>>

\* The request of prepare: answered; processed but the answer is lost; or not
\* processed, at least not yet.
Prepare(answered, processed) ==
    /\ Running /\ step = "prepare"
    /\ answered => processed
    /\ processed => CanSign /\ Accepts(cred)
    /\ srv' = IF processed THEN SrvPrepare(mem.pend) ELSE srv
    /\ wire' = IF CanSign /\ ~processed THEN wire \cup {<<"prepare", mem.pend>>} ELSE wire
    /\ step' = IF answered THEN "record" ELSE "idle"
    /\ UNCHANGED <<storeVars, nodeVars>>

\* Faulty variant: the keyId is kept in memory only.
RecordInMemory(outcome) ==
    /\ Running /\ step = "record"
    /\ mem' = Prepared(mem)
    /\ step' = "confirm"
    /\ UNCHANGED <<disk, nodeVars, srv, wire>>

\* RecordRotationPrepared in prepare: the keyId is on disk before the confirm.
Record(outcome) ==
    /\ Running /\ step = "record"
    /\ Commit(Prepared(mem), outcome)
    /\ step' = IF outcome = "ok" THEN "confirm" ELSE "idle"
    /\ UNCHANGED <<nodeVars, srv, wire>>

\* Faulty variants: any other answer counts as a confirmation, or as a refusal.
AfterStatusOptimistic(status) == IF status = "EXPIRED" THEN "discard" ELSE "mark"
AfterStatusImpatient(status) == IF status = "ACTIVE" THEN "mark" ELSE "discard"

\* Where an answer about the rotation leads, in confirmOnce and in query.
AfterStatus(status) ==
    CASE status = "ACTIVE" -> "mark"
      [] status = "EXPIRED" -> "discard"
      [] OTHER -> "idle"

\* The request of confirmOnce, like Prepare; without an answer the state is queried.
Confirm(answered, processed) ==
    /\ Running /\ step = "confirm"
    /\ answered => processed
    /\ processed => CanSign /\ Accepts(cred)
    /\ srv' = IF processed THEN SrvConfirm(mem.pend) ELSE srv
    /\ wire' = IF CanSign /\ ~processed THEN wire \cup {<<"confirm", mem.pend>>} ELSE wire
    /\ step' = IF answered THEN AfterStatus(srv'[mem.pend]) ELSE "query"
    /\ UNCHANGED <<storeVars, nodeVars>>

\* The request of query; a rotation that is still pending is retried later.
Query(answered) ==
    /\ Running /\ step = "query"
    /\ answered => CanSign /\ Accepts(cred)
    /\ step' = IF answered THEN AfterStatus(srv[mem.pend]) ELSE "idle"
    /\ UNCHANGED <<storeVars, nodeVars, srv, wire>>

Mark(outcome) ==
    /\ Running /\ step = "mark"
    /\ Commit(Confirmed(mem), outcome)
    /\ step' = IF outcome = "ok" THEN "activate" ELSE "idle"
    /\ UNCHANGED <<nodeVars, srv, wire>>

Activate(outcome) ==
    /\ Running /\ step = "activate"
    /\ Commit(Activated(mem), outcome)
    /\ step' = "idle"
    /\ UNCHANGED <<nodeVars, srv, wire>>

Discard(outcome) ==
    /\ Running /\ step = "discard"
    /\ Commit(Discarded(mem), outcome)
    /\ step' = "idle"
    /\ UNCHANGED <<nodeVars, srv, wire>>

\* cleanupExpired: the local clock decides when, so it may happen at any time.
ExpireGrace(gone, outcome) ==
    /\ Running /\ step = "idle"
    /\ gone # {} /\ \A k \in gone : mem.keys[k] = "GRACE"
    /\ Commit(Expired(mem, gone), outcome)
    /\ UNCHANGED <<step, nodeVars, srv, wire>>

-----------------------------------------------------------------------------
(* The WSS session *)

\* Faulty variant: a pending key is never tried.
CandidatesCurrentOnly(st) == {st.current}

\* authCandidates: the current key, then a pending key with a known keyId.
Candidates(st) == {st.current} \cup (IF st.known THEN {st.pend} ELSE {})

\* session: the candidates in turn, each on a connection of its own; the token
\* is bound to the first one that the server accepts.
Authenticate ==
    /\ session = "off"
    /\ \E k \in Candidates(mem) :
        /\ Accepts(k)
        /\ k = mem.current \/ ~Accepts(mem.current)
        /\ cred' = k
    /\ session' = "on"
    /\ UNCHANGED <<storeVars, step, srv, wire, restarts>>

\* refresh: on the live session only the current key is tried.
RefreshToken ==
    /\ session = "on" /\ Accepts(mem.current)
    /\ cred' = mem.current
    /\ UNCHANGED <<storeVars, step, session, srv, wire, restarts>>

\* A rejected refresh ends Run for good, and the node stops.
RefreshRejected ==
    /\ session = "on" /\ ~Accepts(mem.current)
    /\ session' = "failed"
    /\ UNCHANGED <<storeVars, step, cred, srv, wire, restarts>>

SessionEnds ==
    /\ session = "on"
    /\ session' = "off"
    /\ UNCHANGED <<storeVars, step, cred, srv, wire, restarts>>

\* The process ends in any way and starts again, or the operator starts the
\* failed node again.
NodeRestart ==
    /\ IF session = "failed" THEN UNCHANGED restarts
       ELSE restarts < MaxRestarts /\ restarts' = restarts + 1
    /\ mem' = disk
    /\ step' = "idle" /\ cred' = NoKey /\ session' = "off"
    /\ UNCHANGED <<disk, srv, wire>>

RotationInit ==
    /\ mem = [keys |-> [k \in Keys |-> IF k = FirstKey THEN "ACTIVE" ELSE "none"],
              current |-> FirstKey, pend |-> NoKey, known |-> FALSE, confirmed |-> FALSE]
    /\ disk = mem
    /\ step = "idle" /\ cred = NoKey /\ session = "off" /\ restarts = 0
    /\ srv = [k \in Keys |-> IF k = FirstKey THEN "ACTIVE" ELSE "none"]
    /\ wire = {}

Server ==
    \/ \E k \in Keys : RotationExpires(k) \/ GraceEnds(k)
    \/ \E kind \in {"prepare", "confirm"}, k \in Keys : LateRequest(kind, k)

Rotation ==
    \/ Recover
    \/ \E k \in Keys, outcome \in Outcomes : Begin(k, outcome)
    \/ \E gone \in SUBSET Keys, outcome \in Outcomes : ExpireGrace(gone, outcome)
    \/ \E answered, processed \in BOOLEAN :
            Prepare(answered, processed) \/ Confirm(answered, processed)
    \/ \E answered \in BOOLEAN : Query(answered)
    \/ \E outcome \in Outcomes :
            Record(outcome) \/ Mark(outcome) \/ Activate(outcome) \/ Discard(outcome)

Wss == Authenticate \/ RefreshToken \/ RefreshRejected \/ SessionEnds

RotationNext == Server \/ Rotation \/ Wss \/ NodeRestart

RotationSpec == RotationInit /\ [][RotationNext]_rotationVars

-----------------------------------------------------------------------------
(* Properties *)

\* Every variable keeps its type.
TypeOK ==
    /\ mem \in Store /\ disk \in Store
    /\ step \in Steps
    /\ cred \in Keys \cup {NoKey}
    /\ session \in {"off", "on", "failed"}
    /\ srv \in [Keys -> ServerStatus]
    /\ wire \subseteq {"prepare", "confirm"} \X Keys
    /\ restarts \in 0..MaxRestarts

\* README.md:53, rotation.go:3: the key the server regards as active is always
\* one the node can authenticate with, in the running process and after a
\* restart from its file: no lost or late message, failed write or crash locks
\* the node out or deletes its only usable key.
NeverLockedOut ==
    \A st \in {mem, disk} : \A k \in Keys :
        srv[k] = "ACTIVE" => k \in Candidates(st) /\ st.keys[k] \in {"ACTIVE", "PENDING"}

\* The node switches to a key only after the server has activated it.
NoPrematureSwitch ==
    \A st \in {mem, disk} : srv[st.current] \in {"ACTIVE", "GRACE", "DEAD"}

\* A private key leaves the file only when the server cannot ask for it any
\* more: never that of the active key or of a rotation the server holds open.
KeyNotDroppedEarly ==
    [][\A k \in Keys : disk.keys[k] # "none" /\ disk'.keys[k] = "none" =>
            srv[k] \notin {"PENDING", "ACTIVE"}]_rotationVars

\* The key that is active on the server; there is always one.
ActiveKey == CHOOSE k \in Keys : srv[k] = "ACTIVE"

Handover == INSTANCE KeyHandover WITH
    active <- ActiveKey,
    past <- {k \in Keys : srv[k] \in {"GRACE", "DEAD"}},
    current <- mem.current,
    kept <- {k \in Keys : disk.keys[k] # "none"}

\* Two phases, lost and late requests, failed writes and restarts together look
\* like one handover: the server activates only what the node's file holds and
\* never returns to an old key, and the node's current key follows the server's
\* one by one, also over a restart.
ImplementsHandover == Handover!HandoverSpec

-----------------------------------------------------------------------------
(* The inductive invariant behind the properties *)

\* What holds of the store, in memory and on disk: the local statuses agree with
\* the roles of the keys, and a confirmed rotation is active on the server.
StoreOK(st) ==
    /\ st.keys[st.current] = "ACTIVE"
    /\ srv[st.current] \in {"ACTIVE", "GRACE", "DEAD"}
    /\ st.pend # NoKey => st.keys[st.pend] = "PENDING"
    /\ st.known => st.pend # NoKey /\ srv[st.pend] # "none"
    /\ st.confirmed => st.known /\ srv[st.pend] = "ACTIVE"
    /\ \A k \in Keys : st.keys[k] = "GRACE" => srv[k] \in {"GRACE", "DEAD"}
    /\ \A k \in Keys : srv[k] = "ACTIVE" => k \in Candidates(st)

\* The server has one active key, and an open rotation is the one of the node.
ServerOK ==
    /\ \A j, k \in Keys : srv[j] = "ACTIVE" /\ srv[k] = "ACTIVE" => j = k
    /\ \A k \in Keys : srv[k] = "PENDING" => mem.pend = k

\* What the rotation manager knows when it takes a step.
StepOK ==
    /\ step # "idle" => mem.pend # NoKey
    /\ step = "record" => srv[mem.pend] # "none"
    /\ step \in {"confirm", "query", "mark"} => mem.known
    /\ step = "mark" => srv[mem.pend] = "ACTIVE"
    /\ step = "activate" => mem.confirmed
    /\ step = "discard" => srv[mem.pend] = "EXPIRED"

\* As long as the server may still open or activate the rotation, the file
\* knows all that memory knows of it; other keys of the file are in memory too,
\* except one the server has never heard of.
FileOK ==
    /\ mem.pend # NoKey /\ srv[mem.pend] \in {"none", "PENDING"} =>
            disk.pend = mem.pend /\ (mem.known => disk.known)
    /\ \A k \in Keys : mem.keys[k] = "none" /\ disk.keys[k] # "none" => srv[k] = "none"

\* A late request can only concern the rotation the node still keeps.
WireOK ==
    \A k \in Keys :
        /\ <<"prepare", k>> \in wire /\ srv[k] = "none" => mem.pend = k
        /\ <<"confirm", k>> \in wire /\ srv[k] \in {"none", "PENDING"} => mem.pend = k /\ mem.known

\* The conjunction that every step preserves: with it the promises above hold
\* for any number of keys and restarts.
RotationInv ==
    /\ TypeOK
    /\ StoreOK(mem) /\ StoreOK(disk)
    /\ ServerOK /\ StepOK /\ FileOK /\ WireOK

-----------------------------------------------------------------------------
(* Liveness *)

\* The session reconnects and refreshes its token; the manager starts as soon
\* as there is a token and retries every two seconds (nextDue), long before the
\* refresh that may fail the node; the operator starts a failed node again; a
\* request that is repeated for ever is answered some time, and a repeated
\* write succeeds some time.
RotationFairness ==
    /\ WF_rotationVars(Authenticate) /\ WF_rotationVars(RefreshToken \/ RefreshRejected)
    /\ WF_rotationVars(NodeRestart /\ session = "failed")
    /\ SF_rotationVars(Recover)
    /\ WF_rotationVars(\E answered, processed \in BOOLEAN :
                    Prepare(answered, processed) \/ Confirm(answered, processed))
    /\ WF_rotationVars(\E answered \in BOOLEAN : Query(answered))
    /\ SF_rotationVars(Prepare(TRUE, TRUE)) /\ SF_rotationVars(Confirm(TRUE, TRUE))
    /\ SF_rotationVars(Record("ok")) /\ SF_rotationVars(Mark("ok"))
    /\ SF_rotationVars(Activate("ok")) /\ SF_rotationVars(Discard("ok"))

RotationLiveSpec == RotationSpec /\ RotationFairness

\* rotation.go:3: every rotation comes to an end, from every crash point and
\* after any loss of messages: the new key is activated or discarded.
RotationResolves == \A k \in Keys : mem.pend = k ~> mem.pend # k
=============================================================================
