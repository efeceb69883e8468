----------------------------- MODULE Enrollment -----------------------------
(***************************************************************************)
(* How a node gets its identity: the identity file made before any request *)
(* (identity/identity.go, securefile/securefile.go), the one-time token    *)
(* left by the console (webui/server.go, webui/store.go), the challenge    *)
(* and the registration that are retried until they end                    *)
(* (enrollment/enrollment.go).                                             *)
(*                                                                         *)
(* The server is external: the token is good for one identity and name,    *)
(* and a second registration with the same ones gets the same node.  The   *)
(* identity file has two contents: `idFile`, what a program reads, and     *)
(* `safeFile`, what a power loss leaves; SyncDir makes them agree.         *)
(***************************************************************************)
EXTENDS Naturals

CONSTANTS
    NodeNames,   \* names the operator may configure
    MaxIds       \* bound: identities that are ever generated

\* Validate refuses a configuration without a name (config/config.go:182).
ASSUME EnrolAssumption == "" \notin NodeNames

VARIABLES
    enrolAt,     \* where run is between Open and the end of EnsureEnrolled
    cfgName,     \* node.name of the configuration
    mem,         \* Store.st
    draft,       \* the state that commitLocked writes
    idFile, safeFile, \* the identity file
    nodeName,    \* Client.nodeName
    token,       \* the bootstrap file is there
    lastId,      \* identities generated so far
    registered,  \* server: identity and name the token was used for, or None
    offered,     \* history: what the server was asked to register
    unsynced     \* history: the first file was read before its rename was synced

fileCopies == <<idFile, safeFile, lastId, unsynced>>
serverVars == <<registered, offered>>
enrolVars == <<enrolAt, cfgName, mem, draft, nodeName, token, fileCopies, serverVars>>

None == [id |-> 0, name |-> "", node |-> FALSE]

Proof(st, name) == [id |-> st.id, name |-> name]

EnrolInit ==
    /\ enrolAt = "off" /\ cfgName \in NodeNames
    /\ mem = None /\ draft = None /\ idFile = None /\ safeFile = None
    /\ nodeName = "" /\ token = TRUE /\ lastId = 0
    /\ registered = Proof(None, "") /\ offered = {} /\ unsynced = FALSE

-----------------------------------------------------------------------------
(* The console *)

\* handleConfig, PUT.
Configure ==
    /\ cfgName' \in NodeNames
    /\ UNCHANGED <<enrolAt, mem, draft, nodeName, token, fileCopies, serverVars>>

\* handleSetupBootstrap: the token is written and synced before the
\* configuration is validated and saved, either of which may fail.
SetupBootstrap ==
    /\ token' = TRUE
    /\ cfgName' \in NodeNames
    /\ UNCHANGED <<enrolAt, mem, draft, nodeName, fileCopies, serverVars>>

-----------------------------------------------------------------------------
(* Open *)

\* Faulty variant: New keeps the configured name.
NameConfigured(st) == cfgName

\* New: the name the file was made with wins over the configured one.
NameOf(st) == IF st.name # "" THEN st.name ELSE cfgName

\* The file is there: it is read as it is, synced or not.
OpenExisting ==
    /\ enrolAt = "off" /\ idFile # None
    /\ mem' = idFile /\ nodeName' = NameOf(idFile)
    /\ unsynced' = (unsynced \/ safeFile = None)
    /\ enrolAt' = "enroll"
    /\ UNCHANGED <<cfgName, draft, token, idFile, safeFile, lastId, serverVars>>

\* There is none: a key pair and an enrolment id are generated.
OpenNew ==
    /\ enrolAt = "off" /\ idFile = None /\ lastId < MaxIds
    /\ lastId' = lastId + 1
    /\ draft' = [id |-> lastId', name |-> cfgName, node |-> FALSE]
    /\ enrolAt' = "create"
    /\ UNCHANGED <<cfgName, mem, nodeName, token, idFile, safeFile, unsynced, serverVars>>

\* WriteFileAtomic up to its rename, for either of the two writers.
Rename ==
    /\ \/ enrolAt = "create" /\ enrolAt' = "createSync"
       \/ enrolAt = "apply" /\ enrolAt' = "applySync"
    /\ idFile' = draft
    /\ UNCHANGED <<cfgName, mem, draft, nodeName, token, safeFile, lastId, unsynced, serverVars>>

\* SyncDir succeeds, the new state is published, and New takes its name.
Opened ==
    /\ enrolAt = "createSync"
    /\ safeFile' = idFile
    /\ mem' = draft /\ nodeName' = NameOf(draft)
    /\ enrolAt' = "enroll"
    /\ UNCHANGED <<cfgName, draft, token, idFile, lastId, unsynced, serverVars>>

\* Any step of the write fails: run ends; a renamed file stays.
OpenFails ==
    /\ enrolAt \in {"create", "createSync"}
    /\ enrolAt' = "off"
    /\ UNCHANGED <<cfgName, mem, draft, nodeName, token, fileCopies, serverVars>>

-----------------------------------------------------------------------------
(* EnsureEnrolled *)

\* Enrolled: the state in memory has a node and a key.
AlreadyEnrolled ==
    /\ enrolAt = "enroll" /\ mem.node
    /\ enrolAt' = "enrolled"
    /\ UNCHANGED <<cfgName, mem, draft, nodeName, token, fileCopies, serverVars>>

Mine == registered \in {Proof(None, ""), Proof(mem, nodeName)}

\* The token is read and a challenge asked for and received ...
RequestChallenge ==
    /\ enrolAt = "enroll" /\ ~mem.node /\ token /\ Mine
    /\ enrolAt' = "submit"
    /\ UNCHANGED <<cfgName, mem, draft, nodeName, token, fileCopies, serverVars>>

\* ... and the signed proof registers the node; its answer may be lost.
Submit ==
    /\ enrolAt = "submit" /\ Mine
    /\ registered' = Proof(mem, nodeName)
    /\ offered' = offered \cup {Proof(mem, nodeName)}
    /\ enrolAt' \in {"answered", "backoff"}
    /\ UNCHANGED <<cfgName, mem, draft, nodeName, token, fileCopies>>

\* 401 or 403 ends EnsureEnrolled, and with it the run.
Denied ==
    /\ enrolAt \in {"enroll", "submit"} /\ ~mem.node /\ token /\ ~Mine
    /\ offered' = IF enrolAt = "submit" THEN offered \cup {Proof(mem, nodeName)} ELSE offered
    /\ enrolAt' = "off"
    /\ UNCHANGED <<cfgName, mem, draft, nodeName, token, fileCopies, registered>>

\* No token, no answer, an expired challenge, a malformed or a 5xx answer.
AttemptFails ==
    /\ enrolAt \in {"enroll", "submit"} /\ ~mem.node
    /\ enrolAt' = "backoff"
    /\ UNCHANGED <<cfgName, mem, draft, nodeName, token, fileCopies, serverVars>>

Retry ==
    /\ enrolAt = "backoff"
    /\ enrolAt' = "enroll"
    /\ UNCHANGED <<cfgName, mem, draft, nodeName, token, fileCopies, serverVars>>

\* ApplyEnrollment copies the state, writes the copy ...
ApplyBegins ==
    /\ enrolAt = "answered"
    /\ draft' = [mem EXCEPT !.node = TRUE]
    /\ enrolAt' = "apply"
    /\ UNCHANGED <<cfgName, mem, nodeName, token, fileCopies, serverVars>>

\* ... and publishes it once the directory is synced ...
Applied ==
    /\ enrolAt = "applySync"
    /\ safeFile' = idFile
    /\ mem' = draft
    /\ enrolAt' = "consume"
    /\ UNCHANGED <<cfgName, draft, nodeName, token, idFile, lastId, unsynced, serverVars>>

\* ... or leaves memory as it was, whatever the file is by then.
ApplyFails ==
    /\ enrolAt \in {"apply", "applySync"}
    /\ enrolAt' = "backoff"
    /\ UNCHANGED <<cfgName, mem, draft, nodeName, token, fileCopies, serverVars>>

\* ConsumeToken removes the token; an error is only logged.
ConsumeToken ==
    /\ enrolAt = "consume"
    /\ token' \in {FALSE, token}
    /\ enrolAt' = "enrolled"
    /\ UNCHANGED <<cfgName, mem, draft, nodeName, fileCopies, serverVars>>

-----------------------------------------------------------------------------
(* The run is stopped or the process dies; the machine loses power: the    *)
(* rename that was not synced is lost, the removed token may be back.      *)

Stop ==
    /\ enrolAt # "off"
    /\ enrolAt' = "off"
    /\ UNCHANGED <<cfgName, mem, draft, nodeName, token, fileCopies, serverVars>>

PowerLoss ==
    /\ enrolAt' = "off" /\ idFile' = safeFile
    /\ token' \in {token, TRUE}
    /\ UNCHANGED <<cfgName, mem, draft, nodeName, safeFile, lastId, unsynced, serverVars>>

-----------------------------------------------------------------------------
EnrolNext ==
    \/ Configure \/ SetupBootstrap
    \/ OpenExisting \/ OpenNew \/ Rename \/ Opened \/ OpenFails
    \/ AlreadyEnrolled \/ RequestChallenge \/ Submit \/ Denied \/ AttemptFails \/ Retry
    \/ ApplyBegins \/ Applied \/ ApplyFails \/ ConsumeToken
    \/ Stop \/ PowerLoss

EnrolSpec == EnrolInit /\ [][EnrolNext]_enrolVars

-----------------------------------------------------------------------------
\* The node the server knows is the one the next start will claim.
RegistrationIsOurs ==
    registered # Proof(None, "") => Proof(safeFile, safeFile.name) = registered

\* The token is only given up for an identity that survives everything.
TokenIsSpent == ~token => safeFile.node

\* A node never turns into a second one (enrollment.go:1-4): whatever answer
\* is lost, whatever write fails, whenever the process dies, the power fails
\* or the operator renames the node, the token is only ever offered with one
\* identity and name, the ones on stable storage, and removed only when these
\* are known to be enrolled.  The exception is a first identity file that was
\* read before its rename was synced, for Open does not sync what it finds.
OneNodePerToken ==
    /\ TokenIsSpent
    /\ ~unsynced => RegistrationIsOurs /\ offered \subseteq {registered}
=============================================================================
