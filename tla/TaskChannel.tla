---------------------------- MODULE TaskChannel ----------------------------
(***************************************************************************)
(* The path of a judge attempt through one node: TASK_ASSIGN on the WSS    *)
(* session (internal/hnieoj/wss), the registry of attempts in flight       *)
(* (tasks/registry.go), the assignment channel, the worker pool            *)
(* (worker/worker.go), the duplicate guard of the processor and the        *)
(* durable result queue, across disconnects, RESUME_TASKS, cancels, drain  *)
(* and restarts.                                                           *)
(*                                                                         *)
(* Goroutines: one reader per session (handleAssign, handleCancel,         *)
(* NODE_STATE run in it, one after the other), one worker per slot, the    *)
(* result loop, and the two goroutines that react to a local stop.  The    *)
(* reader and the workers interleave wherever the code leaves a lock:      *)
(* handleAssign between its admission checks and registry.Start, and       *)
(* registry.Complete between its table update and the doneObserver that    *)
(* releases the reservation.  The server is external: it may assign,       *)
(* repeat, cancel, drain, answer RESUME_TASKS in any way and acknowledge   *)
(* results whenever the connection allows it.                              *)
(*                                                                         *)
(* The queue is used through the actions of ResultStore, which ResultQueue *)
(* (with the bytes, the files and the crashes) implements.                 *)
(* Leases are in LeaseRenewal; here a lease check may go either way.       *)
(***************************************************************************)
EXTENDS Integers, FiniteSets, Sequences

CONSTANTS
    Attempts,    \* (submissionId, judgeTaskId, attemptId)
    TaskOf,      \* TaskOf[a]: the (submissionId, judgeTaskId) of attempt a
    Workers,     \* slots of the pool; their number is Node.MaxConcurrency
    MaxRecords,  \* capacity of the result queue
    None         \* no attempt

LocalConcurrency == Cardinality(Workers)

ASSUME ChannelAssumption ==
    /\ IsFiniteSet(Workers) /\ Workers # {}
    /\ MaxRecords \in Nat \ {0}
    /\ None \notin Attempts

VARIABLES
    conn,           \* session: "off", "auth", "resuming" or "ready"
    approved,       \* approvedSlots(): what the last AUTH_OK allows, within the local limit
    asked,          \* attempts in flight listed in the RESUME_TASKS that waits for its answer
    entries,        \* registry.entries
    cancelled,      \* entries whose context is cancelled
    done,           \* registry.done
    assignCh,       \* c.assignCh
    admitting,      \* attempt between the checks of handleAssign and registry.Start
    pc, held,       \* worker w: where runTask is, and with which attempt
    records,        \* ids with a durable terminal result
    reservations,   \* ids with reserved capacity
    degraded,       \* the queue stopped after a failed write
    unsure,         \* ids of which the next start may or may not find a result: a write
                    \* failed, or a removal was not made durable
    localDraining, remoteDraining,
    poolStopped,    \* claimCtx is cancelled
    owned,          \* history: entries assigned or resumed by the server in the session
                    \* that is up (whose sessionEpoch they carry)
    readmitted      \* history: attempts in flight that were admitted while an earlier
                    \* result of the same attempt was still queued

sessionVars == <<conn, approved, asked>>
registryVars == <<entries, cancelled, owned, done>>
workerVars == <<pc, held>>
queueVars == <<records, reservations, degraded, unsure>>
stopVars == <<localDraining, remoteDraining, poolStopped>>
vars == <<sessionVars, registryVars, assignCh, admitting, workerVars, queueVars,
          stopVars, readmitted>>

Results == INSTANCE ResultStore WITH Ids <- Attempts

-----------------------------------------------------------------------------
(* Decisions *)

\* Client.Draining
Draining == localDraining \/ remoteDraining

\* approvedSlots: the server's maxConcurrency within the local configuration.
ApprovedSlots(n) == IF n <= 0 \/ n > LocalConcurrency THEN LocalConcurrency ELSE n

\* Registry.Has
Has(a) == a \in entries \cup done

\* The processor already runs another attempt of the same task (p.inFlight).
InFlightElsewhere(w) ==
    \E v \in Workers \ {w} : pc[v] = "running" /\ TaskOf[held[v]] = TaskOf[held[w]]

\* Snapshot, Len, Start and CancelAll of the registry.  Start is called for an
\* attempt that Has has not found, by the only reader.
Snapshot == entries
InFlight == Cardinality(Snapshot)
RegistryStart(a) == entries' = entries \cup {a} /\ cancelled' = cancelled \ {a}
CancelAll == cancelled' = cancelled \cup entries

ReleaseResultCapacity(a) == Results!Release(a)

-----------------------------------------------------------------------------
(* Session *)

\* A new physical connection: the goroutines of the old one have ended
\* (wg.Wait), so no handleAssign of the old session is under way.
Dial ==
    /\ conn = "off" /\ admitting = None
    /\ conn' = "auth"
    /\ UNCHANGED <<approved, asked, registryVars, assignCh, admitting, workerVars,
                   queueVars, stopVars, readmitted>>

\* AUTH_OK, then RESUME_TASKS with the attempts in flight (and the unacked
\* results, for which the answer changes nothing): a new sessionEpoch begins.
AuthOK(maxConcurrency) ==
    /\ conn = "auth"
    /\ conn' = "resuming"
    /\ approved' = ApprovedSlots(maxConcurrency)
    /\ asked' = Snapshot
    /\ owned' = {}
    /\ UNCHANGED <<entries, cancelled, done, assignCh, admitting, workerVars, queueVars, stopVars,
                   readmitted>>

\* What RESUME_RESULT says of an attempt: "ended" is resumed but completed, or
\* with a lease that is missing or over; "both" is resumed and rejected.
Answers == {"resumed", "ended", "rejected", "both", "omitted"}

\* Faulty variant: an attempt the answer does not mention runs on.
ResumeKeepsOmitted(answer) ==
    LET kept == {a \in DOMAIN answer : answer[a] \in {"resumed", "omitted"}} IN
    /\ conn = "resuming"
    /\ cancelled' = cancelled \cup (DOMAIN answer \ kept)
    /\ owned' = owned \cup {a \in kept : answer[a] = "resumed"}
    /\ conn' = "ready"
    /\ asked' = {}
    /\ UNCHANGED <<approved, entries, done, assignCh, admitting, workerVars, queueVars, stopVars,
                   readmitted>>

\* RESUME_RESULT: of the attempts asked for, the ones still in flight live on
\* only if the server resumes them; all others are cancelled.
ResumeResult(answer) ==
    LET kept == {a \in DOMAIN answer : answer[a] = "resumed"} IN
    /\ conn = "resuming"
    /\ cancelled' = cancelled \cup (DOMAIN answer \ kept)
    /\ owned' = owned \cup kept
    /\ conn' = "ready"
    /\ asked' = {}
    /\ UNCHANGED <<approved, entries, done, assignCh, admitting, workerVars, queueVars, stopVars,
                   readmitted>>

\* AUTH_REFRESH on the live session may change the approved concurrency.
Refresh(maxConcurrency) ==
    /\ conn = "ready"
    /\ approved' = ApprovedSlots(maxConcurrency)
    /\ UNCHANGED <<conn, asked, registryVars, assignCh, admitting, workerVars, queueVars,
                   stopVars, readmitted>>

\* The connection breaks, or the node closes it (failConnection included).
Disconnect ==
    /\ conn # "off"
    /\ conn' = "off" /\ asked' = {} /\ owned' = {}
    /\ UNCHANGED <<approved, entries, cancelled, done, assignCh, admitting, workerVars, queueVars,
                   stopVars, readmitted>>

-----------------------------------------------------------------------------
(* Reader: messages of the server *)

\* Faulty variant: no comparison with the approved concurrency.
AssignChecksUnlimited(a) ==
    /\ conn = "ready" /\ admitting = None
    /\ ~Has(a)
    /\ ~Draining
    /\ Results!Reserve(a)
    /\ admitting' = a
    /\ readmitted' = IF a \in records THEN readmitted \cup {a} ELSE readmitted
    /\ UNCHANGED <<sessionVars, registryVars, assignCh, workerVars, stopVars>>

\* handleAssign up to Reserve.  A known attempt is only acked, a draining node
\* ignores the message, a queue without room answers a retryable ERROR.
AssignChecks(a) ==
    /\ conn = "ready" /\ admitting = None
    /\ ~Has(a)
    /\ ~Draining
    /\ InFlight < approved
    /\ Results!Reserve(a)
    /\ admitting' = a
    /\ readmitted' = IF a \in records THEN readmitted \cup {a} ELSE readmitted
    /\ UNCHANGED <<sessionVars, registryVars, assignCh, workerVars, stopVars>>

\* handleAssign beyond the approved concurrency, or with an unsupported mode.
AssignBeyondApproval(a, modeAllowed) ==
    /\ conn = "ready" /\ admitting = None
    /\ ~Has(a)
    /\ ~Draining
    /\ ~modeAllowed \/ InFlight >= approved
    /\ conn' = "off" /\ asked' = {} /\ owned' = {}
    /\ UNCHANGED <<approved, entries, cancelled, done, assignCh, admitting, workerVars, queueVars,
                   stopVars, readmitted>>

\* handleAssign from registry.Start on: the channel has room (ChannelHasRoom).
AssignPush ==
    /\ admitting # None
    /\ RegistryStart(admitting)
    /\ owned' = IF conn = "ready" THEN owned \cup {admitting} ELSE owned
    /\ assignCh' = Append(assignCh, admitting)
    /\ admitting' = None
    /\ UNCHANGED <<sessionVars, done, workerVars, queueVars, stopVars, readmitted>>

\* Faulty variant: the reservation of an abandoned attempt stays.
AssignAbandonKeepsCapacity ==
    /\ admitting # None /\ conn = "off"
    /\ done' = done \cup {admitting}
    /\ readmitted' = readmitted \ {admitting}
    /\ admitting' = None
    /\ UNCHANGED <<sessionVars, entries, cancelled, owned, assignCh, workerVars, queueVars,
                   stopVars>>

\* The same with the session already closed: select may take s.done, and the
\* attempt is completed without having run.
AssignAbandon ==
    /\ admitting # None /\ conn = "off"
    /\ done' = done \cup {admitting}
    /\ ReleaseResultCapacity(admitting)
    /\ readmitted' = readmitted \ {admitting}
    /\ admitting' = None
    /\ UNCHANGED <<sessionVars, entries, cancelled, owned, assignCh, workerVars, stopVars>>

\* Faulty variant: a cancel takes the attempt out of the registry at once.
CancelForgets(a) ==
    /\ conn # "off" /\ admitting = None
    /\ a \in entries
    /\ entries' = entries \ {a}
    /\ UNCHANGED <<sessionVars, cancelled, owned, done, assignCh, admitting, workerVars,
                   queueVars, stopVars, readmitted>>

\* TASK_CANCEL cancels the context and nothing else.
Cancel(a) ==
    /\ conn # "off" /\ admitting = None
    /\ a \in entries
    /\ cancelled' = cancelled \cup {a}
    /\ UNCHANGED <<sessionVars, entries, owned, done, assignCh, admitting, workerVars,
                   queueVars, stopVars, readmitted>>

\* Faulty variant: the server's state also sets the local flag.
NodeStateOverridesStop(draining) ==
    /\ conn # "off" /\ admitting = None
    /\ remoteDraining' = draining
    /\ localDraining' = draining
    /\ UNCHANGED <<sessionVars, registryVars, assignCh, admitting, workerVars, queueVars,
                   poolStopped, readmitted>>

\* NODE_DRAIN and NODE_STATE change the remote flag only.
NodeState(draining) ==
    /\ conn # "off" /\ admitting = None
    /\ remoteDraining' = draining
    /\ UNCHANGED <<sessionVars, registryVars, assignCh, admitting, workerVars, queueVars,
                   localDraining, poolStopped, readmitted>>

\* OnRevoked: every entry is cancelled (and runCtx, see BeginDrain).
Revoke ==
    /\ entries \ cancelled # {}
    /\ CancelAll
    /\ UNCHANGED <<sessionVars, entries, owned, done, assignCh, admitting, workerVars,
                   queueVars, stopVars, readmitted>>

-----------------------------------------------------------------------------
(* Local stop *)

\* Manager.stop, SIGTERM, a revocation or a permanent failure of the channel
\* cancels runCtx, at any time.  Two goroutines react to it, in either order:
\* one sets the local drain flag and sends NODE_DRAIN ...
BeginDrain ==
    /\ ~localDraining
    /\ localDraining' = TRUE
    /\ UNCHANGED <<sessionVars, registryVars, assignCh, admitting, workerVars, queueVars,
                   remoteDraining, poolStopped, readmitted>>

\* ... and Pool.Run stops the claims.
StopClaims ==
    /\ ~poolStopped
    /\ poolStopped' = TRUE
    /\ UNCHANGED <<sessionVars, registryVars, assignCh, admitting, workerVars, queueVars,
                   localDraining, remoteDraining, readmitted>>

-----------------------------------------------------------------------------
(* Workers *)

\* Claim: the select may still take an assignment after claimCtx is cancelled.
Claim(w) ==
    /\ pc[w] = "idle" /\ assignCh # <<>>
    /\ pc' = [pc EXCEPT ![w] = "claimed"]
    /\ held' = [held EXCEPT ![w] = Head(assignCh)]
    /\ assignCh' = Tail(assignCh)
    /\ UNCHANGED <<sessionVars, registryVars, admitting, queueVars, stopVars, readmitted>>

WorkerExit(w) ==
    /\ pc[w] = "idle" /\ poolStopped
    /\ pc' = [pc EXCEPT ![w] = "exited"]
    /\ UNCHANGED <<sessionVars, registryVars, assignCh, admitting, held, queueVars, stopVars,
                   readmitted>>

\* runTask starts the handler unless the lease has expired or the attempt is
\* cancelled; Process itself ignores an attempt of a task it is running.
StartHandler(w) ==
    /\ pc[w] = "claimed"
    /\ held[w] \notin cancelled
    /\ ~InFlightElsewhere(w)
    /\ pc' = [pc EXCEPT ![w] = "running"]
    /\ UNCHANGED <<sessionVars, registryVars, assignCh, admitting, held, queueVars, stopVars,
                   readmitted>>

\* Faulty variant: an attempt that was not started is not completed.
EndSkippingComplete(w) ==
    /\ pc[w] \in {"claimed", "running"}
    /\ pc' = [pc EXCEPT ![w] = IF pc[w] = "claimed" THEN "idle" ELSE "ended"]
    /\ held' = [held EXCEPT ![w] = IF pc[w] = "claimed" THEN None ELSE held[w]]
    /\ UNCHANGED <<sessionVars, registryVars, assignCh, admitting, queueVars, stopVars,
                   readmitted>>

\* Not started (expired, cancelled, duplicate task), or ended without a
\* terminal result (retryable failure, lost lease, cancelled, drain timeout).
EndWithoutResult(w) ==
    /\ pc[w] \in {"claimed", "running"}
    /\ pc' = [pc EXCEPT ![w] = "ended"]
    /\ UNCHANGED <<sessionVars, registryVars, assignCh, admitting, held, queueVars, stopVars,
                   readmitted>>

\* reportTerminal: the result goes to the durable queue, whether or not the
\* attempt has been cancelled meanwhile.  An id that already has a record, and
\* a queue that is degraded or full, leave the queue as it is.
ReportTerminal(w) ==
    /\ pc[w] = "running"
    /\ pc' = [pc EXCEPT ![w] = "ended"]
    /\ \/ Results!Stored(held[w])
       \/ \E left \in SUBSET {held[w]} : Results!WriteFails(held[w], left)
       \/ ~Results!Writes(held[w]) /\ UNCHANGED queueVars
    /\ UNCHANGED <<sessionVars, registryVars, assignCh, admitting, held, stopVars, readmitted>>

\* Registry.Complete: the attempt moves from the entries to the done memory ...
Complete(w) ==
    /\ pc[w] = "ended"
    /\ pc' = [pc EXCEPT ![w] = "releasing"]
    /\ entries' = entries \ {held[w]}
    /\ cancelled' = cancelled \ {held[w]}
    /\ done' = done \cup {held[w]}
    /\ owned' = owned \ {held[w]}
    /\ readmitted' = readmitted \ {held[w]}
    /\ UNCHANGED <<sessionVars, assignCh, admitting, held, queueVars, stopVars>>

\* Faulty variant: a degraded queue releases nothing.
ReleaseOnlyUnlessDegraded(w) ==
    /\ pc[w] = "releasing"
    /\ IF degraded THEN UNCHANGED queueVars ELSE ReleaseResultCapacity(held[w])
    /\ pc' = [pc EXCEPT ![w] = "idle"]
    /\ held' = [held EXCEPT ![w] = None]
    /\ UNCHANGED <<sessionVars, registryVars, assignCh, admitting, stopVars, readmitted>>

\* ... and, outside the registry's lock, the observer releases the reservation.
ReleaseReservation(w) ==
    /\ pc[w] = "releasing"
    /\ ReleaseResultCapacity(held[w])
    /\ pc' = [pc EXCEPT ![w] = "idle"]
    /\ held' = [held EXCEPT ![w] = None]
    /\ UNCHANGED <<sessionVars, registryVars, assignCh, admitting, stopVars, readmitted>>

-----------------------------------------------------------------------------
(* Result delivery, memory, process *)

\* deliverResults: a matching TASK_RESULT_ACK removes the record.  Ack fails when
\* the directory cannot be synced: the record is gone, its file may come back.
AckResult(a) ==
    /\ conn = "ready" /\ a \in records
    /\ \E doubt \in SUBSET (unsure \cup {a}) : Results!Remove({a}, doubt)
    /\ UNCHANGED <<sessionVars, registryVars, assignCh, admitting, workerVars, stopVars,
                   readmitted>>

\* pruneLoop: results that are older than their time to live, in any state of
\* the session; Prune too may fail before the removals are durable.
PruneResults(gone) ==
    /\ gone # {}
    /\ \E doubt \in SUBSET (unsure \cup gone) : Results!Remove(gone, doubt)
    /\ UNCHANGED <<sessionVars, registryVars, assignCh, admitting, workerVars, stopVars,
                   readmitted>>

\* The done memory forgets an attempt after doneTTL (30 minutes), which is long
\* after the observer of its Complete has run.
ForgetDone(a) ==
    /\ a \in done
    /\ \A w \in Workers : pc[w] = "releasing" => held[w] # a
    /\ done' = done \ {a}
    /\ UNCHANGED <<sessionVars, entries, cancelled, owned, assignCh, admitting, workerVars,
                   queueVars, stopVars, readmitted>>

\* The process ends and starts again: the durable results are left, and any of
\* the ones in doubt.  Open refuses more records than fit, and then no node runs.
Restart ==
    /\ conn' = "off" /\ asked' = {}
    /\ entries' = {} /\ cancelled' = {} /\ done' = {}
    /\ owned' = {}
    /\ assignCh' = <<>> /\ admitting' = None
    /\ pc' = [w \in Workers |-> "idle"] /\ held' = [w \in Workers |-> None]
    /\ \E found \in SUBSET (records \cup unsure), doubt \in SUBSET unsure :
          Cardinality(found) <= MaxRecords /\ Results!Restart(found, doubt)
    /\ localDraining' = FALSE /\ remoteDraining' = FALSE
    /\ poolStopped' = FALSE
    /\ readmitted' = {}
    /\ approved' = LocalConcurrency

Init ==
    /\ conn = "off" /\ approved = LocalConcurrency /\ asked = {}
    /\ entries = {} /\ cancelled = {} /\ done = {} /\ owned = {}
    /\ assignCh = <<>> /\ admitting = None
    /\ pc = [w \in Workers |-> "idle"] /\ held = [w \in Workers |-> None]
    /\ Results!ResultInit
    /\ localDraining = FALSE /\ remoteDraining = FALSE
    /\ poolStopped = FALSE
    /\ readmitted = {}

Session ==
    \/ Dial \/ Disconnect
    \/ \E n \in 0..LocalConcurrency + 1 : AuthOK(n) \/ Refresh(n)
    \/ \E answer \in [asked \cap entries -> Answers] : ResumeResult(answer)

Reader ==
    \/ \E a \in Attempts :
        \/ AssignChecks(a)
        \/ \E modeAllowed \in BOOLEAN : AssignBeyondApproval(a, modeAllowed)
        \/ Cancel(a)
    \/ AssignPush \/ AssignAbandon
    \/ \E draining \in BOOLEAN : NodeState(draining)
    \/ Revoke

WorkerStep(w) ==
    \/ Claim(w) \/ WorkerExit(w)
    \/ StartHandler(w) \/ EndWithoutResult(w)
    \/ ReportTerminal(w)
    \/ Complete(w) \/ ReleaseReservation(w)

Next ==
    \/ Session \/ Reader
    \/ BeginDrain \/ StopClaims
    \/ \E w \in Workers : WorkerStep(w)
    \/ \E a \in Attempts : AckResult(a) \/ ForgetDone(a)
    \/ \E gone \in SUBSET records : PruneResults(gone)
    \/ Restart

Spec == Init /\ [][Next]_vars

-----------------------------------------------------------------------------
(* Properties *)

InChannel == {assignCh[i] : i \in 1..Len(assignCh)}
HeldBy(w) == {held[w]} \ {None}
InWork == UNION {HeldBy(w) : w \in {v \in Workers : pc[v] # "releasing"}}

\* The "default" branch of handleAssign (client.go:658), which would cancel an
\* attempt and drop the connection, is dead code: whenever an attempt is about
\* to be pushed the channel has room, even after the server lowered the
\* approved concurrency and with cancelled attempts still in the channel.
ChannelHasRoom == admitting # None => Len(assignCh) < LocalConcurrency + 2

\* An attempt in flight is in exactly one place: waiting in the channel or with
\* one worker.  No redelivery, cancel or reconnect runs it twice at a time.
ExactlyOneHolder ==
    /\ entries = InChannel \cup InWork
    /\ InChannel \cap InWork = {}
    /\ Len(assignCh) = Cardinality(InChannel)
    /\ \A v, w \in Workers : v # w /\ held[v] # None => held[v] # held[w]

\* No capacity leaks: a reservation always belongs to an attempt that is being
\* admitted, in flight, or about to be released.
NoReservationLeak ==
    reservations \subseteq entries \cup {admitting} \cup
        UNION {HeldBy(w) : w \in {v \in Workers : pc[v] = "releasing"}}

\* ErrFull for an admitted attempt has one cause only: the attempt was admitted
\* a second time while its first result was still queued, so that Reserve held
\* no capacity for it.
FullOnlyAfterReadmission ==
    \A w \in Workers : pc[w] = "running" /\ Results!Full(held[w]) => held[w] \in readmitted

\* The epoch fence: on a ready session every attempt that still runs was either
\* assigned in this session or resumed by the server in it.
ResumeFence ==
    conn = "ready" => entries \ cancelled \subseteq owned

\* A local stop is final (client.go:319): once BeginDrain has set the flag and
\* the admission that was under way is over, no attempt is admitted, whatever the
\* server says; only a new process starts afresh.
DrainIsFinal ==
    [][localDraining /\ admitting = None =>
        \/ localDraining' /\ entries' \subseteq entries /\ admitting' = None
        \/ Restart]_vars

\* What queue.go:47-48 says of reservations: every admitted attempt can store
\* its result.
AdmittedCanStore == \A w \in Workers : pc[w] = "running" => ~Results!Full(held[w])

\* Goroutines are scheduled: the reader leaves handleAssign, which never
\* blocks, and a worker takes every step it can (a blocked Claim returns when an
\* assignment arrives, a handler ends because its requests have timeouts).
Fairness ==
    /\ WF_vars(AssignPush \/ AssignAbandon)
    /\ \A w \in Workers : WF_vars(WorkerStep(w))

LiveSpec == Spec /\ Fairness

\* Every attempt in flight leaves the registry, so that its slot becomes free,
\* whatever the connection does meanwhile; unless the pool stops claiming first.
AdmittedEnds ==
    \A a \in Attempts : a \in entries ~> (a \notin entries \/ poolStopped)

\* Reserved result capacity always comes back: it turns into a record or is
\* released, also after a disk failure, a cancel or a closed session.
CapacityReturns ==
    \A a \in Attempts : a \in reservations ~> (a \notin reservations \/ poolStopped)
=============================================================================
