----------------------------- MODULE ExecWorker -----------------------------
(***************************************************************************)
(* The executor of go-judge (worker/worker.go): requests wait in workCh    *)
(* for one of the loops, or are executed at once for an interactive        *)
(* session; every command of a request gets a container from the pool      *)
(* (env/pool/interface.go), which is put back when the request is over.    *)
(* Shutdown may come at any point.                                         *)
(*                                                                         *)
(* One action is one critical section or one blocking call.  What a        *)
(* command does inside its container is the subject of CmdRun; here a run  *)
(* only takes time.  The pool is last-in first-out; which idle container   *)
(* is handed out does not matter to the properties, so it is a set.        *)
(***************************************************************************)
EXTENDS Integers, Sequences, FiniteSets

CONSTANTS
    Batch,        \* requests given to Submit
    Interactive,  \* requests given to Execute
    CmdCount,     \* number of commands of each request
    Loops,        \* the goroutines of Start
    MaxWaiting,   \* maxWaiting, the capacity of workCh
    MaxEnvs,      \* bound on the containers ever built
    None

Requests == Batch \cup Interactive

ASSUME ExecAssumption ==
    /\ Batch \cap Interactive = {}
    /\ CmdCount \in [Requests -> Nat \ {0}]
    /\ MaxWaiting \in Nat /\ MaxEnvs \in Nat
    /\ None \notin Requests \cup {"exited"} /\ "exited" \notin Requests

VARIABLES
    phase,      \* "new", "open", "draining" (Shutdown waits), "destroying" or "down"
    workCh,     \* queue of submitted requests
    stage,      \* where the goroutine of a request is
    loopReq,    \* the request of a loop, None when it selects, "exited"
    ctxDone,    \* requests whose context is cancelled
    startedCh,  \* requests whose started channel is closed
    answer,     \* what was put on resultCh: "none", "refused", "cancelled" or "ran"
    held,       \* containers of a request
    idle,       \* pool.env
    built,      \* containers 1..built have been built
    dead        \* destroyed containers

poolVars == <<held, idle, built, dead>>
execVars == <<phase, workCh, stage, loopReq, ctxDone, startedCh, answer, poolVars>>

Executing == {r \in Requests : stage[r] \in {"prepare", "envs", "run", "put"}}
InUse == UNION {held[r] : r \in Requests}

-----------------------------------------------------------------------------
(* Callers *)

Start ==
    /\ phase = "new"
    /\ phase' = "open"
    /\ UNCHANGED <<workCh, stage, loopReq, ctxDone, startedCh, answer, poolVars>>

Refuse(r) ==
    /\ stage' = [stage EXCEPT ![r] = "over"]
    /\ answer' = [answer EXCEPT ![r] = "refused"]
    /\ startedCh' = startedCh \cup {r}
    /\ UNCHANGED workCh

Queue(r) ==
    /\ Len(workCh) < MaxWaiting
    /\ workCh' = Append(workCh, r)
    /\ stage' = [stage EXCEPT ![r] = "queued"]
    /\ UNCHANGED <<answer, startedCh>>

\* Shutdown holds stateMu until it is over, so Submit waits for it.  The select
\* takes any of its ready cases: after Shutdown a request may still be queued.
Submit(r) ==
    /\ stage[r] = "idle" /\ r \in Batch
    /\ phase \in {"new", "open", "down"}
    /\ \/ phase # "new" /\ Queue(r)
       \/ (phase = "open" => Len(workCh) >= MaxWaiting) /\ Refuse(r)
    /\ UNCHANGED <<phase, loopReq, ctxDone, poolVars>>

\* Execute looks neither at the queue nor at done.
Execute(r) ==
    /\ stage[r] = "idle" /\ r \in Interactive
    /\ stage' = [stage EXCEPT ![r] = "prepare"]
    /\ UNCHANGED <<phase, workCh, loopReq, ctxDone, startedCh, answer, poolVars>>

\* The caller gives up: its context is cancelled.
Cancel(r) ==
    /\ stage[r] \notin {"idle", "over"}
    /\ ctxDone' = ctxDone \cup {r}
    /\ UNCHANGED <<phase, workCh, stage, loopReq, startedCh, answer, poolVars>>

-----------------------------------------------------------------------------
(* loop *)

\* A loop takes the oldest request and closes its started channel ...
Take(l) ==
    /\ loopReq[l] = None /\ phase # "new"
    /\ workCh # << >>
    /\ loopReq' = [loopReq EXCEPT ![l] = Head(workCh)]
    /\ workCh' = Tail(workCh)
    /\ stage' = [stage EXCEPT ![Head(workCh)] = "taken"]
    /\ startedCh' = startedCh \cup {Head(workCh)}
    /\ UNCHANGED <<phase, ctxDone, answer, poolVars>>

\* Faulty variant: the context is not looked at.
BeginRegardless(l) ==
    /\ loopReq[l] \in Requests /\ stage[loopReq[l]] = "taken"
    /\ stage' = [stage EXCEPT ![loopReq[l]] = "prepare"]
    /\ UNCHANGED <<phase, workCh, loopReq, ctxDone, startedCh, answer, poolVars>>

\* ... and then looks at its context.
Begin(l) ==
    /\ loopReq[l] \in Requests /\ stage[loopReq[l]] = "taken"
    /\ LET r == loopReq[l] IN
         IF r \in ctxDone
         THEN /\ answer' = [answer EXCEPT ![r] = "cancelled"]
              /\ stage' = [stage EXCEPT ![r] = "over"]
              /\ loopReq' = [loopReq EXCEPT ![l] = None]
         ELSE /\ stage' = [stage EXCEPT ![r] = "prepare"]
              /\ UNCHANGED <<answer, loopReq>>
    /\ UNCHANGED <<phase, workCh, ctxDone, startedCh, poolVars>>

\* With a closed done channel a loop may leave although requests wait.
ExitLoop(l) ==
    /\ loopReq[l] = None
    /\ phase \in {"draining", "destroying", "down"}
    /\ loopReq' = [loopReq EXCEPT ![l] = "exited"]
    /\ UNCHANGED <<phase, workCh, stage, ctxDone, startedCh, answer, poolVars>>

-----------------------------------------------------------------------------
(* workDoCmd *)

\* prepareCmd of every command; it fails for a file id that is not in the store.
Prepare(r) ==
    /\ stage[r] = "prepare"
    /\ \E next \in {"envs", "put"} : stage' = [stage EXCEPT ![r] = next]
    /\ UNCHANGED <<phase, workCh, loopReq, ctxDone, startedCh, answer, poolVars>>

\* pool.Get: an idle container, else a new one, under the pool's lock.
GetEnv(r) ==
    /\ stage[r] = "envs" /\ Cardinality(held[r]) < CmdCount[r]
    /\ \/ \E e \in idle :
            /\ idle' = idle \ {e}
            /\ held' = [held EXCEPT ![r] = @ \cup {e}]
            /\ UNCHANGED built
       \/ /\ idle = {} /\ built < MaxEnvs
          /\ built' = built + 1
          /\ held' = [held EXCEPT ![r] = @ \cup {built + 1}]
          /\ UNCHANGED idle
    /\ UNCHANGED <<phase, workCh, stage, loopReq, ctxDone, startedCh, answer, dead>>

\* Faulty variant: the containers the group already has are forgotten.
BuildFailureForgets(r) ==
    /\ stage[r] = "envs" /\ Cardinality(held[r]) < CmdCount[r]
    /\ idle = {}
    /\ stage' = [stage EXCEPT ![r] = "put"]
    /\ held' = [held EXCEPT ![r] = {}]
    /\ UNCHANGED <<phase, workCh, loopReq, ctxDone, startedCh, answer, idle, built, dead>>

\* Build fails: InternalError for every command; what the group already has is put back.
BuildFails(r) ==
    /\ stage[r] = "envs" /\ Cardinality(held[r]) < CmdCount[r]
    /\ idle = {}
    /\ stage' = [stage EXCEPT ![r] = "put"]
    /\ UNCHANGED <<phase, workCh, loopReq, ctxDone, startedCh, answer, poolVars>>

RunCmds(r) ==
    /\ stage[r] = "envs" /\ Cardinality(held[r]) = CmdCount[r]
    /\ stage' = [stage EXCEPT ![r] = "run"]
    /\ UNCHANGED <<phase, workCh, loopReq, ctxDone, startedCh, answer, poolVars>>

\* Every run ends: waiter.Wait stops it at the clock limit.
RunEnds(r) ==
    /\ stage[r] = "run"
    /\ stage' = [stage EXCEPT ![r] = "put"]
    /\ UNCHANGED <<phase, workCh, loopReq, ctxDone, startedCh, answer, poolVars>>

\* pool.Put: a container that cannot be reset is destroyed.
PutEnv(r) ==
    /\ stage[r] = "put"
    /\ \E e \in held[r] :
         /\ held' = [held EXCEPT ![r] = @ \ {e}]
         /\ \/ idle' = idle \cup {e} /\ UNCHANGED dead
            \/ dead' = dead \cup {e} /\ UNCHANGED idle
    /\ UNCHANGED <<phase, workCh, stage, loopReq, ctxDone, startedCh, answer, built>>

\* The response is sent when the deferred Puts are done.
Respond(r) ==
    /\ stage[r] = "put" /\ held[r] = {}
    /\ stage' = [stage EXCEPT ![r] = "over"]
    /\ answer' = [answer EXCEPT ![r] = "ran"]
    /\ loopReq' = [l \in Loops |-> IF loopReq[l] = r THEN None ELSE loopReq[l]]
    /\ UNCHANGED <<phase, workCh, ctxDone, startedCh, poolVars>>

-----------------------------------------------------------------------------
(* Shutdown *)

\* Under stateMu: close(done) ...
Shutdown ==
    /\ phase = "open"
    /\ phase' = "draining"
    /\ UNCHANGED <<workCh, stage, loopReq, ctxDone, startedCh, answer, poolVars>>

\* Faulty variant: it does not wait for the loops.
DrainedAtOnce ==
    /\ phase = "draining"
    /\ phase' = "destroying"
    /\ UNCHANGED <<workCh, stage, loopReq, ctxDone, startedCh, answer, poolVars>>

\* ... wg.Wait() ...
Drained ==
    /\ phase = "draining"
    /\ \A l \in Loops : loopReq[l] = "exited"
    /\ Executing = {}
    /\ phase' = "destroying"
    /\ UNCHANGED <<workCh, stage, loopReq, ctxDone, startedCh, answer, poolVars>>

\* ... and envPool.Destroy(), which leaves the destroyed containers in the pool.
DestroyPool ==
    /\ phase = "destroying"
    /\ phase' = "down"
    /\ dead' = dead \cup idle
    /\ UNCHANGED <<workCh, stage, loopReq, ctxDone, startedCh, answer, held, idle, built>>

-----------------------------------------------------------------------------

ExecInit ==
    /\ phase = "new" /\ workCh = << >>
    /\ stage = [r \in Requests |-> "idle"]
    /\ loopReq = [l \in Loops |-> None]
    /\ ctxDone = {} /\ startedCh = {}
    /\ answer = [r \in Requests |-> "none"]
    /\ held = [r \in Requests |-> {}]
    /\ idle = {} /\ built = 0 /\ dead = {}

LoopStep(l) == Take(l) \/ Begin(l)

DoCmd(r) ==
    \/ Prepare(r) \/ GetEnv(r) \/ BuildFails(r) \/ RunCmds(r) \/ RunEnds(r)
    \/ PutEnv(r) \/ Respond(r)

Stop == Shutdown \/ Drained \/ DestroyPool

\* What goes on without the callers.
Serve ==
    \/ Start \/ Stop
    \/ \E l \in Loops : LoopStep(l) \/ ExitLoop(l)
    \/ \E r \in Requests : DoCmd(r)

ExecNext ==
    \/ Serve
    \/ \E r \in Requests : Submit(r) \/ Execute(r) \/ Cancel(r)

\* The goroutines go on; nobody has to submit, cancel or shut down.
ExecFairness ==
    /\ \A l \in Loops : WF_execVars(LoopStep(l)) /\ WF_execVars(ExitLoop(l))
    /\ \A r \in Requests : WF_execVars(DoCmd(r))
    /\ WF_execVars(Drained) /\ WF_execVars(DestroyPool)

ExecSpec == ExecInit /\ [][ExecNext]_execVars /\ ExecFairness

-----------------------------------------------------------------------------
(* Properties *)

\* Every container that was built is in one place: with one request that is
\* executing, idle in the pool, or destroyed.  Put, a failed Build in the middle
\* of a group and a failed Reset must not lose one or hand it out twice.
ContainersAccounted ==
    /\ InUse \cup idle \cup dead = 1 .. built
    /\ InUse \cap idle = {}
    /\ \A r, s \in Requests : r # s => held[r] \cap held[s] = {}
    /\ \A r \in Requests : held[r] # {} => stage[r] \in {"envs", "run", "put"}
    /\ phase \in {"new", "open", "draining"} => (InUse \cup idle) \cap dead = {}

\* When Shutdown has returned no batch request is being executed, and every
\* container that no interactive session took afterwards is destroyed.
ShutdownDrains ==
    phase = "down" =>
       /\ Executing \subseteq Interactive
       /\ Interactive \cap {r \in Requests : stage[r] # "idle"} = {} => dead = 1 .. built

-----------------------------------------------------------------------------
(* The executor implements the service it promises (ExecService). *)

ServingOf(p) == CASE p = "new" -> "before" [] p = "open" -> "yes" [] OTHER -> "over"
JobOf(s) == IF s \in {"prepare", "envs", "run", "put"} THEN "running" ELSE s

Service == INSTANCE ExecService WITH
    Reqs <- Requests,
    serving <- ServingOf(phase),
    job <- [r \in Requests |-> JobOf(stage[r])],
    reply <- answer,
    gaveUp <- ctxDone

\* With its fairness: an accepted request is answered unless a shutdown comes
\* first, one that a loop has taken whatever happens, and a request that was
\* cancelled before it was taken does not run.
ImplementsService == Service!ServiceSpec
=============================================================================
