--------------------------- MODULE ExecutorProofs ---------------------------
(***************************************************************************)
(* The executor and what speaks to it: the containers of the worker and    *)
(* the steps of the service it implements (ExecWorker), the cancellation   *)
(* of a request over a websocket (WsRequests), the output of a session     *)
(* (StreamSession), the shutdown of the process (ExecServer), for any      *)
(* number of requests, loops, containers, places and chunks.               *)
(***************************************************************************)
EXTENDS ExecWorker, WsRequests, StreamSession, ExecServer, SequenceTheorems, TLAPS

\* The types that the steps rely on.
PoolTypeOK ==
    /\ phase \in {"new", "open", "draining", "destroying", "down"}
    /\ workCh \in Seq(Requests)
    /\ stage \in [Requests -> {"idle", "queued", "taken", "prepare", "envs", "run", "put", "over"}]
    /\ answer \in [Requests -> {"none", "refused", "cancelled", "ran"}]
    /\ held \in [Requests -> SUBSET Int]
    /\ idle \subseteq Int /\ built \in Nat /\ dead \subseteq Int

\* What waits in workCh was accepted and not taken, and waits once.
QueueOK ==
    /\ \A i \in 1 .. Len(workCh) : stage[workCh[i]] = "queued"
    /\ \A i, j \in 1 .. Len(workCh) : workCh[i] = workCh[j] => i = j

ExecInv == PoolTypeOK /\ QueueOK /\ ContainersAccounted

-----------------------------------------------------------------------------
\* A step that leaves the pool alone and moves no request that has containers
\* keeps every container where it is.
LEMMA PoolUntouched ==
    ASSUME PoolTypeOK, ContainersAccounted, UNCHANGED poolVars,
           phase' \in {"new", "open", "draining"} => phase \in {"new", "open", "draining"},
           \A r \in Requests :
              stage[r] \in {"envs", "run", "put"} => stage'[r] \in {"envs", "run", "put"}
    PROVE  ContainersAccounted'
  BY DEF PoolTypeOK, ContainersAccounted, InUse, poolVars

\* A step that neither touches workCh nor a queued request keeps the queue.
LEMMA QueueUntouched ==
    ASSUME PoolTypeOK, QueueOK, UNCHANGED workCh,
           \A r \in Requests : stage[r] = "queued" => stage'[r] = "queued"
    PROVE  QueueOK'
  <1>1. \A i \in 1 .. Len(workCh) : workCh[i] \in Requests
    BY DEF PoolTypeOK
  <1> QED
    BY <1>1 DEF QueueOK

-----------------------------------------------------------------------------
\* The callers keep the invariant.
LEMMA CallersKeep ==
    ASSUME ExecInv, NEW r \in Requests, Submit(r) \/ Execute(r) \/ Cancel(r)
    PROVE  ExecInv'
  <1>1. CASE Submit(r) /\ Queue(r)
    <2>1. /\ workCh' = Append(workCh, r) /\ stage' = [stage EXCEPT ![r] = "queued"]
          /\ stage[r] = "idle" /\ UNCHANGED <<phase, answer, poolVars>>
      BY <1>1 DEF Submit, Queue
    <2>2. PoolTypeOK'
      BY <2>1 DEF ExecInv, PoolTypeOK, poolVars
    <2>3. QueueOK'
      <3>1. workCh \in Seq(Requests) /\ Len(workCh) \in Nat
        BY DEF ExecInv, PoolTypeOK
      <3>2. /\ Len(workCh') = Len(workCh) + 1
            /\ \A i \in 1 .. Len(workCh) : workCh'[i] = workCh[i] /\ workCh[i] \in Requests
            /\ workCh'[Len(workCh) + 1] = r
        BY <2>1, <3>1
      <3>3. \A i \in 1 .. Len(workCh) : workCh[i] # r
        BY <2>1 DEF ExecInv, QueueOK
      <3>4. \A i \in 1 .. Len(workCh) : stage[workCh[i]] = "queued"
        BY DEF ExecInv, QueueOK
      <3>5. \A i, j \in 1 .. Len(workCh) : workCh[i] = workCh[j] => i = j
        BY DEF ExecInv, QueueOK
      <3>6. stage'[r] = "queued" /\ \A q \in Requests : q # r => stage'[q] = stage[q]
        BY <2>1 DEF ExecInv, PoolTypeOK
      <3>7. \A i \in 1 .. Len(workCh') : i \in 1 .. Len(workCh) \/ i = Len(workCh) + 1
        BY <3>1, <3>2
      <3>8. \A i \in 1 .. Len(workCh') : stage'[workCh'[i]] = "queued"
        BY <3>2, <3>3, <3>4, <3>6, <3>7
      <3>9. \A i, j \in 1 .. Len(workCh') : workCh'[i] = workCh'[j] => i = j
        BY <3>2, <3>3, <3>5, <3>7
      <3> QED
        BY <3>8, <3>9 DEF QueueOK
    <2>4. ContainersAccounted'
      BY <2>1, PoolUntouched DEF ExecInv, PoolTypeOK
    <2> QED
      BY <2>2, <2>3, <2>4 DEF ExecInv
  <1>2. CASE (Submit(r) /\ Refuse(r)) \/ Execute(r) \/ Cancel(r)
    <2>1. PoolTypeOK'
      BY <1>2 DEF Submit, Refuse, Execute, Cancel, ExecInv, PoolTypeOK, poolVars
    <2>2. /\ UNCHANGED <<workCh, phase, poolVars>>
          /\ \A q \in Requests : stage[q] = "queued" => stage'[q] = "queued"
          /\ \A q \in Requests :
                stage[q] \in {"envs", "run", "put"} => stage'[q] \in {"envs", "run", "put"}
      BY <1>2 DEF Submit, Refuse, Execute, Cancel, ExecInv, PoolTypeOK
    <2> QED
      BY <2>1, <2>2, PoolUntouched, QueueUntouched DEF ExecInv
  <1> QED
    BY <1>1, <1>2 DEF Submit

\* So do the loops.
LEMMA LoopsKeep ==
    ASSUME ExecInv, NEW l \in Loops, Take(l) \/ Begin(l) \/ ExitLoop(l)
    PROVE  ExecInv'
  <1>1. CASE Take(l)
    <2> DEFINE r == Head(workCh)
    <2>1. /\ workCh # << >> /\ workCh' = Tail(workCh) /\ stage' = [stage EXCEPT ![r] = "taken"]
          /\ UNCHANGED <<phase, answer, poolVars>>
      BY <1>1 DEF Take
    <2>2. workCh \in Seq(Requests)
      BY DEF ExecInv, PoolTypeOK
    <2>3. /\ Len(workCh) \in Nat \ {0} /\ Len(Tail(workCh)) = Len(workCh) - 1
          /\ \A i \in 1 .. Len(workCh) - 1 : Tail(workCh)[i] = workCh[i + 1]
          /\ r = workCh[1] /\ r \in Requests /\ Tail(workCh) \in Seq(Requests)
      BY <2>1, <2>2, HeadTailProperties
    <2>4. stage[r] = "queued"
      BY <2>3 DEF ExecInv, QueueOK
    <2>5. PoolTypeOK'
      BY <2>1, <2>3 DEF ExecInv, PoolTypeOK, poolVars
    <2>6. QueueOK'
      <3>1. \A i \in 1 .. Len(workCh) - 1 : workCh[i + 1] # r /\ workCh[i + 1] \in Requests
        BY <2>2, <2>3 DEF ExecInv, QueueOK
      <3>2. \A i \in 1 .. Len(workCh') : stage'[workCh'[i]] = "queued"
        BY <2>1, <2>3, <3>1 DEF ExecInv, PoolTypeOK, QueueOK
      <3>3. \A i, j \in 1 .. Len(workCh') : workCh'[i] = workCh'[j] => i = j
        BY <2>1, <2>3 DEF ExecInv, QueueOK
      <3> QED
        BY <3>2, <3>3 DEF QueueOK
    <2>7. ContainersAccounted'
      BY <2>1, <2>3, <2>4, PoolUntouched DEF ExecInv, PoolTypeOK
    <2> QED
      BY <2>5, <2>6, <2>7 DEF ExecInv
  <1>2. CASE Begin(l) \/ ExitLoop(l)
    <2>1. PoolTypeOK'
      BY <1>2 DEF Begin, ExitLoop, ExecInv, PoolTypeOK, poolVars
    <2>2. /\ UNCHANGED <<workCh, phase, poolVars>>
          /\ \A q \in Requests : stage[q] = "queued" => stage'[q] = "queued"
          /\ \A q \in Requests :
                stage[q] \in {"envs", "run", "put"} => stage'[q] \in {"envs", "run", "put"}
      BY <1>2 DEF Begin, ExitLoop, ExecInv, PoolTypeOK
    <2> QED
      BY <2>1, <2>2, PoolUntouched, QueueUntouched DEF ExecInv
  <1> QED
    BY <1>1, <1>2

\* So does the execution of a request: Get, Put and a Build that fails.
LEMMA CommandsKeep ==
    ASSUME ExecInv, NEW r \in Requests, DoCmd(r)
    PROVE  ExecInv'
  <1> USE DEF ExecInv
  <1>1. PoolTypeOK'
    BY DEF DoCmd, Prepare, GetEnv, BuildFails, RunCmds, RunEnds, PutEnv, Respond, PoolTypeOK, poolVars
  <1>2. QueueOK'
    <2>1. UNCHANGED workCh /\ \A q \in Requests : stage[q] = "queued" => stage'[q] = "queued"
      BY DEF DoCmd, Prepare, GetEnv, BuildFails, RunCmds, RunEnds, PutEnv, Respond, PoolTypeOK
    <2> QED
      BY <2>1, QueueUntouched
  <1>3. ContainersAccounted'
    <2>1. CASE Prepare(r) \/ BuildFails(r) \/ RunCmds(r) \/ RunEnds(r)
      BY <2>1, PoolUntouched DEF Prepare, BuildFails, RunCmds, RunEnds, PoolTypeOK
    <2>2. CASE Respond(r)
      <3>1. held[r] = {} /\ UNCHANGED <<phase, poolVars>> /\ stage' = [stage EXCEPT ![r] = "over"]
        BY <2>2 DEF Respond
      <3> QED
        BY <3>1 DEF ContainersAccounted, InUse, PoolTypeOK, poolVars
    <2>3. CASE GetEnv(r) /\ UNCHANGED built
      <3>1. PICK e \in idle :
               /\ idle' = idle \ {e} /\ held' = [held EXCEPT ![r] = @ \cup {e}]
               /\ UNCHANGED <<phase, stage, dead, built>> /\ stage[r] = "envs"
        BY <2>3 DEF GetEnv, PoolTypeOK
      <3>2. InUse' = InUse \cup {e}
        BY <3>1 DEF InUse, PoolTypeOK
      <3> QED
        BY <3>1, <3>2 DEF ContainersAccounted, InUse, PoolTypeOK
    <2>4. CASE GetEnv(r) /\ ~UNCHANGED built
      <3>1. /\ built' = built + 1 /\ held' = [held EXCEPT ![r] = @ \cup {built + 1}]
            /\ UNCHANGED <<phase, stage, dead, idle>> /\ stage[r] = "envs"
        BY <2>4 DEF GetEnv
      <3>2. InUse' = InUse \cup {built + 1}
        BY <3>1 DEF InUse, PoolTypeOK
      <3>3. 1 .. built + 1 = (1 .. built) \cup {built + 1} /\ built + 1 \notin 1 .. built
        BY DEF PoolTypeOK
      <3> QED
        BY <3>1, <3>2, <3>3 DEF ContainersAccounted, InUse, PoolTypeOK
    <2>5. CASE PutEnv(r)
      <3>1. PICK e \in held[r] :
               /\ held' = [held EXCEPT ![r] = @ \ {e}]
               /\ \/ idle' = idle \cup {e} /\ UNCHANGED dead
                  \/ dead' = dead \cup {e} /\ UNCHANGED idle
               /\ UNCHANGED <<phase, stage, built>> /\ stage[r] = "put"
        BY <2>5 DEF PutEnv
      <3>2. \A s \in Requests : s # r => e \notin held[s]
        BY DEF ContainersAccounted
      <3>3. InUse' = InUse \ {e} /\ e \in InUse
        BY <3>1, <3>2 DEF InUse, PoolTypeOK
      <3> QED
        BY <3>1, <3>2, <3>3 DEF ContainersAccounted, PoolTypeOK
    <2> QED
      BY <2>1, <2>2, <2>3, <2>4, <2>5 DEF DoCmd
  <1> QED
    BY <1>1, <1>2, <1>3

\* So do Start and Shutdown.
LEMMA PhasesKeep == ASSUME ExecInv, Start \/ Stop PROVE ExecInv'
  BY DEF Start, Stop, Shutdown, Drained, DestroyPool, ExecInv, PoolTypeOK, QueueOK, ContainersAccounted,
         InUse, poolVars

-----------------------------------------------------------------------------
\* The inductive invariant: the queue, the pool and the requests' containers
\* agree in every state of the executor (worker/worker.go, env/pool).
THEOREM ExecInvariance == ExecSpec => []ExecInv
  <1>1. ExecInit => ExecInv
    BY DEF ExecInit, ExecInv, PoolTypeOK, QueueOK, ContainersAccounted, InUse
  <1>2. ExecInv /\ [ExecNext]_execVars => ExecInv'
    <2> SUFFICES ASSUME ExecInv, [ExecNext]_execVars PROVE ExecInv'
      OBVIOUS
    <2>1. CASE UNCHANGED execVars
      BY <2>1 DEF execVars, poolVars, ExecInv, PoolTypeOK, QueueOK, ContainersAccounted, InUse
    <2>2. CASE ExecNext
      BY <2>2, CallersKeep, LoopsKeep, CommandsKeep, PhasesKeep DEF ExecNext, Serve, LoopStep
    <2> QED
      BY <2>1, <2>2
  <1> QED
    BY <1>1, <1>2, PTL DEF ExecSpec

\* Containers are accounted for in every state of the executor (env/pool Get
\* and Put, workDoGroup's deferred Put, Destroy).
THEOREM ContainersNeverLost == ExecSpec => []ContainersAccounted
  <1>1. ExecInv => ContainersAccounted
    BY DEF ExecInv
  <1> QED
    BY <1>1, ExecInvariance, PTL

-----------------------------------------------------------------------------
(* Shutdown *)

TakenUp == {"taken", "prepare", "envs", "run", "put"}

\* A batch request that is under way has a loop, and Shutdown has waited for
\* the loops before it destroys the pool.
DrainInv ==
    /\ loopReq \in [Loops -> Requests \cup {None, "exited"}]
    /\ \A r \in Batch : stage[r] \in TakenUp => \E l \in Loops : loopReq[l] = r
    /\ phase \in {"destroying", "down"} => \A l \in Loops : loopReq[l] = "exited"
    /\ ShutdownDrains

\* Once the loops have left, only an interactive session is executed, and
\* without one no container is in use.
LEMMA NobodyLeft ==
    ASSUME ExecInv, DrainInv, phase \in {"destroying", "down"}
    PROVE  /\ \A r \in Batch : stage[r] \notin TakenUp
           /\ (\A r \in Interactive : stage[r] = "idle") => InUse = {}
  <1>1. \A r \in Batch : stage[r] \notin TakenUp
    BY ExecAssumption DEF DrainInv, Requests
  <1>2. ASSUME \A r \in Interactive : stage[r] = "idle" PROVE InUse = {}
    BY <1>1, <1>2 DEF ExecInv, ContainersAccounted, InUse, Requests, TakenUp
  <1> QED
    BY <1>1, <1>2

\* No step takes a batch request away from its loop, brings a loop back after
\* Shutdown, or leaves a container alive behind it.
LEMMA DrainKeeps ==
    ASSUME ExecInv, DrainInv, ExecNext
    PROVE  DrainInv'
  <1> USE ExecAssumption DEF ExecInv, PoolTypeOK, DrainInv, TakenUp, Requests
  <1>1. CASE Start \/ Shutdown
    BY <1>1 DEF Start, Shutdown, ShutdownDrains
  <1>2. CASE Drained
    BY <1>2 DEF Drained, ShutdownDrains
  <1>3. CASE DestroyPool
    <2>1. /\ phase = "destroying" /\ phase' = "down" /\ dead' = dead \cup idle
          /\ UNCHANGED <<stage, loopReq, held, built>>
      BY <1>3 DEF DestroyPool
    <2>2. \A r \in Batch : stage[r] \notin {"prepare", "envs", "run", "put"}
      BY <2>1, NobodyLeft
    <2>3. (\A r \in Interactive : stage[r] = "idle") => dead' = 1 .. built
      BY <2>1, NobodyLeft DEF ContainersAccounted
    <2>4. ShutdownDrains'
      BY <2>1, <2>2, <2>3 DEF ShutdownDrains, Executing
    <2> QED
      BY <2>1, <2>4
  <1>4. CASE \E r \in Requests : Submit(r) \/ Execute(r) \/ Cancel(r)
    BY <1>4 DEF Submit, Queue, Refuse, Execute, Cancel, ShutdownDrains, Executing, poolVars
  <1>5. ASSUME NEW l \in Loops, Take(l) PROVE DrainInv'
    <2>1. phase \notin {"destroying", "down"} /\ UNCHANGED phase
      BY <1>5 DEF Take
    <2>2. Head(workCh) \in Requests
      BY <1>5, HeadTailProperties DEF Take
    <2>3. loopReq' = [loopReq EXCEPT ![l] = Head(workCh)] /\ loopReq[l] = None
      BY <1>5 DEF Take
    <2>4. stage' = [stage EXCEPT ![Head(workCh)] = "taken"]
      BY <1>5 DEF Take
    <2>5. \A r \in Batch : stage'[r] \in TakenUp => \E k \in Loops : loopReq'[k] = r
      BY <2>2, <2>3, <2>4
    <2> QED
      BY <2>1, <2>2, <2>3, <2>5 DEF ShutdownDrains
  <1>6. ASSUME NEW l \in Loops, Begin(l) PROVE DrainInv'
    <2>1. phase \notin {"destroying", "down"} /\ UNCHANGED phase
      BY <1>6 DEF Begin
    <2> DEFINE r == loopReq[l]
    <2>2. r \in Requests /\ stage[r] = "taken"
      BY <1>6 DEF Begin
    <2>3. CASE r \in ctxDone
      <3>1. stage' = [stage EXCEPT ![r] = "over"] /\ loopReq' = [loopReq EXCEPT ![l] = None]
        BY <1>6, <2>3 DEF Begin
      <3>2. \A q \in Batch : stage'[q] \in TakenUp => \E k \in Loops : loopReq'[k] = q
        BY <2>2, <3>1
      <3> QED
        BY <2>1, <3>1, <3>2 DEF ShutdownDrains
    <2>4. CASE r \notin ctxDone
      <3>1. stage' = [stage EXCEPT ![r] = "prepare"] /\ UNCHANGED loopReq
        BY <1>6, <2>4 DEF Begin
      <3> QED
        BY <2>1, <2>2, <3>1 DEF ShutdownDrains
    <2> QED
      BY <2>3, <2>4
  <1>7. ASSUME NEW l \in Loops, ExitLoop(l) PROVE DrainInv'
    BY <1>7 DEF ExitLoop, ShutdownDrains, Executing, poolVars
  <1>8. CASE \E r \in Requests : DoCmd(r)
    BY <1>8 DEF DoCmd, Prepare, GetEnv, BuildFails, RunCmds, RunEnds, PutEnv, Respond, ShutdownDrains,
                Executing, poolVars
  <1> QED
    BY <1>1, <1>2, <1>3, <1>4, <1>5, <1>6, <1>7, <1>8 DEF ExecNext, Serve, Stop, LoopStep

\* When Shutdown has returned, no batch request is executed, and nothing that
\* was built outlives it unless an interactive session still holds or takes it
\* (worker.go Shutdown: close(done), wg.Wait, envPool.Destroy).
THEOREM ShutdownLeavesNothing == ExecSpec => []ShutdownDrains
  <1>1. ExecInit => DrainInv
    BY ExecAssumption DEF ExecInit, DrainInv, ShutdownDrains, Requests, TakenUp
  <1>2. ExecInv /\ DrainInv /\ [ExecNext]_execVars => DrainInv'
    <2> SUFFICES ASSUME ExecInv, DrainInv, [ExecNext]_execVars PROVE DrainInv'
      OBVIOUS
    <2>1. CASE UNCHANGED execVars
      BY <2>1 DEF execVars, poolVars, DrainInv, ShutdownDrains, Executing
    <2> QED
      BY <2>1, DrainKeeps
  <1>3. DrainInv => ShutdownDrains
    BY DEF DrainInv
  <1> QED
    BY <1>1, <1>2, <1>3, ExecInvariance, PTL DEF ExecSpec

-----------------------------------------------------------------------------
(* The steps of the service *)

\* A request that moves moves in the service, the others stay.
LEMMA JobMoves ==
    ASSUME PoolTypeOK, NEW r \in Requests, NEW s,
           stage' = [stage EXCEPT ![r] = s]
    PROVE  [q \in Requests |-> JobOf(stage[q])]'
              = [[q \in Requests |-> JobOf(stage[q])] EXCEPT ![r] = JobOf(s)]
  BY DEF PoolTypeOK

\* A step inside workDoCmd is not seen by the callers, except the last one.
LEMMA DoCmdImplements ==
    ASSUME ExecInv, NEW r \in Requests, DoCmd(r)
    PROVE  [Service!ServiceNext]_(Service!serviceVars)
  <1>1. CASE Respond(r)
    <2>1. /\ stage[r] = "put" /\ stage' = [stage EXCEPT ![r] = "over"]
          /\ answer' = [answer EXCEPT ![r] = "ran"] /\ UNCHANGED <<phase, ctxDone>>
      BY <1>1 DEF Respond
    <2>2. [q \in Requests |-> JobOf(stage[q])]'
             = [[q \in Requests |-> JobOf(stage[q])] EXCEPT ![r] = "over"]
      BY <2>1, JobMoves DEF ExecInv, JobOf
    <2>3. Service!Finish(r)
      BY <2>1, <2>2 DEF Service!Finish, Service!Answered, JobOf
    <2> QED
      BY <2>3 DEF Service!ServiceNext, Service!Works
  <1>2. CASE ~Respond(r)
    <2>1. UNCHANGED <<phase, ctxDone, answer>>
      BY <1>2 DEF DoCmd, Prepare, GetEnv, BuildFails, RunCmds, RunEnds, PutEnv, poolVars
    <2>2. \/ UNCHANGED stage
          \/ /\ stage[r] \in {"prepare", "envs", "run"}
             /\ \E s \in {"envs", "run", "put"} : stage' = [stage EXCEPT ![r] = s]
      BY <1>2 DEF DoCmd, Prepare, GetEnv, BuildFails, RunCmds, RunEnds, PutEnv, poolVars
    <2>3. \A q \in Requests : JobOf(stage'[q]) = JobOf(stage[q])
      BY <2>2 DEF ExecInv, PoolTypeOK, JobOf
    <2>4. [q \in Requests |-> JobOf(stage[q])]' = [q \in Requests |-> JobOf(stage[q])]
      BY <2>3
    <2> QED
      BY <2>1, <2>4 DEF Service!serviceVars
  <1> QED
    BY <1>1, <1>2

\* Submit, Execute and a cancelled context are calls of the service.
LEMMA CallsImplement ==
    ASSUME ExecInv, NEW r \in Requests, Submit(r) \/ Execute(r) \/ Cancel(r)
    PROVE  Service!ServiceNext
  <1> DEFINE jobs == [q \in Requests |-> JobOf(stage[q])]
  <1>1. CASE Submit(r) /\ Queue(r)
    <2>1. /\ stage[r] = "idle" /\ stage' = [stage EXCEPT ![r] = "queued"]
          /\ UNCHANGED <<phase, answer, ctxDone>>
      BY <1>1 DEF Submit, Queue
    <2>2. phase # "new"
      BY <1>1, <2>1 DEF Submit, Queue, Refuse, ExecInv, PoolTypeOK
    <2>3. jobs' = [jobs EXCEPT ![r] = "queued"]
      BY <2>1, JobMoves DEF ExecInv, JobOf
    <2>4. Service!Accept(r)
      BY <2>1, <2>2, <2>3 DEF Service!Accept, Service!MovesTo, JobOf, ServingOf
    <2> QED
      BY <2>4 DEF Service!ServiceNext
  <1>2. CASE Submit(r) /\ Refuse(r)
    <2>1. /\ stage[r] = "idle" /\ stage' = [stage EXCEPT ![r] = "over"]
          /\ answer' = [answer EXCEPT ![r] = "refused"] /\ UNCHANGED <<phase, ctxDone>>
      BY <1>2 DEF Submit, Refuse
    <2>2. jobs' = [jobs EXCEPT ![r] = "over"]
      BY <2>1, JobMoves DEF ExecInv, JobOf
    <2>3. Service!Reject(r)
      BY <2>1, <2>2 DEF Service!Reject, Service!Answered, JobOf
    <2> QED
      BY <2>3 DEF Service!ServiceNext
  <1>3. CASE Execute(r)
    <2>1. /\ stage[r] = "idle" /\ stage' = [stage EXCEPT ![r] = "prepare"]
          /\ UNCHANGED <<phase, answer, ctxDone>>
      BY <1>3 DEF Execute
    <2>2. jobs' = [jobs EXCEPT ![r] = "running"]
      BY <2>1, JobMoves DEF ExecInv, JobOf
    <2>3. Service!AcceptNow(r)
      BY <2>1, <2>2 DEF Service!AcceptNow, Service!MovesTo, JobOf
    <2> QED
      BY <2>3 DEF Service!ServiceNext
  <1>4. CASE Cancel(r)
    <2>1. /\ stage[r] \notin {"idle", "over"} /\ ctxDone' = ctxDone \cup {r}
          /\ UNCHANGED <<phase, stage, answer>>
      BY <1>4 DEF Cancel
    <2>2. Service!GiveUp(r)
      BY <2>1 DEF Service!GiveUp, JobOf
    <2> QED
      BY <2>2 DEF Service!ServiceNext
  <1> QED
    BY <1>1, <1>2, <1>3, <1>4 DEF Submit

\* A loop takes up what was accepted, and drops it only for a cancelled context.
LEMMA LoopImplements ==
    ASSUME ExecInv, NEW l \in Loops, LoopStep(l) \/ ExitLoop(l)
    PROVE  [Service!ServiceNext]_(Service!serviceVars)
  <1> DEFINE jobs == [q \in Requests |-> JobOf(stage[q])]
  <1>1. CASE Take(l)
    <2> DEFINE r == Head(workCh)
    <2>1. /\ workCh # << >> /\ workCh \in Seq(Requests) /\ phase # "new"
          /\ stage' = [stage EXCEPT ![r] = "taken"] /\ UNCHANGED <<phase, answer, ctxDone>>
      BY <1>1 DEF Take, ExecInv, PoolTypeOK
    <2>2. r = workCh[1] /\ r \in Requests /\ 1 \in 1 .. Len(workCh)
      BY <2>1, EmptySeq, HeadTailProperties
    <2>3. stage[r] = "queued"
      BY <2>2 DEF ExecInv, QueueOK
    <2> HIDE DEF r
    <2>4. jobs' = [jobs EXCEPT ![r] = "taken"]
      BY <2>1, <2>2, JobMoves DEF ExecInv, JobOf
    <2>5. Service!TakeUp(r)
      BY <2>1, <2>2, <2>3, <2>4 DEF Service!TakeUp, Service!MovesTo, JobOf, ServingOf
    <2> QED
      BY <2>2, <2>5 DEF Service!ServiceNext
  <1>2. CASE Begin(l)
    <2> DEFINE r == loopReq[l]
    <2>1. r \in Requests /\ stage[r] = "taken" /\ UNCHANGED <<phase, ctxDone>>
      BY <1>2 DEF Begin
    <2>2. CASE r \in ctxDone
      <3>1. /\ stage' = [stage EXCEPT ![r] = "over"]
            /\ answer' = [answer EXCEPT ![r] = "cancelled"]
        BY <1>2, <2>2 DEF Begin
      <3> HIDE DEF r
      <3>2. jobs' = [jobs EXCEPT ![r] = "over"]
        BY <2>1, <3>1, JobMoves DEF ExecInv, JobOf
      <3>3. Service!Drop(r)
        BY <2>1, <2>2, <3>1, <3>2 DEF Service!Drop, Service!Answered, JobOf
      <3> QED
        BY <2>1, <3>3 DEF Service!ServiceNext, Service!Works
    <2>3. CASE r \notin ctxDone
      <3>1. stage' = [stage EXCEPT ![r] = "prepare"] /\ UNCHANGED answer
        BY <1>2, <2>3 DEF Begin
      <3> HIDE DEF r
      <3>2. jobs' = [jobs EXCEPT ![r] = "running"]
        BY <2>1, <3>1, JobMoves DEF ExecInv, JobOf
      <3>3. Service!RunIt(r)
        BY <2>1, <2>3, <3>1, <3>2 DEF Service!RunIt, Service!MovesTo, JobOf
      <3> QED
        BY <2>1, <3>3 DEF Service!ServiceNext, Service!Works
    <2> QED
      BY <2>2, <2>3
  <1>3. CASE ExitLoop(l)
    BY <1>3 DEF ExitLoop, Service!serviceVars
  <1> QED
    BY <1>1, <1>2, <1>3 DEF LoopStep

\* The executor implements the service (the steps; its fairness is checked by
\* TLC): whatever the loops, the sessions, the pool and a shutdown do, the
\* callers see only steps that ExecService allows.
THEOREM ExecutorRefines ==
    ExecSpec => Service!ServiceInit /\ [][Service!ServiceNext]_(Service!serviceVars)
  <1>1. ExecInit => Service!ServiceInit
    <2> SUFFICES ASSUME ExecInit PROVE Service!ServiceInit
      OBVIOUS
    <2>1. [r \in Requests |-> JobOf(stage[r])] = [r \in Requests |-> "idle"]
      BY DEF ExecInit, JobOf
    <2> QED
      BY <2>1 DEF ExecInit, Service!ServiceInit, ServingOf
  <1>2. ExecInv /\ [ExecNext]_execVars => [Service!ServiceNext]_(Service!serviceVars)
    <2> SUFFICES ASSUME ExecInv, [ExecNext]_execVars
                 PROVE  [Service!ServiceNext]_(Service!serviceVars)
      OBVIOUS
    <2>1. CASE Start
      <3>1. Service!Open
        BY <2>1 DEF Start, Service!Open, ServingOf
      <3> QED
        BY <3>1 DEF Service!ServiceNext
    <2>2. CASE Shutdown
      <3>1. Service!Close
        BY <2>2 DEF Shutdown, Service!Close, ServingOf
      <3> QED
        BY <3>1 DEF Service!ServiceNext
    <2>3. CASE Drained \/ DestroyPool
      BY <2>3 DEF Drained, DestroyPool, Service!serviceVars, ServingOf
    <2>4. CASE \E l \in Loops : LoopStep(l) \/ ExitLoop(l)
      BY <2>4, LoopImplements
    <2>5. CASE \E r \in Requests : DoCmd(r)
      BY <2>5, DoCmdImplements
    <2>6. CASE \E r \in Requests : Submit(r) \/ Execute(r) \/ Cancel(r)
      BY <2>6, CallsImplement
    <2>7. CASE UNCHANGED execVars
      BY <2>7 DEF execVars, Service!serviceVars
    <2> QED
      BY <2>1, <2>2, <2>3, <2>4, <2>5, <2>6, <2>7 DEF ExecNext, Serve, Stop
  <1> QED
    BY <1>1, <1>2, ExecInvariance, PTL DEF ExecSpec

-----------------------------------------------------------------------------
(* A request over a websocket *)

\* A request that is reported as cancelled has a cancelled context, and no loop
\* had looked at it; a context stays cancelled.
ToldInv ==
    /\ job \in [Reqs -> {"idle", "queued", "taken", "running", "over"}]
    /\ reply \in [Reqs -> {"none", "refused", "cancelled", "ran"}]
    /\ \A r \in Reqs : reply[r] = "ran" => job[r] = "over"
    /\ told \subseteq gaveUp \cap Reqs
    /\ CancelledNeverRuns

LEMMA ToldKeeps ==
    ASSUME ToldInv, [WsNext]_wsAll
    PROVE  ToldInv'
  <1> USE DEF ToldInv, CancelledNeverRuns
  <1>1. CASE UNCHANGED wsAll
    BY <1>1 DEF wsAll, wsVars, serviceVars
  <1>2. CASE (Open \/ Close) /\ UNCHANGED wsVars
    BY <1>2 DEF Open, Close, wsVars
  <1>3. ASSUME NEW r \in Reqs, TakeUp(r) \/ Works(r), UNCHANGED wsVars PROVE ToldInv'
    BY <1>3 DEF TakeUp, Works, RunIt, Drop, Finish, MovesTo, Answered, wsVars
  <1>4. ASSUME NEW r \in Reqs, ReadRequest(r) \/ Handle(r) PROVE ToldInv'
    <2>1. CASE ReadRequest(r) \/ SendDuplicate(r) \/ WaitResult(r) \/ SendResult(r)
      BY <2>1 DEF ReadRequest, SendDuplicate, WaitResult, SendResult, Moves
    <2>2. CASE WsSubmit(r)
      BY <2>2 DEF WsSubmit, Accept, Reject, MovesTo, Answered
    <2>3. CASE AwaitStart(r)
      BY <2>3 DEF AwaitStart, Moves, Started
    <2>4. CASE Leave(r)
      BY <2>4 DEF Leave, RemoveId
    <2> QED
      BY <1>4, <2>1, <2>2, <2>3, <2>4 DEF Handle
  <1>5. ASSUME NEW id \in Ids, ReadCancel(id) PROVE ToldInv'
    BY <1>5 DEF ReadCancel, RemoveId
  <1>6. CASE Break \/ ReaderEnds \/ Write \/ PingFails
    BY <1>6 DEF Break, ReaderEnds, Write, PingFails
  <1> QED
    BY <1>1, <1>2, <1>3, <1>4, <1>5, <1>6 DEF WsNext

\* A request that the client is told was cancelled before its execution never
\* runs, for any requests and ids: the goroutine looks at started after the
\* context, the loop at the context after it closed started
\* (ws_executor/websocket.go, handleRequest; worker/worker.go, loop).
THEOREM ToldNeverRuns == WsSpec => []CancelledNeverRuns
  <1>1. WsInit => ToldInv
    BY DEF WsInit, ServiceInit, ToldInv, CancelledNeverRuns
  <1>2. ToldInv => CancelledNeverRuns
    BY DEF ToldInv, CancelledNeverRuns
  <1> QED
    BY <1>1, <1>2, ToldKeeps, PTL DEF WsSpec

-----------------------------------------------------------------------------
(* The output of a session *)

\* Where the chunks are that the program has written.
InHand == (IF output = "push" THEN 1 ELSE 0) + (IF main = "output" THEN 1 ELSE 0)

ChunksTypeOK ==
    /\ inPipe \in Nat /\ outCh \in Nat /\ produced \in Nat /\ sent \in Nat
    /\ main \in {"first", "loop", "output", "final", "join", "returned"}
    /\ output \in {"none", "top", "read", "push", "done"}
    /\ outEnd \in {"open", "closed", "seen"}
    /\ main = "first" => exec = "none" /\ output = "none"

\* Until the session is cancelled, or a send has failed, no chunk is lost, and
\* the end of the output is only seen behind the last one.
ChunksOK ==
    /\ closed = {}
    /\ produced = sent + outCh + inPipe + InHand
    /\ output = "done" => exec = "over" /\ inPipe = 0
    /\ outEnd # "open" => output = "done"
    /\ outEnd = "seen" => outCh = 0
    /\ main = "final" => outEnd = "seen"

ChunksInv == ChunksTypeOK /\ (~ctxOver /\ main \notin {"join", "returned"} => ChunksOK)

\* Each step of the session.
LEMMA ChunksKeep ==
    ASSUME ChunksInv, [SessionNext]_sessionVars
    PROVE  ChunksInv'
  <1> USE DEF ChunksInv, ChunksTypeOK, ChunksOK, InHand, clientVars, fileVars
  <1>1. CASE UNCHANGED sessionVars
    BY <1>1 DEF sessionVars
  <1>2. CASE ReceiveFirst \/ FirstRefused
    BY <1>2 DEF ReceiveFirst, FirstRefused
  <1>3. CASE SendFinal \/ Select
    BY <1>3 DEF SendFinal, Select
  <1>4. CASE GrpcSend
    BY <1>4 DEF GrpcSend, SendReturns
  <1>5. CASE WsSend
    BY <1>5 DEF WsSend, SendReturns
  <1>6. CASE Join
    BY <1>6 DEF Join
  <1>7. CASE Returned \/ PingLost \/ ClientLeaves \/ GrpcContextEnds
    BY <1>7 DEF Returned, HandleStreamReturns, ExecStreamReturns, PingLost, ClientLeaves,
                GrpcContextEnds
  <1>8. CASE InputStep \/ Message
    <2>1. UNCHANGED <<main, output, exec, fileVars, outCh, outEnd, produced, sent>>
      BY <1>8 DEF InputStep, Message, InputTop, ReceiveEnd, WriteInput, SetSize, ReceiveMessage,
                  ReceiveCancel, WsMalformed, GrpcMalformed, MessageRefused
    <2>2. UNCHANGED ctxOver \/ InputEnds(TRUE) \/ InputEnds(FALSE) \/ InputEnds(client = "gone")
      BY <1>8, Zenon DEF InputStep, Message, InputTop, ReceiveEnd, WriteInput, SetSize, ReceiveMessage,
                         ReceiveCancel, WsMalformed, GrpcMalformed, MessageRefused
    <2>3. ~ctxOver' => ~ctxOver
      BY <2>2, Zenon DEF InputEnds
    <2> QED
      BY <2>1, <2>3
  <1>9. CASE OutputStep
    BY <1>9 DEF OutputStep, OutputTop, ReadOutput, PushOutput, CloseOutCh
  <1>10. CASE ExecStep \/ ProgramWrites
    BY <1>10 DEF ExecStep, StreamsRefused, StartStream, ExecBegins, ProgramEnds, ProgramWrites
  <1> QED
    BY <1>1, <1>2, <1>3, <1>4, <1>5, <1>6, <1>7, <1>8, <1>9, <1>10 DEF SessionNext, MainStep

\* The response of a session that nothing has cancelled comes after all that
\* the program has written, for any number of chunks (stream/stream.go,
\* sendLoop and streamOutput).
THEOREM ResponseComesLast == SessionSpec => []OutputBeforeResponse
  <1>1. SessionInit => ChunksInv
    BY DEF SessionInit, ChunksInv, ChunksTypeOK, ChunksOK, InHand
  <1>2. ChunksInv => OutputBeforeResponse
    BY DEF ChunksInv, ChunksTypeOK, ChunksOK, InHand, OutputBeforeResponse
  <1> QED
    BY <1>1, <1>2, ChunksKeep, PTL DEF SessionSpec

-----------------------------------------------------------------------------
(* The process *)

\* How far the shutdown is, and what a stop function that has returned has waited
\* for: it stays true because the servers take no request any more and the loops
\* of the worker have gone.
StopsInv ==
    /\ server \in [Servers -> {"none", "listening", "closed", "off"}]
    /\ stop \in [Stops -> {"none", "called", "returned"}]
    /\ call \in [Reqs -> {"none", "submit", "wait", "answered", "lost"}]
    /\ job \in [Reqs -> {"idle", "queued", "taken", "running", "over"}]
    /\ proc \in {"boot", "serve"} => stop = [f \in Stops |-> "none"] /\ ~late
    /\ proc = "stopping" => \A f \in Stops : stop[f] # "none"
    /\ proc \in {"boot", "serve", "stopping"} => \A r \in Reqs : call[r] # "lost"
    /\ \A s \in Servers : stop[s] # "none" => server[s] \in {"closed", "off"}
    /\ \A s \in Servers : server[s] = "off" => Quiet(s)
    /\ stop["worker"] = "returned" => \A r \in Reqs : job[r] \notin {"taken", "running"}
    /\ stop["http"] = "returned" => Quiet("http") \/ late
    /\ stop["grpc"] = "returned" => Quiet("grpc")
    /\ proc = "boot" => \A s \in Servers : server[s] # "listening"
    /\ proc = "boot" => \A r \in Reqs : call[r] = "none" /\ job[r] = "idle"
    /\ CleanExit

\* Every step of the process keeps what its stop functions have waited for.
LEMMA StopsKeep ==
    ASSUME StopsInv, [ServerNext]_serverAll
    PROVE  StopsInv'
  <1> USE DEF StopsInv, CleanExit, Quiet, InCall, ServerOf, Servers, Stops, serviceVars, serverVars
  <1>1. CASE UNCHANGED serverAll
    BY <1>1 DEF serverAll
  <1>2. CASE PreforkFails \/ Boots
    BY <1>2 DEF PreforkFails, Boots, Open
  <1>3. ASSUME NEW s \in Servers, Listen(s) \/ ServeEnds(s) PROVE StopsInv'
    BY <1>3 DEF Listen, ServeEnds
  <1>4. CASE Signalled
    BY <1>4 DEF Signalled
  <1>5. ASSUME NEW r \in Reqs, Declines(r) \/ Arrives(r) PROVE StopsInv'
    <2>1. /\ proc # "exited" /\ server[ServerOf(r)] = "listening"
          /\ UNCHANGED <<via, proc, server, stop, late, job>>
          /\ \E c \in {"answered", "submit"} : call' = [call EXCEPT ![r] = c]
      BY <1>5 DEF Declines, Arrives
    <2>2. proc = "boot" => FALSE
      BY <2>1
    <2>3. ServerOf(r) \in Servers /\ stop[ServerOf(r)] = "none"
      BY <2>1
    <2>4. \A s \in Servers : s # ServerOf(r) => (Quiet(s)' <=> Quiet(s))
      BY <2>1
    <2> QED
      BY <2>1, <2>2, <2>3, <2>4
  <1>6. ASSUME NEW r \in Reqs, Submits(r) PROVE StopsInv'
    <2>1. /\ proc # "exited" /\ call[r] = "submit" /\ call' = [call EXCEPT ![r] = "wait"]
          /\ UNCHANGED <<via, proc, server, stop, late>>
      BY <1>6 DEF Submits
    <2>2. \E j \in {"queued", "over"} : job' = [job EXCEPT ![r] = j]
      BY <1>6 DEF Submits, Accept, Reject, MovesTo, Answered
    <2>3. \A q \in Reqs : InCall(q)' <=> InCall(q)
      BY <2>1
    <2>4. \A q \in Reqs : job'[q] \in {"taken", "running"} => job[q] \in {"taken", "running"}
      BY <2>2
    <2> QED
      BY <2>1, <2>2, <2>3, <2>4
  <1>7. ASSUME NEW r \in Reqs, Responds(r) \/ ClientGone(r) PROVE StopsInv'
    BY <1>7 DEF Responds, ClientGone, GiveUp
  <1>8. CASE WorkerStep
    BY <1>8 DEF WorkerStep, TakeUp, Works, RunIt, Drop, Finish, MovesTo, Answered
  <1>9. CASE ShutdownBegins
    <2>1. /\ proc = "serve" /\ proc' = "stopping" /\ UNCHANGED <<via, late, call, job>>
          /\ \A s \in Servers : server'[s] = IF server[s] = "off" THEN "off" ELSE "closed"
          /\ server' \in [Servers -> {"closed", "off"}]
      BY <1>9 DEF ShutdownBegins, Close, Configured
    <2>2. /\ stop' \in [Stops -> {"called", "returned"}] /\ stop'["worker"] = "called"
          /\ \A s \in Servers : stop'[s] = "returned" => server[s] = "off"
      BY <1>9 DEF ShutdownBegins, Configured
    <2> QED
      BY <2>1, <2>2
  <1>10. CASE WorkerStops \/ FilesStop
    BY <1>10 DEF WorkerStops, FilesStop, Return
  <1>11. CASE HttpStops \/ GrpcStops
    BY <1>11 DEF HttpStops, GrpcStops, Return
  <1>12. CASE TimeUp
    BY <1>12 DEF TimeUp
  <1>13. CASE Exits
    BY <1>13 DEF Exits
  <1> QED
    BY <1>1, <1>2, <1>3, <1>4, <1>5, <1>6, <1>7, <1>8, <1>9, <1>10, <1>11, <1>12, <1>13
    DEF ServerNext, StopStep

\* For any number of requests, however they come: a process that exits within the
\* three seconds loses no request that came over REST or gRPC and leaves nothing
\* being executed, although its stop functions run side by side
\* (cmd/go-judge/main.go, main and the stop functions).
THEOREM ExitWithinTimeIsClean == ServerSpec => []CleanExit
  <1>1. ServerInit => StopsInv
    <2> SUFFICES ASSUME ServerInit PROVE StopsInv
      OBVIOUS
    <2>1. \A r \in Reqs : ~InCall(r)
      BY DEF ServerInit, InCall
    <2>2. server \in [Servers -> {"none", "off"}]
      BY DEF ServerInit, Servers
    <2> QED
      BY <2>1, <2>2 DEF ServerInit, ServiceInit, StopsInv, CleanExit, Servers, Stops, Quiet
  <1>2. StopsInv => CleanExit
    BY DEF StopsInv
  <1> QED
    BY <1>1, <1>2, StopsKeep, PTL DEF ServerSpec
=============================================================================
