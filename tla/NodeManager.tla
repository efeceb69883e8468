---------------------------- MODULE NodeManager ----------------------------
(***************************************************************************)
(* The life cycle of the judge node's runtime (node/manager.go): Start,    *)
(* Stop and Restart, called by the web console and by the shutdown of the  *)
(* process, against the goroutine run, the task channel's client, the key  *)
(* rotation and the sandbox process.                                       *)
(*                                                                         *)
(* Every Start makes a new generation with its own contexts, done channel, *)
(* goroutines and sandbox; the manager's state and its pointers are shared *)
(* between generations.  Taking tasks, draining and sending results is the *)
(* subject of TaskChannel; here it takes time.                             *)
(***************************************************************************)
EXTENDS Naturals

CONSTANT MaxRuns       \* bound on the generations

ASSUME NodeAssumption == MaxRuns \in Nat

Gens == 1 .. MaxRuns

VARIABLES
    state,      \* Manager.state
    configured, \* Manager.cfg is set
    op,         \* the operation that holds opMu: "none", "start", "stop", "restart"
    at,         \* where it is: "none", "check", "sandbox", "launch", "cancel", "wait", "kill"
    gen,        \* the generation of Manager.cancel and Manager.done, 0 at first
    cmd,        \* Manager.sandbox, 0 for nil
    run,        \* run: "none", "boot", "enroll", "serve", "flush", "join", "closing", "over"
    stopRun,    \* generations whose runCtx is cancelled
    stopAux,    \* generations whose auxCtx is cancelled
    done,       \* generations whose done channel is closed
    session,    \* wssClient.Run: "none", "up", "ended"
    failure,    \* "none", "wss", "revoked"
    rotator,    \* rotator.Run: "none", "live", "gone"
    sandbox     \* "none", "live", "killed" (the signal is on its way), "dead"

opVars == <<op, at>>
genVars == <<run, session, failure, rotator>>
nodeVars == <<state, configured, opVars, gen, cmd, genVars, stopRun, stopAux, done, sandbox>>

OpReturns == op' = "none" /\ at' = "none"

-----------------------------------------------------------------------------
(* Start, Stop and Restart, one at a time *)

SetConfig ==
    /\ configured' = TRUE
    /\ UNCHANGED <<state, opVars, gen, cmd, genVars, stopRun, stopAux, done, sandbox>>

Call(o) ==
    /\ op = "none"
    /\ op' = o /\ at' = IF o = "start" THEN "check" ELSE "cancel"
    /\ UNCHANGED <<state, configured, gen, cmd, genVars, stopRun, stopAux, done, sandbox>>

\* start is refused while the runtime runs, starts or stops.
StartCheck ==
    /\ at = "check"
    /\ \/ /\ state \in {"running", "starting", "stopping"}
          /\ OpReturns /\ UNCHANGED <<state, gen>>
       \/ /\ state \in {"stopped", "failed"} /\ ~configured
          /\ state' = "failed"
          /\ OpReturns /\ UNCHANGED gen
       \/ /\ state \in {"stopped", "failed"} /\ configured /\ gen < MaxRuns
          /\ state' = "starting" /\ gen' = gen + 1
          /\ at' = "sandbox" /\ UNCHANGED op
    /\ UNCHANGED <<configured, cmd, genVars, stopRun, stopAux, done, sandbox>>

\* The configuration is invalid or the sandbox cannot be started.
StartFails ==
    /\ at = "sandbox"
    /\ state' = "failed"
    /\ stopRun' = stopRun \cup {gen} /\ stopAux' = stopAux \cup {gen} /\ done' = done \cup {gen}
    /\ OpReturns
    /\ UNCHANGED <<configured, gen, cmd, genVars, sandbox>>

\* The new sandbox cannot listen while an older one holds the port; it exits,
\* which is only logged.
StartSandbox ==
    /\ at = "sandbox"
    /\ sandbox' = [sandbox EXCEPT ![gen] =
          IF \E g \in Gens : sandbox[g] \in {"live", "killed"} THEN "dead" ELSE "live"]
    /\ cmd' = gen
    /\ at' = "launch"
    /\ UNCHANGED <<state, configured, op, gen, genVars, stopRun, stopAux, done>>

Launch ==
    /\ at = "launch"
    /\ state' = "running"
    /\ run' = [run EXCEPT ![gen] = "boot"]
    /\ OpReturns
    /\ UNCHANGED <<configured, gen, cmd, session, failure, rotator, stopRun, stopAux, done, sandbox>>

AfterStop == IF op = "restart" THEN at' = "check" /\ UNCHANGED op ELSE OpReturns

\* Faulty variant: the sandbox is taken down with the signal to stop.
StopCancelAll ==
    /\ at = "cancel"
    /\ IF state = "stopped"
       THEN AfterStop /\ UNCHANGED <<state, stopRun, stopAux>>
       ELSE /\ state' = "stopping"
            /\ stopRun' = stopRun \cup ({gen} \cap Gens)
            /\ stopAux' = stopAux \cup ({gen} \cap Gens)
            /\ at' = "wait" /\ UNCHANGED op
    /\ UNCHANGED <<configured, gen, cmd, genVars, done, sandbox>>

\* stop: no more tasks are taken ...
StopCancel ==
    /\ at = "cancel"
    /\ IF state = "stopped"
       THEN AfterStop /\ UNCHANGED <<state, stopRun>>
       ELSE /\ state' = "stopping"
            /\ stopRun' = stopRun \cup ({gen} \cap Gens)
            /\ at' = "wait" /\ UNCHANGED op
    /\ UNCHANGED <<configured, gen, cmd, genVars, stopAux, done, sandbox>>

\* ... until run is over ...
StopDone ==
    /\ at = "wait" /\ (gen = 0 \/ gen \in done)
    /\ at' = "kill"
    /\ UNCHANGED <<state, configured, op, gen, cmd, genVars, stopRun, stopAux, done, sandbox>>

\* Faulty variant: a stop that was not waited for counts as done.
StopGivesUpStopped ==
    /\ at = "wait" /\ gen > 0
    /\ state' = "stopped"
    /\ OpReturns
    /\ UNCHANGED <<configured, gen, cmd, genVars, stopRun, stopAux, done, sandbox>>

\* ... or until the caller's context ends, which may have happened while it
\* waited for opMu.
StopGivesUp ==
    /\ at = "wait" /\ gen > 0
    /\ OpReturns
    /\ UNCHANGED <<state, configured, gen, cmd, genVars, stopRun, stopAux, done, sandbox>>

StopKill ==
    /\ at = "kill"
    /\ cmd' = 0
    /\ sandbox' = [g \in Gens |-> IF g = cmd /\ sandbox[g] = "live" THEN "killed" ELSE sandbox[g]]
    /\ state' = "stopped"
    /\ AfterStop
    /\ UNCHANGED <<configured, gen, genVars, stopRun, stopAux, done>>

-----------------------------------------------------------------------------
(* run *)

\* fail, and return.
Fail(g) ==
    /\ state' = "failed"
    /\ run' = [run EXCEPT ![g] = "closing"]

\* identity.Open
Boot(g) ==
    /\ run[g] = "boot"
    /\ \/ run' = [run EXCEPT ![g] = "enroll"] /\ UNCHANGED state
       \/ Fail(g)
    /\ UNCHANGED <<configured, opVars, gen, cmd, session, failure, rotator, stopRun, stopAux, done, sandbox>>

\* EnsureEnrolled, which ends with runCtx, and the result queue; then the client,
\* the rotation and the pool are started.
Enroll(g) ==
    /\ run[g] = "enroll"
    /\ \/ /\ run' = [run EXCEPT ![g] = "serve"]
          /\ session' = [session EXCEPT ![g] = "up"]
          /\ rotator' = [rotator EXCEPT ![g] = "live"]
          /\ UNCHANGED state
       \/ Fail(g) /\ UNCHANGED <<session, rotator>>
    /\ UNCHANGED <<configured, opVars, gen, cmd, failure, stopRun, stopAux, done, sandbox>>

\* The channel fails for good, or the server revokes the identity.
ChannelEnds(g, why) ==
    /\ session[g] = "up" /\ g \notin stopAux
    /\ session' = [session EXCEPT ![g] = "ended"]
    /\ failure' = [failure EXCEPT ![g] = why]
    /\ stopRun' = stopRun \cup {g}
    /\ UNCHANGED <<state, configured, opVars, gen, cmd, run, rotator, stopAux, done, sandbox>>

\* pool.Run returns when runCtx is cancelled and the tasks are drained.
PoolDrained(g) ==
    /\ run[g] = "serve" /\ g \in stopRun
    /\ run' = [run EXCEPT ![g] = "flush"]
    /\ UNCHANGED <<state, configured, opVars, gen, cmd, session, failure, rotator, stopRun, stopAux, done, sandbox>>

\* flushResults is bounded; then auxCtx is cancelled.
Flushed(g) ==
    /\ run[g] = "flush"
    /\ run' = [run EXCEPT ![g] = "join"]
    /\ stopAux' = stopAux \cup {g}
    /\ UNCHANGED <<state, configured, opVars, gen, cmd, session, failure, rotator, stopRun, done, sandbox>>

SessionEnds(g) ==
    /\ session[g] = "up" /\ g \in stopAux
    /\ session' = [session EXCEPT ![g] = "ended"]
    /\ UNCHANGED <<state, configured, opVars, gen, cmd, run, failure, rotator, stopRun, stopAux, done, sandbox>>

\* wssWG.Wait, and the final state.
Joined(g) ==
    /\ run[g] = "join" /\ session[g] = "ended"
    /\ IF failure[g] # "none"
       THEN Fail(g)
       ELSE /\ state' = IF state = "stopping" THEN "stopped" ELSE state
            /\ run' = [run EXCEPT ![g] = "closing"]
    /\ UNCHANGED <<configured, opVars, gen, cmd, session, failure, rotator, stopRun, stopAux, done, sandbox>>

\* Faulty variant: done is not closed on every path.
CloseKeepsDone(g) ==
    /\ run[g] = "closing"
    /\ run' = [run EXCEPT ![g] = "over"]
    /\ stopAux' = stopAux \cup {g}
    /\ UNCHANGED <<state, configured, opVars, gen, cmd, session, failure, rotator, stopRun, done, sandbox>>

\* The deferred cancelAux and close(done).
Close(g) ==
    /\ run[g] = "closing"
    /\ run' = [run EXCEPT ![g] = "over"]
    /\ stopAux' = stopAux \cup {g} /\ done' = done \cup {g}
    /\ UNCHANGED <<state, configured, opVars, gen, cmd, session, failure, rotator, stopRun, sandbox>>

\* The rotation notices auxCtx at its next select; nobody waits for it.
RotatorEnds(g) ==
    /\ rotator[g] = "live" /\ g \in stopAux
    /\ rotator' = [rotator EXCEPT ![g] = "gone"]
    /\ UNCHANGED <<state, configured, opVars, gen, cmd, run, session, failure, stopRun, stopAux, done, sandbox>>

\* CommandContext kills the sandbox with auxCtx; it may also die by itself.
SandboxDies(g) ==
    /\ sandbox[g] \in {"live", "killed"}
    /\ sandbox' = [sandbox EXCEPT ![g] = "dead"]
    /\ UNCHANGED <<state, configured, opVars, gen, cmd, genVars, stopRun, stopAux, done>>

-----------------------------------------------------------------------------

NodeInit ==
    /\ state = "stopped" /\ configured \in BOOLEAN
    /\ op = "none" /\ at = "none" /\ gen = 0 /\ cmd = 0
    /\ run = [g \in Gens |-> "none"] /\ session = [g \in Gens |-> "none"]
    /\ failure = [g \in Gens |-> "none"] /\ rotator = [g \in Gens |-> "none"]
    /\ stopRun = {} /\ stopAux = {} /\ done = {}
    /\ sandbox = [g \in Gens |-> "none"]

OpStep ==
    \/ StartCheck \/ StartFails \/ StartSandbox \/ Launch
    \/ StopCancel \/ StopDone \/ StopGivesUp \/ StopKill

RunStep(g) == Boot(g) \/ Enroll(g) \/ PoolDrained(g) \/ Flushed(g) \/ Joined(g) \/ Close(g)

NodeNext ==
    \/ SetConfig \/ OpStep
    \/ \E o \in {"start", "stop", "restart"} : Call(o)
    \/ \E g \in Gens :
          \/ RunStep(g) \/ SessionEnds(g) \/ RotatorEnds(g) \/ SandboxDies(g)
          \/ \E why \in {"wss", "revoked"} : ChannelEnds(g, why)

\* The goroutines go on: enrolment and draining are bounded once runCtx is
\* cancelled.  Without a stop enrolment may retry for ever.
NodeFairness ==
    /\ WF_nodeVars(OpStep)
    /\ \A g \in Gens :
          /\ WF_nodeVars(RunStep(g) /\ (run[g] = "enroll" => g \in stopRun))
          /\ WF_nodeVars(SessionEnds(g)) /\ WF_nodeVars(RotatorEnds(g))
          /\ WF_nodeVars(g \in stopAux /\ SandboxDies(g))

NodeSpec == NodeInit /\ [][NodeNext]_nodeVars /\ NodeFairness

-----------------------------------------------------------------------------
(* Properties *)

\* run, its pool and its session.
Active(g) == run[g] \in {"boot", "enroll", "serve", "flush", "join"}

\* One generation at most is at work, the last, and the state tells whether it
\* is: a stop that times out, a failure and a new start must not overlap, for its
\* pool alone uses the result queue.  The identity file is not as safe: nobody
\* waits for the rotation, and one of an earlier generation may still write the
\* file, but it has been told to stop.
OneRuntime ==
    /\ \A g \in Gens : Active(g) => g = gen
    /\ \A g \in Gens : rotator[g] = "live" => Active(g) \/ g \in stopAux
    /\ state = "running" => Active(gen)
    /\ state = "stopped" \/ at = "sandbox" => ~\E g \in Gens : Active(g)

\* Nothing of ours takes the sandbox or the session down before the tasks are
\* drained and their results flushed.
DrainsWithSandbox ==
    \A g \in Gens : run[g] \in {"serve", "flush"} => g \notin stopAux /\ sandbox[g] # "killed"

\* A runtime that is told to stop does so, its rotation too, even when the caller
\* has gone; only the state may stay behind.
StopEnds ==
    \A g \in Gens : gen = g /\ g \in stopRun ~> g \in done /\ rotator[g] # "live"
=============================================================================
