-------------------------- MODULE NodeManagerProofs -------------------------
(***************************************************************************)
(* One runtime at a time, for any number of starts.                        *)
(*                                                                         *)
(* That a start finds no other runtime rests on three things together: the *)
(* state is only "stopped" or "failed" when run has done its last work, it *)
(* is "starting" exactly while an operation starts, and a stop that was    *)
(* not waited for leaves it "stopping" until run itself ends.              *)
(***************************************************************************)
EXTENDS NodeManager, TLAPS

NodeTypeOK ==
    /\ op \in {"none", "start", "stop", "restart"}
    /\ state \in {"stopped", "starting", "running", "stopping", "failed"}
    /\ at \in {"none", "check", "sandbox", "launch", "cancel", "wait", "kill"}
    /\ gen \in 0 .. MaxRuns
    /\ run \in [Gens -> {"none", "boot", "enroll", "serve", "flush", "join", "closing", "over"}]
    /\ session \in [Gens -> {"none", "up", "ended"}]
    /\ failure \in [Gens -> {"none", "wss", "revoked"}]
    /\ rotator \in [Gens -> {"none", "live", "gone"}]
    /\ sandbox \in [Gens -> {"none", "live", "killed", "dead"}]

\* A generation whose auxCtx and sandbox nobody has taken down.
Untouched(g) == g \notin stopAux /\ sandbox[g] # "killed"

\* What a generation has to do with the current one.
GensOK ==
    \A g \in Gens :
        /\ g > gen => run[g] = "none" /\ g \notin stopRun /\ g \notin done
              /\ g \notin stopAux /\ sandbox[g] = "none"
        /\ Active(g) => g = gen /\ g \notin done
        /\ session[g] = "up" => run[g] # "none"
        /\ rotator[g] = "live" => run[g] \in {"serve", "flush"} \/ g \in stopAux
        /\ run[g] \in {"flush", "join"} => g \in stopRun
        /\ Active(g) /\ g \in stopRun => failure[g] # "none" \/ state = "stopping"
        /\ Active(g) /\ run[g] # "join" => Untouched(g)

\* What the state says about the current generation.
StateOK ==
    /\ state = "running" => gen \in Gens /\ Active(gen)
    /\ state \in {"stopped", "failed", "starting"} => \A g \in Gens : ~Active(g)
    /\ state = "starting" <=> at \in {"sandbox", "launch"}

\* What an operation in progress knows.
OpOK ==
    /\ op = "none" <=> at = "none"
    /\ at \in {"sandbox", "launch"} =>
          gen \in Gens /\ run[gen] = "none" /\ gen \notin stopRun /\ gen \notin done
          /\ Untouched(gen)
    /\ at = "kill" => gen = 0 \/ gen \in done

NodeInv == NodeTypeOK /\ GensOK /\ StateOK /\ OpOK

-----------------------------------------------------------------------------
\* The operations and the callers keep the invariant.
LEMMA OpsKeep ==
    ASSUME NodeInv, SetConfig \/ OpStep \/ \E o \in {"start", "stop", "restart"} : Call(o)
    PROVE  NodeInv'
  <1> USE NodeAssumption DEF NodeInv, NodeTypeOK, GensOK, StateOK, OpOK, Active, Untouched, Gens, OpReturns, genVars,
          opVars, AfterStop
  <1>1. CASE SetConfig
    BY <1>1 DEF SetConfig
  <1>2. CASE \E o \in {"start", "stop", "restart"} : Call(o)
    BY <1>2 DEF Call
  <1>3. CASE StartCheck
    BY <1>3 DEF StartCheck
  <1>4. CASE StartFails
    BY <1>4 DEF StartFails
  <1>5. CASE StartSandbox
    BY <1>5 DEF StartSandbox
  <1>6. CASE Launch
    BY <1>6 DEF Launch
  <1>7. CASE StopCancel
    BY <1>7 DEF StopCancel
  <1>8. CASE StopDone
    BY <1>8 DEF StopDone
  <1>9. CASE StopGivesUp
    BY <1>9 DEF StopGivesUp
  <1>10. CASE StopKill
    <2>1. \A g \in Gens : ~Active(g)
      BY <1>10 DEF StopKill
    <2>2. /\ at = "kill" /\ state' = "stopped" /\ at' \in {"none", "check"}
          /\ UNCHANGED <<gen, run, session, failure, rotator, stopRun, stopAux, done>>
      BY <1>10 DEF StopKill
    <2>3. op' \in {"none", "restart"} /\ (op' = "none" <=> at' = "none")
      BY <1>10 DEF StopKill
    <2>4. sandbox' \in [Gens -> {"none", "live", "killed", "dead"}]
      BY <1>10 DEF StopKill
    <2>5. \A g \in Gens : g > gen => sandbox'[g] = "none"
      BY <1>10 DEF StopKill
    <2>6. NodeTypeOK'
      BY <2>2, <2>3, <2>4
    <2>7. GensOK'
      BY <2>1, <2>2, <2>5
    <2>8. StateOK'
      BY <2>1, <2>2
    <2>9. OpOK'
      BY <2>1, <2>2, <2>3
    <2> QED
      BY <2>6, <2>7, <2>8, <2>9
  <1> QED
    BY <1>1, <1>2, <1>3, <1>4, <1>5, <1>6, <1>7, <1>8, <1>9, <1>10 DEF OpStep

\* So do the goroutines of a generation, the current one or an older one.
LEMMA RunsKeep ==
    ASSUME NodeInv, NEW g \in Gens,
           \/ RunStep(g) \/ SessionEnds(g) \/ RotatorEnds(g) \/ SandboxDies(g)
           \/ \E why \in {"wss", "revoked"} : ChannelEnds(g, why)
    PROVE  NodeInv'
  <1> USE NodeAssumption DEF NodeInv, NodeTypeOK, GensOK, StateOK, OpOK, Active, Untouched, Gens, genVars, opVars, Fail
  <1>1. CASE Boot(g)
    <2>1. g = gen /\ g \notin done /\ run[g] = "boot"
      BY <1>1 DEF Boot
    <2>2. \A h \in Gens : h # g => run'[h] = run[h]
      BY <1>1 DEF Boot
    <2>3. \/ run'[g] = "enroll" /\ state' = state
          \/ run'[g] = "closing" /\ state' = "failed"
      BY <1>1 DEF Boot
    <2>4. UNCHANGED <<op, at, gen, session, failure, rotator, stopRun, stopAux, done, sandbox>>
      BY <1>1 DEF Boot
    <2>5. NodeTypeOK'
      BY <1>1 DEF Boot
    <2>6. GensOK'
      BY <2>1, <2>2, <2>3, <2>4
    <2>7. StateOK'
      BY <2>1, <2>2, <2>3, <2>4
    <2>8. OpOK'
      BY <2>1, <2>2, <2>3, <2>4
    <2> QED
      BY <2>5, <2>6, <2>7, <2>8
  <1>2. CASE Enroll(g)
    <2>1. CASE run' = [run EXCEPT ![g] = "serve"]
      <3>1. g = gen /\ g \notin done /\ run[g] = "enroll"
        BY <1>2 DEF Enroll
      <3>2. \A h \in Gens : h # g => run'[h] = run[h] /\ session'[h] = session[h]
        BY <1>2, <2>1 DEF Enroll
      <3>5. \A h \in Gens : h # g => rotator'[h] = rotator[h]
        BY <1>2, <2>1 DEF Enroll
      <3>3. run'[g] = "serve" /\ state' = state /\ NodeTypeOK'
        BY <1>2, <2>1 DEF Enroll
      <3>4. UNCHANGED <<op, at, gen, failure, stopRun, stopAux, done, sandbox>>
        BY <1>2 DEF Enroll
      <3> QED
        BY <3>1, <3>2, <3>3, <3>4, <3>5
    <2>2. CASE Fail(g) /\ UNCHANGED <<session, rotator>>
      BY <1>2, <2>2 DEF Enroll
    <2> QED
      BY <1>2, <2>1, <2>2 DEF Enroll
  <1>3. CASE PoolDrained(g)
    BY <1>3 DEF PoolDrained
  <1>4. CASE Flushed(g)
    BY <1>4 DEF Flushed
  <1>5. CASE Joined(g)
    <2>1. g = gen /\ g \in stopRun /\ run[g] = "join" /\ run'[g] = "closing"
      BY <1>5 DEF Joined
    <2>2. \A h \in Gens : h # g => run'[h] = run[h] /\ ~Active(h)
      BY <1>5 DEF Joined
    <2>3. /\ state' \in {"failed", "stopped"}
          /\ run' \in [Gens -> {"none", "boot", "enroll", "serve", "flush", "join", "closing", "over"}]
      BY <1>5, <2>1 DEF Joined
    <2>4. UNCHANGED <<op, at, gen, session, failure, rotator, stopRun, stopAux, done, sandbox>>
      BY <1>5 DEF Joined
    <2>5. at \notin {"sandbox", "launch"}
      BY <2>1
    <2> QED
      BY <2>1, <2>2, <2>3, <2>4, <2>5
  <1>6. CASE Close(g)
    BY <1>6 DEF Close
  <1>7. CASE SessionEnds(g)
    BY <1>7 DEF SessionEnds
  <1>8. CASE RotatorEnds(g)
    BY <1>8 DEF RotatorEnds
  <1>9. CASE SandboxDies(g)
    BY <1>9 DEF SandboxDies
  <1>10. CASE \E why \in {"wss", "revoked"} : ChannelEnds(g, why)
    BY <1>10 DEF ChannelEnds
  <1> QED
    BY <1>1, <1>2, <1>3, <1>4, <1>5, <1>6, <1>7, <1>8, <1>9, <1>10 DEF RunStep

\* The strengthened invariant of the manager.
THEOREM NodeInvariance == NodeSpec => []NodeInv
  <1>1. NodeInit => NodeInv
    BY NodeAssumption DEF NodeInit, NodeInv, NodeTypeOK, GensOK, StateOK, OpOK, Active, Untouched, Gens
  <1>2. NodeInv /\ [NodeNext]_nodeVars => NodeInv'
    <2> SUFFICES ASSUME NodeInv, [NodeNext]_nodeVars PROVE NodeInv'
      OBVIOUS
    <2>1. CASE UNCHANGED nodeVars
      BY <2>1 DEF nodeVars, genVars, opVars, NodeInv, NodeTypeOK, GensOK, StateOK, OpOK, Active,
         Untouched
    <2>2. CASE NodeNext
      BY <2>2, OpsKeep, RunsKeep DEF NodeNext
    <2> QED
      BY <2>1, <2>2
  <1> QED
    BY <1>1, <1>2, PTL DEF NodeSpec

\* However often the node is started, stopped and restarted, no two runtimes are
\* at work at one time, and of the rotations, which nobody waits for, each one
\* whose runtime is over has been told to stop (manager.go start, stop, run, fail).
THEOREM RuntimesNeverOverlap == NodeSpec => []OneRuntime
  <1>1. NodeInv => OneRuntime
    BY DEF NodeInv, NodeTypeOK, GensOK, StateOK, Active, OneRuntime
  <1> QED
    BY <1>1, NodeInvariance, PTL

\* No operation and no goroutine of any generation takes the sandbox or the
\* session of a runtime down while it still has tasks to drain or results to
\* flush: a stop waits for done before it kills, a start never reuses a
\* generation, and auxCtx is cancelled after flushResults only (manager.go run,
\* stop and start).
THEOREM SandboxOutlivesTheDrain == NodeSpec => []DrainsWithSandbox
  <1>1. NodeInv => DrainsWithSandbox
    BY DEF NodeInv, GensOK, Active, Untouched, DrainsWithSandbox
  <1> QED
    BY <1>1, NodeInvariance, PTL
=============================================================================
