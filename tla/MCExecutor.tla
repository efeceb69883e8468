----------------------------- MODULE MCExecutor -----------------------------
(***************************************************************************)
(* The parts of the executor that serve requests, each on its own small    *)
(* instance: a behaviour runs the one that `part` names and leaves the     *)
(* others as they began, with none of their fair actions enabled.          *)
(***************************************************************************)
EXTENDS ExecWorker, WsRequests, StreamSession

VARIABLES
    part,
    \* the process, and the worker it promises
    via, proc, interrupt, server, stop, late, call, files, open, jobs, replies, gone

MCCmdCount == [r \in Requests |-> IF r = "r2" THEN 2 ELSE 1]
MCIdOf == [r \in Reqs |-> "id"]

\* One request over gRPC, one over REST or over a websocket.
Process == INSTANCE ExecServer WITH
    Vias <- {[r \in Reqs |-> IF r = "r1" THEN way ELSE "grpc"] : way \in {"rest", "ws"}},
    serving <- open, job <- jobs, reply <- replies, gaveUp <- gone

processVars == <<via, proc, interrupt, server, stop, late, call, files, open, jobs, replies, gone>>

Init ==
    /\ part \in {"worker", "websocket", "stream", "process"}
    /\ ExecInit /\ WsInit /\ SessionInit /\ Process!ServerInit
    /\ part # "stream" => transport = "grpc"
    /\ part # "process" => files = "own" /\ via["r1"] = "ws" /\ server["grpc"] = "off"

Next ==
    /\ UNCHANGED part
    /\ \/ part = "worker" /\ ExecNext /\ UNCHANGED <<wsAll, sessionVars, processVars>>
       \/ part = "websocket" /\ WsNext /\ UNCHANGED <<execVars, sessionVars, processVars>>
       \/ part = "stream" /\ SessionNext /\ UNCHANGED <<execVars, wsAll, processVars>>
       \/ part = "process" /\ Process!ServerNext /\ UNCHANGED <<execVars, wsAll, sessionVars>>

Spec ==
    /\ Init /\ [][Next]_<<part, execVars, wsAll, sessionVars, processVars>>
    /\ ExecFairness /\ WsFairness /\ SessionFairness /\ Process!ServerFairness

\* The shutdown of the process (cmd/go-judge/main.go), see ExecServer.
GracefulShutdown == Process!GracefulShutdown
=============================================================================
