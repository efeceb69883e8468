----------------------------- MODULE ExecServer -----------------------------
(***************************************************************************)
(* The executor's process (cmd/go-judge/main.go): it builds the worker,    *)
(* the file store and the servers, serves until a signal comes or a server *)
(* ends, and then calls all the stop functions at once, with three seconds *)
(* for them all.                                                           *)
(*                                                                         *)
(* The worker is the service that ExecService promises; ExecWorker shows   *)
(* that it is.  A request comes over REST, over gRPC or over a websocket,  *)
(* whose connection http.Server.Shutdown no longer knows.                  *)
(***************************************************************************)
EXTENDS ExecService

CONSTANT Vias   \* ways in which the requests may come: functions to "rest", "grpc" and "ws"

\* The server of the metrics is one more http server, without requests of ours.
Servers == {"http", "grpc"}
Stops == {"worker", "files"} \cup Servers

VARIABLES
    via,        \* how each request comes
    proc,       \* "boot", "serve", "stopping" or "exited"
    interrupt,  \* a value that ends the loop is in sig
    server,     \* "none", "listening", "closed" (it takes no more requests) or "off"
    stop,       \* the stop functions: "none", "called" or "returned"
    late,       \* the three seconds are over
    call,       \* the handler of a request: "none", "submit", "wait", "answered", "lost"
    files       \* the store: "own" (it removes its directory at the end), "given" or "removed"

serverVars == <<via, proc, interrupt, server, stop, late, call, files>>
serverAll == <<serviceVars, serverVars>>

\* The monitor and gRPC are there only when they are configured.
Configured(s) == server[s] # "off"

ServerOf(r) == IF via[r] = "grpc" THEN "grpc" ELSE "http"
InCall(r) == call[r] \in {"submit", "wait"}

-----------------------------------------------------------------------------
(* Start *)

\* A container that cannot be built ends the process.
PreforkFails ==
    /\ proc = "boot"
    /\ proc' = "exited"
    /\ UNCHANGED <<serviceVars, via, interrupt, server, stop, late, call, files>>

\* newWorker and work.Start
Boots ==
    /\ proc = "boot"
    /\ proc' = "serve" /\ Open
    /\ UNCHANGED <<via, interrupt, server, stop, late, call, files>>

\* A server's start function: it cannot listen, or it serves.  When it returns
\* main is sent an interrupt (and again when it is shut down, which nobody reads).
Listen(s) ==
    /\ proc = "serve" /\ server[s] = "none"
    /\ \/ server' = [server EXCEPT ![s] = "listening"] /\ UNCHANGED interrupt
       \/ server' = [server EXCEPT ![s] = "closed"] /\ interrupt' = TRUE
    /\ UNCHANGED <<serviceVars, via, proc, stop, late, call, files>>

ServeEnds(s) ==
    /\ proc = "serve" /\ server[s] = "listening"
    /\ server' = [server EXCEPT ![s] = "closed"]
    /\ interrupt' = TRUE
    /\ UNCHANGED <<serviceVars, via, proc, stop, late, call, files>>

\* SIGINT, or SIGTERM, unless PM2 manages the process.
Signalled ==
    /\ proc = "serve"
    /\ interrupt' = TRUE
    /\ UNCHANGED <<serviceVars, via, proc, server, stop, late, call, files>>

-----------------------------------------------------------------------------
(* Requests *)

\* Without the token, or not a request: the worker never sees it.
Declines(r) ==
    /\ proc # "exited" /\ server[ServerOf(r)] = "listening"
    /\ call[r] = "none"
    /\ call' = [call EXCEPT ![r] = "answered"]
    /\ UNCHANGED <<serviceVars, via, proc, interrupt, server, stop, late, files>>

Arrives(r) ==
    /\ proc # "exited" /\ server[ServerOf(r)] = "listening"
    /\ call[r] = "none"
    /\ call' = [call EXCEPT ![r] = "submit"]
    /\ UNCHANGED <<serviceVars, via, proc, interrupt, server, stop, late, files>>

\* Submit is held up while the worker shuts down; a loop may have gone by then.
Submits(r) ==
    /\ proc # "exited" /\ call[r] = "submit"
    /\ stop["worker"] # "called"
    /\ Accept(r) \/ Reject(r)
    /\ call' = [call EXCEPT ![r] = "wait"]
    /\ UNCHANGED <<via, proc, interrupt, server, stop, late, files>>

\* The handler waits for its response whatever becomes of the client.
Responds(r) ==
    /\ proc # "exited" /\ call[r] = "wait" /\ reply[r] # "none"
    /\ call' = [call EXCEPT ![r] = "answered"]
    /\ UNCHANGED <<serviceVars, via, proc, interrupt, server, stop, late, files>>

ClientGone(r) ==
    /\ proc # "exited" /\ call[r] = "wait"
    /\ GiveUp(r)
    /\ UNCHANGED serverVars

\* The loops and the executions.
WorkerStep ==
    /\ proc # "exited"
    /\ \E r \in Reqs : (TakeUp(r) /\ stop["worker"] # "returned") \/ Works(r)
    /\ UNCHANGED serverVars

-----------------------------------------------------------------------------
(* Shutdown *)

ShutdownBegins ==
    /\ proc = "serve" /\ interrupt
    /\ proc' = "stopping"
    /\ stop' = [f \in Stops |-> IF f \in Servers /\ ~Configured(f) THEN "returned" ELSE "called"]
    /\ server' = [s \in Servers |-> IF Configured(s) THEN "closed" ELSE "off"]
    /\ Close
    /\ UNCHANGED <<via, interrupt, late, call, files>>

Return(f) == stop' = [stop EXCEPT ![f] = "returned"]

\* cleanUpWorker: Shutdown returns when nothing is being executed.
WorkerStops ==
    /\ proc = "stopping" /\ stop["worker"] = "called"
    /\ \A r \in Reqs : job[r] \notin {"taken", "running"}
    /\ Return("worker")
    /\ UNCHANGED <<serviceVars, via, proc, interrupt, server, late, call, files>>

\* cleanUpFs does not wait for the worker; the default directory is removed.
FilesStop ==
    /\ proc = "stopping" /\ stop["files"] = "called"
    /\ Return("files")
    /\ files' = IF files = "own" THEN "removed" ELSE files
    /\ UNCHANGED <<serviceVars, via, proc, interrupt, server, late, call>>

Quiet(s) == \A r \in Reqs : (ServerOf(r) = s /\ via[r] # "ws") => ~InCall(r)

\* http.Server.Shutdown waits for its handlers, those of a websocket apart, or
\* for the end of the context.
HttpStops ==
    /\ proc = "stopping" /\ stop["http"] = "called"
    /\ Quiet("http") \/ late
    /\ Return("http")
    /\ UNCHANGED <<serviceVars, via, proc, interrupt, server, late, call, files>>

\* GracefulStop waits for its handlers alone.
GrpcStops ==
    /\ proc = "stopping" /\ stop["grpc"] = "called"
    /\ Quiet("grpc")
    /\ Return("grpc")
    /\ UNCHANGED <<serviceVars, via, proc, interrupt, server, late, call, files>>

TimeUp ==
    /\ proc = "stopping" /\ ~late
    /\ late' = TRUE
    /\ UNCHANGED <<serviceVars, via, proc, interrupt, server, stop, call, files>>

\* Faulty variant: the time is not limited.
ExitsWhenAll ==
    /\ proc = "stopping"
    /\ \A f \in Stops : stop[f] = "returned"
    /\ proc' = "exited"
    /\ call' = [r \in Reqs |-> IF InCall(r) THEN "lost" ELSE call[r]]
    /\ UNCHANGED <<serviceVars, via, interrupt, server, stop, late, files>>

\* main returns when all have returned or when the time is over; what is still
\* in progress is lost.
Exits ==
    /\ proc = "stopping"
    /\ late \/ \A f \in Stops : stop[f] = "returned"
    /\ proc' = "exited"
    /\ call' = [r \in Reqs |-> IF InCall(r) THEN "lost" ELSE call[r]]
    /\ UNCHANGED <<serviceVars, via, interrupt, server, stop, late, files>>

-----------------------------------------------------------------------------

\* newFileStore: a directory that nobody configured is removed at the end.
FileStores == {"own", "given"}

ServerInit ==
    /\ ServiceInit /\ via \in Vias
    /\ proc = "boot" /\ interrupt = FALSE
    /\ server \in {[s \in Servers |-> IF s \in on THEN "none" ELSE "off"] :
                      on \in {{"http"}, Servers}}
    /\ stop = [f \in Stops |-> "none"] /\ late = FALSE
    /\ call = [r \in Reqs |-> "none"]
    /\ files \in FileStores

StopStep == WorkerStops \/ FilesStop \/ HttpStops \/ GrpcStops \/ TimeUp \/ Exits

ServerNext ==
    \/ PreforkFails \/ Boots \/ WorkerStep \/ Signalled \/ ShutdownBegins \/ StopStep
    \/ \E s \in Servers : Listen(s) \/ ServeEnds(s)
    \/ \E r \in Reqs : Declines(r) \/ Arrives(r) \/ Submits(r) \/ Responds(r) \/ ClientGone(r)

\* The timer fires, main reads its channels; executions may take for ever.
ServerFairness ==
    /\ WF_serverAll(ShutdownBegins) /\ WF_serverAll(TimeUp) /\ WF_serverAll(Exits)

ServerSpec == ServerInit /\ [][ServerNext]_serverAll /\ ServerFairness

-----------------------------------------------------------------------------
(* Properties *)

\* A shutdown that ends within its time loses no request that came over REST or
\* gRPC and leaves nothing being executed, although the stop functions run side
\* by side and a request may come in while the worker is already closed ...
CleanExit ==
    proc = "exited" /\ ~late =>
       \A r \in Reqs :
          /\ call[r] = "lost" => via[r] = "ws"
          /\ job[r] \in {"taken", "running"} => stop["worker"] = "none"

\* ... and one that is asked for ends, although a request that was left in the
\* queue keeps its handler, and the server that waits for it, for ever.
ShutdownEnds == interrupt ~> proc = "exited"

\* The shutdown of main.go: nothing lost within the time, and an end.
GracefulShutdown == []CleanExit /\ ShutdownEnds
=============================================================================
