----------------------------- MODULE WsRequests -----------------------------
(***************************************************************************)
(* One websocket of the executor (cmd/go-judge/ws_executor/websocket.go):  *)
(* a reader that handles requests and cancellations, a goroutine per       *)
(* request that submits it to the worker and waits, a writer that takes    *)
(* the results from resultCh.  contextMap finds the cancel function of a   *)
(* request by the id the client chose; a client may use an id again.       *)
(*                                                                         *)
(* The worker is the service it promises (ExecService, which ExecWorker    *)
(* implements); the goroutines and the worker interleave.                  *)
(***************************************************************************)
EXTENDS ExecService, Naturals, Sequences

CONSTANTS
    IdOf,       \* the request id of each request
    ResultCap,  \* capacity of resultCh
    NoCancel

Ids == {IdOf[r] : r \in Reqs}

VARIABLES
    conn,       \* "up", "broken" (closed, the reader has not seen it) or "lost" (baseCtx cancelled)
    writing,    \* the writer goroutine runs
    cm,         \* contextMap: the request whose cancel function an id has
    handler,    \* "none", "dup" (the reader sends its error), "submit", "wait", "result",
                \* "send", "leave" or "gone"
    resultCh,   \* number of responses in resultCh
    told        \* requests reported as cancelled before execution

wsVars == <<conn, writing, cm, handler, resultCh, told>>
wsAll == <<serviceVars, wsVars>>

\* The started channel is closed when a loop takes the request, or with the refusal.
Started(r) == job[r] \in {"taken", "running", "over"}

ReaderFree == conn # "lost" /\ \A r \in Reqs : handler[r] # "dup"

\* contextMap.Remove: forget the id and cancel whatever request it stands for.
RemoveId(id) ==
    IF cm[id] = NoCancel
    THEN UNCHANGED <<cm, gaveUp>>
    ELSE /\ cm' = [cm EXCEPT ![id] = NoCancel]
         /\ gaveUp' = gaveUp \cup {cm[id]}

-----------------------------------------------------------------------------
(* The reader *)

\* handleRequest: an id that is in use is refused.
ReadRequest(r) ==
    /\ ReaderFree /\ conn = "up"
    /\ handler[r] = "none"
    /\ IF cm[IdOf[r]] = NoCancel
       THEN /\ cm' = [cm EXCEPT ![IdOf[r]] = r]
            /\ handler' = [handler EXCEPT ![r] = "submit"]
       ELSE /\ handler' = [handler EXCEPT ![r] = "dup"]
            /\ UNCHANGED cm
    /\ UNCHANGED <<conn, writing, resultCh, gaveUp, serving, job, reply, told>>

\* The reader itself sends the error of a duplicate; baseCtx ends only with the reader.
SendDuplicate(r) ==
    /\ handler[r] = "dup"
    /\ resultCh < ResultCap
    /\ resultCh' = resultCh + 1
    /\ handler' = [handler EXCEPT ![r] = "gone"]
    /\ UNCHANGED <<conn, writing, cm, gaveUp, serving, job, reply, told>>

ReadCancel(id) ==
    /\ ReaderFree /\ conn = "up"
    /\ RemoveId(id)
    /\ UNCHANGED <<conn, writing, handler, resultCh, serving, job, reply, told>>

\* The peer goes away: the socket is closed ...
Break ==
    /\ conn = "up"
    /\ conn' = "broken"
    /\ UNCHANGED <<writing, cm, handler, resultCh, gaveUp, serving, job, reply, told>>

\* Faulty variant: the reader leaves without baseCancel.
ReaderEndsOnly ==
    /\ ReaderFree /\ conn = "broken"
    /\ UNCHANGED conn
    /\ writing' = FALSE
    /\ UNCHANGED <<cm, handler, resultCh, gaveUp, serving, job, reply, told>>

\* ... and the reader, when it reads again, leaves: baseCancel.
ReaderEnds ==
    /\ ReaderFree /\ conn = "broken"
    /\ conn' = "lost"
    /\ gaveUp' = gaveUp \cup {r \in Reqs : handler[r] \in {"submit", "wait", "result", "send"}}
    /\ UNCHANGED <<writing, cm, handler, resultCh, serving, job, reply, told>>

-----------------------------------------------------------------------------
(* The goroutine of a request *)

WsSubmit(r) ==
    /\ handler[r] = "submit"
    /\ Accept(r) \/ Reject(r)
    /\ handler' = [handler EXCEPT ![r] = "wait"]
    /\ UNCHANGED <<conn, writing, cm, resultCh, told>>

Moves(r, s) == handler' = [handler EXCEPT ![r] = s] /\ UNCHANGED told

\* Faulty variant: started is not looked at.
AwaitNoStart(r) ==
    /\ handler[r] = "wait"
    /\ \/ /\ r \in gaveUp
          /\ handler' = [handler EXCEPT ![r] = "send"]
          /\ told' = told \cup {r}
       \/ (conn = "lost" \/ reply[r] # "none") /\ Moves(r, "leave")
    /\ UNCHANGED <<conn, writing, cm, resultCh, gaveUp, serving, job, reply>>

\* The select over baseCtx, ctx and the result; any ready case is taken.
AwaitStart(r) ==
    /\ handler[r] = "wait"
    /\ \/ /\ conn = "lost"
          /\ Moves(r, "leave")
       \/ /\ r \in gaveUp /\ Started(r)
          /\ Moves(r, "result")
       \/ /\ r \in gaveUp /\ ~Started(r)
          /\ handler' = [handler EXCEPT ![r] = "send"]
          /\ told' = told \cup {r}
       \/ reply[r] # "none" /\ Moves(r, "send")
    /\ UNCHANGED <<conn, writing, cm, resultCh, gaveUp, serving, job, reply>>

\* A started request is waited for although it is cancelled.
WaitResult(r) ==
    /\ handler[r] = "result" /\ reply[r] # "none"
    /\ Moves(r, "send")
    /\ UNCHANGED <<conn, writing, cm, resultCh, gaveUp, serving, job, reply>>

SendResult(r) ==
    /\ handler[r] = "send"
    /\ \/ conn = "lost" /\ UNCHANGED resultCh
       \/ resultCh < ResultCap /\ resultCh' = resultCh + 1
    /\ handler' = [handler EXCEPT ![r] = "leave"]
    /\ UNCHANGED <<conn, writing, cm, gaveUp, serving, job, reply, told>>

\* The deferred cm.Remove goes by the id: it may find a newer request there.
Leave(r) ==
    /\ handler[r] = "leave"
    /\ RemoveId(IdOf[r])
    /\ handler' = [handler EXCEPT ![r] = "gone"]
    /\ UNCHANGED <<conn, writing, resultCh, serving, job, reply, told>>

-----------------------------------------------------------------------------
(* The writer *)

Write ==
    /\ writing /\ resultCh > 0
    /\ resultCh' = resultCh - 1
    /\ writing' = (conn = "up")
    /\ UNCHANGED <<conn, cm, handler, gaveUp, serving, job, reply, told>>

\* A ping on a closed connection.
PingFails ==
    /\ writing /\ conn # "up"
    /\ writing' = FALSE
    /\ UNCHANGED <<conn, cm, handler, resultCh, gaveUp, serving, job, reply, told>>

-----------------------------------------------------------------------------

WsInit ==
    /\ ServiceInit
    /\ conn = "up" /\ writing = TRUE
    /\ cm = [id \in Ids |-> NoCancel]
    /\ handler = [r \in Reqs |-> "none"]
    /\ resultCh = 0 /\ told = {}

Handle(r) ==
    \/ SendDuplicate(r) \/ WsSubmit(r) \/ AwaitStart(r) \/ WaitResult(r) \/ SendResult(r) \/ Leave(r)

WsNext ==
    \/ (Open \/ Close \/ \E r \in Reqs : TakeUp(r) \/ Works(r)) /\ UNCHANGED wsVars
    \/ \E r \in Reqs : ReadRequest(r) \/ Handle(r)
    \/ \E id \in Ids : ReadCancel(id)
    \/ Break \/ ReaderEnds \/ Write \/ PingFails

WsFairness ==
    /\ \A r \in Reqs :
          /\ WF_wsAll(serving = "yes" /\ TakeUp(r) /\ UNCHANGED wsVars)
          /\ WF_wsAll(Works(r) /\ UNCHANGED wsVars)
          /\ WF_wsAll(Handle(r))
    /\ WF_wsAll(ReaderEnds) /\ WF_wsAll(Write) /\ WF_wsAll(PingFails)

WsSpec == WsInit /\ [][WsNext]_wsAll /\ WsFairness

-----------------------------------------------------------------------------
(* Properties *)

\* A request that is reported as cancelled before its execution is never
\* executed, although its check of started and the loop's check of the context
\* are made by different goroutines.
CancelledNeverRuns ==
    \A r \in told : job[r] # "running" /\ reply[r] # "ran"

\* When the connection is lost the goroutines end, unless the reader is stuck
\* with the error of a duplicate: it waits for a place in resultCh that a
\* writer which has left never makes, and baseCtx ends only with the reader.
HandlersEnd ==
    conn = "broken" ~>
       \/ \A r \in Reqs : handler[r] \in {"none", "gone"}
       \/ serving # "yes"
       \/ /\ \E r \in Reqs : handler[r] = "dup"
          /\ resultCh = ResultCap /\ ~writing
=============================================================================
