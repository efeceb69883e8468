--------------------------- MODULE StreamSession ---------------------------
(***************************************************************************)
(* One interactive session of go-judge (cmd/go-judge/stream), over gRPC or *)
(* over a websocket, for a command with one streamed input and one         *)
(* streamed output: Start with its sendLoop, the goroutines streamInput    *)
(* and streamOutput, the execution, and the writer goroutine of the        *)
(* websocket.  A stream file (envexec/file.go) is started when the         *)
(* execution makes its pipe, one stream after the other, and closed by the *)
(* session; reads and writes wait for one of the two.                      *)
(*                                                                         *)
(* The client and the program are external: the client sends any message   *)
(* at any time or goes away, the program writes up to MaxOut chunks and    *)
(* exits, at the latest at its time limit or when it is cancelled.         *)
(***************************************************************************)
EXTENDS Naturals

CONSTANT MaxOut

VARIABLES
    transport,  \* "grpc" or "ws"
    client,     \* "up", "closed" (gRPC: it sends no more), "gone"
    wsWriter,   \* the writer goroutine of the websocket runs
    main,       \* Start: "first", "loop", "output" or "final" (in Send), "join", "returned"
    ctxOver,    \* ctx is cancelled
    input,      \* streamInput: "none", "top", "recv", "write", "resize", "done"
    output,     \* streamOutput: "none", "top", "read", "push", "done"
    exec,       \* Execute: "none", "prepare", "run", "over"
    made,       \* streams whose pipe the execution has made
    started,    \* those of them that were not closed by then
    closed,     \* streams that the session has closed
    inPipe,     \* chunks written by the program that streamOutput has not read
    outCh,      \* chunks in outCh, whose capacity is the number of streams
    outEnd,     \* "open", "closed", "seen" (sendLoop knows)
    result,     \* "none", "ready" in rtCh, "taken"
    produced,   \* history: chunks the program has written
    sent,       \* history: chunks handed to the transport
    responded   \* history: the response is handed to the transport

clientVars == <<transport, client, wsWriter>>
fileVars == <<made, started, closed, inPipe>>
sessionVars == <<clientVars, main, ctxOver, input, output, exec, fileVars, outCh, outEnd, result,
                 produced, sent, responded>>

-----------------------------------------------------------------------------
(* The client *)

\* It goes away, or, over gRPC, it only ends its side of the stream.
ClientLeaves ==
    /\ client # "gone"
    /\ \E c \in {"closed", "gone"} :
          /\ c = "closed" => transport = "grpc" /\ client = "up"
          /\ client' = c
    /\ UNCHANGED <<transport, wsWriter, main, ctxOver, input, output, exec, fileVars, outCh,
                   outEnd, result, produced, sent, responded>>

\* Over gRPC the context of the call, which is the base of ctx, ends with it.
GrpcContextEnds ==
    /\ transport = "grpc" /\ client = "gone" /\ ~ctxOver
    /\ ctxOver' = TRUE
    /\ UNCHANGED <<clientVars, main, input, output, exec, fileVars, outCh, outEnd, result,
                   produced, sent, responded>>

-----------------------------------------------------------------------------
(* Start *)

\* The first message must be a request that can be converted; then the
\* goroutines are started and the request is executed.
ReceiveFirst ==
    /\ main = "first" /\ client # "gone"
    /\ main' = "loop" /\ input' = "top" /\ output' = "top" /\ exec' = "prepare"
    /\ UNCHANGED <<clientVars, ctxOver, fileVars, outCh, outEnd, result, produced, sent, responded>>

\* Any other first message, a lost connection and a request that
\* convertStreamRequest refuses end Start, which closes the streams made so far.
FirstRefused ==
    /\ main = "first"
    /\ main' = "returned"
    /\ \/ UNCHANGED closed
       \/ client # "gone" /\ closed' \in SUBSET {"in", "out"}
    /\ UNCHANGED <<clientVars, ctxOver, input, output, exec, made, started, inPipe, outCh, outEnd, result,
                   produced, sent, responded>>

\* Faulty variant: the response does not wait for the output.
RespondWhenReady ==
    /\ main = "loop" /\ result = "taken"
    /\ main' = "final"
    /\ UNCHANGED <<clientVars, ctxOver, input, output, exec, fileVars, outCh, outEnd, result,
                   produced, sent, responded>>

\* sendLoop sends the response when it has both the result and the end of the output.
SendFinal ==
    /\ main = "loop" /\ outEnd = "seen" /\ result = "taken"
    /\ main' = "final"
    /\ UNCHANGED <<clientVars, ctxOver, input, output, exec, fileVars, outCh, outEnd, result,
                   produced, sent, responded>>

\* Otherwise its select takes any ready case: the context, a chunk, the end of
\* the output, the result, which may fail to convert.
Select ==
    /\ main = "loop" /\ ~(outEnd = "seen" /\ result = "taken")
    /\ \/ ctxOver /\ main' = "join" /\ UNCHANGED <<outCh, outEnd, result>>
       \/ outCh > 0 /\ outCh' = outCh - 1 /\ main' = "output" /\ UNCHANGED <<outEnd, result>>
       \/ /\ outCh = 0 /\ outEnd = "closed" /\ outEnd' = "seen"
          /\ UNCHANGED <<main, outCh, result>>
       \/ /\ result = "ready" /\ result' = "taken"
          /\ main' \in {"loop", "join"} /\ UNCHANGED <<outCh, outEnd>>
    /\ UNCHANGED <<clientVars, ctxOver, input, output, exec, fileVars, produced, sent, responded>>

\* What sendLoop goes on with after a Send that did not fail.
SendReturns ==
    /\ main' = IF main = "output" THEN "loop" ELSE "join"
    /\ sent' = IF main = "output" THEN sent + 1 ELSE sent
    /\ responded' = (responded \/ main = "final")

\* Send over gRPC fails when the client has gone.
GrpcSend ==
    /\ main \in {"output", "final"} /\ transport = "grpc"
    /\ IF client = "gone" THEN main' = "join" /\ UNCHANGED <<sent, responded>> ELSE SendReturns
    /\ UNCHANGED <<clientVars, ctxOver, input, output, exec, fileVars, outCh, outEnd, result, produced>>

\* Over the websocket Send hands the frame to the writer; without a writer it
\* waits for a context that ends only after Start.  The writer leaves when it
\* cannot write and after the response, and closes the connection.
WsSend ==
    /\ main \in {"output", "final"} /\ transport = "ws" /\ wsWriter
    /\ SendReturns
    /\ wsWriter' = (client # "gone" /\ main = "output")
    /\ client' = IF wsWriter' THEN client ELSE "gone"
    /\ UNCHANGED <<transport, ctxOver, input, output, exec, fileVars, outCh, outEnd, result, produced>>

\* The writer notices with its next ping that the client has gone.
PingLost ==
    /\ transport = "ws" /\ wsWriter /\ client = "gone"
    /\ wsWriter' = FALSE
    /\ UNCHANGED <<transport, client, main, ctxOver, input, output, exec, fileVars, outCh, outEnd,
                   result, produced, sent, responded>>

\* Faulty variant: the streams stay open.
JoinKeepsStreams ==
    /\ main = "join"
    /\ ctxOver' = TRUE
    /\ main' = IF input = "done" THEN "returned" ELSE main
    /\ UNCHANGED <<clientVars, input, output, exec, fileVars, outCh, outEnd, result,
                   produced, sent, responded>>

\* cancel(), closeFunc() and wg.Wait for streamInput.
Join ==
    /\ main = "join"
    /\ ctxOver' = TRUE /\ closed' = {"in", "out"}
    /\ main' = IF input = "done" THEN "returned" ELSE main
    /\ UNCHANGED <<clientVars, input, output, exec, made, started, inPipe, outCh, outEnd, result,
                   produced, sent, responded>>

\* Start has returned: handleStream cancels the context of the writer, which
\* closes the connection ...
HandleStreamReturns ==
    /\ main = "returned" /\ transport = "ws" /\ wsWriter
    /\ wsWriter' = FALSE /\ client' = "gone"
    /\ UNCHANGED <<transport, main, ctxOver, input, output, exec, fileVars, outCh, outEnd, result,
                   produced, sent, responded>>

\* ... and ExecStream ends the stream of the call.
ExecStreamReturns ==
    /\ main = "returned" /\ transport = "grpc" /\ client # "gone"
    /\ client' = "gone"
    /\ UNCHANGED <<transport, wsWriter, main, ctxOver, input, output, exec, fileVars, outCh, outEnd,
                   result, produced, sent, responded>>

-----------------------------------------------------------------------------
(* streamInput *)

InputEnds(failed) ==
    /\ input' = "done"
    /\ ctxOver' = (ctxOver \/ failed)

\* The context is looked at before Recv, not while it waits.
InputTop ==
    /\ input = "top"
    /\ IF ctxOver THEN InputEnds(FALSE) ELSE input' = "recv" /\ UNCHANGED ctxOver
    /\ UNCHANGED <<clientVars, main, output, exec, fileVars, outCh, outEnd, result,
                   produced, sent, responded>>

\* A message for a stream that exists: input, and a resize of a terminal, wait
\* for that stream.
ReceiveMessage ==
    /\ input = "recv" /\ client = "up"
    /\ input' \in {"write", "resize"}
    /\ UNCHANGED <<clientVars, main, ctxOver, output, exec, fileVars, outCh, outEnd, result,
                   produced, sent, responded>>

\* A cancellation ends the execution, which may end at any time in this model,
\* and streamInput, but not the session.
ReceiveCancel ==
    /\ input = "recv" /\ client = "up"
    /\ InputEnds(FALSE)
    /\ UNCHANGED <<clientVars, main, output, exec, fileVars, outCh, outEnd, result,
                   produced, sent, responded>>

\* Recv over the websocket refuses an empty or short frame, an unknown type and
\* JSON that does not parse, over gRPC (GrpcMalformed) only an unknown message.
WsMalformed ==
    /\ input = "recv" /\ client = "up" /\ transport = "ws"
    /\ InputEnds(TRUE)
    /\ UNCHANGED <<clientVars, main, output, exec, fileVars, outCh, outEnd, result,
                   produced, sent, responded>>

GrpcMalformed ==
    /\ input = "recv" /\ client = "up" /\ transport = "grpc"
    /\ InputEnds(TRUE)
    /\ UNCHANGED <<clientVars, main, output, exec, fileVars, outCh, outEnd, result,
                   produced, sent, responded>>

\* A second request, an unknown stream and a resize without a terminal.
MessageRefused ==
    /\ input = "recv" /\ client = "up"
    /\ InputEnds(TRUE)
    /\ UNCHANGED <<clientVars, main, output, exec, fileVars, outCh, outEnd, result,
                   produced, sent, responded>>

\* Recv returns io.EOF or an error.
ReceiveEnd ==
    /\ input = "recv" /\ client # "up"
    /\ InputEnds(client = "gone")
    /\ UNCHANGED <<clientVars, main, output, exec, fileVars, outCh, outEnd, result,
                   produced, sent, responded>>

\* Write: io.EOF of a closed stream ends streamInput, an error of the pipe,
\* whose reader may be gone, cancels the session.  Until then the pipe takes it,
\* also before there is a program.
WriteInput ==
    /\ input = "write"
    /\ \/ "in" \in closed /\ InputEnds(FALSE)
       \/ "in" \in started /\ ("in" \in closed \/ exec = "over") /\ InputEnds(TRUE)
       \/ /\ "in" \in started \ closed /\ exec # "over"
          /\ input' = "top" /\ UNCHANGED ctxOver
    /\ UNCHANGED <<clientVars, main, output, exec, fileVars, outCh, outEnd, result,
                   produced, sent, responded>>

\* SetSize: a closed stream is an error here, and the ioctl may fail.
SetSize ==
    /\ input = "resize"
    /\ \/ "in" \in closed \cup started /\ InputEnds(TRUE)
       \/ "in" \in started \ closed /\ input' = "top" /\ UNCHANGED ctxOver
    /\ UNCHANGED <<clientVars, main, output, exec, fileVars, outCh, outEnd, result,
                   produced, sent, responded>>

-----------------------------------------------------------------------------
(* The execution *)

\* Whatever fails before the execution (an unknown file id, no container, a file
\* that cannot be opened, a failed pipe) gives a result, whichever streams have
\* been started by then: the other ends of their pipes are closed.
StreamsRefused ==
    /\ exec = "prepare"
    /\ exec' = "over" /\ result' = "ready"
    /\ UNCHANGED <<clientVars, main, ctxOver, input, output, fileVars, outCh, outEnd,
                   produced, sent, responded>>

\* The pipe of a stream is made, in the order of the descriptors, and the stream
\* is started; one that is closed already gets its pipe closed.
StartStream(s) ==
    /\ exec = "prepare" /\ s \notin made
    /\ made' = made \cup {s} /\ started' = started \cup ({s} \ closed)
    /\ UNCHANGED <<clientVars, main, ctxOver, input, output, exec, closed, inPipe, outCh, outEnd,
                   result, produced, sent, responded>>

\* The program runs when every descriptor has its file.
ExecBegins ==
    /\ exec = "prepare" /\ made = {"in", "out"}
    /\ exec' = "run"
    /\ UNCHANGED <<clientVars, main, ctxOver, input, output, fileVars, outCh, outEnd, result,
                   produced, sent, responded>>

ProgramWrites ==
    /\ exec = "run" /\ "out" \in started \ closed /\ produced < MaxOut
    /\ produced' = produced + 1 /\ inPipe' = inPipe + 1
    /\ UNCHANGED <<clientVars, main, ctxOver, input, output, exec, made, started, closed,
                   outCh, outEnd, result, sent, responded>>

ProgramEnds ==
    /\ exec = "run"
    /\ exec' = "over" /\ result' = "ready"
    /\ UNCHANGED <<clientVars, main, ctxOver, input, output, fileVars, outCh, outEnd,
                   produced, sent, responded>>

-----------------------------------------------------------------------------
(* streamOutput *)

\* The context is looked at before Read, not while it waits.
OutputTop ==
    /\ output = "top"
    /\ output' = IF ctxOver THEN "done" ELSE "read"
    /\ UNCHANGED <<clientVars, main, ctxOver, input, exec, fileVars, outCh, outEnd, result,
                   produced, sent, responded>>

ReadOutput ==
    /\ output = "read"
    /\ \/ "out" \in closed /\ output' = "done" /\ UNCHANGED inPipe
       \/ /\ "out" \in started \ closed /\ inPipe > 0
          /\ inPipe' = inPipe - 1 /\ output' = "push"
       \/ /\ "out" \in started \ closed /\ inPipe = 0 /\ exec = "over"
          /\ output' = "done" /\ UNCHANGED inPipe
    /\ UNCHANGED <<clientVars, main, ctxOver, input, exec, made, started, closed, outCh, outEnd,
                   result, produced, sent, responded>>

PushOutput ==
    /\ output = "push"
    /\ \/ ctxOver /\ output' = "done" /\ UNCHANGED outCh
       \/ outCh = 0 /\ outCh' = 1 /\ output' = "top"
    /\ UNCHANGED <<clientVars, main, ctxOver, input, exec, fileVars, outEnd, result,
                   produced, sent, responded>>

\* outWG.Wait and close(outCh).
CloseOutCh ==
    /\ output = "done" /\ outEnd = "open"
    /\ outEnd' = "closed"
    /\ UNCHANGED <<clientVars, main, ctxOver, input, output, exec, fileVars, outCh, result,
                   produced, sent, responded>>

-----------------------------------------------------------------------------

SessionInit ==
    /\ transport \in {"grpc", "ws"} /\ client = "up" /\ wsWriter = (transport = "ws")
    /\ main = "first" /\ ctxOver = FALSE
    /\ input = "none" /\ output = "none" /\ exec = "none"
    /\ made = {} /\ started = {} /\ closed = {} /\ inPipe = 0
    /\ outCh = 0 /\ outEnd = "open" /\ result = "none"
    /\ produced = 0 /\ sent = 0 /\ responded = FALSE

MainStep == SendFinal \/ Select \/ GrpcSend \/ WsSend \/ Join
Returned == HandleStreamReturns \/ ExecStreamReturns
InputStep == InputTop \/ ReceiveEnd \/ WriteInput \/ SetSize
Message == ReceiveMessage \/ ReceiveCancel \/ WsMalformed \/ GrpcMalformed \/ MessageRefused
OutputStep == OutputTop \/ ReadOutput \/ PushOutput \/ CloseOutCh
ExecStep ==
    StreamsRefused \/ (\E s \in {"in", "out"} : StartStream(s)) \/ ExecBegins \/ ProgramEnds

SessionNext ==
    \/ ReceiveFirst \/ FirstRefused \/ MainStep \/ Returned \/ InputStep \/ OutputStep \/ ExecStep
    \/ PingLost \/ Message \/ ProgramWrites \/ ClientLeaves \/ GrpcContextEnds

\* Every goroutine goes on while it can and the program ends; the client need
\* not send or leave.
SessionFairness ==
    /\ WF_sessionVars(MainStep) /\ WF_sessionVars(InputStep) /\ WF_sessionVars(OutputStep)
    /\ WF_sessionVars(ExecStep) /\ WF_sessionVars(PingLost) /\ WF_sessionVars(Returned)
    /\ WF_sessionVars(GrpcContextEnds) /\ WF_sessionVars(client = "gone" /\ FirstRefused)

SessionSpec == SessionInit /\ [][SessionNext]_sessionVars /\ SessionFairness

-----------------------------------------------------------------------------
(* Properties *)

\* Send waits for a writer that has left.
SendStuck == transport = "ws" /\ ~wsWriter /\ main \in {"output", "final"}

\* The execution ended before it started the output, so streamOutput waits for
\* ever, and over a websocket nothing cancels the session when the client goes:
\* streamInput has ended, or waits for an input that was not started either.
NeverStarted ==
    /\ transport = "ws" /\ exec = "over" /\ "out" \notin started /\ main = "loop"
    /\ input = "done" \/ (input \in {"write", "resize"} /\ "in" \notin started)

\* As long as nothing has cancelled the session, the response comes after all
\* that the program has written: the result and the end of the output reach
\* sendLoop in any order.
OutputBeforeResponse == main = "final" /\ ~ctxOver => sent = produced

\* Once the output is started and nothing cancels the session, the client gets
\* the response without sending or closing anything for it, also when the
\* execution fails with its other streams not started; and when the client has
\* gone Start returns and its goroutines end, from every state of theirs but the
\* two that nobody wakes.
SessionEnds ==
    /\ "out" \in started ~> responded \/ ctxOver \/ SendStuck
    /\ client = "gone" ~>
          \/ main = "returned" /\ {input, output} \subseteq {"none", "done"}
          \/ SendStuck \/ NeverStarted
=============================================================================
