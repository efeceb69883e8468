----------------------------- MODULE WssSession -----------------------------
(***************************************************************************)
(* The sessions of the node's WSS client, one after the other (wss/run.go, *)
(* wss/client.go): Run dials, authenticates, resumes, and then four loops  *)
(* share the connection until it breaks or the node stops - the heartbeat, *)
(* the delivery of the stored results, the refresh of the credential and   *)
(* the announcement of free slots (READY); pruneLoop, which uses no        *)
(* connection, is left to ResultQueue.                                     *)
(* The notifications between them are channels of capacity one, shared by  *)
(* all sessions.                                                           *)
(*                                                                         *)
(* How an attempt is executed, and the bytes and the files of the queue,   *)
(* are left to TaskChannel, LeaseRenewal and ResultQueue; here an attempt  *)
(* is in the registry or not, has a place for its result or not, and its   *)
(* result is stored or not, and acknowledged or not.  An answer that       *)
(* nobody waits for is dropped by deliver, so it is the same as no answer. *)
(* The network and the server are external.                                *)
(***************************************************************************)
EXTENDS Naturals, FiniteSets

CONSTANTS
    Attempts,    \* attempts the node has when the client starts
    MaxRecords,  \* places of the result queue
    MaxFaults    \* bound: failures of the network, the server and the disk

\* Each of the attempts was admitted with a place of its own.
ASSUME SessionAssumption == IsFiniteSet(Attempts) /\ Cardinality(Attempts) <= MaxRecords

Loops == {"heartbeat", "result", "refresh", "ready"}

VARIABLES
    stage,         \* where Run is
    sessionDone,   \* s.done is closed
    rejected,      \* s.errValue() is a refusal
    stopped,       \* ctx of Run is cancelled
    io,            \* which of readLoop and writeLoop run
    loopAt,        \* where each of the loops is
    batch,         \* records that deliverResults has still to send
    asked,         \* the record it waits for
    readyNotify,
    resultNotify,
    draining,
    inRegistry,    \* attempts in the registry
    stored,        \* records in the result queue
    reserved,      \* attempts with a reservation in it
    degraded,      \* it has stopped after a failed write
    acked,         \* records acknowledged and deleted
    counted,       \* attempts that the READY being sent takes for free
    told,          \* attempts that the last READY of the session took for free
    missed,        \* history: the last READY could not be sent on its live session
    settled,       \* history: attempts that had left the registry when acknowledged
    faults

connVars == <<stage, sessionDone, rejected, stopped, io>>
queueVars == <<reserved, degraded>>
resultVars == <<batch, asked, stored, acked, settled, queueVars>>
readyVars == <<counted, told, missed>>
noticeVars == <<readyNotify, resultNotify>>
wssVars == <<connVars, loopAt, resultVars, readyVars, noticeVars, draining, inRegistry, faults>>

Nobody == [l \in Loops |-> "off"]

WssInit ==
    /\ stage = "down" /\ sessionDone = FALSE /\ rejected = FALSE /\ stopped = FALSE
    /\ io = {} /\ loopAt = Nobody
    /\ batch = {} /\ asked = {} /\ stored = {} /\ acked = {} /\ settled = {}
    /\ reserved = Attempts /\ degraded = FALSE
    /\ counted = {} /\ told = {} /\ missed = FALSE
    /\ readyNotify = FALSE /\ resultNotify = FALSE /\ draining = FALSE
    /\ inRegistry = Attempts /\ faults = 0

Fault == faults < MaxFaults /\ faults' = faults + 1

\* A loop can go on; ctx of the loops is cancelled as soon as Run leaves.
On(l, at) == stage = "run" /\ loopAt[l] = at
To(l, at) == loopAt' = [loopAt EXCEPT ![l] = at]

-----------------------------------------------------------------------------
(* Run and sessionWithCandidate *)

\* The connection is made, its reader and writer start.
DialSession ==
    /\ stage = "down" /\ ~stopped
    /\ stage' = "auth" /\ sessionDone' = FALSE /\ rejected' = FALSE
    /\ io' = {"reader", "writer"}
    /\ told' = {} /\ missed' = FALSE
    /\ UNCHANGED <<stopped, loopAt, resultVars, counted, noticeVars, draining, inRegistry, faults>>

DialFails ==
    /\ stage = "down" /\ ~stopped /\ Fault
    /\ UNCHANGED <<connVars, loopAt, resultVars, readyVars, noticeVars, draining, inRegistry>>

\* authenticate and resume, each a request on a connection that is still up.
Establish ==
    /\ ~stopped /\ ~sessionDone
    /\ \/ stage = "auth" /\ stage' = "resume"
          /\ UNCHANGED <<loopAt, noticeVars>>
       \/ stage = "resume" /\ stage' = "run"
          /\ loopAt' = [l \in Loops |-> "wait"]
          /\ readyNotify' = TRUE /\ resultNotify' = TRUE
    /\ UNCHANGED <<sessionDone, rejected, stopped, io, resultVars, readyVars, draining, inRegistry,
                   faults>>

\* They end with the connection or with ctx, or they time out, or the server
\* refuses the node.
EstablishFails ==
    /\ stage \in {"auth", "resume"}
    /\ IF stopped \/ sessionDone
       THEN UNCHANGED <<rejected, faults>>
       ELSE Fault /\ rejected' \in BOOLEAN
    /\ stage' = "teardown"
    /\ UNCHANGED <<sessionDone, stopped, io, loopAt, resultVars, readyVars, noticeVars, draining,
                   inRegistry>>

\* The session is over: cancelLoops.
Leave ==
    /\ stage = "run" /\ (sessionDone \/ stopped)
    /\ stage' = "leaving"
    /\ UNCHANGED <<sessionDone, rejected, stopped, io, loopAt, resultVars, readyVars, noticeVars,
                   draining, inRegistry, faults>>

\* Each loop ends at its next select, an unanswered request with it.
LoopEnds(l) ==
    /\ stage = "leaving" /\ loopAt[l] # "off"
    /\ To(l, "off")
    /\ IF l = "result" THEN batch' = {} /\ asked' = {} ELSE UNCHANGED <<batch, asked>>
    /\ IF l = "ready" THEN counted' = {} ELSE UNCHANGED counted
    /\ UNCHANGED <<connVars, stored, acked, settled, queueVars, told, missed, noticeVars, draining,
                   inRegistry, faults>>

\* loops.Wait returns.
Left ==
    /\ stage = "leaving" /\ loopAt = Nobody
    /\ stage' = "teardown"
    /\ UNCHANGED <<sessionDone, rejected, stopped, io, loopAt, resultVars, readyVars, noticeVars,
                   draining, inRegistry, faults>>

\* The deferred close and conn.Close; reader and writer see them ...
CloseSession ==
    /\ stage = "teardown"
    /\ sessionDone' = TRUE /\ io' = {}
    /\ stage' = "closed"
    /\ UNCHANGED <<rejected, stopped, loopAt, resultVars, readyVars, noticeVars, draining,
                   inRegistry, faults>>

\* ... wg.Wait returns; Run gives up when it is stopped or refused, and dials
\* again after its back-off otherwise.
RunGoesOn ==
    /\ stage = "closed"
    /\ stage' = IF stopped \/ rejected THEN "over" ELSE "down"
    /\ UNCHANGED <<sessionDone, rejected, stopped, io, loopAt, resultVars, readyVars, noticeVars,
                   draining, inRegistry, faults>>

StoppedWhileDown ==
    /\ stage = "down" /\ stopped
    /\ stage' = "over"
    /\ UNCHANGED <<sessionDone, rejected, stopped, io, loopAt, resultVars, readyVars, noticeVars,
                   draining, inRegistry, faults>>

\* readLoop meets an error, an oversized or an invalid frame, or writeLoop an
\* error: the session is closed.
IoFails ==
    /\ ~sessionDone /\ Fault
    /\ \E g \in io : io' = io \ {g}
    /\ sessionDone' = TRUE
    /\ UNCHANGED <<stage, rejected, stopped, loopAt, resultVars, readyVars, noticeVars, draining,
                   inRegistry>>

StopRun ==
    /\ ~stopped
    /\ stopped' = TRUE
    /\ UNCHANGED <<stage, sessionDone, rejected, io, loopAt, resultVars, readyVars, noticeVars,
                   draining, inRegistry, faults>>

-----------------------------------------------------------------------------
(* The loops *)

\* A heartbeat or a refresh that is answered, or fails without consequence,
\* changes nothing here; another one ends the session: the server refuses the
\* node, or the credential is over.
RequestEndsSession ==
    /\ \E l \in {"heartbeat", "refresh"} :
          /\ On(l, "wait") /\ Fault
          /\ IF l = "heartbeat"
             THEN UNCHANGED loopAt /\ rejected' = TRUE
             ELSE To(l, "off") /\ rejected' \in {rejected, TRUE}
    /\ sessionDone' = TRUE
    /\ UNCHANGED <<stage, stopped, io, resultVars, readyVars, noticeVars, draining, inRegistry>>

\* Faulty variant: resultLoop without its ticker.
ResultTickNotified ==
    /\ On("result", "wait") /\ resultNotify
    /\ resultNotify' = FALSE
    /\ batch' = stored /\ To("result", "batch")
    /\ UNCHANGED <<connVars, asked, stored, acked, settled, queueVars, readyVars, readyNotify,
                   draining, inRegistry, faults>>

\* resultLoop is notified or its ticker fires; Peek.
ResultTick ==
    /\ On("result", "wait")
    /\ resultNotify \/ stored # {}
    /\ resultNotify' = FALSE
    /\ batch' = stored /\ To("result", "batch")
    /\ UNCHANGED <<connVars, asked, stored, acked, settled, queueVars, readyVars, readyNotify,
                   draining, inRegistry, faults>>

SendResult ==
    /\ On("result", "batch") /\ asked = {}
    /\ IF batch = {}
       THEN To("result", "wait") /\ UNCHANGED <<batch, asked>>
       ELSE \E a \in batch : asked' = {a} /\ batch' = batch \ {a} /\ UNCHANGED loopAt
    /\ UNCHANGED <<connVars, stored, acked, settled, queueVars, readyVars, noticeVars, draining,
                   inRegistry, faults>>

\* The matching TASK_RESULT_ACK: the record is deleted, READY is due.
ResultAcked ==
    /\ On("result", "batch") /\ asked # {}
    /\ stored' = stored \ asked /\ acked' = acked \cup asked
    /\ settled' = settled \cup (asked \ inRegistry)
    /\ asked' = {}
    /\ readyNotify' = TRUE
    /\ UNCHANGED <<connVars, loopAt, batch, queueVars, readyVars, resultNotify, draining, inRegistry,
                   faults>>

\* A time-out, an ERROR, another type or identity, or an Ack that cannot remove
\* the file: the record stays for a later round.  An Ack that cannot sync the
\* directory has removed the record, but nobody asks for a READY.
ResultNotAcked ==
    /\ On("result", "batch") /\ asked # {} /\ Fault
    /\ asked' = {}
    /\ \/ UNCHANGED <<stored, acked>>
       \/ stored' = stored \ asked /\ acked' = acked \cup asked
    /\ UNCHANGED <<connVars, loopAt, batch, settled, queueVars, readyVars, noticeVars, draining,
                   inRegistry>>

\* readyLoop takes the notification and waits for others to come ...
ReadyNotified ==
    /\ On("ready", "wait") /\ readyNotify
    /\ readyNotify' = FALSE
    /\ To("ready", "pause")
    /\ UNCHANGED <<connVars, resultVars, readyVars, resultNotify, draining, inRegistry, faults>>

\* Queue.Full; its limit on bytes, which counts a reservation with the most a
\* result can have, is in ResultQueue.
Full == degraded \/ Cardinality(stored) + Cardinality(reserved) >= MaxRecords

\* ... sendReady computes the slots, unless the node drains: none while the queue
\* is full, and otherwise one for each attempt that has left the registry ...
ReadyComputed ==
    /\ On("ready", "pause")
    /\ IF draining
       THEN To("ready", "wait") /\ UNCHANGED counted
       ELSE To("ready", "sending") /\ counted' = IF Full THEN {} ELSE Attempts \ inRegistry
    /\ UNCHANGED <<connVars, resultVars, told, missed, noticeVars, draining, inRegistry, faults>>

\* ... and sends them ...
ReadySent ==
    /\ On("ready", "sending")
    /\ told' = counted /\ counted' = {}
    /\ missed' = FALSE
    /\ To("ready", "wait")
    /\ UNCHANGED <<connVars, resultVars, noticeVars, draining, inRegistry, faults>>

\* ... or cannot: the session is closed, or its writer takes nothing for
\* WriteTimeout.  The READY is not repeated.
ReadyFails ==
    /\ On("ready", "sending")
    /\ IF sessionDone THEN UNCHANGED <<missed, faults>> ELSE Fault /\ missed' = TRUE
    /\ counted' = {}
    /\ To("ready", "wait")
    /\ UNCHANGED <<connVars, resultVars, told, noticeVars, draining, inRegistry>>

-----------------------------------------------------------------------------
(* The rest of the node and the server's orders *)

\* queueRecord: the terminal event is stored in the place of its attempt, or
\* cannot be: it is too large, the write fails, or an earlier one has failed.
QueueRecord ==
    /\ \E a \in inRegistry \ (stored \cup acked) :
          \/ /\ ~degraded
             /\ stored' = stored \cup {a} /\ reserved' = reserved \ {a}
             /\ resultNotify' = TRUE
             /\ UNCHANGED <<degraded, readyNotify, faults>>
          \/ /\ IF degraded THEN UNCHANGED <<degraded, faults>> ELSE Fault /\ degraded' \in BOOLEAN
             /\ readyNotify' = TRUE
             /\ UNCHANGED <<stored, reserved, resultNotify>>
    /\ UNCHANGED <<connVars, loopAt, batch, asked, acked, settled, readyVars, draining, inRegistry>>

\* Complete: the attempt leaves the registry, with a result or without one ...
CompleteAttempt ==
    /\ \E a \in inRegistry : inRegistry' = inRegistry \ {a}
    /\ UNCHANGED <<connVars, loopAt, resultVars, readyVars, noticeVars, draining, faults>>

\* ... and its observer releases the place of the result that was not stored.
ReleaseReservation ==
    /\ \E a \in reserved \ inRegistry : reserved' = reserved \ {a}
    /\ UNCHANGED <<connVars, loopAt, batch, asked, stored, acked, settled, degraded, readyVars,
                   noticeVars, draining, inRegistry, faults>>

\* NODE_DRAIN, NODE_STATE.
NodeStateChanges ==
    /\ stage = "run" /\ ~sessionDone /\ "reader" \in io /\ Fault
    /\ draining' = ~draining
    /\ readyNotify' = TRUE
    /\ UNCHANGED <<connVars, loopAt, resultVars, readyVars, resultNotify, inRegistry>>

-----------------------------------------------------------------------------
WssNext ==
    \/ DialSession \/ DialFails \/ Establish \/ EstablishFails
    \/ Leave \/ (\E l \in Loops : LoopEnds(l)) \/ Left \/ CloseSession \/ RunGoesOn
    \/ StoppedWhileDown \/ IoFails \/ StopRun
    \/ RequestEndsSession \/ ResultTick \/ SendResult \/ ResultAcked \/ ResultNotAcked
    \/ ReadyNotified \/ ReadyComputed \/ ReadySent \/ ReadyFails
    \/ QueueRecord \/ CompleteAttempt \/ ReleaseReservation \/ NodeStateChanges

\* Goroutines that can run do, timers fire, and a server that is asked on a
\* connection that stays up answers; faults are bounded by MaxFaults.
WssFairness ==
    /\ WF_wssVars(DialSession) /\ WF_wssVars(Establish)
    /\ WF_wssVars(EstablishFails /\ (stopped \/ sessionDone))
    /\ WF_wssVars(Leave) /\ WF_wssVars(Left) /\ WF_wssVars(CloseSession)
    /\ WF_wssVars(RunGoesOn) /\ WF_wssVars(StoppedWhileDown)
    /\ \A l \in Loops : WF_wssVars(LoopEnds(l))
    /\ WF_wssVars(ResultTick) /\ WF_wssVars(SendResult) /\ WF_wssVars(ResultAcked)
    /\ WF_wssVars(ReadyNotified) /\ WF_wssVars(ReadyComputed) /\ WF_wssVars(ReadySent)

WssSpec == WssInit /\ [][WssNext]_wssVars /\ WssFairness

-----------------------------------------------------------------------------
\* A stored result reaches the server unless Run is over.
ResultsArrive == \A a \in Attempts : a \in stored ~> a \in acked \/ stage = "over"

\* An attempt that had left the registry when its result was acknowledged is
\* announced as a free slot on a session that is up, although the queue may have
\* been full with it; unless the node drains, the queue has stopped, or the live
\* session did not take the READY, which nobody repeats.  One that leaves later is
\* not announced until something else asks for a READY: Complete does not.
SlotsAnnounced ==
    \A a \in Attempts :
        a \in settled ~> \/ a \in told /\ ~sessionDone
                        \/ draining \/ degraded \/ missed \/ stage = "over"

\* No loop of one session lives in the next.
LoopsOfOneSession == stage \in {"down", "auth", "resume", "over"} => loopAt = Nobody

\* What a session owes (run.go:632 "only a matching TASK_RESULT_ACK deletes",
\* client.go:180 "a reconnect makes an entirely new session"): whatever fails
\* in between, every stored result is delivered in this session or a later
\* one, the slot it frees is announced, and no goroutine of a session is left
\* when the next one begins.
SessionPromise == ResultsArrive /\ SlotsAnnounced /\ []LoopsOfOneSession
=============================================================================
