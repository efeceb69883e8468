---------------------------- MODULE LeaseRenewal ----------------------------
(***************************************************************************)
(* The lease of one attempt on a node: runTask and its renewal goroutine   *)
(* (worker/worker.go), the lease kept in the registry (tasks/registry.go), *)
(* LEASE_RENEW (wss/lease.go) and the RESUME_RESULT of a reconnected       *)
(* session (wss/run.go), which write the same lease from another           *)
(* goroutine.                                                              *)
(*                                                                         *)
(* Time is counted in ticks of the server's clock, which is what p.now()   *)
(* (Client.ServerNow) shows; the node's own clock is Skew ticks ahead of   *)
(* it.  Computation takes no time: the clock ticks only when no goroutine  *)
(* can go on (Urgent), but the steps of one tick interleave in every way.  *)
(* The server is external: it renews and resumes only a lease that is not  *)
(* over, it never shortens one, and it gives the attempt to another node   *)
(* when the lease is over.                                                 *)
(***************************************************************************)
EXTENDS Integers

CONSTANTS
    LeaseLen,    \* ticks a renewed lease lasts
    Period,      \* RenewAfterMillis
    Backoff,     \* RenewRetryBackoff
    ReqTimeout,  \* RequestTimeout of the WSS client
    Skew,        \* node clock minus server clock
    MaxTime      \* bound of the clock

ASSUME LeaseAssumption ==
    /\ {LeaseLen, Period, Backoff, ReqTimeout} \subseteq Nat \ {0}
    /\ Skew \in Int /\ MaxTime \in Nat

VARIABLES
    now,
    run,         \* runTask: "queued", "got", "check", "running", "stopping" or "ended"
    lease,       \* leaseState.untilMillis
    lost,        \* leaseState.lostFlag
    cancelled,   \* taskCtx is cancelled
    regLease,    \* the lease of the registry entry
    observer,    \* SetLeaseObserver has been called
    loop,        \* where the renewal goroutine is
    wake,        \* end of its sleep
    dl, sentAt,  \* deadline and start of its request
    value,       \* leaseUntil of the LEASE_RENEWED it applies
    conn,        \* "off", "resuming" (Resume has written the registry) or "ready"
    resumed,     \* leaseUntil of the RESUME_RESULT that is applied
    srvLease,    \* server: end of the lease
    srvReq,      \* server: a LEASE_RENEW is not yet processed
    answer,      \* the LEASE_RENEWED for the waiting request, 0 for none
    fault        \* history: since the last renewal the network or the server failed

taskVars == <<run, lost, observer>>
loopVars == <<loop, wake, dl, sentAt, value>>
sessionVars == <<conn, resumed>>
srvVars == <<srvLease, srvReq, answer>>
vars == <<now, taskVars, lease, cancelled, regLease, loopVars, sessionVars, srvVars, fault>>

AtMost(a, b) == IF a < b THEN a ELSE b

\* leaseState.expired
Expired == lease <= 0 \/ now >= lease

\* Faulty variant: no margin before the deadline.
RenewDelayNoMargin ==
    LET delay == IF lease > 0 THEN AtMost(Period, lease - now) ELSE Period
    IN IF delay < 0 THEN 0 ELSE delay

\* nextRenewDelay: the period, but no later than the margin before the deadline.
NextRenewDelay ==
    LET safety == AtMost(Backoff, Period \div 2)
        delay == IF lease > 0 THEN AtMost(Period, lease - now - safety) ELSE Period
    IN IF delay < 0 THEN 0 ELSE delay

-----------------------------------------------------------------------------
(* runTask *)

\* The claimed attempt takes the latest lease of the registry ...
Get ==
    /\ run = "queued"
    /\ lease' = IF regLease > 0 THEN regLease ELSE lease
    /\ run' = "got"
    /\ UNCHANGED <<now, lost, observer, cancelled, regLease, loopVars, sessionVars, srvVars, fault>>

\* ... and then, under another lock, registers for updates of it.
SetLeaseObserver ==
    /\ run = "got"
    /\ observer' = TRUE
    /\ run' = "check"
    /\ UNCHANGED <<now, lost, lease, cancelled, regLease, loopVars, sessionVars, srvVars, fault>>

\* An expired or cancelled claim is completed without a start.
Start ==
    /\ run = "check"
    /\ IF Expired \/ cancelled
       THEN run' = "ended" /\ UNCHANGED loop
       ELSE run' = "running" /\ loop' = "top"
    /\ UNCHANGED <<now, lost, observer, lease, cancelled, regLease, wake, dl, sentAt, value,
                   sessionVars, srvVars, fault>>

\* The handler returns; taskCancel stops the renewal.
HandlerReturns ==
    /\ run = "running"
    /\ run' = "stopping" /\ cancelled' = TRUE
    /\ UNCHANGED <<now, lost, observer, lease, regLease, loopVars, sessionVars, srvVars, fault>>

\* After <-renewDone the attempt is completed.
Complete ==
    /\ run = "stopping" /\ loop = "done"
    /\ run' = "ended"
    /\ UNCHANGED <<now, lost, observer, lease, cancelled, regLease, loopVars, sessionVars,
                   srvVars, fault>>

\* TASK_CANCEL, a revocation, or the end of the drain window.
Cancel ==
    /\ run # "ended" /\ ~cancelled
    /\ cancelled' = TRUE
    /\ UNCHANGED <<now, taskVars, lease, regLease, loopVars, sessionVars, srvVars, fault>>

-----------------------------------------------------------------------------
(* renewLoop and renewWithRetry *)

\* The loop sees a cancelled context at its top, in a sleep or in a request.
LoopCancelled ==
    /\ cancelled /\ loop \in {"top", "sleep", "try", "wait", "failed", "backoff"}
    /\ loop' = "done"
    /\ UNCHANGED <<now, taskVars, lease, cancelled, regLease, wake, dl, sentAt, value,
                   sessionVars, srvVars, fault>>

\* markLost and cancel; with the context already cancelled only the loop ends.
LoseLease ==
    /\ loop' = "done"
    /\ lost' = ~cancelled
    /\ cancelled' = TRUE
    /\ UNCHANGED <<now, run, observer, lease, regLease, wake, dl, sentAt, value, sessionVars>>

Sleep ==
    /\ loop = "top" /\ ~cancelled
    /\ wake' = now + NextRenewDelay
    /\ loop' = "sleep"
    /\ UNCHANGED <<now, taskVars, lease, cancelled, regLease, dl, sentAt, value, sessionVars,
                   srvVars, fault>>

WakeUp ==
    /\ loop \in {"sleep", "backoff"} /\ now >= wake /\ ~cancelled
    /\ loop' = "try"
    /\ UNCHANGED <<now, taskVars, lease, cancelled, regLease, wake, dl, sentAt, value,
                   sessionVars, srvVars, fault>>

\* The deadline has passed before a request is made.
TooLateToAsk ==
    /\ loop = "try" /\ ~cancelled /\ Expired
    /\ LoseLease
    /\ UNCHANGED <<srvVars, fault>>

\* Renew sends LEASE_RENEW on the ready session, or fails at once.
Ask ==
    /\ loop = "try" /\ ~cancelled /\ ~Expired
    /\ dl' = lease /\ sentAt' = now
    /\ answer' = 0
    /\ IF conn = "ready" THEN loop' = "wait" /\ srvReq' = TRUE
                         ELSE loop' = "failed" /\ UNCHANGED srvReq
    /\ UNCHANGED <<now, taskVars, lease, cancelled, regLease, wake, value, sessionVars,
                   srvLease, fault>>

\* The request ends without an answer: reqCtx is over, on the node's own clock,
\* or RequestTimeout has passed, or the session is closed.
RequestOver == now + Skew >= dl \/ now >= sentAt + ReqTimeout \/ conn # "ready"

RequestFails ==
    /\ loop = "wait" /\ RequestOver
    /\ loop' = "failed"
    /\ fault' = (fault \/ now > sentAt)
    /\ UNCHANGED <<now, taskVars, lease, cancelled, regLease, wake, dl, sentAt, value,
                   sessionVars, srvVars>>

\* The server refuses (a permanent error).
Denied ==
    /\ loop = "wait" /\ conn = "ready"
    /\ LoseLease
    /\ fault' = TRUE
    /\ UNCHANGED srvVars

\* After a failure: within the lease, as it is now known, the request is repeated.
Retry ==
    /\ loop = "failed" /\ lease > now
    /\ wake' = now + AtMost(Backoff, lease - now)
    /\ loop' = "backoff"
    /\ UNCHANGED <<now, taskVars, lease, cancelled, regLease, dl, sentAt, value, sessionVars,
                   srvVars, fault>>

GiveUp ==
    /\ loop = "failed" /\ lease <= now
    /\ LoseLease
    /\ UNCHANGED <<srvVars, fault>>

\* LEASE_RENEWED: Client.Renew first writes the registry (Resume) ...
Renewed ==
    /\ loop = "wait" /\ answer > 0
    /\ value' = answer /\ answer' = 0
    /\ regLease' = answer
    /\ loop' = "observe"
    /\ UNCHANGED <<now, taskVars, lease, cancelled, wake, dl, sentAt, sessionVars, srvLease,
                   srvReq, fault>>

\* ... whose observer writes the executor's lease, before anyone has looked at
\* the time of the answer.
RenewedObserved ==
    /\ loop = "observe"
    /\ lease' = IF observer THEN value ELSE lease
    /\ loop' = "apply"
    /\ UNCHANGED <<now, taskVars, cancelled, regLease, wake, dl, sentAt, value, sessionVars,
                   srvVars, fault>>

\* Back in renewWithRetry: an answer after the deadline does not count.
Apply ==
    /\ loop = "apply" /\ now < dl
    /\ lease' = value /\ fault' = (conn # "ready") /\ loop' = "update"
    /\ UNCHANGED <<now, taskVars, cancelled, regLease, wake, dl, sentAt, value, sessionVars, srvVars>>

ApplyTooLate ==
    /\ loop = "apply" /\ now >= dl
    /\ LoseLease
    /\ UNCHANGED <<srvVars, fault>>

\* UpdateLease: the registry, and then its observer.
UpdateLease ==
    /\ loop = "update"
    /\ regLease' = value
    /\ loop' = "updated"
    /\ UNCHANGED <<now, taskVars, lease, cancelled, wake, dl, sentAt, value, sessionVars,
                   srvVars, fault>>

LeaseUpdated ==
    /\ loop = "updated"
    /\ lease' = IF observer THEN value ELSE lease
    /\ loop' = "top"
    /\ UNCHANGED <<now, taskVars, cancelled, regLease, wake, dl, sentAt, value, sessionVars,
                   srvVars, fault>>

-----------------------------------------------------------------------------
(* Session *)

Disconnect ==
    /\ conn = "ready"
    /\ conn' = "off" /\ srvReq' = FALSE /\ answer' = 0 /\ fault' = TRUE
    /\ UNCHANGED <<now, taskVars, lease, cancelled, regLease, loopVars, resumed, srvLease>>

\* Faulty variant: an invalid lease is replaced by one of the node's own making.
ResumeExtends(until) ==
    /\ conn = "off" /\ run # "ended"
    /\ srvLease' = IF until > now /\ now < srvLease THEN until ELSE srvLease
    /\ conn' = "resuming"
    /\ resumed' = IF until > now THEN until ELSE now + LeaseLen
    /\ regLease' = resumed'
    /\ UNCHANGED <<now, taskVars, lease, cancelled, loopVars, srvReq, answer, fault>>

\* RESUME_RESULT: a lease that is not over is written to the registry ...  With
\* a missing or old lease, or an attempt the server does not resume, the
\* attempt is cancelled.  The server grants only if its lease is not over.
Resume(until) ==
    /\ conn = "off" /\ run # "ended"
    /\ IF until > now
       THEN /\ now < srvLease /\ srvLease' = until
            /\ conn' = "resuming" /\ resumed' = until
            /\ regLease' = until
            /\ UNCHANGED cancelled
       ELSE /\ conn' = "ready" /\ cancelled' = TRUE
            /\ UNCHANGED <<srvLease, resumed, regLease>>
    /\ UNCHANGED <<now, taskVars, lease, loopVars, srvReq, answer, fault>>

\* ... and the observer, called outside the registry's lock, writes the
\* executor's lease; then the session is ready.
ResumeObserved ==
    /\ conn = "resuming"
    /\ lease' = IF observer THEN resumed ELSE lease
    /\ conn' = "ready"
    /\ UNCHANGED <<now, taskVars, cancelled, regLease, loopVars, resumed, srvVars, fault>>

-----------------------------------------------------------------------------
(* Server and clock (external) *)

\* The server renews a lease that is not over; an answer to a request that has
\* ended is dropped (unregister).
SrvRenew ==
    /\ srvReq /\ now < srvLease
    /\ srvReq' = FALSE
    /\ srvLease' = now + LeaseLen
    /\ answer' = IF loop = "wait" THEN now + LeaseLen ELSE 0
    /\ UNCHANGED <<now, taskVars, lease, cancelled, regLease, loopVars, sessionVars, fault>>

\* Some goroutine can go on without waiting.
Urgent ==
    \/ run \in {"got", "check"} \/ (run = "stopping" /\ loop = "done")
    \/ loop \in {"top", "try", "failed", "observe", "apply", "update", "updated"}
    \/ loop \in {"sleep", "backoff"} /\ (now >= wake \/ cancelled)
    \/ loop = "wait" /\ (RequestOver \/ cancelled \/ answer > 0)
    \/ conn = "resuming"

Tick ==
    /\ ~Urgent /\ run # "ended"
    /\ now < MaxTime
    /\ now' = now + 1
    /\ UNCHANGED <<taskVars, lease, cancelled, regLease, loopVars, sessionVars, srvVars, fault>>

Init ==
    /\ now = 0
    /\ run = "queued" /\ lease = LeaseLen /\ lost = FALSE /\ cancelled = FALSE
    /\ regLease = LeaseLen /\ observer = FALSE
    /\ loop = "off" /\ wake = 0 /\ dl = 0 /\ sentAt = 0 /\ value = 0
    /\ conn = "ready" /\ resumed = 0
    /\ srvLease = LeaseLen /\ srvReq = FALSE /\ answer = 0
    /\ fault = FALSE

Task == Get \/ SetLeaseObserver \/ Start \/ HandlerReturns \/ Complete \/ Cancel

Loop ==
    \/ LoopCancelled \/ Sleep \/ WakeUp
    \/ TooLateToAsk \/ Ask \/ RequestFails \/ Denied \/ Retry \/ GiveUp
    \/ Renewed \/ RenewedObserved \/ Apply \/ ApplyTooLate \/ UpdateLease \/ LeaseUpdated

Session ==
    \/ Disconnect \/ ResumeObserved
    \/ \E until \in {0, srvLease, now + LeaseLen} : Resume(until)

\* The attempt is over, or the bound of the clock is reached.
Over == (run = "ended" \/ now = MaxTime) /\ UNCHANGED vars

Next == Task \/ Loop \/ Session \/ SrvRenew \/ Tick \/ Over

Spec == Init /\ [][Next]_vars

-----------------------------------------------------------------------------
(* Properties *)

\* The handler works under a context that is not cancelled.
Active == run = "running" /\ ~cancelled

\* One owner: when the server's lease is over, and another node may get the
\* attempt, the handler has been told to stop, whatever happened to requests,
\* answers and sessions.
OneOwner == now > srvLease => ~Active

\* Network failures are retried within the lease (worker.go:326): an attempt is
\* lost only if, since its last renewal, the session broke, the server refused,
\* or a request was left without an answer for some time.
LostOnlyByFault == [][~lost /\ lost' => fault']_vars

\* What worker.go:208 says: the executor goes by the latest lease of the registry
\* whenever no update is being handed on.
ExecutorFollowsRegistry ==
    /\ run = "running" /\ conn # "resuming"
    /\ loop \in {"top", "sleep", "try", "wait", "failed", "backoff"}
    => lease = regLease
=============================================================================
