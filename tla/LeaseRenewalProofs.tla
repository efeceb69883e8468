------------------------- MODULE LeaseRenewalProofs -------------------------
(***************************************************************************)
(* The lease of an attempt, for every lease length, period, back-off,      *)
(* request timeout and clock error.                                        *)
(*                                                                         *)
(* Every lease that the node goes by is one the server has granted, and    *)
(* the renewal goroutine, which has a task under a context that is not     *)
(* cancelled, never sleeps or waits beyond it, except for the time by      *)
(* which the node's clock is behind: the deadline of a request is the      *)
(* only one that is measured on that clock.                                *)
(*                                                                         *)
(* And the loops of the connection over which it is renewed (WssSession).  *)
(***************************************************************************)
EXTENDS LeaseRenewal, WssSession, TLAPS

\* How long a request can be overdue before the node notices.
Lag == IF Skew < 0 THEN -Skew ELSE 0

Renewing == {"top", "sleep", "try", "wait", "failed", "backoff", "observe", "apply", "update",
             "updated"}
Answered == {"observe", "apply", "update", "updated"}

LeaseTypeOK ==
    /\ now \in Nat
    /\ lease \in Int /\ regLease \in Int /\ srvLease \in Int
    /\ wake \in Int /\ dl \in Int /\ sentAt \in Int
    /\ value \in Int /\ resumed \in Int /\ answer \in Int
    /\ run \in {"queued", "got", "check", "running", "stopping", "ended"}
    /\ loop \in Renewing \cup {"off", "done"}
    /\ conn \in {"off", "resuming", "ready"}

\* The server has granted lease l and it has not taken it back.
Granted(l) == 0 < l /\ l <= srvLease

\* All copies of the lease were granted, the one the server gives last is the
\* longest, and an answer is dealt with in the tick in which it is given.
GrantsOK ==
    /\ Granted(lease) /\ Granted(regLease)
    /\ srvLease <= now + LeaseLen
    /\ conn = "resuming" => Granted(resumed)
    /\ loop = "wait" /\ answer # 0 => answer = now + LeaseLen /\ srvLease = answer /\ ~srvReq
    /\ loop \in Answered => value = now + LeaseLen /\ srvLease = value /\ ~srvReq

\* A task under a live context has its renewal goroutine, which does not sleep
\* or wait beyond the lease.
LoopOK ==
    /\ run \in {"queued", "got", "check"} => loop = "off"
    /\ Active => loop \in Renewing
    /\ loop \in {"sleep", "backoff"} => wake <= srvLease \/ wake <= now
    /\ loop = "wait" => dl <= srvLease
    /\ Active => now <= srvLease + Lag

LeaseInv == LeaseTypeOK /\ GrantsOK /\ LoopOK

\* As long as nothing has failed since the last renewal, the node knows the
\* server's lease and asks for a new one before it is over.
FaultInv ==
    /\ conn # "ready" => fault
    /\ loop \in {"failed", "backoff"} => fault
    /\ ~fault =>
          /\ loop \in {"off", "top", "sleep", "try"} => lease = srvLease /\ ~srvReq
          /\ run = "queued" => regLease = srvLease
          /\ loop \in {"top", "try"} => now < lease
          /\ loop = "sleep" => now <= wake /\ wake < lease
          /\ loop = "wait" => sentAt <= now /\ sentAt < dl /\ (answer # 0 => now < dl)
          /\ loop = "wait" /\ answer = 0 => dl = srvLease
          /\ loop \in {"observe", "apply"} => now < dl
          /\ loop \in {"update", "updated"} => lease = value

-----------------------------------------------------------------------------
(* The handler stops when the lease is over *)

\* runTask keeps the invariant.
LEMMA TaskKeeps ==
    ASSUME LeaseInv, Task
    PROVE  LeaseInv'
  <1> USE LeaseAssumption DEF LeaseInv, LeaseTypeOK, GrantsOK, LoopOK, Granted, Active, Renewing, Answered, Lag,
          taskVars, loopVars, sessionVars, srvVars
  <1>1. CASE Get
    BY <1>1 DEF Get
  <1>2. CASE SetLeaseObserver
    BY <1>2 DEF SetLeaseObserver
  <1>3. CASE Start
    BY <1>3 DEF Start, Expired
  <1>4. CASE HandlerReturns
    BY <1>4 DEF HandlerReturns
  <1>5. CASE Complete
    BY <1>5 DEF Complete
  <1>6. CASE Cancel
    BY <1>6 DEF Cancel
  <1> QED
    BY <1>1, <1>2, <1>3, <1>4, <1>5, <1>6 DEF Task

\* So does the renewal goroutine.
LEMMA LoopKeeps ==
    ASSUME LeaseInv, Loop
    PROVE  LeaseInv'
  <1> USE LeaseAssumption DEF LeaseInv, LeaseTypeOK, GrantsOK, LoopOK, Granted, Active, Renewing, Answered, Lag,
          taskVars, loopVars, sessionVars, srvVars
  <1>1. CASE LoopCancelled
    BY <1>1 DEF LoopCancelled
  <1>2. CASE Sleep
    BY <1>2 DEF Sleep, NextRenewDelay, AtMost
  <1>3. CASE WakeUp
    BY <1>3 DEF WakeUp
  <1>4. CASE TooLateToAsk
    BY <1>4 DEF TooLateToAsk, LoseLease, Expired
  <1>5. CASE Ask
    BY <1>5 DEF Ask, Expired
  <1>6. CASE RequestFails
    BY <1>6 DEF RequestFails, RequestOver
  <1>7. CASE Denied
    BY <1>7 DEF Denied, LoseLease
  <1>8. CASE Retry
    BY <1>8 DEF Retry, AtMost
  <1>9. CASE GiveUp
    BY <1>9 DEF GiveUp, LoseLease
  <1>10. CASE Renewed
    BY <1>10 DEF Renewed
  <1>11. CASE RenewedObserved
    BY <1>11 DEF RenewedObserved
  <1>12. CASE Apply
    BY <1>12 DEF Apply
  <1>13. CASE ApplyTooLate
    BY <1>13 DEF ApplyTooLate, LoseLease
  <1>14. CASE UpdateLease
    BY <1>14 DEF UpdateLease
  <1>15. CASE LeaseUpdated
    BY <1>15 DEF LeaseUpdated
  <1> QED
    BY <1>1, <1>2, <1>3, <1>4, <1>5, <1>6, <1>7, <1>8, <1>9, <1>10, <1>11, <1>12, <1>13, <1>14,
       <1>15 DEF Loop

\* So do the session, the server and the clock: a tick is only possible when the
\* renewal goroutine has nothing to do.
LEMMA OutsideKeeps ==
    ASSUME LeaseInv, Session \/ SrvRenew \/ Tick \/ UNCHANGED vars
    PROVE  LeaseInv'
  <1> USE LeaseAssumption DEF LeaseInv, LeaseTypeOK, GrantsOK, LoopOK, Granted, Active, Renewing, Answered, Lag,
          taskVars, loopVars, sessionVars, srvVars
  <1>1. CASE Disconnect
    BY <1>1 DEF Disconnect
  <1>2. CASE ResumeObserved
    BY <1>2 DEF ResumeObserved
  <1>3. CASE \E until \in {0, srvLease, now + LeaseLen} : Resume(until)
    BY <1>3 DEF Resume
  <1>4. CASE SrvRenew
    BY <1>4 DEF SrvRenew
  <1>5. CASE Tick
    BY <1>5 DEF Tick, Urgent, RequestOver
  <1>6. CASE UNCHANGED vars
    BY <1>6 DEF vars
  <1> QED
    BY <1>1, <1>2, <1>3, <1>4, <1>5, <1>6 DEF Session

\* The inductive invariant of the lease, on a node whose clock is wrong by any
\* amount.
THEOREM LeaseInvariance == Spec => []LeaseInv
  <1>1. Init => LeaseInv
    <2> SUFFICES ASSUME Init PROVE LeaseInv
      OBVIOUS
    <2> USE DEF Init, LeaseInv
    <2>1. LeaseTypeOK
      BY LeaseAssumption DEF LeaseTypeOK, Renewing
    <2>2. GrantsOK
      BY LeaseAssumption DEF GrantsOK, Granted, Answered
    <2>3. LoopOK
      BY LeaseAssumption DEF LoopOK, Active, Renewing, Lag
    <2> QED
      BY <2>1, <2>2, <2>3
  <1>2. LeaseInv /\ [Next]_vars => LeaseInv'
    BY TaskKeeps, LoopKeeps, OutsideKeeps DEF Next, Over
  <1> QED
    BY <1>1, <1>2, PTL DEF Spec

\* When the server's lease is over the handler has been told to stop, at the
\* latest after the time by which the node's clock is behind (worker.go
\* renewWithRetry: the deadline of reqCtx is on the node's own clock).
THEOREM StopsWithinLag == Spec => [](now > srvLease + Lag => ~Active)
  <1>1. LeaseInv => (now > srvLease + Lag => ~Active)
    BY LeaseAssumption DEF LeaseInv, LeaseTypeOK, LoopOK, Lag
  <1> QED
    BY <1>1, LeaseInvariance, PTL

\* With a clock that is not behind the server's, an attempt has one owner: when
\* another node may get it, the handler here has been told to stop, whatever
\* happened to requests, answers and sessions (worker.go runTask, renewLoop).
THEOREM OneOwnerAtATime ==
    ASSUME Skew >= 0
    PROVE  Spec => []OneOwner
  <1>1. LeaseInv => OneOwner
    BY LeaseAssumption DEF LeaseInv, LeaseTypeOK, LoopOK, Lag, OneOwner
  <1> QED
    BY <1>1, LeaseInvariance, PTL

-----------------------------------------------------------------------------
(* No lease is lost without a fault *)

\* runTask keeps the invariant.
LEMMA TaskKeepsFaultInv ==
    ASSUME LeaseInv, FaultInv, Task
    PROVE  FaultInv'
  <1> USE LeaseAssumption DEF LeaseInv, LeaseTypeOK, GrantsOK, LoopOK, Granted, Answered, FaultInv,
          taskVars, loopVars, sessionVars, srvVars
  <1>1. CASE Get
    BY <1>1 DEF Get
  <1>2. CASE SetLeaseObserver
    BY <1>2 DEF SetLeaseObserver
  <1>3. CASE Start
    BY <1>3 DEF Start, Expired
  <1>4. CASE HandlerReturns
    BY <1>4 DEF HandlerReturns
  <1>5. CASE Complete
    BY <1>5 DEF Complete
  <1>6. CASE Cancel
    BY <1>6 DEF Cancel
  <1> QED
    BY <1>1, <1>2, <1>3, <1>4, <1>5, <1>6 DEF Task

\* So does the renewal goroutine, if the deadline of a request is not earlier on
\* the node's clock than on the server's and the margin is a tick at least.
LEMMA LoopKeepsFaultInv ==
    ASSUME LeaseInv, FaultInv, Loop, Skew <= 0, Period >= 2
    PROVE  FaultInv'
  <1> USE LeaseAssumption DEF LeaseInv, LeaseTypeOK, GrantsOK, LoopOK, Granted, Answered, FaultInv,
          taskVars, loopVars, sessionVars, srvVars
  <1>1. CASE LoopCancelled
    BY <1>1 DEF LoopCancelled
  <1>2. CASE Sleep
    BY <1>2 DEF Sleep, NextRenewDelay, AtMost
  <1>3. CASE WakeUp
    BY <1>3 DEF WakeUp
  <1>4. CASE TooLateToAsk
    BY <1>4 DEF TooLateToAsk, LoseLease, Expired
  <1>5. CASE Ask
    BY <1>5 DEF Ask, Expired
  <1>6. CASE RequestFails
    <2>1. fault \/ now > sentAt
      BY <1>6 DEF RequestFails, RequestOver
    <2>2. fault' = (fault \/ now > sentAt) /\ loop' = "failed"
      BY <1>6 DEF RequestFails
    <2>3. fault'
      BY <2>1, <2>2
    <2> QED
      BY <2>2, <2>3
  <1>7. CASE Denied
    BY <1>7 DEF Denied, LoseLease
  <1>8. CASE Retry
    BY <1>8 DEF Retry, AtMost
  <1>9. CASE GiveUp
    BY <1>9 DEF GiveUp, LoseLease
  <1>10. CASE Renewed
    BY <1>10 DEF Renewed
  <1>11. CASE RenewedObserved
    BY <1>11 DEF RenewedObserved
  <1>12. CASE Apply
    BY <1>12 DEF Apply
  <1>13. CASE ApplyTooLate
    BY <1>13 DEF ApplyTooLate, LoseLease
  <1>14. CASE UpdateLease
    BY <1>14 DEF UpdateLease
  <1>15. CASE LeaseUpdated
    BY <1>15 DEF LeaseUpdated
  <1> QED
    BY <1>1, <1>2, <1>3, <1>4, <1>5, <1>6, <1>7, <1>8, <1>9, <1>10, <1>11, <1>12, <1>13, <1>14,
       <1>15 DEF Loop

\* So do the session, the server and the clock.
LEMMA OutsideKeepsFaultInv ==
    ASSUME LeaseInv, FaultInv, Session \/ SrvRenew \/ Tick \/ UNCHANGED vars
    PROVE  FaultInv'
  <1> USE LeaseAssumption DEF LeaseInv, LeaseTypeOK, GrantsOK, LoopOK, Granted, Answered, FaultInv,
          taskVars, loopVars, sessionVars, srvVars
  <1>1. CASE Disconnect
    BY <1>1 DEF Disconnect
  <1>2. CASE ResumeObserved
    BY <1>2 DEF ResumeObserved
  <1>3. CASE \E until \in {0, srvLease, now + LeaseLen} : Resume(until)
    BY <1>3 DEF Resume
  <1>4. CASE SrvRenew
    BY <1>4 DEF SrvRenew
  <1>5. CASE Tick
    BY <1>5 DEF Tick, Urgent, RequestOver
  <1>6. CASE UNCHANGED vars
    BY <1>6 DEF vars
  <1> QED
    BY <1>1, <1>2, <1>3, <1>4, <1>5, <1>6 DEF Session

\* With a clock that is not ahead of the server's and a margin of one tick at
\* least before the deadline, an attempt is lost only if, since its last renewal,
\* the session broke, the server refused, or a request was left without an
\* answer for some time (worker.go nextRenewDelay and renewWithRetry).  The run
\* lease_clock shows that a clock that is ahead breaks it.
THEOREM NoLossWithoutFault ==
    ASSUME Skew <= 0, Period >= 2
    PROVE  Spec => LostOnlyByFault
  <1>1. Init => FaultInv
    BY LeaseAssumption DEF Init, FaultInv
  <1>2. LeaseInv /\ FaultInv /\ [Next]_vars => FaultInv'
    BY TaskKeepsFaultInv, LoopKeepsFaultInv, OutsideKeepsFaultInv DEF Next, Over
  <1>3. LeaseInv /\ FaultInv /\ [Next]_vars => [~lost /\ lost' => fault']_vars
    <2> SUFFICES ASSUME LeaseInv, FaultInv, Next, ~lost, lost' PROVE fault'
      OBVIOUS
    <2>1. CASE TooLateToAsk \/ Denied \/ GiveUp \/ ApplyTooLate
      <3>1. CASE Denied
        BY <3>1 DEF Denied
      <3>2. CASE TooLateToAsk \/ GiveUp \/ ApplyTooLate
        <4>1. fault
          BY <3>2 DEF TooLateToAsk, GiveUp, ApplyTooLate, Expired, FaultInv, LeaseInv, LeaseTypeOK,
                      GrantsOK, Granted
        <4>2. UNCHANGED fault
          BY <3>2 DEF TooLateToAsk, GiveUp, ApplyTooLate
        <4> QED
          BY <4>1, <4>2
      <3> QED
        BY <2>1, <3>1, <3>2
    <2>2. CASE ~(TooLateToAsk \/ Denied \/ GiveUp \/ ApplyTooLate)
      <3>1. UNCHANGED lost
        BY <2>2 DEF Next, Task, Loop, Session, Over, vars, taskVars, Get, SetLeaseObserver, Start,
           HandlerReturns, Complete, Cancel, LoopCancelled, Sleep, WakeUp, Ask, RequestFails, Retry,
           Renewed, RenewedObserved, Apply, UpdateLease, LeaseUpdated, Disconnect, Resume,
           ResumeObserved, SrvRenew, Tick
      <3> QED
        BY <3>1
    <2> QED
      BY <2>1, <2>2
  <1> QED
    BY <1>1, <1>2, <1>3, LeaseInvariance, PTL DEF Spec, LostOnlyByFault

-----------------------------------------------------------------------------
(* The sessions of the connection *)

\* The loops run while Run is in or is leaving its last stage, and are over otherwise.
LoopsInv == stage \notin {"run", "leaving"} => loopAt = Nobody

\* No goroutine of a session is left when the next one begins or Run returns,
\* whatever fails and for any number of attempts (wss/run.go
\* sessionWithCandidate, cancelLoops and loops.Wait).
THEOREM LoopsEndWithTheirSession == WssSpec => []LoopsOfOneSession
  <1>1. WssInit => LoopsInv
    BY DEF WssInit, LoopsInv
  <1>2. ASSUME LoopsInv, [WssNext]_wssVars PROVE LoopsInv'
    <2> USE <1>2 DEF LoopsInv, connVars
    <2>1. CASE UNCHANGED wssVars
      BY <2>1 DEF wssVars
    <2>2. CASE DialSession \/ DialFails \/ Establish \/ EstablishFails
      BY <2>2 DEF DialSession, DialFails, Establish, EstablishFails
    <2>3. CASE Leave \/ (\E l \in Loops : LoopEnds(l)) \/ Left \/ CloseSession \/ RunGoesOn
      BY <2>3 DEF Leave, LoopEnds, Left, CloseSession, RunGoesOn
    <2>4. CASE StoppedWhileDown \/ IoFails \/ StopRun \/ RequestEndsSession
      BY <2>4 DEF StoppedWhileDown, IoFails, StopRun, RequestEndsSession, On
    <2>5. CASE ResultTick \/ SendResult \/ ResultAcked \/ ResultNotAcked
      BY <2>5 DEF ResultTick, SendResult, ResultAcked, ResultNotAcked, On
    <2>6. CASE ReadyNotified \/ ReadyComputed \/ ReadySent \/ ReadyFails
      BY <2>6 DEF ReadyNotified, ReadyComputed, ReadySent, ReadyFails, On
    <2>7. CASE QueueRecord \/ CompleteAttempt \/ ReleaseReservation \/ NodeStateChanges
      BY <2>7 DEF QueueRecord, CompleteAttempt, ReleaseReservation, NodeStateChanges
    <2> QED
      BY <2>1, <2>2, <2>3, <2>4, <2>5, <2>6, <2>7 DEF WssNext
  <1>3. LoopsInv => LoopsOfOneSession
    BY DEF LoopsInv, LoopsOfOneSession
  <1> QED
    BY <1>1, <1>2, <1>3, PTL DEF WssSpec
=============================================================================
