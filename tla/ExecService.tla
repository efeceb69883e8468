---------------------------- MODULE ExecService ----------------------------
(***************************************************************************)
(* What the executor promises to its callers, without queue, loops and     *)
(* containers: a request that is accepted is taken up and answered once; a *)
(* request whose context was cancelled before it was taken up is answered  *)
(* without having run; only a shutdown loses accepted requests, and only   *)
(* those that were not taken up.                                           *)
(***************************************************************************)
CONSTANT Reqs

VARIABLES
    serving,   \* "before", "yes", or "over" from the beginning of the shutdown
    job,       \* "idle", "queued", "taken", "running" or "over", for each request
    reply,     \* "none", "refused", "cancelled" or "ran"
    gaveUp     \* requests whose context is cancelled

serviceVars == <<serving, job, reply, gaveUp>>

Answered(r, a) ==
    /\ job' = [job EXCEPT ![r] = "over"]
    /\ reply' = [reply EXCEPT ![r] = a]
    /\ UNCHANGED <<serving, gaveUp>>

MovesTo(r, s) ==
    /\ job' = [job EXCEPT ![r] = s]
    /\ UNCHANGED <<serving, reply, gaveUp>>

Open ==
    /\ serving = "before" /\ serving' = "yes"
    /\ UNCHANGED <<job, reply, gaveUp>>

Close ==
    /\ serving = "yes" /\ serving' = "over"
    /\ UNCHANGED <<job, reply, gaveUp>>

Accept(r) == serving # "before" /\ job[r] = "idle" /\ MovesTo(r, "queued")
Reject(r) == job[r] = "idle" /\ Answered(r, "refused")

\* An interactive session does not wait in the queue.
AcceptNow(r) == job[r] = "idle" /\ MovesTo(r, "running")

GiveUp(r) ==
    /\ job[r] \notin {"idle", "over"}
    /\ gaveUp' = gaveUp \cup {r}
    /\ UNCHANGED <<serving, job, reply>>

TakeUp(r) == serving # "before" /\ job[r] = "queued" /\ MovesTo(r, "taken")
RunIt(r) == job[r] = "taken" /\ r \notin gaveUp /\ MovesTo(r, "running")
Drop(r) == job[r] = "taken" /\ r \in gaveUp /\ Answered(r, "cancelled")
Finish(r) == job[r] = "running" /\ Answered(r, "ran")

ServiceInit ==
    /\ serving = "before"
    /\ job = [r \in Reqs |-> "idle"]
    /\ reply = [r \in Reqs |-> "none"]
    /\ gaveUp = {}

Works(r) == RunIt(r) \/ Drop(r) \/ Finish(r)

ServiceNext ==
    \/ Open \/ Close
    \/ \E r \in Reqs :
          Accept(r) \/ Reject(r) \/ AcceptNow(r) \/ GiveUp(r) \/ TakeUp(r) \/ Works(r)

\* While it serves, every accepted request is taken up; a taken one is always answered.
ServiceFairness ==
    \A r \in Reqs :
       /\ WF_serviceVars(serving = "yes" /\ TakeUp(r))
       /\ WF_serviceVars(Works(r))

ServiceSpec == ServiceInit /\ [][ServiceNext]_serviceVars /\ ServiceFairness
=============================================================================
