------------------------------- MODULE CmdRun -------------------------------
(***************************************************************************)
(* What the executor does with one request once it has its containers      *)
(* (envexec group.go, run_single.go, file_prepare.go, file_copyin.go,      *)
(* file_collect.go; env/linuxcontainer): the descriptors of all commands   *)
(* are prepared, the commands run in parallel, their output is collected   *)
(* into files of the store, the results are converted (worker/worker.go    *)
(* convertResult) and consumed (model.ConvertResponse).                    *)
(*                                                                         *)
(* Every command has one collected descriptor "col", through a pipe or a   *)
(* terminal with a relay goroutine (Piped, tty) or directly into a file of *)
(* the container, and one copied-out file "out".  A single command is a    *)
(* group of one.  Store files are followed one by one; their contents are  *)
(* not.                                                                    *)
(***************************************************************************)
EXTENDS Naturals, FiniteSets

CONSTANTS
    Cmds,      \* 1 .. n, the commands of the request
    Piped,     \* commands whose collector uses a pipe
    Ttys,      \* commands that may ask for a terminal
    Optional,  \* commands that may go without "out": it is named with a question mark
    Cached,    \* <<command, name>> of the files named in copyOutCached
    Clocked    \* commands with a clock limit of their own

Names == {"col", "out"}
Files == Cmds \X Names

VARIABLES
    tty,        \* the commands that run on a terminal
    group,      \* "new", "prepare", "run", "convert", "error" (Run returned one) or "answered"
    step,       \* "new", "ready", "copied", "wait", "stop", "limit" (stopped for a limit),
                \* "collect", "done", "converted"
    fds,        \* the executor's copies of the descriptors: "none", "open", "closed"
    relay,      \* the goroutine of newPipe: "none", "copies", "done"
    cgroup,     \* of the process: "none", "held", "destroyed"
    proc,       \* "none", "live", "dead"
    rt,         \* what the sandbox and the cgroup report: "none", "Normal", "Other", "Killed",
                \* "RunnerError", or measured beyond its limit: "Time", "Memory"
    status,     \* status of the result
    file,       \* "none", "open", "result", "cached", "removed" or "left" (on disk, forgotten)
    cancelled,  \* the context of the request is cancelled
    fault       \* history: what has gone wrong that leaves files behind

runVars == <<relay, cgroup, proc, rt>>
cmdVars == <<tty, group, step, fds, runVars, status, file, cancelled, fault>>

Goes(c, s) == step' = [step EXCEPT ![c] = s]

Arrive ==
    /\ group = "new"
    /\ tty' \in SUBSET Ttys
    /\ group' = "prepare"
    /\ UNCHANGED <<step, fds, runVars, status, file, cancelled, fault>>

CancelRequest ==
    /\ group # "new" /\ ~cancelled
    /\ cancelled' = TRUE
    /\ UNCHANGED <<tty, group, step, fds, runVars, status, file, fault>>

-----------------------------------------------------------------------------
(* prepareFds *)

\* A store file, and a goroutine that copies what the command writes into it.
StartRelay(c) ==
    /\ relay' = [relay EXCEPT ![c] = "copies"]
    /\ file' = [file EXCEPT ![<<c, "col">>] = "open"]

\* On a terminal a collector is always relayed, whatever it asks for ...
PrepareCmdFdTTY(c) == c \in tty /\ StartRelay(c)

\* ... otherwise when it asks for a pipe; else the container has opened the file.
PrepareCmdFdNoTty(c) ==
    /\ c \notin tty
    /\ IF c \in Piped THEN StartRelay(c) ELSE UNCHANGED <<relay, file>>

Relayed(c) == c \in Piped \cup tty

PrepareFd(c) ==
    /\ group = "prepare" /\ step[c] = "new"
    /\ \A d \in Cmds : d < c => step[d] = "ready"
    /\ Goes(c, "ready")
    /\ fds' = [fds EXCEPT ![c] = "open"]
    /\ PrepareCmdFdTTY(c) \/ PrepareCmdFdNoTty(c)
    /\ UNCHANGED <<tty, group, cgroup, proc, rt, status, cancelled, fault>>

\* An error closes every descriptor and returns; the store files of the
\* commands prepared so far, and the one just made, stay in the directory.
PrepareFails(c) ==
    /\ group = "prepare" /\ step[c] = "new"
    /\ \A d \in Cmds : d < c => step[d] = "ready"
    /\ group' = "error" /\ fault' = fault \cup {"prepare"}
    /\ fds' = [d \in Cmds |-> IF fds[d] = "open" THEN "closed" ELSE fds[d]]
    /\ \E made \in {"none"} \cup {s \in {"left"} : Relayed(c)} :
          file' = [f \in Files |-> CASE f = <<c, "col">> -> made
                                     [] file[f] = "open" -> "left"
                                     [] OTHER -> file[f]]
    /\ UNCHANGED <<tty, step, runVars, status, cancelled>>

\* The pipes between the commands and the check for missing descriptors.
StartCmds ==
    /\ group = "prepare" /\ \A c \in Cmds : step[c] = "ready"
    /\ \/ group' = "run" /\ UNCHANGED <<fds, file, fault>>
       \/ /\ group' = "error" /\ fault' = fault \cup {"prepare"}
          /\ fds' = [c \in Cmds |-> "closed"]
          /\ file' = [f \in Files |-> IF file[f] = "open" THEN "left" ELSE file[f]]
    /\ UNCHANGED <<tty, step, runVars, status, cancelled>>

-----------------------------------------------------------------------------
(* runSingle *)

\* resultFileError: the collectors are closed and removed, the descriptors closed.
FileErrorExit(c) ==
    /\ Goes(c, "done")
    /\ status' = [status EXCEPT ![c] = "FileError"]
    /\ fds' = [fds EXCEPT ![c] = "closed"]
    /\ file' = [file EXCEPT ![<<c, "col">>] = IF @ = "open" THEN "removed" ELSE @]

\* runSingleCopyIn and symlink.  A file that the container cannot create is
\* passed over; any other error ends the command before it has run.
CopyIn(c) ==
    /\ group = "run" /\ step[c] = "ready"
    /\ \/ Goes(c, "copied") /\ UNCHANGED <<status, fds, file>>
       \/ FileErrorExit(c)
    /\ UNCHANGED <<tty, group, runVars, cancelled, fault>>

\* Get and Put of the cgroup pool that is used, FakeCgroupPool.
GetCgroup(c) == cgroup' = [cgroup EXCEPT ![c] = "held"]
DestroyCgroup(c) == cgroup' = [cgroup EXCEPT ![c] = "destroyed"]

\* Execve makes a cgroup and starts the process, which owns it from now on.
Execve(c) ==
    /\ step[c] = "copied"
    /\ GetCgroup(c)
    /\ Goes(c, "wait")
    /\ proc' = [proc EXCEPT ![c] = "live"]
    /\ fds' = [fds EXCEPT ![c] = "closed"]
    /\ UNCHANGED <<tty, group, relay, rt, status, file, cancelled, fault>>

\* Faulty variant: only a process that has started gives its cgroup back.
LimitsRefusedKeepsCgroup(c) == GetCgroup(c)

\* Or it cannot set the limits of the cgroup (setCgroupLimit): its deferred
\* function destroys it again.
LimitsRefused(c) == DestroyCgroup(c)

\* Then, and when it gets no cgroup at all, runSingleExecve closes the descriptors.
ExecveFails(c) ==
    /\ step[c] = "copied"
    /\ LimitsRefused(c) \/ UNCHANGED cgroup
    /\ Goes(c, "collect")
    /\ fds' = [fds EXCEPT ![c] = "closed"]
    /\ rt' = [rt EXCEPT ![c] = "RunnerError"]
    /\ UNCHANGED <<tty, group, relay, proc, status, file, cancelled, fault>>

\* The waiter returns on the context, the exit, or at a tick on a limit; then
\* the process is cancelled.
Wait(c) ==
    /\ step[c] = "wait"
    /\ \/ (cancelled \/ proc[c] = "dead") /\ Goes(c, "stop")
       \/ Goes(c, "limit")
    /\ UNCHANGED <<tty, group, fds, relay, cgroup, proc, rt, status, file, cancelled, fault>>

\* The process ends by itself, or because its context has ended: the sandbox
\* reports a killed process as one over its time limit.
ProcessEnds(c) ==
    /\ proc[c] = "live"
    /\ proc' = [proc EXCEPT ![c] = "dead"]
    /\ \E r \in {"Normal", "Other", "Killed", "Time", "Memory"} :
          /\ r = "Killed" => step[c] \in {"stop", "limit"} \/ cancelled
          /\ rt' = [rt EXCEPT ![c] = r]
    /\ UNCHANGED <<tty, group, step, fds, relay, cgroup, status, file, cancelled, fault>>

\* The goroutine of newProcess gives the cgroup back after it has announced the
\* end of the process, so the result does not wait for it.
PutCgroup(c) ==
    /\ proc[c] = "dead" /\ cgroup[c] = "held"
    /\ DestroyCgroup(c)
    /\ UNCHANGED <<tty, group, step, fds, relay, proc, rt, status, file, cancelled, fault>>

\* process.Result waits for the end of the process.  One that was killed for a
\* limit has run for longer than that limit.
Result(c) ==
    /\ step[c] \in {"stop", "limit"} /\ proc[c] = "dead"
    /\ rt' = [rt EXCEPT ![c] = IF @ = "Killed" /\ step[c] = "limit" THEN "Time" ELSE @]
    /\ Goes(c, "collect")
    /\ UNCHANGED <<tty, group, fds, relay, cgroup, proc, status, file, cancelled, fault>>

\* The relay sees the end of the pipe when nobody holds its write end; that of
\* a terminal also stops when it has read more than the limit.
RelayEnds(c) ==
    /\ relay[c] = "copies"
    /\ (fds[c] # "open" /\ proc[c] # "live") \/ c \in tty
    /\ relay' = [relay EXCEPT ![c] = "done"]
    /\ UNCHANGED <<tty, group, step, fds, cgroup, proc, rt, status, file, cancelled, fault>>

\* What copying a file of the container into a new store file may come to: the
\* state of the store file and the error.  The file may be missing, not regular
\* or too large, no store file can be made, or the copy fails, which leaves the
\* store file; or it is cut at the limit.
CopyOutcomes(cut) ==
    {<<"result", "">>, <<"result", cut>>, <<"none", "file">>, <<"left", "file">>}

\* copyOutFiles: a file that cannot be opened, for whatever reason, is passed
\* over in silence when it is optional.
OutOutcomes(c) ==
    CopyOutcomes("file") \cup {o \in {<<"none", "">>} : c \in Optional}

\* collectPipe: for a pipe or a terminal the store file of the relay becomes the result.
PipeOutcomes(c) ==
    IF Relayed(c) THEN {<<"result", "">>, <<"result", "limit">>} ELSE CopyOutcomes("limit")

\* File errors count only for a process that has ended normally; of several the
\* first one to come back decides.  What was passed over in copyIn is not among
\* them.  The measured time and memory have the last word.
RunStatus(c, errors) ==
    CASE rt[c] = "Normal" /\ errors = {} -> {"Accepted"}
      [] rt[c] = "Normal" -> {IF e = "limit" THEN "OutputLimit" ELSE "FileError" : e \in errors}
      [] rt[c] \in {"Killed", "Time"} -> {"TimeLimit"}
      [] OTHER -> {rt[c]}

\* copyOutAndCollect and the status of the result.
Collect(c) ==
    /\ step[c] = "collect"
    /\ Relayed(c) => relay[c] = "done"
    /\ \E out \in OutOutcomes(c), col \in PipeOutcomes(c) :
          /\ file' = [file EXCEPT ![<<c, "out">>] = out[1], ![<<c, "col">>] = col[1]]
          /\ fault' = IF "left" \in {out[1], col[1]} THEN fault \cup {"copy"} ELSE fault
          /\ \E s \in RunStatus(c, {out[2], col[2]} \ {""}) : status' = [status EXCEPT ![c] = s]
    /\ Goes(c, "done")
    /\ UNCHANGED <<tty, group, fds, runVars, cancelled>>

-----------------------------------------------------------------------------
(* The results *)

\* errgroup.Wait
GroupDone ==
    /\ group = "run" /\ \A c \in Cmds : step[c] = "done"
    /\ group' = "convert"
    /\ UNCHANGED <<tty, step, fds, runVars, status, file, cancelled, fault>>

\* A process stopped by the context looks as if it were over its time limit;
\* the measured times tell.  Without a clock limit the comparison is with zero.
FixTimeLimit(c) ==
    IF status[c] = "TimeLimit" /\ rt[c] # "Time" /\ c \in Clocked
    THEN "Other"
    ELSE status[c]

\* convertResult: cached files are added to the store; when Add fails, the files
\* it has not come to are closed and forgotten.
ConvertResult(c) ==
    /\ group = "convert" /\ step[c] = "done"
    /\ \A d \in Cmds : d < c => step[d] = "converted"
    /\ LET has == {f \in {c} \X Names : file[f] = "result"}
           cached == has \cap Cached
       IN \/ /\ status' = [status EXCEPT ![c] = FixTimeLimit(c)]
             /\ file' = [f \in Files |-> IF f \in cached THEN "cached" ELSE file[f]]
             /\ UNCHANGED fault
          \/ \E failed \in cached, seen \in SUBSET has :
                /\ failed \notin seen
                /\ status' = [status EXCEPT ![c] = "FileError"]
                /\ file' = [f \in Files |-> CASE f \in seen \cap cached -> "cached"
                                              [] f \in has \ seen -> "left"
                                              [] OTHER -> file[f]]
                /\ fault' = fault \cup {"add"}
    /\ Goes(c, "converted")
    /\ UNCHANGED <<tty, group, fds, runVars, cancelled>>

\* ConvertResponse reads the files and removes them, whether it succeeds or not.
Consume ==
    /\ group = "convert" /\ \A c \in Cmds : step[c] = "converted"
    /\ file' = [f \in Files |-> IF file[f] = "result" THEN "removed" ELSE file[f]]
    /\ group' = "answered"
    /\ UNCHANGED <<tty, fault, step, fds, runVars, status, cancelled>>

\* The websocket was lost, or the session ended early: nobody takes the response.
Abandon ==
    /\ group = "convert" /\ \A c \in Cmds : step[c] = "converted"
    /\ cancelled
    /\ file' = [f \in Files |-> IF file[f] = "result" THEN "left" ELSE file[f]]
    /\ fault' = fault \cup {"abandon"}
    /\ group' = "answered"
    /\ UNCHANGED <<tty, step, fds, runVars, status, cancelled>>

-----------------------------------------------------------------------------

CmdInit ==
    /\ tty = {} /\ group = "new"
    /\ step = [c \in Cmds |-> "new"] /\ fds = [c \in Cmds |-> "none"]
    /\ relay = [c \in Cmds |-> "none"] /\ cgroup = [c \in Cmds |-> "none"] /\ proc = [c \in Cmds |-> "none"]
    /\ rt = [c \in Cmds |-> "none"]
    /\ status = [c \in Cmds |-> "none"]
    /\ file = [f \in Files |-> "none"]
    /\ cancelled = FALSE /\ fault = {}

CmdStep(c) ==
    \/ PrepareFd(c) \/ PrepareFails(c) \/ CopyIn(c) \/ Execve(c) \/ ExecveFails(c)
    \/ Wait(c) \/ Result(c) \/ Collect(c) \/ ConvertResult(c)

GroupStep == StartCmds \/ GroupDone \/ Consume \/ Abandon

CmdNext ==
    \/ Arrive \/ GroupStep \/ CancelRequest
    \/ \E c \in Cmds : CmdStep(c) \/ ProcessEnds(c) \/ PutCgroup(c) \/ RelayEnds(c)

\* The goroutines go on.  The process need not end before it is cancelled, when
\* the sandbox kills it, nor write more than the limit to its terminal.
CmdFairness ==
    /\ WF_cmdVars(GroupStep)
    /\ \A c \in Cmds :
          /\ WF_cmdVars(CmdStep(c)) /\ WF_cmdVars(PutCgroup(c))
          /\ WF_cmdVars(fds[c] # "open" /\ proc[c] # "live" /\ RelayEnds(c))
          /\ WF_cmdVars((step[c] \in {"stop", "limit"} \/ cancelled) /\ ProcessEnds(c))

CmdSpec == CmdInit /\ [][CmdNext]_cmdVars /\ CmdFairness

-----------------------------------------------------------------------------
(* Properties *)

\* When the request is over, every store file it made is removed or listed under
\* its id, unless one of the four faults that leave files behind has happened;
\* an error of one command costs the others nothing.  An accepted command has
\* all its files but the optional one, though they are collected by several
\* goroutines and added to the store one by one ...
NoLeftover ==
    group = "answered" =>
       \A f \in Files :
          /\ file[f] \in {"none", "removed", "cached", "left"}
          /\ file[f] = "cached" => f \in Cached
          /\ file[f] = "left" => fault # {}
          /\ status[f[1]] = "Accepted" =>
                \/ file[f] \in {"removed", "cached"} \/ "abandon" \in fault
                \/ file[f] = "none" /\ f[2] = "out" /\ f[1] \in Optional

\* ... nothing can still write to what is read or stored: the process of the
\* command has ended, inside its cgroup, and the goroutine of its pipe as well;
\* and whichever way the group is over, no descriptor of it is open ...
NoLateWriter ==
    /\ \A f \in Files : file[f] \in {"result", "cached"} =>
          proc[f[1]] # "live" /\ relay[f[1]] # "copies"
    /\ \A c \in Cmds : proc[c] = "live" => group = "run" /\ cgroup[c] = "held"
    /\ group \in {"convert", "answered", "error"} => \A c \in Cmds : fds[c] # "open"

\* ... and once the commands run they all come to a result, whatever fails, with no
\* process, cgroup, descriptor or relay left.
AllCollected ==
    group = "run" ~>
       /\ group = "answered"
       /\ \A c \in Cmds : /\ proc[c] # "live" /\ cgroup[c] # "held"
                         /\ fds[c] = "closed" /\ relay[c] # "copies"

\* What a request may count on: nothing left behind, no late writer, and an end.
GroupPromise == []NoLeftover /\ []NoLateWriter /\ AllCollected
=============================================================================
