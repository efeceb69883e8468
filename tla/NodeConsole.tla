---------------------------- MODULE NodeConsole ----------------------------
(***************************************************************************)
(* The judge node's process: the requests of its web console that change   *)
(* something (webui/server.go, webui/store.go), the configuration they     *)
(* leave on disk and in the manager, and the start and the end of the      *)
(* process (cmd/hnieoj-judge-node/main.go).  The life of the runtime in    *)
(* between is the subject of NodeManager; here it is off, on or draining.  *)
(*                                                                         *)
(* SaveConfig writes config.yaml.tmp and renames it.  The name is the same *)
(* for every request, so a file is an inode that two of them may share.    *)
(* Times count quarters of a minute.                                       *)
(***************************************************************************)
EXTENDS Naturals, FiniteSets

CONSTANTS
    Saves,      \* the requests that save a configuration
    Drains,     \* values of worker.drainTimeout in the requests
    MaxBoots    \* bound on the restarts of the process

ASSUME ConsoleAssumption ==
    IsFiniteSet(Saves) /\ Drains \subseteq Nat \ {0} /\ MaxBoots \in Nat

\* A configuration: its drain timeout, and whether it names the bootstrap file.
Default == [drain |-> 20, tokenFile |-> FALSE]
Unset == [drain |-> 0, tokenFile |-> FALSE]
Empty == [drain |-> 0, tokenFile |-> TRUE]   \* a file that is cut to nothing, or mixed up

Inodes == 1 .. Cardinality(Saves)

VARIABLES
    cfgFile,    \* the inode of config.yaml, 0 for none
    tmpFile,    \* the inode of config.yaml.tmp
    content,    \* what an inode holds
    tokenThere, \* the bootstrap file exists
    mcfg,       \* Manager.cfg
    saveAt,     \* "none", "token", "open", "write", "rename", "set" or "done", for each request
    want,       \* the configuration that a request saves
    fd,         \* the inode that a request has open
    judge,      \* the runtime: "off", "on" or "draining"
    judgeDrain, \* the drain timeout it was started with
    starting,   \* a start waits for opMu: SUBSET {"auto", "console"}
    restarting, \* Restart holds opMu
    proc,       \* "up", "stopping", "stopped", "closing", "exited"
    grace,      \* what is left for the runtime to stop in
    boots,      \* number of restarts
    overlap,    \* history: two saving requests were in progress at one time
    enrolled,   \* history: a bootstrap request was answered ok
    lateStart   \* history: a start after the shutdown's Stop

saveVars == <<cfgFile, tmpFile, content, tokenThere, saveAt, want, fd, overlap, enrolled>>
procVars == <<starting, restarting, proc, grace, boots, lateStart>>
consoleVars == <<saveVars, mcfg, judge, judgeDrain, procVars>>

\* The console's server accepts requests, or goes on with those it has.
Listens == proc \in {"up", "stopping", "stopped"}
Lives == proc # "exited"

-----------------------------------------------------------------------------
(* Saving a configuration *)

Busy == {s \in Saves : saveAt[s] \notin {"none", "done"}}

SaveGoes(s, where) == saveAt' = [saveAt EXCEPT ![s] = where]

\* A request is answered, with an error or not.
SaveEnds(s) ==
    /\ SaveGoes(s, "done")
    /\ want' = [want EXCEPT ![s] = Unset] /\ fd' = [fd EXCEPT ![s] = 0]

\* The base of the new configuration is the stored one; dtoToConfig keeps what
\* the console does not show, the bootstrap file among it.
Stored == IF cfgFile = 0 THEN Unset ELSE content[cfgFile]
Base == IF Stored = Unset THEN Default ELSE Stored

\* A drain timeout that is no duration, or none at all, leaves the one of the base.
ParseDrain(d, base) == IF d = 0 THEN base.drain ELSE d
DtoToConfig(d, base) == [base EXCEPT !.drain = ParseDrain(d, base)]

\* Validate refuses a configuration, for one of the fields left out here, or
\* completes it.
Validate(c) == {Unset, IF c.drain = 0 THEN [c EXCEPT !.drain = Default.drain] ELSE c}

\* PUT config.  LoadConfig fails for a file it cannot read.
PutConfig(s, d) ==
    /\ Listens /\ saveAt[s] = "none"
    /\ \E c \in Validate(DtoToConfig(d, Base)) :
          IF c = Unset \/ Stored = Empty
          THEN SaveEnds(s)
          ELSE SaveGoes(s, "open") /\ want' = [want EXCEPT ![s] = c] /\ UNCHANGED fd
    /\ overlap' = (overlap \/ Busy # {})
    /\ UNCHANGED <<cfgFile, tmpFile, content, tokenThere, enrolled, mcfg, judge, judgeDrain, procVars>>

\* POST setup/bootstrap: the same, for a configuration that names the bootstrap
\* file; the token is written first, unless the body or the node's type is refused ...
Bootstrap(s, d) ==
    /\ Listens /\ saveAt[s] = "none"
    /\ \/ SaveEnds(s)
       \/ /\ Stored # Empty
          /\ SaveGoes(s, "token")
          /\ want' = [want EXCEPT ![s] = [DtoToConfig(d, Base) EXCEPT !.tokenFile = TRUE]] /\ UNCHANGED fd
    /\ overlap' = (overlap \/ Busy # {})
    /\ UNCHANGED <<cfgFile, tmpFile, content, tokenThere, enrolled, mcfg, judge, judgeDrain, procVars>>

\* ... and stays although Validate then refuses; without a token in the request
\* an earlier one must be there.
WriteToken(s) ==
    /\ Lives /\ saveAt[s] = "token"
    /\ \/ tokenThere' = TRUE
       \/ UNCHANGED tokenThere
    /\ \E c \in Validate(want[s]) :
          IF tokenThere' /\ c # Unset
          THEN SaveGoes(s, "open") /\ want' = [want EXCEPT ![s] = c] /\ UNCHANGED fd
          ELSE SaveEnds(s)
    /\ UNCHANGED <<cfgFile, tmpFile, content, overlap, enrolled, mcfg, judge, judgeDrain, procVars>>

\* Faulty variant: config.yaml itself is written.
OpenConfig(s) ==
    /\ Lives /\ saveAt[s] = "open"
    /\ \E i \in Inodes :
          /\ IF cfgFile # 0 THEN i = cfgFile
             ELSE i \notin {cfgFile, tmpFile} \cup {fd[t] : t \in Busy}
          /\ cfgFile' = i /\ tmpFile' = i
          /\ content' = [content EXCEPT ![i] = Empty]
          /\ fd' = [fd EXCEPT ![s] = i]
    /\ SaveGoes(s, "write")
    /\ UNCHANGED <<tokenThere, want, overlap, enrolled, mcfg, judge, judgeDrain, procVars>>

\* os.WriteFile of config.yaml.tmp: an existing file is cut ...
OpenTmp(s) ==
    /\ Lives /\ saveAt[s] = "open"
    /\ \E i \in Inodes :
          /\ IF tmpFile # 0 THEN i = tmpFile
             ELSE i \notin {cfgFile, tmpFile} \cup {fd[t] : t \in Busy}
          /\ tmpFile' = i
          /\ content' = [content EXCEPT ![i] = Empty]
          /\ fd' = [fd EXCEPT ![s] = i]
    /\ SaveGoes(s, "write")
    /\ UNCHANGED <<cfgFile, tokenThere, want, overlap, enrolled, mcfg, judge, judgeDrain, procVars>>

\* ... and written: over what another request wrote meanwhile the shorter text
\* leaves the end of the longer one.  A full disk ends the request here.
WriteTmp(s) ==
    /\ Lives /\ saveAt[s] = "write"
    /\ \/ \E c \in {want[s]} \cup (IF content[fd[s]] = Empty THEN {} ELSE {Empty}) :
             /\ content' = [content EXCEPT ![fd[s]] = c]
             /\ SaveGoes(s, "rename") /\ UNCHANGED <<want, fd>>
       \/ SaveEnds(s) /\ UNCHANGED content
    /\ UNCHANGED <<cfgFile, tmpFile, tokenThere, overlap, enrolled, mcfg, judge, judgeDrain, procVars>>

\* The rename takes what the name stands for by now, or finds nothing.
RenameTmp(s) ==
    /\ Lives /\ saveAt[s] = "rename"
    /\ IF tmpFile = 0
       THEN SaveEnds(s) /\ UNCHANGED <<cfgFile, tmpFile>>
       ELSE /\ SaveGoes(s, "set") /\ UNCHANGED <<want, fd>>
            /\ cfgFile' = tmpFile /\ tmpFile' = 0
    /\ UNCHANGED <<content, tokenThere, overlap, enrolled, mcfg, judge, judgeDrain, procVars>>

\* Manager.SetConfig; a running runtime keeps the configuration it has.
SetManagerConfig(s) ==
    /\ Lives /\ saveAt[s] = "set"
    /\ mcfg' = want[s]
    /\ enrolled' = (enrolled \/ want[s].tokenFile)
    /\ SaveEnds(s)
    /\ UNCHANGED <<cfgFile, tmpFile, content, tokenThere, overlap, judge, judgeDrain, procVars>>

\* The enrolment deletes the token when the node is registered.
TokenConsumed ==
    /\ Lives /\ judge = "on" /\ tokenThere
    /\ tokenThere' = FALSE
    /\ UNCHANGED <<cfgFile, tmpFile, content, saveAt, want, fd, overlap, enrolled, mcfg, judge, judgeDrain, procVars>>

-----------------------------------------------------------------------------
(* Start, Stop and Restart *)

AskStart ==
    /\ Listens
    /\ starting' = starting \cup {"console"}
    /\ UNCHANGED <<saveVars, mcfg, judge, judgeDrain, restarting, proc, grace, boots, lateStart>>

\* opMu is free unless Restart has it, or the Stop of the shutdown.
OpFree == ~restarting /\ proc # "stopping"

StartJudge ==
    IF judge = "off" /\ mcfg # Unset
    THEN judge' = "on" /\ judgeDrain' = mcfg.drain
    ELSE UNCHANGED <<judge, judgeDrain>>

\* start looks neither at its context nor at the shutdown.
DoStart(by) ==
    /\ Lives /\ by \in starting /\ OpFree
    /\ starting' = starting \ {by}
    /\ StartJudge
    /\ lateStart' = (lateStart \/ proc # "up")
    /\ UNCHANGED <<saveVars, mcfg, restarting, proc, grace, boots>>

StopCall ==
    /\ Listens /\ OpFree /\ judge = "on"
    /\ judge' = "draining"
    /\ UNCHANGED <<saveVars, mcfg, judgeDrain, procVars>>

RestartCall ==
    /\ proc = "up" /\ OpFree
    /\ restarting' = TRUE
    /\ judge' = IF judge = "on" THEN "draining" ELSE judge
    /\ UNCHANGED <<saveVars, mcfg, judgeDrain, starting, proc, grace, boots, lateStart>>

\* Restart starts again, or its stop was given up after 40 seconds.
RestartEnds ==
    /\ Lives /\ restarting
    /\ restarting' = FALSE
    /\ IF judge = "off" THEN StartJudge ELSE UNCHANGED <<judge, judgeDrain>>
    /\ UNCHANGED <<saveVars, mcfg, starting, proc, grace, boots, lateStart>>

\* It has drained, or it failed by itself.
JudgeEnds ==
    /\ Lives /\ judge # "off"
    /\ judge' = "off" /\ judgeDrain' = 0
    /\ UNCHANGED <<saveVars, mcfg, procVars>>

-----------------------------------------------------------------------------
(* The process *)

MinShutdown == 6       \* minShutdownTimeout
ShutdownMargin == 1    \* shutdownMargin
RestartLimit == 3      \* the 40 seconds of handleRestart

\* Faulty variant: the lower bound for every configuration.
ShutdownTimeoutFixed(c) == MinShutdown

\* The pool's drain and flushResults may each take the drain timeout.
ShutdownTimeoutFor(c) ==
    LET needed == 2 * c.drain + ShutdownMargin IN
    IF c # Unset /\ needed > MinShutdown THEN needed ELSE MinShutdown

\* SIGINT or SIGTERM.  The Stop of the shutdown may wait for a Restart first.
Signal ==
    /\ proc = "up"
    /\ proc' = "stopping"
    /\ \E waited \in IF restarting THEN {0, RestartLimit} ELSE {0} :
          grace' = IF ShutdownTimeoutFor(mcfg) > waited THEN ShutdownTimeoutFor(mcfg) - waited ELSE 0
    /\ UNCHANGED <<saveVars, mcfg, judge, judgeDrain, starting, restarting, boots, lateStart>>

ShutdownStops ==
    /\ proc = "stopping" /\ ~restarting /\ judge = "on"
    /\ judge' = "draining"
    /\ UNCHANGED <<saveVars, mcfg, judgeDrain, procVars>>

\* Stop returns when the runtime is over, or when the time is up; a drain takes
\* at most twice its timeout.
ShutdownStopped ==
    /\ proc = "stopping" /\ ~restarting /\ judge # "on"
    /\ judge = "draining" => 2 * judgeDrain >= grace
    /\ proc' = "stopped"
    /\ UNCHANGED <<saveVars, mcfg, judge, judgeDrain, starting, restarting, grace, boots, lateStart>>

\* server.Shutdown: no new requests ...
CloseConsole ==
    /\ proc = "stopped"
    /\ proc' = "closing"
    /\ UNCHANGED <<saveVars, mcfg, judge, judgeDrain, starting, restarting, grace, boots, lateStart>>

\* ... and those in progress are waited for, but not for ever; then main returns.
Exit ==
    /\ proc = "closing"
    /\ proc' = "exited"
    /\ UNCHANGED <<saveVars, mcfg, judge, judgeDrain, starting, restarting, grace, boots, lateStart>>

Crash ==
    /\ Lives
    /\ proc' = "exited" /\ judge' = "off" /\ judgeDrain' = 0
    /\ UNCHANGED <<saveVars, mcfg, starting, restarting, grace, boots, lateStart>>

\* A new process loads the stored configuration, and starts if there is one.
Boot ==
    /\ proc = "exited" /\ boots < MaxBoots
    /\ boots' = boots + 1
    /\ proc' = "up" /\ judge' = "off" /\ judgeDrain' = 0
    /\ restarting' = FALSE /\ grace' = 0 /\ lateStart' = FALSE
    /\ mcfg' = IF Stored = Empty THEN Unset ELSE Stored
    /\ starting' = IF mcfg' = Unset THEN {} ELSE {"auto"}
    /\ saveAt' = [s \in Saves |-> IF s \in Busy THEN "done" ELSE saveAt[s]]
    /\ want' = [s \in Saves |-> Unset] /\ fd' = [s \in Saves |-> 0]
    /\ UNCHANGED <<cfgFile, tmpFile, content, tokenThere, overlap, enrolled>>

-----------------------------------------------------------------------------

ConsoleInit ==
    /\ cfgFile = 0 /\ tmpFile = 0 /\ content = [i \in Inodes |-> Empty]
    /\ tokenThere = FALSE /\ mcfg = Unset
    /\ saveAt = [s \in Saves |-> "none"] /\ want = [s \in Saves |-> Unset] /\ fd = [s \in Saves |-> 0]
    /\ judge = "off" /\ judgeDrain = 0
    /\ starting = {} /\ restarting = FALSE
    /\ proc = "up" /\ grace = 0 /\ boots = 0
    /\ overlap = FALSE /\ enrolled = FALSE /\ lateStart = FALSE

SaveStep(s) ==
    \/ \E d \in Drains \cup {0} : PutConfig(s, d) \/ Bootstrap(s, d)
    \/ WriteToken(s) \/ OpenTmp(s) \/ WriteTmp(s) \/ RenameTmp(s) \/ SetManagerConfig(s)

ConsoleNext ==
    \/ \E s \in Saves : SaveStep(s)
    \/ \E by \in {"auto", "console"} : DoStart(by)
    \/ TokenConsumed \/ AskStart \/ StopCall \/ RestartCall \/ RestartEnds \/ JudgeEnds
    \/ Signal \/ ShutdownStops \/ ShutdownStopped \/ CloseConsole \/ Exit \/ Crash \/ Boot

ConsoleSpec == ConsoleInit /\ [][ConsoleNext]_consoleVars

-----------------------------------------------------------------------------
(* Properties *)

\* As long as no two saving requests overlap: whenever the process ends, in the
\* middle of a request too, it leaves a whole configuration; when no request is
\* in progress the manager has the one that is stored; and after a bootstrap
\* that was answered ok every later configuration still names the token's file.
ConfigKept ==
    ~overlap =>
       /\ Stored # Empty
       /\ Lives /\ Busy = {} => mcfg = Stored
       /\ enrolled => Stored.tokenFile

\* main returns with a running or draining runtime only after a start that came
\* behind the shutdown's Stop, or when the time was computed from another drain
\* timeout than the runtime's or partly spent behind a Restart.
ExitDrained ==
    proc = "exited" /\ judge # "off" =>
       lateStart \/ grace < ShutdownTimeoutFor([Default EXCEPT !.drain = judgeDrain])

\* The comment at cmd/hnieoj-judge-node/main.go:114, "must wait until the
\* shutdown is complete (runtime drained + web console closed) before returning".
ReturnsDrained == proc = "exited" => judge = "off"
=============================================================================
