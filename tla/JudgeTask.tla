----------------------------- MODULE JudgeTask ------------------------------
(***************************************************************************)
(* The judging of one task: Processor.Process (processor/processor.go) and *)
(* the runner's client of the executor (runner/runner.go), from the test   *)
(* data to the verdict that is queued for the server, with the compiled    *)
(* programs the executor keeps meanwhile.                                  *)
(*                                                                         *)
(* The executor is CmdRun; here a command ends in any status, its answer   *)
(* can be lost, and the task's context can end at any request.             *)
(***************************************************************************)
EXTENDS Integers, Sequences

CONSTANTS
    NCases,    \* len(cases), which LoadCases keeps above zero
    IOScore    \* task.IOScore

ASSUME JudgeAssumption == NCases \in Nat \ {0} /\ IOScore \in Nat

VARIABLES
    task,      \* [mode, kind, program]: JudgeMode, ProblemType, and whether it
               \*   comes with the checker or interactor its mode needs
    pc,        \* where Process is
    files,     \* artifacts in the executor's store
    known,     \* artifacts whose id the node was told
    held,      \* artifacts with a deferred deleteArtifact
    lost,      \* artifacts whose deletion failed
    verdict,   \* finalStatus
    score,     \* totalScore
    judged,    \* cases that are run
    plain,     \* every case so far was accepted, with no score of a checker
    events,    \* what was reported, in order
    outcome    \* what Process returns: "none", "nil", "duplicate" (also nil),
               \*   "retryable", "nonretryable"

artVars == <<files, known, held, lost>>
scoreVars == <<verdict, score, judged, plain>>
judgeVars == <<task, pc, artVars, scoreVars, events, outcome>>

Modes == {"default", "spj", "interactive", "unknown"}
Terminal == {"failed", "finished"}

-----------------------------------------------------------------------------
(* The runner: what the answers of the executor come to *)

ExecStatuses == {"Accepted", "Time Limit Exceeded", "Memory Limit Exceeded",
                 "Nonzero Exit Status", "Internal Error"}

mapGoJudgeStatus(s) ==
    CASE s = "Accepted" -> "AC"
      [] s = "Time Limit Exceeded" -> "TLE"
      [] s = "Memory Limit Exceeded" -> "MLE"
      [] s = "Nonzero Exit Status" -> "RE"
      [] OTHER -> "SE"

\* A score is a set: empty when the program gave none.
RawScores == {{}} \cup {{v} : v \in -1 .. IOScore}

CaseResult(st, sc) == [status |-> st, score |-> sc]

\* A checker or interactor: its result.json counts first, if it is valid, then
\* its status and exit code.
SpecialResults ==
    {CaseResult(st, sc) : st \in {"AC", "WA", "JF", "II"}, sc \in RawScores}
      \cup {CaseResult(st, {}) : st \in {"AC", "WA", "JF"}}

\* The output of an accepted run is compared with the expected one.
DefaultResults ==
    {CaseResult(mapGoJudgeStatus(s), {}) : s \in ExecStatuses} \cup {CaseResult("WA", {})}

\* Only an accepted run goes to the checker.
SPJResults ==
    {CaseResult(mapGoJudgeStatus(s), {}) : s \in ExecStatuses \ {"Accepted"}} \cup SpecialResults

\* An interactor that accepts is overruled by the status of the user's program;
\* the interactor's score stays.
Overruled(r, s) == [r EXCEPT !.status = IF r.status = "AC" THEN mapGoJudgeStatus(s) ELSE r.status]

InteractiveResults == {Overruled(r, s) : r \in SpecialResults, s \in ExecStatuses}

CaseResults ==
    CASE task.mode = "spj" -> SPJResults
      [] task.mode = "interactive" -> InteractiveResults
      [] OTHER -> DefaultResults

-----------------------------------------------------------------------------
(* Scores *)

\* Faulty variant: the remainder is lost.
CaseMaxScoreFloor(i) == IOScore \div NCases

CaseMaxScore(i) ==
    IF i < IOScore % NCases THEN IOScore \div NCases + 1 ELSE IOScore \div NCases

Clamp(v, lo, hi) == IF v < lo THEN lo ELSE IF v > hi THEN hi ELSE v

CaseScore(i, r) ==
    IF r.score # {} THEN Clamp(CHOOSE v \in r.score : TRUE, 0, CaseMaxScore(i))
    ELSE IF r.status = "AC" THEN CaseMaxScore(i)
    ELSE 0

-----------------------------------------------------------------------------
(* Process *)

\* Process returns: the deferred deletions follow.
Return(o) == outcome' = o /\ pc' = "cleanup"

\* A progress report that fails ends the task, whether or not it has arrived.
Report(e, next) ==
    /\ \/ events' = Append(events, e) /\ pc' = next /\ UNCHANGED outcome
       \/ Return("retryable") /\ events' \in {events, Append(events, e)}
    /\ UNCHANGED <<task, artVars, scoreVars>>

\* A terminal report is queued on disk or not at all.
ReportTerminal(e, o, failed) ==
    \/ events' = Append(events, e) /\ Return(o)
    \/ UNCHANGED events /\ Return(failed)

\* An id is missing, the credential is revoked or expired, or the same task is
\* being processed already.
Begin ==
    /\ pc = "start"
    /\ \/ \E o \in {"retryable", "nonretryable", "duplicate"} : Return(o) /\ UNCHANGED events
       \/ task.mode = "unknown" /\ ReportTerminal("failed", "nonretryable", "nonretryable")
       \/ task.mode # "unknown" /\ pc' = "ensure" /\ UNCHANGED <<events, outcome>>
    /\ UNCHANGED <<task, artVars, scoreVars>>

Ensure ==
    /\ pc = "ensure"
    /\ \/ pc' = "compiling" /\ UNCHANGED <<events, outcome>>
       \/ ReportTerminal("failed", "nonretryable", "nonretryable")
       \/ Return("retryable") /\ UNCHANGED events
    /\ UNCHANGED <<task, artVars, scoreVars>>

Compiling == pc = "compiling" /\ Report("compiling", "compile")

\* run: /run of the executor cannot be reached, answers with another status than
\* 2xx or with something that does not decode.
RunFails == Return("retryable")

\* specFor an interpreted language: nothing to compile, no artifact.
Interpreted(next) == pc' = next /\ UNCHANGED <<files, known, held, outcome>>

\* CompileProgram.  The answer can be lost with the artifact in the store, and a
\* compiler that fails may have left one there, whose id is dropped.  A language
\* that specFor does not know is rejected like a program that does not compile.
Compile(who, here, next) ==
    /\ pc = here
    /\ \/ /\ files' = files \cup {who} /\ known' = known \cup {who} /\ held' = held \cup {who}
          /\ pc' = next /\ UNCHANGED outcome
       \/ Interpreted(next)
       \/ files' \in {files, files \cup {who}} /\ pc' = "reject" /\ UNCHANGED <<known, held, outcome>>
       \/ files' \in {files, files \cup {who}} /\ RunFails /\ UNCHANGED <<known, held>>
    /\ UNCHANGED <<task, lost, scoreVars, events>>

CompileUser ==
    Compile("user", "compile", IF task.mode = "default" THEN "running" ELSE "program")

\* A task of a special mode needs its program.
CheckProgram ==
    /\ pc = "program"
    /\ pc' = IF task.program THEN "compileProgram" ELSE "reject"
    /\ UNCHANGED <<task, artVars, scoreVars, events, outcome>>

\* Faulty variant: the checker's artifact has no deferred deletion.
CompileSpecialUndeferred ==
    /\ pc = "compileProgram"
    /\ \/ files' = files \cup {"judge"} /\ known' = known \cup {"judge"} /\ pc' = "running"
       \/ pc' = "reject" /\ UNCHANGED <<files, known>>
    /\ UNCHANGED <<task, held, lost, scoreVars, events, outcome>>

CompileSpecial == Compile("judge", "compileProgram", "running")

\* reportFailed for a program that does not compile or is missing.
Reject ==
    /\ pc = "reject"
    /\ ReportTerminal("failed", "nil", "retryable")
    /\ UNCHANGED <<task, artVars, scoreVars>>

Running == pc = "running" /\ Report("running", "case")

RunCase ==
    /\ pc = "case" /\ judged < NCases
    /\ \/ \E r \in CaseResults :
             /\ score' = score + CaseScore(judged, r)
             /\ verdict' = IF verdict = "AC" THEN r.status ELSE verdict
             /\ plain' = (plain /\ r = CaseResult("AC", {}))
             /\ judged' = judged + 1
             /\ pc' = "report" /\ UNCHANGED outcome
       \/ RunFails /\ UNCHANGED scoreVars
    /\ UNCHANGED <<task, artVars, events>>

ReportCase == pc = "report" /\ Report("case", "case")

FinalScore == IF task.kind = "ACM" /\ verdict = "AC" THEN IOScore ELSE score
FinalStatus == IF task.kind = "OI" /\ FinalScore >= IOScore THEN "AC" ELSE verdict

Finish ==
    /\ pc = "case" /\ judged = NCases
    /\ score' = FinalScore /\ verdict' = FinalStatus
    /\ ReportTerminal("finished", "nil", "retryable")
    /\ UNCHANGED <<task, artVars, judged, plain>>

\* DeleteFile: a file that is not there any more counts as deleted.
DeleteFile(f) ==
    \/ files' = files \ {f} /\ UNCHANGED lost
    \/ lost' = lost \cup {f} /\ UNCHANGED files

\* deleteArtifact, the later one first, each with its own timeout; its error is
\* only logged.
DeleteArtifact ==
    /\ pc = "cleanup" /\ held # {}
    /\ LET f == IF "judge" \in held THEN "judge" ELSE "user" IN
          /\ held' = held \ {f}
          /\ DeleteFile(f)
    /\ UNCHANGED <<task, pc, known, scoreVars, events, outcome>>

End ==
    /\ pc = "cleanup" /\ held = {}
    /\ pc' = "end"
    /\ UNCHANGED <<task, artVars, scoreVars, events, outcome>>

-----------------------------------------------------------------------------

JudgeInit ==
    /\ task \in [mode : Modes, kind : {"ACM", "OI"}, program : BOOLEAN]
    /\ pc = "start"
    /\ files = {} /\ known = {} /\ held = {} /\ lost = {}
    /\ verdict = "AC" /\ score = 0 /\ judged = 0 /\ plain = TRUE
    /\ events = <<>> /\ outcome = "none"

JudgeNext ==
    \/ Begin \/ Ensure \/ Compiling \/ CompileUser \/ CheckProgram \/ CompileSpecial \/ Reject
    \/ Running \/ RunCase \/ ReportCase \/ Finish \/ DeleteArtifact \/ End

JudgeSpec == JudgeInit /\ [][JudgeNext]_judgeVars

-----------------------------------------------------------------------------
(* Properties *)

\* The points the first n cases are worth.
PointsOf(n) ==
    n * (IOScore \div NCases) + (IF n < IOScore % NCases THEN n ELSE IOScore % NCases)

\* The cases' points add up: never more than the problem's, whatever a checker
\* says, and exactly the problem's when every case is accepted.
ScoreAddsUp ==
    /\ 0 <= score /\ score <= IOScore
    /\ plain /\ judged = NCases => score = IOScore

\* A task that ends without an error has queued one verdict, its last event,
\* and a finished one has reported every case before.  No path leaves an artifact
\* whose id the node knows in the executor's store, unless its deletion failed.
TaskSettles ==
    /\ outcome = "nil" => events # <<>> /\ events[Len(events)] \in Terminal
    /\ \A i \in 1 .. Len(events) :
          /\ events[i] \in Terminal => i = Len(events)
          /\ events[i] = "finished" =>
                events = <<"compiling", "running">> \o [c \in 1 .. NCases |-> "case"] \o <<"finished">>
    /\ pc = "end" => known \cap files \subseteq lost
=============================================================================
