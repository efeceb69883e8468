---------------------------- MODULE JudgingProofs ---------------------------
(***************************************************************************)
(* The score of a task, for any number of cases and any number of points.  *)
(*                                                                         *)
(* The points the first n cases are worth grow with n by what case n is    *)
(* worth, and reach the points of the problem with the last one; the score *)
(* of the judged cases stays below, and equals them while every case is    *)
(* accepted as it is.                                                      *)
(*                                                                         *)
(* And its reports: what was reported at every point of Process, from      *)
(* which the one verdict at the end follows, and where the compiled        *)
(* programs are.                                                           *)
(*                                                                         *)
(* Then what a task uses of the executor: the time to live of the files in *)
(* the store (TimeoutStore), the relay of a pipe between two commands      *)
(* (PipeProxy) and the store files of the commands of a request (CmdRun).  *)
(***************************************************************************)
EXTENDS JudgeTask, TimeoutStore, PipeProxy, CmdRun, SequenceTheorems, TLAPS

\* What the score is after each case: between zero and what the judged cases
\* are worth, and exactly that while all were accepted.
ScoreInv ==
    /\ judged \in 0 .. NCases
    /\ plain \in BOOLEAN
    /\ score \in 0 .. PointsOf(judged)
    /\ plain => score = PointsOf(judged)

-----------------------------------------------------------------------------
\* Division with remainder, the form in which the steps below use it.
LEMMA Division ==
    /\ IOScore \div NCases \in Nat
    /\ IOScore % NCases \in 0 .. NCases - 1
    /\ IOScore = NCases * (IOScore \div NCases) + (IOScore % NCases)
  BY JudgeAssumption, SMTT(30)

\* A case is worth a natural number of points.
LEMMA CaseWorth == ASSUME NEW i \in 0 .. NCases - 1 PROVE CaseMaxScore(i) \in Nat
  BY Division, JudgeAssumption DEF CaseMaxScore

\* No case is worth nothing, n cases are worth a natural number, one more is
\* worth its own points more, and all are worth the points of the problem.
LEMMA PointsStart == PointsOf(0) = 0
  <1>1. 0 * (IOScore \div NCases) = 0
    BY Division
  <1> QED
    BY <1>1, Division, JudgeAssumption DEF PointsOf

LEMMA PointsNat == ASSUME NEW n \in 0 .. NCases PROVE PointsOf(n) \in Nat
  <1> DEFINE q == IOScore \div NCases
  <1>1. q \in Nat /\ IOScore % NCases \in Nat /\ n \in Nat
    BY Division, JudgeAssumption
  <1>2. n * q \in Nat
    BY <1>1
  <1> QED
    BY <1>1, <1>2 DEF PointsOf

LEMMA PointsGrow ==
    ASSUME NEW n \in 0 .. NCases - 1
    PROVE  PointsOf(n + 1) = PointsOf(n) + CaseMaxScore(n)
  <1> DEFINE q == IOScore \div NCases
             r == IOScore % NCases
  <1>1. q \in Nat /\ r \in Nat /\ n \in Nat
    BY Division, JudgeAssumption
  <1>2. (n + 1) * q = n * q + q /\ n * q \in Nat
    BY <1>1
  <1>3. PointsOf(n + 1) = (n + 1) * q + (IF n + 1 < r THEN n + 1 ELSE r)
    BY DEF PointsOf
  <1>4. PointsOf(n) = n * q + (IF n < r THEN n ELSE r)
    BY DEF PointsOf
  <1>5. CaseMaxScore(n) = IF n < r THEN q + 1 ELSE q
    BY DEF CaseMaxScore
  <1> HIDE DEF q, r
  <1> QED
    BY <1>1, <1>2, <1>3, <1>4, <1>5

LEMMA PointsEnd == PointsOf(NCases) = IOScore
  <1> DEFINE q == IOScore \div NCases
             r == IOScore % NCases
  <1>1. r \in 0 .. NCases - 1 /\ IOScore = NCases * q + r /\ NCases \in Nat
    BY Division, JudgeAssumption
  <1>2. PointsOf(NCases) = NCases * q + (IF NCases < r THEN NCases ELSE r)
    BY DEF PointsOf
  <1> HIDE DEF q, r
  <1> QED
    BY <1>1, <1>2

LEMMA PointsBounded == ASSUME NEW n \in 0 .. NCases PROVE PointsOf(n) <= IOScore
  <1> DEFINE q == IOScore \div NCases
             r == IOScore % NCases
  <1>1. q \in Nat /\ r \in 0 .. NCases - 1 /\ IOScore = NCases * q + r /\ n \in Nat /\ NCases \in Nat
    BY Division, JudgeAssumption
  <1>2. PointsOf(n) = n * q + (IF n < r THEN n ELSE r)
    BY DEF PointsOf
  <1>3. n * q <= NCases * q /\ n * q \in Nat /\ NCases * q \in Nat
    <2>1. PICK d \in Nat : NCases = n + d
      <3>1. NCases - n \in Nat /\ NCases = n + (NCases - n)
        BY <1>1
      <3> QED
        BY <3>1
    <2>2. NCases * q = n * q + d * q /\ d * q \in Nat /\ n * q \in Nat
      BY <1>1, <2>1
    <2> QED
      BY <2>2
  <1> HIDE DEF q, r
  <1> QED
    BY <1>1, <1>2, <1>3

-----------------------------------------------------------------------------
\* A case has no score of its own, or one number.
LEMMA OneScore ==
    ASSUME NEW r \in CaseResults
    PROVE  r.score = {} \/ \E v \in Int : r.score = {v}
  <1>1. \A s \in RawScores : s = {} \/ \E v \in Int : s = {v}
    BY JudgeAssumption DEF RawScores
  <1>2. \A c \in DefaultResults : c.score = {}
    BY DEF DefaultResults, CaseResult
  <1>3. \A c \in SpecialResults : c.score = {} \/ c.score \in RawScores
    BY DEF SpecialResults, CaseResult
  <1>4. \A c \in SPJResults : c.score = {} \/ c.score \in RawScores
    BY <1>3 DEF SPJResults, CaseResult
  <1>5. \A c \in InteractiveResults : c.score = {} \/ c.score \in RawScores
    <2>1. SUFFICES ASSUME NEW c \in SpecialResults, NEW s \in ExecStatuses
                   PROVE  Overruled(c, s).score = {} \/ Overruled(c, s).score \in RawScores
      BY DEF InteractiveResults
    <2>2. Overruled(c, s).score = c.score
      BY DEF Overruled, SpecialResults, CaseResult
    <2> QED
      BY <1>3, <2>2
  <1>6. r.score = {} \/ r.score \in RawScores
    BY <1>2, <1>4, <1>5 DEF CaseResults
  <1> QED
    BY <1>1, <1>6

\* A case scores at most what it is worth, and exactly that when it is simply
\* accepted.
LEMMA CaseScored ==
    ASSUME NEW i \in 0 .. NCases - 1, NEW r \in CaseResults
    PROVE  /\ CaseScore(i, r) \in 0 .. CaseMaxScore(i)
           /\ r = CaseResult("AC", {}) => CaseScore(i, r) = CaseMaxScore(i)
  <1>1. CaseMaxScore(i) \in Nat
    BY CaseWorth
  <1>2. CASE r.score = {}
    BY <1>1, <1>2 DEF CaseScore, CaseResult
  <1>3. CASE r.score # {}
    <2>1. PICK v \in Int : r.score = {v}
      BY OneScore, <1>3
    <2>2. (CHOOSE u \in r.score : TRUE) = v
      BY <2>1
    <2>3. CaseScore(i, r) = Clamp(v, 0, CaseMaxScore(i))
      BY <1>3, <2>2 DEF CaseScore
    <2>4. r # CaseResult("AC", {})
      BY <1>3 DEF CaseResult
    <2> QED
      BY <1>1, <2>3, <2>4 DEF Clamp
  <1> QED
    BY <1>2, <1>3

-----------------------------------------------------------------------------
\* The score invariant holds in every state of a task.
THEOREM ScoreInvariance == JudgeSpec => []ScoreInv
  <1>1. JudgeInit => ScoreInv
    BY PointsStart, JudgeAssumption DEF JudgeInit, ScoreInv
  <1>2. ScoreInv /\ [JudgeNext]_judgeVars => ScoreInv'
    <2> SUFFICES ASSUME ScoreInv, [JudgeNext]_judgeVars PROVE ScoreInv'
      OBVIOUS
    <2>1. CASE UNCHANGED <<score, judged, plain>>
      BY <2>1 DEF ScoreInv, PointsOf
    <2>2. CASE RunCase /\ ~UNCHANGED <<score, judged, plain>>
      <3>1. PICK r \in CaseResults :
                /\ score' = score + CaseScore(judged, r)
                /\ plain' = (plain /\ r = CaseResult("AC", {}))
                /\ judged' = judged + 1
        BY <2>2 DEF RunCase, scoreVars
      <3>2. judged \in 0 .. NCases - 1
        BY <2>2, JudgeAssumption DEF RunCase, ScoreInv
      <3>3. PointsOf(judged + 1) = PointsOf(judged) + CaseMaxScore(judged)
        BY <3>2, PointsGrow
      <3>4. CaseMaxScore(judged) \in Nat /\ PointsOf(judged) \in Nat
        BY <3>2, CaseWorth, PointsNat, JudgeAssumption
      <3>5. /\ CaseScore(judged, r) \in 0 .. CaseMaxScore(judged)
            /\ r = CaseResult("AC", {}) => CaseScore(judged, r) = CaseMaxScore(judged)
        BY <3>2, CaseScored
      <3>6. score \in 0 .. PointsOf(judged) /\ (plain => score = PointsOf(judged))
        BY DEF ScoreInv
      <3>7. score' \in 0 .. PointsOf(judged + 1)
        BY <3>1, <3>3, <3>4, <3>5, <3>6
      <3>8. plain' => score' = PointsOf(judged + 1)
        BY <3>1, <3>3, <3>4, <3>5, <3>6
      <3>9. judged' \in 0 .. NCases /\ plain' \in BOOLEAN
        BY <3>1, <3>2, JudgeAssumption DEF ScoreInv
      <3>10. PointsOf(judged)' = PointsOf(judged + 1)
        BY <3>1 DEF PointsOf
      <3> QED
        BY <3>7, <3>8, <3>9, <3>10 DEF ScoreInv
    <2>3. CASE Finish
      <3>1. judged = NCases /\ judged' = judged /\ plain' = plain /\ score' = FinalScore
        BY <2>3 DEF Finish
      <3>2. PointsOf(judged) = IOScore /\ PointsOf(judged)' = IOScore
        BY <3>1, PointsEnd DEF PointsOf
      <3>3. FinalScore \in {IOScore, score}
        BY DEF FinalScore
      <3> QED
        BY <3>1, <3>2, <3>3, JudgeAssumption DEF ScoreInv
    <2> QED
      BY <2>1, <2>2, <2>3
      DEF JudgeNext, judgeVars, scoreVars, Begin, Ensure, Compiling, CompileUser, CheckProgram,
          CompileSpecial, Compile, Reject, Running, Report, ReportCase, DeleteArtifact, End
  <1> QED
    BY <1>1, <1>2, PTL DEF JudgeSpec

\* The points of the cases add up to the problem's, however many cases and
\* points there are (caseMaxScore and clamp of processor.go, FinalScore).
THEOREM PointsAddUp == JudgeSpec => []ScoreAddsUp
  <1>1. ScoreInv => ScoreAddsUp
    <2> SUFFICES ASSUME ScoreInv PROVE ScoreAddsUp
      OBVIOUS
    <2>1. PointsOf(judged) \in Nat /\ PointsOf(judged) <= IOScore
      BY PointsNat, PointsBounded DEF ScoreInv
    <2>2. 0 <= score /\ score <= IOScore
      BY <2>1, JudgeAssumption DEF ScoreInv
    <2>3. plain /\ judged = NCases => score = IOScore
      BY PointsEnd DEF ScoreInv
    <2> QED
      BY <2>2, <2>3 DEF ScoreAddsUp
  <1> QED
    BY <1>1, ScoreInvariance, PTL

-----------------------------------------------------------------------------
(* Reports and artifacts *)

EventKinds == {"compiling", "running", "case", "failed", "finished"}
Steps == {"start", "ensure", "compiling", "compile", "program", "compileProgram", "reject",
          "running", "case", "report", "cleanup", "end"}

\* What is reported when n cases are.
CasesReported(n) == <<"compiling", "running">> \o [c \in 1 .. n |-> "case"]

\* Reports without a verdict, and reports that end with one at the latest.
Quiet(s) == s \in Seq(EventKinds) /\ \A i \in 1 .. Len(s) : s[i] \notin Terminal
Settled(s) ==
    /\ s \in Seq(EventKinds)
    /\ \A i \in 1 .. Len(s) :
          /\ s[i] \in Terminal => i = Len(s)
          /\ s[i] = "finished" => s = Append(CasesReported(NCases), "finished")

\* What was reported where Process is.
ReportsOK ==
    /\ pc \in {"start", "ensure", "compiling"} => events = << >> /\ judged = 0
    /\ pc \in {"compile", "program", "compileProgram", "reject", "running"} =>
          events = <<"compiling">> /\ judged = 0
    /\ pc = "case" => events = CasesReported(judged) /\ judged \in 0 .. NCases
    /\ pc = "report" => events = CasesReported(judged - 1) /\ judged \in 1 .. NCases
    /\ pc \notin {"cleanup", "end"} => outcome = "none"
    /\ outcome = "nil" => events # << >> /\ events[Len(events)] \in Terminal
    /\ Settled(events)

\* An artifact whose id is known is about to be deleted, or could not be.
ArtifactsOK ==
    /\ known \cap files \subseteq held \cup lost
    /\ pc \in {"start", "ensure", "compiling", "compile"} => known = {}
    /\ pc \in {"program", "compileProgram"} => "judge" \notin known
    /\ pc = "end" => held = {}

SettleInv == pc \in Steps /\ ReportsOK /\ ArtifactsOK

\* The reports of n cases, element by element.
LEMMA CasesReportedAre ==
    ASSUME NEW n \in Nat
    PROVE  /\ CasesReported(n) \in Seq(EventKinds)
           /\ Len(CasesReported(n)) = n + 2
           /\ CasesReported(n)[1] = "compiling" /\ CasesReported(n)[2] = "running"
           /\ \A i \in 3 .. n + 2 : CasesReported(n)[i] = "case"
  <1> DEFINE s == <<"compiling", "running">>
             t == [c \in 1 .. n |-> "case"]
  <1>1. s \in Seq(EventKinds) /\ Len(s) = 2 /\ s[1] = "compiling" /\ s[2] = "running"
    BY DEF EventKinds
  <1>2. t \in Seq(EventKinds) /\ Len(t) = n /\ \A i \in 1 .. n : t[i] = "case"
    BY DEF EventKinds
  <1>3. CasesReported(n) = s \o t
    BY DEF CasesReported
  <1> HIDE DEF s, t
  <1>4. /\ s \o t \in Seq(EventKinds) /\ Len(s \o t) = Len(s) + Len(t)
        /\ \A i \in 1 .. Len(s) + Len(t) :
              (s \o t)[i] = IF i <= Len(s) THEN s[i] ELSE t[i - Len(s)]
    BY <1>1, <1>2, ConcatProperties, Zenon
  <1> QED
    BY <1>1, <1>2, <1>3, <1>4

LEMMA CasesReportedQuiet == ASSUME NEW n \in Nat PROVE Quiet(CasesReported(n))
  <1>1. \A i \in 1 .. n + 2 : i = 1 \/ i = 2 \/ i \in 3 .. n + 2
    OBVIOUS
  <1> QED
    BY <1>1, CasesReportedAre DEF Quiet, Terminal

LEMMA OneMoreCase ==
    ASSUME NEW n \in Nat
    PROVE  Append(CasesReported(n), "case") = CasesReported(n + 1)
  <1> DEFINE s == CasesReported(n)
             t == CasesReported(n + 1)
             u == Append(s, "case")
  <1>1. /\ s \in Seq(EventKinds) /\ Len(s) = n + 2 /\ s[1] = "compiling" /\ s[2] = "running"
        /\ \A i \in 3 .. n + 2 : s[i] = "case"
    BY CasesReportedAre
  <1>2. /\ t \in Seq(EventKinds) /\ Len(t) = n + 3 /\ t[1] = "compiling" /\ t[2] = "running"
        /\ \A i \in 3 .. n + 3 : t[i] = "case"
    BY CasesReportedAre
  <1> HIDE DEF s, t
  <1>3. /\ u \in Seq(EventKinds) /\ Len(u) = n + 3 /\ u[n + 3] = "case"
        /\ \A i \in 1 .. n + 2 : u[i] = s[i]
    BY <1>1 DEF EventKinds
  <1> HIDE DEF u
  <1>4. \A i \in 1 .. n + 3 : u[i] = t[i]
    BY <1>1, <1>2, <1>3
  <1> QED
    BY <1>2, <1>3, <1>4, SeqEqual DEF s, t, u

LEMMA FirstReports ==
    /\ Quiet(<< >>) /\ Quiet(<<"compiling">>)
    /\ Append(<< >>, "compiling") = <<"compiling">>
    /\ Append(<<"compiling">>, "running") = CasesReported(0)
  <1>1. Quiet(<< >>) /\ Quiet(<<"compiling">>)
    BY DEF Quiet, Terminal, EventKinds
  <1>2. Append(<< >>, "compiling") = <<"compiling">>
    OBVIOUS
  <1>3. Append(<<"compiling">>, "running") = CasesReported(0)
    <2> DEFINE s == <<"compiling">>
               t == CasesReported(0)
               u == Append(s, "running")
    <2>1. t \in Seq(EventKinds) /\ Len(t) = 0 + 2 /\ t[1] = "compiling" /\ t[2] = "running"
      BY CasesReportedAre
    <2>2. s \in Seq(EventKinds) /\ Len(s) = 1 /\ s[1] = "compiling" /\ "running" \in EventKinds
      BY DEF EventKinds
    <2> HIDE DEF s, t
    <2>3. /\ u \in Seq(EventKinds) /\ Len(u) = Len(s) + 1 /\ u[Len(s) + 1] = "running"
          /\ \A i \in 1 .. Len(s) : u[i] = s[i]
      BY <2>2
    <2> HIDE DEF u
    <2>4. Len(u) = Len(t) /\ \A i \in 1 .. Len(u) : u[i] = t[i]
      BY <2>1, <2>2, <2>3
    <2>5. u = t
      BY <2>1, <2>3, <2>4, SeqEqual
    <2> QED
      BY <2>5 DEF s, t, u
  <1> QED
    BY <1>1, <1>2, <1>3

\* Reports without a verdict may be followed by another one or by one verdict.
LEMMA QuietSettles ==
    ASSUME NEW s, Quiet(s)
    PROVE  /\ Settled(s)
           /\ \A e \in EventKinds \ Terminal : Settled(Append(s, e))
           /\ \A e \in Terminal :
                 /\ e = "failed" \/ s = CasesReported(NCases) => Settled(Append(s, e))
                 /\ Append(s, e) # << >> /\ Append(s, e)[Len(Append(s, e))] = e
  <1>1. s \in Seq(EventKinds) /\ \A i \in 1 .. Len(s) : s[i] \notin Terminal
    BY DEF Quiet
  <1>2. "finished" \in Terminal /\ Terminal \subseteq EventKinds
    BY DEF Terminal, EventKinds
  <1>3. Settled(s)
    BY <1>1, <1>2 DEF Settled
  <1>4. ASSUME NEW e \in EventKinds
        PROVE  /\ Append(s, e) \in Seq(EventKinds) /\ Len(Append(s, e)) = Len(s) + 1
               /\ Append(s, e)[Len(s) + 1] = e /\ Append(s, e) # << >>
               /\ \A i \in 1 .. Len(s) : Append(s, e)[i] = s[i]
    <2>1. s \in Seq(EventKinds) /\ e \in EventKinds
      BY <1>1, <1>4
    <2> QED
      BY <2>1, AppendProperties
  <1>5. Len(s) \in Nat /\ \A i \in 1 .. Len(s) + 1 : i \in 1 .. Len(s) \/ i = Len(s) + 1
    BY <1>1
  <1>6. \A e \in EventKinds \ Terminal : Settled(Append(s, e))
    BY <1>1, <1>2, <1>4, <1>5 DEF Settled
  <1>7. ASSUME NEW e \in Terminal, e = "failed" \/ s = CasesReported(NCases)
        PROVE  Settled(Append(s, e))
    BY <1>1, <1>2, <1>4, <1>5, <1>7 DEF Settled, Terminal
  <1> QED
    BY <1>2, <1>3, <1>4, <1>6, <1>7

\* A progress report moves Process on or ends the task; a verdict ends it.
LEMMA ProgressKeeps ==
    ASSUME SettleInv, pc \notin {"cleanup", "end"}, Quiet(events),
           NEW e \in EventKinds \ Terminal, NEW next \in {"compile", "case"}, Report(e, next),
           next = "compile" => Append(events, e) = <<"compiling">> /\ known = {} /\ judged = 0,
           next = "case" => Append(events, e) = CasesReported(judged) /\ judged \in 0 .. NCases
    PROVE  SettleInv'
  <1>1. Settled(events) /\ Settled(Append(events, e))
    BY QuietSettles
  <1>2. outcome = "none" /\ outcome' \in {"none", "retryable"}
    BY DEF Report, Return, SettleInv, ReportsOK
  <1>3. Settled(events')
    BY <1>1 DEF Report
  <1>4. UNCHANGED <<known, files, held, lost, judged>>
    BY DEF Report, artVars, scoreVars
  <1>5. \/ pc' = next /\ events' = Append(events, e) /\ outcome' = "none"
        \/ pc' = "cleanup"
    BY <1>2 DEF Report, Return
  <1> QED
    BY <1>2, <1>3, <1>4, <1>5 DEF SettleInv, ReportsOK, ArtifactsOK, Steps

LEMMA VerdictKeeps ==
    ASSUME SettleInv, pc \notin {"cleanup", "end"}, Quiet(events),
           NEW e \in Terminal, NEW o, NEW f \in {"retryable", "nonretryable"},
           ReportTerminal(e, o, f), UNCHANGED artVars,
           e = "failed" \/ events = CasesReported(NCases)
    PROVE  SettleInv'
  <1>1. Settled(events')
    BY QuietSettles DEF ReportTerminal
  <1>2. outcome' = "nil" => events' # << >> /\ events'[Len(events')] \in Terminal
    BY QuietSettles DEF ReportTerminal, Return
  <1>3. pc' = "cleanup"
    BY DEF ReportTerminal, Return
  <1> QED
    BY <1>1, <1>2, <1>3 DEF SettleInv, ReportsOK, ArtifactsOK, Steps, artVars

\* Every step of Process keeps the invariant.
LEMMA SettleKeeps ==
    ASSUME SettleInv, JudgeNext
    PROVE  SettleInv'
  <1>1. Quiet(<< >>) /\ Quiet(<<"compiling">>) /\ "failed" \in Terminal /\ "finished" \in Terminal
    BY FirstReports DEF Terminal
  <1>2. pc \in {"start", "ensure"} => events = << >> /\ judged = 0 /\ outcome = "none"
    BY DEF SettleInv, ReportsOK
  <1>3. CASE Begin
    <2>1. CASE ReportTerminal("failed", "nonretryable", "nonretryable")
      BY <1>1, <1>2, <1>3, <2>1, VerdictKeeps DEF Begin
    <2>2. CASE ~ReportTerminal("failed", "nonretryable", "nonretryable")
      BY <1>2, <1>3, <2>2 DEF Begin, Return, SettleInv, ReportsOK, ArtifactsOK, Steps, artVars, scoreVars
    <2> QED
      BY <2>1, <2>2
  <1>4. CASE Ensure
    <2>1. CASE ReportTerminal("failed", "nonretryable", "nonretryable")
      BY <1>1, <1>2, <1>4, <2>1, VerdictKeeps DEF Ensure
    <2>2. CASE ~ReportTerminal("failed", "nonretryable", "nonretryable")
      BY <1>2, <1>4, <2>2 DEF Ensure, Return, SettleInv, ReportsOK, ArtifactsOK, Steps, artVars,
         scoreVars
    <2> QED
      BY <2>1, <2>2
  <1>5. CASE Compiling
    <2>1. pc = "compiling" /\ events = << >> /\ judged = 0 /\ known = {} /\ Report("compiling", "compile")
      BY <1>5 DEF Compiling, SettleInv, ReportsOK, ArtifactsOK
    <2>2. "compiling" \in EventKinds \ Terminal
      BY DEF EventKinds, Terminal
    <2> QED
      BY <1>1, <2>1, <2>2, FirstReports, ProgressKeeps
  <1>6. CASE CompileUser
    BY <1>6 DEF CompileUser, Compile, Interpreted, RunFails, Return, SettleInv, ReportsOK, ArtifactsOK,
                Steps, scoreVars
  <1>7. CASE CheckProgram
    BY <1>7 DEF CheckProgram, SettleInv, ReportsOK, ArtifactsOK, Steps, artVars, scoreVars
  <1>8. CASE CompileSpecial
    BY <1>8 DEF CompileSpecial, Compile, Interpreted, RunFails, Return, SettleInv, ReportsOK,
       ArtifactsOK,
                Steps, scoreVars
  <1>9. CASE Reject
    <2>1. events = <<"compiling">> /\ pc = "reject"
      BY <1>9 DEF Reject, SettleInv, ReportsOK
    <2> QED
      BY <1>1, <1>9, <2>1, VerdictKeeps DEF Reject
  <1>10. CASE Running
    <2>1. pc = "running" /\ events = <<"compiling">> /\ judged = 0 /\ Report("running", "case")
      BY <1>10 DEF Running, SettleInv, ReportsOK
    <2>2. "running" \in EventKinds \ Terminal /\ 0 \in 0 .. NCases
      BY JudgeAssumption DEF EventKinds, Terminal
    <2> QED
      BY <1>1, <2>1, <2>2, FirstReports, ProgressKeeps
  <1>11. CASE RunCase
    <2>1. pc = "case" /\ judged \in 0 .. NCases /\ judged < NCases /\ events = CasesReported(judged)
      BY <1>11 DEF RunCase, SettleInv, ReportsOK
    <2>2. CASE pc' = "report"
      <3>1. judged' = judged + 1 /\ UNCHANGED <<events, outcome, artVars>>
        BY <1>11, <2>2 DEF RunCase, RunFails, Return
      <3>2. judged' \in 1 .. NCases /\ judged' - 1 = judged
        BY <2>1, <3>1, JudgeAssumption
      <3> QED
        BY <2>1, <2>2, <3>1, <3>2 DEF SettleInv, ReportsOK, ArtifactsOK, Steps, artVars
    <2>3. CASE pc' # "report"
      BY <1>11, <2>3 DEF RunCase, RunFails, Return, SettleInv, ReportsOK, ArtifactsOK, Steps, artVars
    <2> QED
      BY <2>2, <2>3
  <1>12. CASE ReportCase
    <2>1. /\ pc = "report" /\ events = CasesReported(judged - 1) /\ judged \in 1 .. NCases
          /\ Report("case", "case")
      BY <1>12 DEF ReportCase, SettleInv, ReportsOK
    <2>2. "case" \in EventKinds \ Terminal
      BY DEF EventKinds, Terminal
    <2>3. judged - 1 \in Nat /\ judged \in 0 .. NCases /\ (judged - 1) + 1 = judged
      BY <2>1, JudgeAssumption
    <2>4. Quiet(events) /\ Append(events, "case") = CasesReported(judged)
      BY <2>1, <2>3, CasesReportedQuiet, OneMoreCase
    <2> QED
      BY <2>1, <2>2, <2>3, <2>4, ProgressKeeps
  <1>13. CASE Finish
    <2>1. pc = "case" /\ events = CasesReported(NCases)
      BY <1>13 DEF Finish, SettleInv, ReportsOK
    <2>2. Quiet(events)
      BY <2>1, CasesReportedQuiet, JudgeAssumption
    <2> QED
      BY <1>1, <1>13, <2>1, <2>2, VerdictKeeps DEF Finish
  <1>14. CASE DeleteArtifact
    BY <1>14 DEF DeleteArtifact, DeleteFile, SettleInv, ReportsOK, ArtifactsOK, Steps, scoreVars
  <1>15. CASE End
    BY <1>15 DEF End, SettleInv, ReportsOK, ArtifactsOK, Steps, artVars, scoreVars
  <1> QED
    BY <1>3, <1>4, <1>5, <1>6, <1>7, <1>8, <1>9, <1>10, <1>11, <1>12, <1>13, <1>14, <1>15 DEF JudgeNext

\* However many cases a task has and wherever it fails, it ends with at most one
\* verdict, reported last; success means one was queued, a finished one follows
\* every case, and no artifact the node knows stays behind unless its deletion
\* failed (processor.go Process, reportFailed and the deferred deleteArtifact).
THEOREM TasksSettle == JudgeSpec => []TaskSettles
  <1>1. JudgeInit => SettleInv
    BY FirstReports, QuietSettles DEF JudgeInit, SettleInv, ReportsOK, ArtifactsOK, Steps
  <1>2. SettleInv /\ [JudgeNext]_judgeVars => SettleInv'
    <2> SUFFICES ASSUME SettleInv, [JudgeNext]_judgeVars PROVE SettleInv'
      OBVIOUS
    <2>1. CASE UNCHANGED judgeVars
      BY <2>1 DEF judgeVars, artVars, scoreVars, SettleInv, ReportsOK, ArtifactsOK
    <2> QED
      BY <2>1, SettleKeeps
  <1>3. SettleInv => TaskSettles
    <2>1. Append(CasesReported(NCases), "finished")
             = <<"compiling", "running">> \o [c \in 1 .. NCases |-> "case"] \o <<"finished">>
      <3>1. CasesReported(NCases) \in Seq(EventKinds) /\ "finished" \in EventKinds
        BY CasesReportedAre, JudgeAssumption DEF EventKinds
      <3> QED
        BY <3>1, AppendIsConcat, Zenon DEF CasesReported
    <2> QED
      BY <2>1 DEF SettleInv, ReportsOK, ArtifactsOK, Settled, TaskSettles
  <1> QED
    BY <1>1, <1>2, <1>3, PTL DEF JudgeSpec

-----------------------------------------------------------------------------
(* The store of the files *)

\* Where the caller of New may be, and the types that the steps rely on.
AdderSteps == {"free", "new", "named", "added", "aborted"}

StoreTypeOK ==
    /\ heap \in [FileIds -> Int] /\ served \in [FileIds -> Int]
    /\ adder \in [FileIds -> AdderSteps]
    /\ caller \in [FileIds -> {"none", "getting", "removing"}]
    /\ due \subseteq FileIds /\ (~locked => due = {})

\* The entry of a file is never older than what its clients were told, a file that
\* is being expired was told of longer ago than Ttl, and nobody but a client who
\* removes it takes a file away that is new or has an entry.
EntryOK(i) ==
    /\ Absent <= heap[i] /\ heap[i] <= served[i]
    /\ served[i] # Absent => adder[i] = "added"
    /\ i \in due => served[i] > Ttl
    /\ caller[i] = "removing" => i \in removedBy
    /\ i \notin removedBy =>
          /\ adder[i] \in {"new", "named"} \/ heap[i] # Absent => i \in disk
          /\ served[i] \in 0 .. Ttl => heap[i] # Absent

StoreInv == StoreTypeOK /\ \A i \in FileIds : EntryOK(i)

\* Time passes for an entry and for what was told of it alike.
LEMMA AgeGrows ==
    ASSUME NEW a \in Int, NEW b \in Int, Absent <= a, a <= b
    PROVE  /\ Aged(a) \in Int /\ Absent <= Aged(a) /\ Aged(a) <= Aged(b)
           /\ (Aged(a) = Absent <=> a = Absent)
           /\ (a > Ttl => Aged(a) > Ttl) /\ (Aged(a) \in 0 .. Ttl => a \in 0 .. Ttl)
  BY StoreAssumption DEF Aged, Absent

\* Every step of the store keeps its entries and its files together.
LEMMA StoreKeeps ==
    ASSUME StoreInv, [StoreNext]_storeVars
    PROVE  StoreInv'
  <1> USE StoreAssumption
      DEF StoreInv, StoreTypeOK, EntryOK, Absent, AdderSteps, expiryVars, localVars, Unlocked
  <1>1. CASE UNCHANGED storeVars
    BY <1>1 DEF storeVars
  <1>2. ASSUME NEW i \in FileIds, New(i) \/ Abort(i) \/ FileAddFails(i) PROVE StoreInv'
    BY <1>2 DEF New, Abort, FileAddFails
  <1>3. ASSUME NEW i \in FileIds, InnerAdd(i) \/ Push(i) PROVE StoreInv'
    BY <1>3 DEF InnerAdd, Push
  <1>4. ASSUME NEW i \in FileIds, InnerGet(i) \/ Refresh(i) PROVE StoreInv'
    BY <1>4 DEF InnerGet, Refresh
  <1>5. ASSUME NEW i \in FileIds, RemoveInner(i) PROVE StoreInv'
    <2>1. \A j \in FileIds : j # i /\ j \in disk => j \in disk'
      BY <1>5 DEF RemoveInner, InnerRemove
    <2> QED
      BY <1>5, <2>1 DEF RemoveInner
  <1>6. ASSUME NEW i \in FileIds, RemoveEntry(i) PROVE StoreInv'
    BY <1>6 DEF RemoveEntry
  <1>7. CASE ExpiryStarts \/ ExpiryEnds \/ CloseStore
    BY <1>7 DEF ExpiryStarts, ExpiryEnds, CloseStore
  <1>8. CASE ExpireOne
    <2>1. PICK i \in due : InnerRemove(i) /\ heap' = [heap EXCEPT ![i] = Absent] /\ due' = due \ {i}
      BY <1>8 DEF ExpireOne
    <2>2. \A j \in FileIds : j # i /\ j \in disk => j \in disk'
      BY <2>1 DEF InnerRemove
    <2>3. /\ locked /\ i \in FileIds /\ served[i] > Ttl /\ adder[i] = "added"
          /\ UNCHANGED <<adder, caller, locked, served, removedBy>>
      BY <1>8, <2>1 DEF ExpireOne
    <2> QED
      BY <2>1, <2>2, <2>3
  <1>9. CASE TimePasses
    <2>1. ASSUME NEW i \in FileIds
          PROVE  /\ heap'[i] \in Int /\ served'[i] \in Int
                 /\ Absent <= heap'[i] /\ heap'[i] <= served'[i]
                 /\ (heap'[i] = Absent <=> heap[i] = Absent)
                 /\ (served'[i] = Absent <=> served[i] = Absent)
                 /\ (served[i] > Ttl => served'[i] > Ttl)
                 /\ (served'[i] \in 0 .. Ttl => served[i] \in 0 .. Ttl)
      <3>1. /\ heap[i] \in Int /\ served[i] \in Int /\ Absent <= heap[i] /\ heap[i] <= served[i]
            /\ Absent <= served[i] /\ served[i] <= served[i]
        OBVIOUS
      <3>2. heap'[i] = Aged(heap[i]) /\ served'[i] = Aged(served[i])
        BY <1>9 DEF TimePasses
      <3> QED
        BY ONLY <3>1, <3>2, AgeGrows
    <2> QED
      BY <1>9, <2>1 DEF TimePasses
  <1> QED
    BY <1>1, <1>2, <1>3, <1>4, <1>5, <1>6, <1>7, <1>8, <1>9 DEF StoreNext, Pending

\* For any number of files and any time to live, a file that Add or Get has answered
\* with stays for that time, whatever other clients and the expiry do between the
\* two steps of a call (filestore/timeout.go Add, Get, Remove and
\* checkTimeoutAndRemove).
THEOREM FilesLastTheirTime == StoreSpec => []TtlHonoured
  <1>1. StoreInit => StoreInv
    BY StoreAssumption DEF StoreInit, StoreInv, StoreTypeOK, EntryOK, Absent, AdderSteps
  <1>2. StoreInv => TtlHonoured
    BY DEF StoreInv, StoreTypeOK, EntryOK, TtlHonoured
  <1> QED
    BY <1>1, <1>2, StoreKeeps, PTL DEF StoreSpec

-----------------------------------------------------------------------------
(* The pipe between two commands *)

\* The chunks n + 1, n + 2, ... in order.
Following(s, n) == s \in Seq(Nat) /\ \A k \in 1 .. Len(s) : s[k] = n + k

\* The chunks that the relay has taken from the producer, and those that it has
\* passed on: the one at hand is still to be delivered.
Taken == written - Len(src)
Passed == IF relayAt = "deliver" THEN Taken - 1 ELSE Taken

\* The types that the steps rely on.
ProxyTypeOK ==
    /\ mode \in {"none", "copy", "zero"}
    /\ written \in Nat
    /\ relayAt \in {"store", "deliver", "drop", "move", "done"}
    /\ src \in Seq(Nat) /\ dst \in Seq(Nat) /\ got \in Seq(Nat) /\ side \in Seq(Nat)
    /\ Taken \in Nat

\* Where the relay may be, and what it knows there.
RelayOK ==
    /\ mode = "none" => relayAt = "store" /\ ~stored /\ ~dstBroken /\ Taken = 0
    /\ mode = "zero" => relayAt \in {"store", "drop", "done"}
    /\ mode = "copy" => relayAt # "drop"
    /\ relayAt = "drop" => dstBroken
    /\ relayAt = "deliver" => chunk = Taken /\ Taken > 0
    /\ relayAt = "done" => src = << >> /\ eof
    /\ relayAt \in {"move", "done"} => stored
    /\ stored => relayAt # "store" /\ relayAt # "drop"
    /\ dstBroken => ~reading

\* The first pipe holds what was written and not taken.
SourceOK == Following(src, Taken)

\* What the consumer has read, then what waits in its pipe, is what was passed on.
ConsumerOK ==
    /\ Following(got, 0)
    /\ reading => Following(dst, Len(got)) /\ Len(got) + Len(dst) = Passed

\* The stored file has every chunk taken, up to the limit.
CopyOK ==
    mode = "copy" \/ ~dstBroken =>
       /\ Following(side, 0) /\ Len(side) <= Limit
       /\ ~stored => Len(side) = IF Taken < Limit THEN Taken ELSE Limit
       /\ ~stored /\ mode = "copy" => Len(side) = Taken
       /\ stored => Len(side) = IF written < Limit THEN written ELSE Limit
       /\ stored => Len(side) = Limit \/ eof

ProxyInv == ProxyTypeOK /\ RelayOK /\ SourceOK /\ ConsumerOK /\ CopyOK

\* No chunk at all.
LEMMA NothingFollows == ASSUME NEW n \in Nat PROVE Following(<< >>, n)
  BY DEF Following

\* One more chunk at the end.
LEMMA OneMoreFollows ==
    ASSUME NEW s, NEW n \in Nat, Following(s, n), NEW x \in Nat, x = n + Len(s) + 1
    PROVE  /\ Following(Append(s, x), n) /\ Append(s, x) \in Seq(Nat)
           /\ Len(Append(s, x)) = Len(s) + 1
  <1>1. s \in Seq(Nat) /\ Len(s) \in Nat
    BY DEF Following
  <1>2. Append(s, x) \in Seq(Nat) /\ Len(Append(s, x)) = Len(s) + 1
    BY <1>1, AppendProperties
  <1>3. ASSUME NEW k \in 1 .. Len(s) + 1 PROVE Append(s, x)[k] = n + k
    <2>1. CASE k = Len(s) + 1
      BY <1>1, <2>1, AppendProperties
    <2>2. CASE k # Len(s) + 1
      <3>1. k \in 1 .. Len(s)
        BY <1>1, <2>2
      <3>2. Append(s, x)[k] = s[k]
        BY <1>1, <3>1, AppendProperties
      <3> QED
        BY <3>1, <3>2 DEF Following
    <2> QED
      BY <2>1, <2>2
  <1> QED
    BY <1>2, <1>3 DEF Following

\* One chunk less at the beginning.
LEMMA RestFollows ==
    ASSUME NEW s, NEW n \in Nat, Following(s, n), s # << >>
    PROVE  /\ Head(s) = n + 1 /\ Following(Tail(s), n + 1) /\ Tail(s) \in Seq(Nat)
           /\ Len(Tail(s)) = Len(s) - 1 /\ Len(s) > 0 /\ Len(s) \in Nat
  <1>1. s \in Seq(Nat)
    BY DEF Following
  <1>2. Len(s) \in Nat /\ Len(s) > 0
    BY <1>1
  <1>3. Head(s) = s[1] /\ Tail(s) \in Seq(Nat) /\ Len(Tail(s)) = Len(s) - 1
    BY <1>1, <1>2
  <1>4. \A k \in 1 .. Len(s) - 1 : Tail(s)[k] = s[k + 1]
    BY <1>1, <1>2
  <1>5. \A k \in 1 .. Len(s) - 1 : Tail(s)[k] = (n + 1) + k
    BY <1>2, <1>4 DEF Following
  <1> QED
    BY <1>2, <1>3, <1>5 DEF Following

\* The chunks from the first on are the beginning of the data.
LEMMA FollowingIsInitial == ASSUME NEW s, Following(s, 0) PROVE IsInitial(s)
  <1>1. s \in Seq(Nat) /\ s = [k \in 1 .. Len(s) |-> s[k]]
    BY DEF Following
  <1>2. \A k \in 1 .. Len(s) : s[k] = k
    BY <1>1 DEF Following
  <1>3. [k \in 1 .. Len(s) |-> s[k]] = [k \in 1 .. Len(s) |-> k]
    BY <1>2
  <1> QED
    BY <1>1, <1>3 DEF IsInitial, Upto

\* The relay takes the next chunk.
LEMMA TakeNext ==
    ASSUME ProxyInv, src # << >>, src' = Tail(src), written' = written
    PROVE  /\ Head(src) = Taken + 1 /\ Head(src) \in Nat /\ Taken' = Taken + 1 /\ Taken < written
           /\ src' \in Seq(Nat) /\ Following(src', Taken') /\ Taken \in Nat
  <1>1. Taken \in Nat /\ Following(src, Taken) /\ written \in Nat
    BY DEF ProxyInv, ProxyTypeOK, SourceOK
  <1>2. /\ Head(src) = Taken + 1 /\ Following(Tail(src), Taken + 1) /\ Tail(src) \in Seq(Nat)
        /\ Len(Tail(src)) = Len(src) - 1 /\ Len(src) > 0 /\ Len(src) \in Nat
    BY <1>1, RestFollows
  <1>3. Taken' = Taken + 1 /\ Taken < written
    BY <1>1, <1>2 DEF Taken
  <1> QED
    BY <1>1, <1>2, <1>3

\* A chunk is passed on to a consumer that reads.
LEMMA PassOn ==
    ASSUME ProxyInv, reading, reading' = reading, got' = got, NEW x \in Nat, x = Passed + 1,
           dst' = Append(dst, x), Passed' = Passed + 1
    PROVE  ConsumerOK' /\ dst' \in Seq(Nat)
  <1>1. /\ Following(got, 0) /\ Following(dst, Len(got)) /\ Len(got) + Len(dst) = Passed
        /\ Len(got) \in Nat /\ Len(dst) \in Nat
    BY DEF ProxyInv, ConsumerOK, ProxyTypeOK
  <1>2. x = Len(got) + Len(dst) + 1
    BY <1>1
  <1>3. /\ Following(dst', Len(got)) /\ dst' \in Seq(Nat) /\ Len(dst') = Len(dst) + 1
    BY <1>1, <1>2, OneMoreFollows
  <1> QED
    BY <1>1, <1>3 DEF ConsumerOK

\* A chunk is stored.
LEMMA StoreChunk ==
    ASSUME ProxyInv, mode = "copy" \/ ~dstBroken, ~stored, Len(side) < Limit,
           side' = Append(side, Taken + 1)
    PROVE  /\ Len(side) = Taken /\ Following(side', 0) /\ side' \in Seq(Nat)
           /\ Len(side') = Taken + 1 /\ Len(side') <= Limit
  <1>1. /\ Following(side, 0) /\ Len(side) = IF Taken < Limit THEN Taken ELSE Limit
        /\ Taken \in Nat /\ Len(side) \in Nat
    BY DEF ProxyInv, CopyOK, ProxyTypeOK
  <1>2. Len(side) = Taken
    BY <1>1, ProxyAssumption
  <1>3. Following(side', 0) /\ side' \in Seq(Nat) /\ Len(side') = Len(side) + 1
    BY <1>1, <1>2, OneMoreFollows
  <1> QED
    BY <1>1, <1>2, <1>3, ProxyAssumption

\* The steps of the producer and the consumer.
LEMMA CommandsPipe ==
    ASSUME ProxyInv, MakePipes \/ Produce \/ ProducerEnds \/ ConsumerReads \/ ConsumerEnds
    PROVE  ProxyInv'
  <1> USE DEF ProxyInv, ProxyTypeOK, RelayOK, SourceOK, ConsumerOK, CopyOK, relayVars
  <1>1. CASE MakePipes
    <2>1. Taken' = Taken /\ Passed' = Passed /\ Taken = 0
      BY <1>1 DEF MakePipes, Taken, Passed
    <2> QED
      BY <1>1, <2>1, ProxyAssumption DEF MakePipes
  <1>2. CASE Produce
    <2>1. /\ Taken \in Nat /\ Len(src) \in Nat /\ written = Taken + Len(src)
      BY DEF Taken
    <2>2. src' = Append(src, written + 1) /\ written' = written + 1
      BY <1>2 DEF Produce
    <2>3. Following(src', Taken) /\ src' \in Seq(Nat) /\ Len(src') = Len(src) + 1
      BY <2>1, <2>2, OneMoreFollows
    <2>4. Taken' = Taken
      BY <2>1, <2>2, <2>3 DEF Taken
    <2>5. Passed' = Passed
      BY <1>2, <2>4 DEF Passed, Produce
    <2>6. ~eof /\ UNCHANGED <<mode, eof, reading, got, dst, side, relayAt, chunk, dstBroken, stored>>
      BY <1>2 DEF Produce
    <2>7. Len(side) \in Nat
      OBVIOUS
    <2>8. CopyOK'
      BY <2>1, <2>2, <2>4, <2>6, <2>7, ProxyAssumption
    <2> QED
      BY <2>2, <2>3, <2>4, <2>5, <2>6, <2>8
  <1>3. CASE ProducerEnds
    BY <1>3 DEF ProducerEnds, Taken, Passed
  <1>4. CASE ConsumerReads
    <2>1. /\ reading /\ dst # << >> /\ got' = Append(got, Head(dst)) /\ dst' = Tail(dst)
          /\ UNCHANGED <<mode, written, eof, reading, src, side, relayAt, chunk, dstBroken, stored>>
      BY <1>4 DEF ConsumerReads
    <2>2. Following(got, 0) /\ Following(dst, Len(got)) /\ Len(got) \in Nat
      BY <2>1
    <2>3. /\ Head(dst) = Len(got) + 1 /\ Following(dst', Len(got) + 1) /\ dst' \in Seq(Nat)
          /\ Len(dst') = Len(dst) - 1 /\ Len(dst) \in Nat
      BY <2>1, <2>2, RestFollows
    <2>4. Following(got', 0) /\ got' \in Seq(Nat) /\ Len(got') = Len(got) + 1
      BY <2>1, <2>2, <2>3, OneMoreFollows
    <2>5. Taken' = Taken /\ Passed' = Passed
      BY <2>1 DEF Taken, Passed
    <2>6. ConsumerOK'
      BY <2>1, <2>2, <2>3, <2>4, <2>5
    <2> QED
      BY <2>1, <2>3, <2>4, <2>5, <2>6
  <1>5. CASE ConsumerEnds
    BY <1>5 DEF ConsumerEnds, Taken, Passed
  <1> QED
    BY <1>1, <1>2, <1>3, <1>4, <1>5

\* The steps of the relay in pipeProxyZeroCopy.
LEMMA ZeroPipe ==
    ASSUME ProxyInv,
           TeeChunk \/ TeeFails \/ DropChunk \/ StoreOnly \/ SpliceChunk \/ ZeroEnds
    PROVE  ProxyInv'
  <1> USE DEF ProxyInv, ProxyTypeOK, RelayOK, SourceOK, ConsumerOK, CopyOK, Storing
  <1>1. CASE TeeChunk
    <2>1. /\ mode = "zero" /\ relayAt = "store" /\ ~dstBroken /\ reading /\ src # << >>
          /\ Len(side) < Limit /\ src' = Tail(src) /\ dst' = Append(dst, Head(src))
          /\ side' = Append(side, Head(src)) /\ ~stored
          /\ UNCHANGED <<mode, written, eof, reading, got, relayAt, chunk, dstBroken, stored>>
      BY <1>1 DEF TeeChunk
    <2>2. /\ Head(src) = Taken + 1 /\ Head(src) \in Nat /\ Taken' = Taken + 1 /\ Taken \in Nat
          /\ src' \in Seq(Nat) /\ Following(src', Taken')
      BY <2>1, TakeNext
    <2>3. Passed = Taken /\ Passed' = Taken + 1
      BY <2>1, <2>2 DEF Passed
    <2>4. ConsumerOK' /\ dst' \in Seq(Nat)
      BY <2>1, <2>2, <2>3, PassOn
    <2>5. /\ Following(side', 0) /\ side' \in Seq(Nat) /\ Len(side') = Taken + 1
          /\ Len(side') <= Limit
      BY <2>1, <2>2, StoreChunk
    <2>6. CopyOK'
      BY <2>1, <2>2, <2>5, ProxyAssumption
    <2> QED
      BY <2>1, <2>2, <2>4, <2>5, <2>6
  <1>2. CASE TeeFails \/ ZeroEnds
    <2>1. Taken' = Taken /\ Passed' = Passed
      BY <1>2 DEF TeeFails, ZeroEnds, Taken, Passed
    <2>2. CASE TeeFails
      BY <2>1, <2>2 DEF TeeFails
    <2>3. CASE ZeroEnds
      <3>1. src = << >> /\ eof /\ ~stored /\ Taken = written
        BY <2>3 DEF ZeroEnds, AtEnd, Taken
      <3> QED
        BY <2>1, <2>3, <3>1, ProxyAssumption DEF ZeroEnds
    <2> QED
      BY <1>2, <2>2, <2>3
  <1>3. CASE DropChunk \/ StoreOnly
    <2>1. /\ src # << >> /\ src' = Tail(src) /\ dstBroken /\ mode = "zero" /\ relayAt' = "store"
          /\ relayAt \in {"store", "drop"}
          /\ UNCHANGED <<mode, written, eof, reading, got, dst, chunk, dstBroken, stored>>
      BY <1>3 DEF DropChunk, StoreOnly
    <2>2. /\ Head(src) \in Nat /\ Taken' \in Nat /\ src' \in Seq(Nat) /\ Following(src', Taken')
      BY <2>1, TakeNext
    <2>3. side' \in Seq(Nat)
      <3>1. side \in Seq(Nat) /\ (side' = side \/ side' = Append(side, Head(src)))
        BY <1>3 DEF DropChunk, StoreOnly
      <3>2. Append(side, Head(src)) \in Seq(Nat)
        BY <2>2, <3>1, AppendProperties
      <3> QED
        BY <3>1, <3>2
    <2> QED
      BY <2>1, <2>2, <2>3
  <1>4. CASE SpliceChunk
    <2>1. /\ mode = "zero" /\ relayAt = "store" /\ Len(side) >= Limit /\ src # << >> /\ ~stored
          /\ UNCHANGED <<mode, written, eof, reading, got, side, relayAt, chunk, stored>>
      BY <1>4 DEF SpliceChunk
    <2>2. CASE ~dstBroken /\ ~reading
      <3>1. dstBroken' = TRUE /\ UNCHANGED <<src, dst>>
        BY <1>4, <2>2 DEF SpliceChunk
      <3>2. Taken' = Taken
        BY <2>1, <3>1 DEF Taken
      <3> QED
        BY <2>1, <2>2, <3>1, <3>2
    <2>3. CASE dstBroken \/ reading
      <3>1. /\ src' = Tail(src) /\ dstBroken' = dstBroken
            /\ dst' = IF dstBroken THEN dst ELSE Append(dst, Head(src))
        BY <1>4, <2>3 DEF SpliceChunk
      <3>2. /\ Head(src) = Taken + 1 /\ Head(src) \in Nat /\ Taken' = Taken + 1 /\ Taken \in Nat
            /\ src' \in Seq(Nat) /\ Following(src', Taken')
        BY <2>1, <3>1, TakeNext
      <3>3. Passed = Taken /\ Passed' = Taken + 1
        BY <2>1, <3>2 DEF Passed
      <3>4. CASE dstBroken
        BY <2>1, <3>1, <3>2, <3>4
      <3>5. CASE ~dstBroken
        <4>1. ConsumerOK' /\ dst' \in Seq(Nat)
          BY <2>1, <2>3, <3>1, <3>2, <3>3, <3>5, PassOn
        <4>2. CopyOK'
          BY <2>1, <3>1, <3>2, <3>5, ProxyAssumption
        <4> QED
          BY <2>1, <3>1, <3>2, <4>1, <4>2
      <3> QED
        BY <3>4, <3>5
    <2> QED
      BY <2>2, <2>3
  <1> QED
    BY <1>1, <1>2, <1>3, <1>4

\* The steps of the relay in pipeProxy.
LEMMA CopyPipe ==
    ASSUME ProxyInv,
           ReadTee \/ Deliver \/ StoreRest \/ CloseDone \/ MoveChunk \/ CopyEnds
    PROVE  ProxyInv'
  <1> USE DEF ProxyInv, ProxyTypeOK, RelayOK, SourceOK, ConsumerOK, CopyOK, Storing
  <1>1. CASE ReadTee \/ StoreRest
    <2>1. /\ mode = "copy" /\ relayAt = "store" /\ src # << >>
          /\ Len(side) < Limit /\ src' = Tail(src)
          /\ side' = Append(side, Head(src)) /\ ~stored
          /\ UNCHANGED <<mode, written, eof, reading, got, dst, dstBroken, stored>>
      BY <1>1 DEF ReadTee, StoreRest
    <2>2. /\ Head(src) = Taken + 1 /\ Head(src) \in Nat /\ Taken' = Taken + 1 /\ Taken \in Nat
          /\ src' \in Seq(Nat) /\ Following(src', Taken')
      BY <2>1, TakeNext
    <2>3. /\ Following(side', 0) /\ side' \in Seq(Nat) /\ Len(side') = Taken + 1
          /\ Len(side') <= Limit
      BY <2>1, <2>2, StoreChunk
    <2>4. CopyOK'
      BY <2>1, <2>2, <2>3, ProxyAssumption
    <2>5. CASE ReadTee
      <3>1. relayAt' = "deliver" /\ chunk' = Head(src)
        BY <2>5 DEF ReadTee
      <3>2. Passed = Taken /\ Passed' = Passed
        BY <2>1, <2>2, <3>1 DEF Passed
      <3> QED
        BY <2>1, <2>2, <2>3, <2>4, <3>1, <3>2
    <2>6. CASE StoreRest
      <3>1. relayAt' = relayAt /\ chunk' = chunk /\ dstBroken
        BY <2>6 DEF StoreRest
      <3> QED
        BY <2>1, <2>2, <2>3, <2>4, <3>1
    <2> QED
      BY <1>1, <2>5, <2>6
  <1>2. CASE Deliver
    <2>1. /\ relayAt = "deliver" /\ relayAt' = IF stored THEN "move" ELSE "store"
          /\ UNCHANGED <<mode, written, eof, reading, got, src, side, stored>>
      BY <1>2 DEF Deliver
    <2>2. mode = "copy" /\ chunk = Taken /\ Taken' = Taken /\ Taken \in Nat
      BY <2>1 DEF Taken
    <2>3. Passed = Taken - 1 /\ Passed' = Passed + 1
      BY <2>1, <2>2 DEF Passed
    <2>4. CASE reading
      <3>1. dst' = Append(dst, chunk) /\ dstBroken' = dstBroken
        BY <1>2, <2>4 DEF Deliver
      <3>2. ConsumerOK' /\ dst' \in Seq(Nat)
        BY <2>1, <2>2, <2>3, <2>4, <3>1, PassOn
      <3> QED
        BY <2>1, <2>2, <3>1, <3>2
    <2>5. CASE ~reading
      <3>1. dst' = dst /\ dstBroken' = TRUE
        BY <1>2, <2>5 DEF Deliver
      <3> QED
        BY <2>1, <2>2, <2>5, <3>1
    <2> QED
      BY <2>4, <2>5
  <1>3. CASE CloseDone
    <2>1. /\ mode = "copy" /\ relayAt = "store" /\ (Len(side) = Limit \/ AtEnd) /\ ~stored
          /\ stored' = TRUE /\ relayAt' = "move"
          /\ UNCHANGED <<mode, written, eof, reading, got, src, dst, side, chunk, dstBroken>>
      BY <1>3 DEF CloseDone
    <2>2. Taken' = Taken /\ Passed' = Passed /\ Taken \in Nat /\ Taken <= written
      BY <2>1 DEF Taken, Passed
    <2>3. AtEnd => Taken = written /\ eof
      BY DEF AtEnd, Taken
    <2>4. CopyOK'
      BY <2>1, <2>2, <2>3, ProxyAssumption
    <2> QED
      BY <2>1, <2>2, <2>4
  <1>4. CASE MoveChunk
    <2>1. /\ mode = "copy" /\ relayAt = "move" /\ src # << >> /\ src' = Tail(src) /\ stored
          /\ UNCHANGED <<mode, written, eof, reading, got, dst, side, dstBroken, stored>>
      BY <1>4 DEF MoveChunk
    <2>2. /\ Head(src) = Taken + 1 /\ Head(src) \in Nat /\ Taken' = Taken + 1 /\ Taken \in Nat
          /\ src' \in Seq(Nat) /\ Following(src', Taken')
      BY <2>1, TakeNext
    <2>3. CASE dstBroken
      <3>1. relayAt' = relayAt /\ chunk' = chunk
        BY <1>4, <2>3 DEF MoveChunk
      <3> QED
        BY <2>1, <2>2, <2>3, <3>1
    <2>4. CASE ~dstBroken
      <3>1. relayAt' = "deliver" /\ chunk' = Head(src)
        BY <1>4, <2>4 DEF MoveChunk
      <3>2. Passed = Taken /\ Passed' = Passed
        BY <2>1, <2>2, <3>1 DEF Passed
      <3> QED
        BY <2>1, <2>2, <3>1, <3>2
    <2> QED
      BY <2>3, <2>4
  <1>5. CASE CopyEnds
    <2>1. Taken' = Taken /\ Passed' = Passed
      BY <1>5 DEF CopyEnds, Taken, Passed
    <2> QED
      BY <1>5, <2>1 DEF CopyEnds, AtEnd
  <1> QED
    BY <1>1, <1>2, <1>3, <1>4, <1>5

\* For any amount of data, any limit and any capacity of the pipe, with and without
\* zero copy: the consumer reads what the producer wrote, in order and without a
\* gap, and all of it when it reads to the end; the stored file is the beginning of
\* the data, complete up to the limit, unless zero copy has lost its consumer
\* (envexec/file_prepare.go pipeProxy, file_pipe_linux.go pipeProxyZeroCopy).
THEOREM PipesDeliver == ProxySpec => [](DeliveredInOrder /\ StoredWhileConsumed)
  <1>1. ProxyInit => ProxyInv
    <2> SUFFICES ASSUME ProxyInit PROVE ProxyInv
      OBVIOUS
    <2>1. Taken = 0 /\ Passed = 0
      <3>1. written = 0 /\ Len(src) = 0 /\ relayAt = "store"
        BY DEF ProxyInit
      <3> QED
        BY <3>1 DEF Taken, Passed
    <2>2. Following(<< >>, 0)
      BY NothingFollows
    <2> QED
      BY <2>1, <2>2, ProxyAssumption
      DEF ProxyInit, ProxyInv, ProxyTypeOK, RelayOK, SourceOK, ConsumerOK, CopyOK
  <1>2. ProxyInv /\ [ProxyNext]_proxyVars => ProxyInv'
    <2> SUFFICES ASSUME ProxyInv, [ProxyNext]_proxyVars PROVE ProxyInv'
      OBVIOUS
    <2>1. CASE UNCHANGED proxyVars
      BY <2>1 DEF proxyVars, relayVars, ProxyInv, ProxyTypeOK, RelayOK, SourceOK, ConsumerOK,
         CopyOK, Taken, Passed
    <2> QED
      BY <2>1, CommandsPipe, ZeroPipe, CopyPipe DEF ProxyNext, Relay
  <1>3. ProxyInv => DeliveredInOrder /\ StoredWhileConsumed
    <2> SUFFICES ASSUME ProxyInv PROVE DeliveredInOrder /\ StoredWhileConsumed
      OBVIOUS
    <2>1. IsInitial(got) /\ (mode = "copy" \/ ~dstBroken => IsInitial(side))
      BY FollowingIsInitial DEF ProxyInv, ConsumerOK, CopyOK
    <2>2. ASSUME relayAt = "done", reading, dst = << >> PROVE got = Upto(written)
      <3>1. Len(got) = Passed /\ Passed = written
        BY <2>2 DEF ProxyInv, ProxyTypeOK, RelayOK, ConsumerOK, Passed, Taken
      <3> QED
        BY <2>1, <3>1 DEF IsInitial
    <2> QED
      BY <2>1, <2>2 DEF DeliveredInOrder, StoredWhileConsumed, ProxyInv, CopyOK
  <1> QED
    BY <1>1, <1>2, <1>3, PTL DEF ProxySpec

-----------------------------------------------------------------------------
(* The commands of a request *)

\* The types that the steps rely on.
FileStates == {"none", "open", "result", "cached", "removed", "left"}
Reports == {"none", "Normal", "Other", "Killed", "RunnerError", "Time", "Memory"}
Statuses == Reports \cup {"Accepted", "OutputLimit", "FileError", "TimeLimit"}

CmdTypeOK ==
    /\ group \in {"new", "prepare", "run", "convert", "error", "answered"}
    /\ step \in [Cmds -> {"new", "ready", "copied", "wait", "stop", "limit", "collect", "done",
                       "converted"}]
    /\ rt \in [Cmds -> Reports]
    /\ status \in [Cmds -> Statuses]
    /\ file \in [Files -> FileStates]

\* How far the commands are when the group is.
PaceOK ==
    /\ group \in {"new", "prepare", "error"} => \A c \in Cmds : step[c] \in {"new", "ready"}
    /\ group = "run" => \A c \in Cmds : step[c] # "converted"
    /\ group = "convert" => \A c \in Cmds : step[c] \in {"done", "converted"}
    /\ group = "answered" => \A c \in Cmds : step[c] = "converted"

\* Where the files of a command are when the command is.
FileOK(c, n) ==
    LET f == <<c, n>> IN
    /\ file[f] = "cached" => f \in Cached
    /\ file[f] = "left" => fault # {}
    /\ file[f] = "open" => n = "col" /\ step[c] \notin {"done", "converted"}
    /\ file[f] = "result" => group # "answered"
    /\ status[c] = "Accepted" =>
          /\ step[c] \in {"done", "converted"}
          /\ \/ file[f] \in {"result", "cached"}
             \/ file[f] = "none" /\ n = "out" /\ c \in Optional
             \/ group = "answered" /\ (file[f] = "removed" \/ "abandon" \in fault)

FilesInv == CmdTypeOK /\ PaceOK /\ \A c \in Cmds, n \in Names : FileOK(c, n)

\* A file is a command and a name.
LEMMA FileOf ==
    /\ \A c \in Cmds, n \in Names : <<c, n>> \in Files
    /\ \A c, d \in Cmds, m, n \in Names : <<c, m>> = <<d, n>> <=> c = d /\ m = n
    /\ Names = {"col", "out"} /\ "col" # "out"
  BY DEF Files, Names

\* The same, the other way round.
LEMMA PairOf == \A f \in Files : f[1] \in Cmds /\ f[2] \in Names /\ f = <<f[1], f[2]>>
  BY DEF Files

\* What is collected without an error is a file, or an optional one is not there.
LEMMA OutcomesAre ==
    ASSUME NEW c \in Cmds
    PROVE  /\ \A x \in PipeOutcomes(c) :
                 x[1] \in {"none", "result", "left"} /\ (x[2] = "" => x[1] = "result")
           /\ \A x \in OutOutcomes(c) :
                 /\ x[1] \in {"none", "result", "left"}
                 /\ x[2] = "" => x[1] = "result" \/ (x[1] = "none" /\ c \in Optional)
  <1>1. ASSUME NEW x, x \in {<<"result", "">>, <<"result", "file">>, <<"result", "limit">>,
                             <<"none", "file">>, <<"left", "file">>}
        PROVE  x[1] \in {"none", "result", "left"} /\ (x[2] = "" => x[1] = "result")
    <2>1. ASSUME NEW e, x = <<"result", e>>
          PROVE  x[1] \in {"none", "result", "left"} /\ (x[2] = "" => x[1] = "result")
      BY <2>1
    <2>2. CASE x = <<"none", "file">> \/ x = <<"left", "file">>
      <3>1. x[2] = "file" /\ (x[1] = "none" \/ x[1] = "left")
        BY <2>2
      <3> QED
        BY <3>1
    <2> QED
      BY <1>1, <2>1, <2>2
  <1>2. PipeOutcomes(c) \subseteq {<<"result", "">>, <<"result", "file">>, <<"result", "limit">>,
                                   <<"none", "file">>, <<"left", "file">>}
    BY DEF PipeOutcomes, CopyOutcomes
  <1>3. ASSUME NEW x \in OutOutcomes(c)
        PROVE  \/ x \in {<<"result", "">>, <<"result", "file">>, <<"result", "limit">>,
                         <<"none", "file">>, <<"left", "file">>}
               \/ x = <<"none", "">> /\ c \in Optional
    BY DEF OutOutcomes, CopyOutcomes
  <1>4. <<"none", "">>[1] = "none"
    OBVIOUS
  <1> QED
    BY <1>1, <1>2, <1>3, <1>4

\* The files that a command has produced, and its status.
LEMMA CollectKeeps ==
    ASSUME FilesInv, NEW c \in Cmds, Collect(c)
    PROVE  FilesInv'
  <1>1. PICK out \in OutOutcomes(c), col \in PipeOutcomes(c) :
           /\ file' = [file EXCEPT ![<<c, "out">>] = out[1], ![<<c, "col">>] = col[1]]
           /\ fault' = IF "left" \in {out[1], col[1]} THEN fault \cup {"copy"} ELSE fault
           /\ \E s \in RunStatus(c, {out[2], col[2]} \ {""}) : status' = [status EXCEPT ![c] = s]
    BY DEF Collect
  <1>2. /\ out[1] \in {"none", "result", "left"}
        /\ out[2] = "" => out[1] = "result" \/ (out[1] = "none" /\ c \in Optional)
        /\ col[1] \in {"none", "result", "left"} /\ (col[2] = "" => col[1] = "result")
    BY OutcomesAre
  <1>3. PICK s \in RunStatus(c, {out[2], col[2]} \ {""}) : status' = [status EXCEPT ![c] = s]
    BY <1>1
  <1>4. rt[c] \in Reports
    BY DEF FilesInv, CmdTypeOK
  <1>5. s \in Statuses /\ (s = "Accepted" => out[2] = "" /\ col[2] = "")
    BY <1>3, <1>4 DEF RunStatus, Statuses, Reports
  <1>6. step[c] = "collect" /\ UNCHANGED <<group, rt>> /\ step' = [step EXCEPT ![c] = "done"]
    BY DEF Collect, Goes, runVars
  <1>7. out[1] \in FileStates /\ col[1] \in FileStates
    BY <1>2 DEF FileStates
  <1>8. file \in [Files -> FileStates]
    BY DEF FilesInv, CmdTypeOK
  <1>9. /\ file' \in [Files -> FileStates]
        /\ \A d \in Cmds, n \in Names :
              /\ d # c => file'[<<d, n>>] = file[<<d, n>>]
              /\ d = c => file'[<<d, n>>] = IF n = "out" THEN out[1] ELSE col[1]
    <2>1. "out" \in Names /\ "col" \in Names /\ \A n \in Names : n = "col" \/ n = "out"
      BY DEF Names
    <2>2. <<c, "out">> \in Files /\ <<c, "col">> \in Files
      BY <2>1, FileOf
    <2>3. file' \in [Files -> FileStates]
      BY <1>1, <1>7, <1>8, <2>2
    <2>4. file'[<<c, "col">>] = col[1] /\ file'[<<c, "out">>] = out[1]
      <3>1. <<c, "out">> # <<c, "col">>
        BY FileOf
      <3> QED
        BY <1>1, <1>8, <2>2, <3>1
    <2>5. ASSUME NEW d \in Cmds, NEW n \in Names, d # c PROVE file'[<<d, n>>] = file[<<d, n>>]
      <3>1. <<d, n>> \in Files /\ <<d, n>> # <<c, "out">> /\ <<d, n>> # <<c, "col">>
        BY <2>1, <2>5, FileOf
      <3> QED
        BY <1>1, <1>8, <3>1
    <2> QED
      BY <2>1, <2>3, <2>4, <2>5
  <1>10. CmdTypeOK'
    BY <1>3, <1>5, <1>6, <1>9 DEF FilesInv, CmdTypeOK
  <1>11. PaceOK'
    BY <1>6 DEF FilesInv, CmdTypeOK, PaceOK
  <1>12. fault \subseteq fault' /\ ("left" \in {out[1], col[1]} => fault' # {})
    BY <1>1
  <1>13. ASSUME NEW d \in Cmds, NEW n \in Names PROVE FileOK(d, n)'
    <2>1. FileOK(d, n)
      BY DEF FilesInv
    <2>2. CASE d # c
      <3>1. file'[<<d, n>>] = file[<<d, n>>]
        BY <1>9, <2>2
      <3>2. step'[d] = step[d] /\ status'[d] = status[d]
        BY <1>3, <1>6, <2>2 DEF FilesInv, CmdTypeOK
      <3> QED
        BY <1>6, <1>12, <2>1, <3>1, <3>2 DEF FileOK
    <2>3. CASE d = c
      <3>1. (n = "out" /\ file'[<<d, n>>] = out[1]) \/ file'[<<d, n>>] = col[1]
        BY <1>9, <2>3
      <3>2. step'[d] = "done" /\ status'[d] = s /\ group # "answered"
        BY <1>3, <1>6, <2>3 DEF FilesInv, CmdTypeOK, PaceOK
      <3>3. CASE n = "out" /\ file'[<<d, n>>] = out[1]
        BY <1>2, <1>5, <1>6, <1>12, <2>3, <3>2, <3>3 DEF FileOK
      <3>4. CASE file'[<<d, n>>] = col[1]
        BY <1>2, <1>5, <1>6, <1>12, <2>3, <3>2, <3>4 DEF FileOK
      <3> QED
        BY <3>1, <3>3, <3>4
    <2> QED
      BY <2>2, <2>3
  <1> QED
    BY <1>10, <1>11, <1>13 DEF FilesInv

\* Every step keeps the files of every command where it expects them.
LEMMA FilesKeep ==
    ASSUME FilesInv, [CmdNext]_cmdVars
    PROVE  FilesInv'
  <1> USE DEF FilesInv, CmdTypeOK, PaceOK, FileOK, Goes, runVars, FileStates, Statuses
  <1>1. CASE UNCHANGED cmdVars
    BY <1>1 DEF cmdVars
  <1>2. CASE Arrive \/ CancelRequest
    BY <1>2 DEF Arrive, CancelRequest
  <1>3. CASE StartCmds
    BY <1>3, FileOf DEF StartCmds
  <1>4. CASE GroupDone
    BY <1>4 DEF GroupDone
  <1>5. CASE Consume
    BY <1>5, FileOf DEF Consume
  <1>6. CASE Abandon
    BY <1>6, FileOf DEF Abandon
  <1>7. ASSUME NEW c \in Cmds, ProcessEnds(c) \/ PutCgroup(c) \/ RelayEnds(c) PROVE FilesInv'
    BY <1>7 DEF ProcessEnds, PutCgroup, RelayEnds, DestroyCgroup, Reports
  <1>8. ASSUME NEW c \in Cmds, PrepareFd(c) PROVE FilesInv'
    BY <1>8, FileOf DEF PrepareFd, PrepareCmdFdTTY, PrepareCmdFdNoTty, StartRelay
  <1>9. ASSUME NEW c \in Cmds, PrepareFails(c) PROVE FilesInv'
    BY <1>9, FileOf DEF PrepareFails
  <1>10. ASSUME NEW c \in Cmds, CopyIn(c) PROVE FilesInv'
    <2>1. CASE Goes(c, "copied") /\ UNCHANGED <<status, fds, file>>
      BY <1>10, <2>1 DEF CopyIn
    <2>2. CASE FileErrorExit(c)
      <3> DEFINE v == IF file[<<c, "col">>] = "open" THEN "removed" ELSE file[<<c, "col">>]
      <3>0. "col" \in Names /\ <<c, "col">> \in Files
        BY FileOf
      <3>1. v \in {"none", "result", "cached", "removed", "left"}
        BY <3>0
      <3>2. file' = [file EXCEPT ![<<c, "col">>] = v]
        BY <2>2 DEF FileErrorExit
      <3> HIDE DEF v
      <3>3. /\ file' \in [Files -> FileStates]
            /\ \A d \in Cmds, n \in Names :
                  file'[<<d, n>>] = IF d = c /\ n = "col" THEN v ELSE file[<<d, n>>]
        <4>1. file \in [Files -> FileStates] /\ v \in FileStates /\ "col" \in Names
          BY <3>0, <3>1
        <4> HIDE DEF FilesInv, CmdTypeOK, PaceOK, FileOK, Goes, runVars, FileStates, Statuses
        <4>2. /\ [file EXCEPT ![<<c, "col">>] = v] \in [Files -> FileStates]
              /\ \A d \in Cmds, n \in Names :
                    [file EXCEPT ![<<c, "col">>] = v][<<d, n>>] =
                       IF d = c /\ n = "col" THEN v ELSE file[<<d, n>>]
          BY <1>10, <4>1, FileOf
        <4> QED
          BY <3>2, <4>2
      <3>4. CmdTypeOK' /\ PaceOK'
        BY <1>10, <2>2, <3>3 DEF CopyIn, FileErrorExit
      <3>5. ASSUME NEW d \in Cmds, NEW n \in Names PROVE FileOK(d, n)'
        <4>1. file'[<<d, n>>] = file[<<d, n>>] \/ (d = c /\ file'[<<d, n>>] = "removed")
          BY <3>3 DEF v
        <4>2. d = c => file'[<<d, n>>] # "open"
          <5>1. CASE n = "col"
            BY <3>1, <3>3, <5>1
          <5>2. CASE n # "col"
            BY <3>3, <5>2
          <5> QED
            BY <5>1, <5>2
        <4> QED
          BY <1>10, <2>2, <4>1, <4>2 DEF CopyIn, FileErrorExit
      <3> QED
        BY <3>4, <3>5
    <2> HIDE DEF FilesInv, CmdTypeOK, PaceOK, FileOK, FileStates, Statuses
    <2> QED
      BY <1>10, <2>1, <2>2 DEF CopyIn
  <1>11. ASSUME NEW c \in Cmds, Execve(c) \/ ExecveFails(c) \/ Wait(c) \/ Result(c) PROVE FilesInv'
    BY <1>11 DEF Execve, ExecveFails, Wait, Result, GetCgroup, LimitsRefused, DestroyCgroup, Reports
  <1>12. ASSUME NEW c \in Cmds, Collect(c) PROVE FilesInv'
    BY <1>12, CollectKeeps
  <1>13. ASSUME NEW c \in Cmds, ConvertResult(c) PROVE FilesInv'
    <2> DEFINE has == {f \in {c} \X Names : file[f] = "result"}
               cached == has \cap Cached
    <2>1. /\ group = "convert" /\ step[c] = "done" /\ UNCHANGED <<group, rt>>
          /\ step' = [step EXCEPT ![c] = "converted"]
      BY <1>13 DEF ConvertResult
    <2>2. \A d \in Cmds, n \in Names : <<d, n>> \in has <=> d = c /\ file[<<d, n>>] = "result"
      BY FileOf
    <2>3. ASSUME status' = [status EXCEPT ![c] = FixTimeLimit(c)], UNCHANGED fault,
                 file' = [f \in Files |-> IF f \in cached THEN "cached" ELSE file[f]]
          PROVE  FilesInv'
      <3>1. \A d \in Cmds, n \in Names :
               \/ file'[<<d, n>>] = file[<<d, n>>]
               \/ d = c /\ file'[<<d, n>>] = "cached" /\ <<d, n>> \in Cached
        BY <2>2, <2>3, FileOf
      <3>2. status'[c] = "Accepted" => status[c] = "Accepted"
        BY <2>3 DEF FixTimeLimit
      <3>3. CmdTypeOK' /\ PaceOK'
        BY <2>1, <2>3 DEF FixTimeLimit, Reports
      <3> QED
        BY <2>1, <2>3, <3>1, <3>2, <3>3
    <2>4. ASSUME NEW seen \in SUBSET has, fault' = fault \cup {"add"},
                 status' = [status EXCEPT ![c] = "FileError"],
                 file' = [f \in Files |-> CASE f \in seen \cap cached -> "cached"
                                            [] f \in has \ seen -> "left"
                                            [] OTHER -> file[f]]
          PROVE  FilesInv'
      <3>1. \A d \in Cmds, n \in Names :
               \/ file'[<<d, n>>] = file[<<d, n>>]
               \/ d = c /\ file'[<<d, n>>] = "cached" /\ <<d, n>> \in Cached
               \/ d = c /\ file'[<<d, n>>] = "left"
        BY <2>2, <2>4, FileOf
      <3>2. CmdTypeOK' /\ PaceOK'
        BY <2>1, <2>4 DEF Reports
      <3> QED
        BY <2>1, <2>4, <3>1, <3>2
    <2>5. \/ /\ status' = [status EXCEPT ![c] = FixTimeLimit(c)] /\ UNCHANGED fault
             /\ file' = [f \in Files |-> IF f \in cached THEN "cached" ELSE file[f]]
          \/ \E seen \in SUBSET has :
                /\ status' = [status EXCEPT ![c] = "FileError"]
                /\ file' = [f \in Files |-> CASE f \in seen \cap cached -> "cached"
                                              [] f \in has \ seen -> "left"
                                              [] OTHER -> file[f]]
                /\ fault' = fault \cup {"add"}
      <3> HIDE DEF FilesInv, CmdTypeOK, PaceOK, FileOK, Goes, runVars, FileStates, Statuses
      <3> QED
        BY <1>13 DEF ConvertResult
    <2> HIDE DEF has, cached, FilesInv, CmdTypeOK, PaceOK, FileOK, FileStates, Statuses
    <2> QED
      BY <2>3, <2>4, <2>5
  <1> HIDE DEF FilesInv, CmdTypeOK, PaceOK, FileOK, Goes, FileStates, Statuses
  <1> QED
    BY <1>1, <1>2, <1>3, <1>4, <1>5, <1>6, <1>7, <1>8, <1>9, <1>10, <1>11, <1>12, <1>13
    DEF CmdNext, CmdStep, GroupStep

\* For any number of commands, piped, on a terminal or neither: when the request is
\* answered, every store file it made is removed or listed in the store, unless one
\* of the faults that leave files behind happened, and an accepted command has all
\* its files, but for an optional one that could not be opened (envexec copyOutAndCollect and resultFileError, worker convertResult,
\* model.ConvertResponse).
THEOREM NothingLeftBehind == CmdSpec => []NoLeftover
  <1>1. CmdInit => FilesInv
    BY FileOf DEF CmdInit, FilesInv, CmdTypeOK, PaceOK, FileOK, Reports, Statuses, FileStates
  <1>2. FilesInv => NoLeftover
    <2> SUFFICES ASSUME FilesInv, group = "answered", NEW c \in Cmds, NEW n \in Names
                 PROVE  /\ file[<<c, n>>] \in {"none", "removed", "cached", "left"}
                        /\ file[<<c, n>>] = "cached" => <<c, n>> \in Cached
                        /\ file[<<c, n>>] = "left" => fault # {}
                        /\ status[c] = "Accepted" =>
                              \/ file[<<c, n>>] \in {"removed", "cached"} \/ "abandon" \in fault
                              \/ file[<<c, n>>] = "none" /\ n = "out" /\ c \in Optional
      BY PairOf DEF NoLeftover
    <2>1. FileOK(c, n) /\ step[c] = "converted"
      BY DEF FilesInv, PaceOK
    <2>2. file[<<c, n>>] \in FileStates
      BY FileOf DEF FilesInv, CmdTypeOK
    <2> QED
      BY <2>1, <2>2 DEF FileOK, FileStates
  <1> QED
    BY <1>1, <1>2, FilesKeep, PTL DEF CmdSpec

-----------------------------------------------------------------------------
(* The process, the descriptors and the relay of a command *)

\* Where they are when the command is: a descriptor of the executor is closed when
\* the process has started or failed to, the process lives while the command waits
\* for it, and a file is produced only when neither it nor the relay writes.
WriterOK(c) ==
    /\ step[c] = "new" => fds[c] # "open"
    /\ group = "error" => fds[c] # "open"
    /\ step[c] \in {"wait", "stop", "limit", "collect", "done", "converted"} => fds[c] # "open"
    /\ proc[c] = "live" => step[c] \in {"wait", "stop", "limit"} /\ cgroup[c] = "held"
    /\ relay[c] = "copies" => Relayed(c) /\ step[c] # "new"
    /\ group = "new" => step[c] = "new"
    /\ \A n \in Names : file[<<c, n>>] \in {"result", "cached"} =>
          step[c] \in {"done", "converted"} /\ relay[c] # "copies"

\* Types of what FilesInv does not mention.
WriterTypeOK ==
    /\ fds \in [Cmds -> {"none", "open", "closed"}]
    /\ relay \in [Cmds -> {"none", "copies", "done"}]
    /\ cgroup \in [Cmds -> {"none", "held", "destroyed"}]
    /\ proc \in [Cmds -> {"none", "live", "dead"}]

WritersInv == WriterTypeOK /\ \A c \in Cmds : WriterOK(c)

\* Steps that change no file.
LEMMA WritersKeepFiles ==
    ASSUME FilesInv, WritersInv, UNCHANGED file,
           \/ Arrive \/ CancelRequest \/ GroupDone
           \/ \E c \in Cmds : ProcessEnds(c) \/ PutCgroup(c) \/ RelayEnds(c)
           \/ \E c \in Cmds : Execve(c) \/ ExecveFails(c) \/ Wait(c) \/ Result(c)
    PROVE  WritersInv'
  <1> USE DEF FilesInv, CmdTypeOK, WritersInv, WriterTypeOK, WriterOK, Goes, runVars
  <1>1. CASE Arrive \/ CancelRequest \/ GroupDone
    BY <1>1 DEF Arrive, CancelRequest, GroupDone, Relayed, PaceOK
  <1>2. ASSUME NEW c \in Cmds, ProcessEnds(c) \/ PutCgroup(c) \/ RelayEnds(c) PROVE WritersInv'
    BY <1>2 DEF ProcessEnds, PutCgroup, RelayEnds, DestroyCgroup, Relayed
  <1>3. ASSUME NEW c \in Cmds, Execve(c) \/ ExecveFails(c) PROVE WritersInv'
    BY <1>3 DEF Execve, ExecveFails, GetCgroup, LimitsRefused, DestroyCgroup, Relayed
  <1>4. ASSUME NEW c \in Cmds, Wait(c) \/ Result(c) PROVE WritersInv'
    BY <1>4 DEF Wait, Result, Relayed
  <1> QED
    BY <1>1, <1>2, <1>3, <1>4

\* Steps that make, produce or give up files.
LEMMA WritersKeepOthers ==
    ASSUME FilesInv, WritersInv,
           \/ StartCmds \/ Consume \/ Abandon
           \/ \E c \in Cmds : PrepareFd(c) \/ PrepareFails(c) \/ CopyIn(c) \/ Collect(c)
                                \/ ConvertResult(c)
    PROVE  WritersInv'
  <1> USE DEF FilesInv, CmdTypeOK, WritersInv, WriterTypeOK, WriterOK, Goes, runVars, FileStates
  <1>1. CASE StartCmds \/ Consume \/ Abandon
    BY <1>1, FileOf DEF StartCmds, Consume, Abandon, Relayed, PaceOK
  <1>2. ASSUME NEW c \in Cmds, PrepareFd(c) PROVE WritersInv'
    BY <1>2, FileOf DEF PrepareFd, PrepareCmdFdTTY, PrepareCmdFdNoTty, StartRelay, Relayed
  <1>3. ASSUME NEW c \in Cmds, PrepareFails(c) PROVE WritersInv'
    BY <1>3, FileOf DEF PrepareFails, Relayed
  <1>4. ASSUME NEW c \in Cmds, CopyIn(c) PROVE WritersInv'
    BY <1>4, FileOf DEF CopyIn, FileErrorExit, Relayed
  <1>5. ASSUME NEW c \in Cmds, Collect(c) PROVE WritersInv'
    <2>1. PICK out \in OutOutcomes(c), col \in PipeOutcomes(c) :
             file' = [file EXCEPT ![<<c, "out">>] = out[1], ![<<c, "col">>] = col[1]]
      BY <1>5 DEF Collect
    <2>2. ASSUME NEW d \in Cmds, NEW n \in Names, d # c PROVE file'[<<d, n>>] = file[<<d, n>>]
      <3>1. <<d, n>> \in Files /\ <<d, n>> # <<c, "out">> /\ <<d, n>> # <<c, "col">>
        BY <2>2, FileOf
      <3> QED
        BY <2>1, <3>1
    <2>3. /\ step[c] = "collect" /\ step' = [step EXCEPT ![c] = "done"] /\ relay[c] # "copies"
          /\ UNCHANGED <<tty, group, fds, relay, cgroup, proc>>
      BY <1>5 DEF Collect
    <2>4. WriterTypeOK' /\ WriterOK(c)'
      BY <2>3 DEF Relayed
    <2>5. ASSUME NEW d \in Cmds, d # c PROVE WriterOK(d)'
      <3>1. step'[d] = step[d]
        BY <2>3, <2>5
      <3> QED
        BY <2>2, <2>3, <2>5, <3>1 DEF Relayed
    <2> QED
      BY <2>4, <2>5
  <1>6. ASSUME NEW c \in Cmds, ConvertResult(c) PROVE WritersInv'
    BY <1>6, FileOf DEF ConvertResult, Relayed
  <1> QED
    BY <1>1, <1>2, <1>3, <1>4, <1>5, <1>6

\* For any commands and whatever fails: a file of the store is read or added only
\* when the process that wrote it and the goroutine of its pipe have ended, no
\* process outlives its group or its cgroup, and a group that is over, with a
\* result or with an error, has no descriptor open (envexec Group.Run, runSingle,
\* newPipe, linuxcontainer newProcess).
THEOREM FilesAreFinal == CmdSpec => []NoLateWriter
  <1>1. CmdInit => FilesInv /\ WritersInv
    <2>1. CmdInit => FilesInv
      BY FileOf DEF CmdInit, FilesInv, CmdTypeOK, PaceOK, FileOK, Reports, Statuses, FileStates
    <2>2. CmdInit => WritersInv
      BY FileOf DEF CmdInit, WritersInv, WriterTypeOK, WriterOK
    <2> QED
      BY <2>1, <2>2
  <1>2. FilesInv /\ WritersInv /\ [CmdNext]_cmdVars => FilesInv' /\ WritersInv'
    <2> SUFFICES ASSUME FilesInv, WritersInv, [CmdNext]_cmdVars PROVE WritersInv'
      BY FilesKeep
    <2>1. CASE UNCHANGED cmdVars
      BY <2>1 DEF cmdVars, runVars, WritersInv, WriterTypeOK, WriterOK, Relayed
    <2>2. CASE \/ Arrive \/ CancelRequest \/ GroupDone
               \/ \E c \in Cmds : \/ ProcessEnds(c) \/ PutCgroup(c) \/ RelayEnds(c)
                                  \/ Execve(c) \/ ExecveFails(c) \/ Wait(c) \/ Result(c)
      <3>1. UNCHANGED file
        BY <2>2 DEF Arrive, CancelRequest, GroupDone, ProcessEnds, PutCgroup, RelayEnds, Execve,
                    ExecveFails, Wait, Result
      <3> QED
        BY <2>2, <3>1, WritersKeepFiles
    <2>3. CASE \/ StartCmds \/ Consume \/ Abandon
               \/ \E c \in Cmds : PrepareFd(c) \/ PrepareFails(c) \/ CopyIn(c) \/ Collect(c)
                                    \/ ConvertResult(c)
      BY <2>3, WritersKeepOthers
    <2> QED
      BY <2>1, <2>2, <2>3 DEF CmdNext, CmdStep, GroupStep
  <1>3. FilesInv /\ WritersInv => NoLateWriter
    <2> SUFFICES ASSUME FilesInv, WritersInv PROVE NoLateWriter
      OBVIOUS
    <2>1. ASSUME NEW f \in Files, file[f] \in {"result", "cached"}
          PROVE  proc[f[1]] # "live" /\ relay[f[1]] # "copies"
      <3>1. f[1] \in Cmds /\ f[2] \in Names /\ f = <<f[1], f[2]>>
        BY PairOf
      <3> QED
        BY <2>1, <3>1 DEF WritersInv, WriterOK
    <2>2. ASSUME NEW c \in Cmds, proc[c] = "live" PROVE group = "run" /\ cgroup[c] = "held"
      BY <2>2 DEF WritersInv, WriterOK, FilesInv, CmdTypeOK, PaceOK
    <2>3. ASSUME NEW c \in Cmds, group \in {"convert", "answered", "error"} PROVE fds[c] # "open"
      BY <2>3 DEF WritersInv, WriterOK, FilesInv, PaceOK
    <2> QED
      BY <2>1, <2>2, <2>3 DEF NoLateWriter
  <1> QED
    BY <1>1, <1>2, <1>3, PTL DEF CmdSpec
=============================================================================
