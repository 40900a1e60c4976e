---------------------------- MODULE SupportProofs ---------------------------
(***************************************************************************)
(* Proofs about parts of MCSupport, one after the other: the totals of     *)
(* UnitTest++ (TestRunner); the period of a CThreadIt (PeriodTimer); and   *)
(* where the events of log4cpp go: log files (RollingFile, DailyFile),     *)
(* mails (MailSender) and packets (Syslog).  They share no variable.       *)
(***************************************************************************)
EXTENDS TestRunner, PeriodTimer, RollingFile, DailyFile, MailSender, Syslog, ProofLemmas

(***************************************************************************)
(* The runner: the reporters that REQUIRE hangs in front of the results are *)
(* those of the body that runs, which is the body of the last test that     *)
(* was reported to start.                                                   *)
(***************************************************************************)
Reports == [test : Tests, failures : Nat, finished : BOOLEAN]

\* Where a test is being run.
Running == {"fixture", "body", "unwind", "caught", "ending", "finish"}

RunnerInv ==
  /\ RunnerTypeOK /\ ReporterRestored
  /\ stage = "body" => depth <= macros
  /\ list \in Seq(Tests) /\ current \in Seq(Tests) /\ reports \in Seq(Reports)
  /\ stage \in Running => /\ current # <<>> /\ reports # <<>>
                          /\ reports[Len(reports)].test = Head(current)

\* A failure is added to the last report and to no other.
LEMMA FailureReported ==
  ASSUME RunnerInv, stage \in Running, NEW n \in Nat, OnTestFailure(n) \/ (n = 0 /\ NoFailure)
  PROVE  /\ reports' \in Seq(Reports) /\ reports' # <<>> /\ Len(reports') = Len(reports)
         /\ DOMAIN reports' = DOMAIN reports /\ Len(reports) \in DOMAIN reports
         /\ \A i \in DOMAIN reports :
              /\ reports'[i].test = reports[i].test
              /\ reports'[i].failures = reports[i].failures + (IF i = Len(reports) THEN n ELSE 0)
<1>1. /\ reports \in Seq(Reports) /\ reports # <<>> /\ Len(reports) \in DOMAIN reports
      /\ \A i \in DOMAIN reports : reports[i] \in Reports
  <2>1. reports \in Seq(Reports) /\ reports # <<>>
    BY DEF RunnerInv
  <2>2. QED
    BY <2>1, EmptySeq, LenProperties, ElementOfSeq
<1>2. CASE OnTestFailure(n)
  <2> DEFINE k == Len(reports)
             last == [reports[k] EXCEPT !.failures = @ + n]
  <2>1. reports' = [reports EXCEPT ![k] = last]
    BY <1>2 DEF OnTestFailure
  <2>2. /\ last \in Reports /\ last.test = reports[k].test
        /\ last.failures = reports[k].failures + n
    BY <1>1 DEF Reports
  <2> HIDE DEF last, k
  <2>3. /\ reports' \in Seq(Reports) /\ DOMAIN reports' = DOMAIN reports /\ Len(reports') = Len(reports)
    BY <1>1, <2>1, <2>2, ExceptSeq DEF k
  <2>4. \A i \in DOMAIN reports : reports'[i] = IF i = k THEN last ELSE reports[i]
    BY <2>1
  <2>5. \A i \in DOMAIN reports : reports[i].failures \in Nat
    BY <1>1 DEF Reports
  <2>6. reports' # <<>>
    BY <1>1, <2>3, EmptySeq
  <2>7. QED
    BY <1>1, <2>2, <2>3, <2>4, <2>5, <2>6 DEF k
<1>3. CASE n = 0 /\ NoFailure
  BY <1>1, <1>3 DEF NoFailure, Reports
<1>4. QED
  BY <1>2, <1>3

\* A step inside a test that adds n failures to its report.
LEMMA InsideTest ==
  ASSUME RunnerInv, stage \in Running, NEW n \in Nat, OnTestFailure(n) \/ (n = 0 /\ NoFailure),
         stage' \in Running, UNCHANGED <<list, current>>, RunnerTypeOK', ReporterRestored',
         stage' = "body" => depth' <= macros'
  PROVE  RunnerInv'
<1>1. /\ reports' \in Seq(Reports) /\ reports' # <<>> /\ Len(reports') = Len(reports)
      /\ reports'[Len(reports)].test = reports[Len(reports)].test
  BY FailureReported
<1>2. QED
  BY <1>1 DEF RunnerInv

LEMMA RunnerInitInv == RunnerInit => RunnerInv
<1> SUFFICES ASSUME RunnerInit PROVE RunnerInv
  OBVIOUS
<1>1. /\ stage = "static" /\ macros = 0 /\ depth = 0 /\ constraint = FALSE /\ thrown = "nothing"
      /\ exempt = {} /\ expected = FALSE /\ asserted = {}
      /\ list = <<>> /\ current = <<>> /\ reports = <<>>
  BY DEF RunnerInit
<1>2. 0 \in 0..MaxMacros
  BY RunnerAssumption
<1>3. RunnerTypeOK /\ ReporterRestored
  BY <1>1, <1>2 DEF RunnerTypeOK, ReporterRestored
<1>4. <<>> \in Seq(Tests) /\ <<>> \in Seq(Reports)
  BY EmptySeq
<1>5. QED
  BY <1>1, <1>3, <1>4 DEF RunnerInv, Running

\* The macros of a body: a check inside REQUIRE leaves the body when it fails.
LEMMA MacroInv ==
  ASSUME RunnerInv, Macro PROVE RunnerInv'
<1>1. /\ stage = "body" /\ stage \in Running /\ current # <<>> /\ Head(current) \in Tests
      /\ macros \in 0..MaxMacros /\ depth \in 0..MaxMacros /\ depth <= macros
      /\ exempt \subseteq Tests /\ asserted \subseteq Tests /\ RunnerTypeOK
      /\ MaxMacros \in Nat /\ 0 \in Nat /\ 1 \in Nat /\ 2 \in Nat
  <2>1. stage = "body"
    BY DEF Macro, InBody, CheckHolds, Check, CheckAsserts, ProgramAsserts, CheckAssert,
           EnterRequire, LeaveRequire, SetTimeConstraint, EndBody
  <2>2. current # <<>> /\ current \in Seq(Tests)
    BY <2>1 DEF RunnerInv, Running
  <2>3. Head(current) \in Tests
    BY <2>2, HeadTailProperties
  <2>4. QED
    BY <2>1, <2>2, <2>3, RunnerAssumption DEF RunnerInv, RunnerTypeOK, Running
<1>2. PICK n \in Nat : OnTestFailure(n) \/ (n = 0 /\ NoFailure)
  <2>1. \/ \E n \in {0, 1, 2} : OnTestFailure(n)
        \/ NoFailure
    BY DEF Macro, CheckHolds, Check, CheckAsserts, ProgramAsserts, CheckAssert,
           EnterRequire, LeaveRequire, SetTimeConstraint, EndBody, NoFailure
  <2>2. QED
    BY <1>1, <2>1
<1>3. /\ UNCHANGED <<list, current>> /\ stage' \in {"body", "unwind"} /\ thrown' \in {"nothing", "exception", "required check", "assert"}
      /\ exempt' \subseteq Tests /\ asserted' \subseteq Tests
  BY <1>1 DEF Macro, InBody, CheckHolds, Check, CheckAsserts, ProgramAsserts, CheckAssert, ReportAssert,
              EnterRequire, LeaveRequire, SetTimeConstraint, EndBody, LeaveBody, StayInBody, Reported, RunnerTypeOK
<1>4. expected' \in BOOLEAN /\ constraint' \in BOOLEAN
  <2>1. expected \in BOOLEAN /\ constraint \in BOOLEAN
    BY <1>1 DEF RunnerTypeOK
  <2>2. expected' = expected \/ expected' = FALSE \/ (\E fails \in BOOLEAN : CheckAssert(fails))
    BY DEF Macro, CheckHolds, Check, CheckAsserts, ProgramAsserts, ReportAssert,
           EnterRequire, LeaveRequire, SetTimeConstraint, EndBody
  <2>3. (\E fails \in BOOLEAN : CheckAssert(fails)) => expected' \in BOOLEAN
    <3>1. (\E fails \in BOOLEAN : CheckAssert(fails)) => expected' = FALSE \/ expected' = (depth > 0)
      BY DEF CheckAssert
    <3>2. (depth > 0) \in BOOLEAN
      OBVIOUS
    <3>3. QED
      BY <3>1, <3>2
  <2>4. constraint' = constraint \/ constraint' = TRUE
    BY DEF Macro, CheckHolds, Check, CheckAsserts, ProgramAsserts, CheckAssert,
           EnterRequire, LeaveRequire, SetTimeConstraint, EndBody
  <2>5. QED
    BY <2>1, <2>2, <2>3, <2>4
<1>5. macros' \in 0..MaxMacros /\ depth' \in 0..MaxMacros /\ depth' <= macros'
  <2>1. \/ macros' = macros + 1 /\ macros < MaxMacros /\ depth' \in {depth, depth + 1}
        \/ macros' = macros /\ depth > 0 /\ depth' = depth - 1
        \/ macros' = macros /\ depth' = depth
    BY DEF Macro, InBody, CheckHolds, Check, CheckAsserts, ProgramAsserts, CheckAssert,
           EnterRequire, LeaveRequire, SetTimeConstraint, EndBody
  <2>2. QED
    BY <1>1, <2>1
<1>6. RunnerTypeOK' /\ ReporterRestored'
  BY <1>3, <1>4, <1>5 DEF RunnerTypeOK, ReporterRestored
<1>7. stage' \in Running
  BY <1>3 DEF Running
<1>8. QED
  BY <1>1, <1>2, <1>3, <1>5, <1>6, <1>7, InsideTest

LEMMA RunnerNextInv == RunnerInv /\ [RunnerNext]_runnerVars => RunnerInv'
<1> SUFFICES ASSUME RunnerInv, [RunnerNext]_runnerVars PROVE RunnerInv'
  OBVIOUS
<1>1. /\ RunnerTypeOK /\ ReporterRestored /\ MaxMacros \in Nat /\ 0 \in 0..MaxMacros
      /\ list \in Seq(Tests) /\ current \in Seq(Tests) /\ reports \in Seq(Reports)
  BY RunnerAssumption DEF RunnerInv
<1>2. ASSUME NEW t \in Tests, AddTest(t) PROVE RunnerInv'
  <2>1. list' \in Seq(Tests)
    BY <1>1, <1>2, AppendProperties DEF AddTest
  <2>2. QED
    BY <2>1, <1>2 DEF AddTest, RunnerInv, RunnerTypeOK, ReporterRestored, bodyVars, Running
<1>3. ASSUME NEW s, NEW max, RunTestsIf(s, max) PROVE RunnerInv'
  <2>1. depth = 0
    BY <1>1, <1>3 DEF RunTestsIf, ReporterRestored
  <2>2. QED
    BY <2>1, <1>3 DEF RunTestsIf, RunnerInv, RunnerTypeOK, ReporterRestored, bodyVars, Running
<1>4. CASE RunTest
  <2>1. /\ stage = "next" /\ current # <<>> /\ depth' = 0 /\ macros' = 0
        /\ constraint' = FALSE /\ thrown' = "nothing" /\ UNCHANGED <<list, exempt, expected, asserted>>
    BY <1>1, <1>4 DEF RunTest, ReporterRestored
  <2>2. Head(current) \in Tests /\ Tail(current) \in Seq(Tests)
    BY <1>1, <2>1, HeadTailProperties
  <2>3. constraint' \in BOOLEAN
    BY <2>1
  <2>4. CASE NoFailure /\ current' = Tail(current) /\ UNCHANGED stage
    <3>1. RunnerTypeOK' /\ ReporterRestored'
      BY <1>1, <2>1, <2>3, <2>4 DEF RunnerTypeOK, ReporterRestored
    <3>2. QED
      BY <1>1, <2>1, <2>2, <2>4, <3>1 DEF RunnerInv, NoFailure, Running
  <2>5. CASE OnTestStart /\ stage' \in {"fixture", "body"} /\ UNCHANGED current
    <3>1. RunnerTypeOK' /\ ReporterRestored'
      BY <1>1, <2>1, <2>3, <2>5 DEF RunnerTypeOK, ReporterRestored
    <3> DEFINE r == NewReport(Head(current))
    <3>2. reports' = Append(reports, r) /\ r \in Reports /\ r.test = Head(current)
      BY <2>2, <2>5 DEF OnTestStart, NewReport, Reports
    <3> HIDE DEF r
    <3>3. /\ reports' \in Seq(Reports) /\ Len(reports') = Len(reports) + 1
          /\ reports'[Len(reports) + 1] = r /\ Len(reports) \in Nat
      BY <1>1, <3>2, AppendProperties, LenProperties
    <3>4. reports' # <<>>
      BY <3>3, EmptySeq
    <3>5. stage' = "body" => depth' <= macros'
      BY <2>1
    <3>6. QED
      BY <1>1, <2>1, <2>5, <3>1, <3>2, <3>3, <3>4, <3>5 DEF RunnerInv
  <2>6. QED
    BY <1>4, <2>4, <2>5 DEF RunTest
<1>5. CASE ConstructFixture
  <2>1. PICK n \in {0, 1, 2} : OnTestFailure(n) \/ (n = 0 /\ NoFailure)
    BY <1>5 DEF ConstructFixture
  <2>2. /\ stage = "fixture" /\ stage' \in {"body", "ending"} /\ UNCHANGED <<list, current>>
        /\ UNCHANGED <<bodyVars, exempt, expected, asserted>> /\ depth = 0 /\ macros \in 0..MaxMacros
    BY <1>1, <1>5 DEF ConstructFixture, ReporterRestored, RunnerTypeOK
  <2>3. RunnerTypeOK' /\ ReporterRestored' /\ stage \in Running /\ stage' \in Running
    BY <1>1, <2>2 DEF RunnerTypeOK, ReporterRestored, bodyVars, Running
  <2>4. depth' <= macros' /\ n \in Nat
    BY <1>1, <2>2 DEF bodyVars
  <2>5. QED
    BY <2>1, <2>2, <2>3, <2>4, InsideTest
<1>6. ASSUME NEW slow \in BOOLEAN, Unwind(slow) \/ CheckTime(slow) \/ ExecuteTest PROVE RunnerInv'
  <2>1. PICK n \in {0, 1} : OnTestFailure(n) \/ (n = 0 /\ NoFailure)
    BY <1>6 DEF Unwind, CheckTime, ExecuteTest
  <2>2. /\ stage \in {"unwind", "ending", "caught"} /\ stage' \in {"caught", "finish", "ending"}
        /\ UNCHANGED <<list, current, macros, constraint, thrown, exempt, expected, asserted>>
        /\ depth' = 0
    BY <1>1, <1>6 DEF Unwind, CheckTime, ExecuteTest, bodyVars, ReporterRestored
  <2>3. RunnerTypeOK' /\ ReporterRestored' /\ stage \in Running /\ stage' \in Running
    BY <1>1, <2>2 DEF RunnerTypeOK, ReporterRestored, Running
  <2>4. (stage' = "body" => depth' <= macros') /\ n \in Nat
    BY <2>2
  <2>5. QED
    BY <2>1, <2>2, <2>3, <2>4, InsideTest
<1>7. CASE FinishTest
  <2>1. /\ stage = "finish" /\ stage' = "next" /\ current' = Tail(current) /\ current # <<>>
        /\ UNCHANGED <<list, bodyVars, exempt, expected, asserted>> /\ reports # <<>>
        /\ reports' = [reports EXCEPT ![Len(reports)] = [@ EXCEPT !.finished = TRUE]]
    BY <1>7 DEF FinishTest, OnTestFinish, RunnerInv, Running
  <2>2. Tail(current) \in Seq(Tests)
    BY <1>1, <2>1, HeadTailProperties
  <2>3. reports' \in Seq(Reports)
    <3>1. Len(reports) \in 1..Len(reports)
      BY <1>1, <2>1, EmptySeq
    <3>2. reports[Len(reports)] \in Reports
      BY <1>1, <3>1, ElementOfSeq
    <3>3. [reports[Len(reports)] EXCEPT !.finished = TRUE] \in Reports
      BY <3>2 DEF Reports
    <3>4. QED
      BY <1>1, <2>1, <3>1, <3>3, ExceptSeq
  <2>4. RunnerTypeOK' /\ ReporterRestored'
    BY <1>1, <2>1 DEF RunnerTypeOK, ReporterRestored, bodyVars
  <2>5. QED
    BY <1>1, <2>1, <2>2, <2>3, <2>4 DEF RunnerInv, Running
<1>8. CASE Finish
  BY <1>8 DEF Finish, RunnerInv, RunnerTypeOK, ReporterRestored, bodyVars, Running
<1>9. CASE UNCHANGED runnerVars
  BY <1>9 DEF runnerVars, RunnerInv, RunnerTypeOK, ReporterRestored, bodyVars
<1>10. QED
  <2>1. TRUE \in BOOLEAN
    OBVIOUS
  <2>2. QED
    BY <1>2, <1>3, <1>4, <1>5, <1>6, <1>7, <1>8, <1>9, <2>1, MacroInv DEF RunnerNext

\* The reporters of REQUIRE are gone when the test is reported finished, and
\* when the next one starts (RequiredCheckTestReporter.cpp:19): no failure
\* outside a body throws.
THEOREM ReporterIsRestored == RunnerSpec => [](RunnerTypeOK /\ ReporterRestored)
<1>1. RunnerInv => RunnerTypeOK /\ ReporterRestored
  BY DEF RunnerInv
<1>2. QED
  BY <1>1, RunnerInitInv, RunnerNextInv, PTL DEF RunnerSpec

\* Inside REQUIRE a failure is the only one and ends the body, whichever macro
\* it comes from (ThrowingTestReporter.cpp:36).
THEOREM RequireEnds == RunnerSpec => RequireEndsBody
<1>1. ASSUME RunnerInv, [RunnerNext]_runnerVars,
             stage = "body", depth > 0, results'.failures # results.failures
      PROVE  results'.failures = results.failures + 1 /\ stage' = "unwind"
  <2>1. Macro
    BY <1>1 DEF RunnerNext, runnerVars, AddTest, RunTestsIf, RunTest, ConstructFixture,
                Unwind, CheckTime, ExecuteTest, FinishTest, Finish
  <2>2. OnTestFailure(1) /\ stage' = "unwind"
    BY <1>1, <2>1 DEF Macro, CheckHolds, Check, CheckAsserts, ProgramAsserts, CheckAssert,
       EnterRequire, LeaveRequire, SetTimeConstraint, EndBody, NoFailure, Reported, LeaveBody
  <2>3. QED
    BY <1>1, <2>2 DEF OnTestFailure
<1>2. RunnerInv /\ [RunnerNext]_runnerVars =>
        [stage = "body" /\ depth > 0 /\ results'.failures # results.failures =>
           results'.failures = results.failures + 1 /\ stage' = "unwind"]_runnerVars
  BY <1>1
<1>3. QED
  BY <1>2, RunnerInitInv, RunnerNextInv, PTL DEF RunnerSpec, RequireEndsBody

\* Where no body uses CHECK_ASSERT inside REQUIRE the flag of CHECK_ASSERT never
\* outlives it, and an assert that fails leaves its test failed
\* (ReportAssert.cpp:45), whatever the tests before it did.
AssertsKnown == RunnerInv /\ ~expected /\ AssertsCounted

\* A step takes no report and no failure back.
Grown ==
  \A i \in DOMAIN reports : /\ i \in DOMAIN reports'
                            /\ reports'[i].test = reports[i].test
                            /\ reports'[i].failures \in Nat
                            /\ reports'[i].failures >= reports[i].failures

THEOREM FailedAsserts == ~RequireAsserts /\ RunnerSpec => []AssertsCounted
<1> SUFFICES ASSUME ~RequireAsserts PROVE RunnerSpec => []AssertsCounted
  OBVIOUS
<1>1. RunnerInit => AssertsKnown
  <2>1. RunnerInit => ~expected /\ AssertsCounted
    BY DEF RunnerInit, AssertsCounted
  <2>2. QED
    BY <2>1, RunnerInitInv DEF AssertsKnown
<1>2. AssertsKnown /\ [RunnerNext]_runnerVars => AssertsKnown'
  <2> SUFFICES ASSUME AssertsKnown, [RunnerNext]_runnerVars PROVE AssertsKnown'
    OBVIOUS
  <2>1. RunnerInv /\ RunnerInv' /\ ~expected /\ AssertsCounted
    BY RunnerNextInv DEF AssertsKnown
  <2>2. ~expected'
    <3>1. CASE \E fails \in BOOLEAN : CheckAssert(fails)
      <4>1. ~(depth > 0)
        BY <3>1 DEF CheckAssert
      <4>2. expected' = FALSE \/ expected' = (depth > 0)
        BY <3>1 DEF CheckAssert
      <4>3. QED
        BY <4>1, <4>2
    <3>2. CASE ~ \E fails \in BOOLEAN : CheckAssert(fails)
      BY <2>1, <3>2 DEF RunnerNext, runnerVars, AddTest, RunTestsIf, RunTest, ConstructFixture,
         Unwind, CheckTime, ExecuteTest, FinishTest, Finish, Macro, CheckHolds, Check, CheckAsserts,
         ProgramAsserts, ReportAssert, EnterRequire, LeaveRequire, SetTimeConstraint, EndBody
    <3>3. QED
      BY <3>1, <3>2
  <2>3. /\ reports \in Seq(Reports) /\ Len(reports) \in Nat /\ DOMAIN reports = 1..Len(reports)
        /\ \A i \in DOMAIN reports : reports[i] \in Reports /\ reports[i].failures \in Nat
    <3>1. /\ reports \in Seq(Reports) /\ Len(reports) \in Nat /\ DOMAIN reports = 1..Len(reports)
      BY <2>1, LenProperties DEF RunnerInv
    <3>2. \A i \in DOMAIN reports : reports[i] \in Reports
      BY <3>1, ElementOfSeq
    <3>3. QED
      BY <3>1, <3>2 DEF Reports
  <2>4. UNCHANGED asserted /\ Grown => AssertsCounted'
    BY <2>1, <2>3 DEF AssertsCounted, Grown
  <2>5. ASSUME stage \in Running /\ \E n \in Nat : OnTestFailure(n) \/ (n = 0 /\ NoFailure)
      PROVE  AssertsCounted'
    <3>1. PICK n \in Nat : OnTestFailure(n) \/ (n = 0 /\ NoFailure)
      BY <2>5
    <3>2. /\ DOMAIN reports' = DOMAIN reports /\ Len(reports) \in DOMAIN reports
          /\ \A i \in DOMAIN reports :
               /\ reports'[i].test = reports[i].test
               /\ reports'[i].failures = reports[i].failures + (IF i = Len(reports) THEN n ELSE 0)
      BY <2>1, <2>5, <3>1, FailureReported
    <3>3. Grown
      BY <2>3, <3>1, <3>2 DEF Grown
    <3>4. CASE UNCHANGED asserted
      BY <2>4, <3>3, <3>4
    <3>5. CASE asserted' # asserted
      <4>1. CheckAsserts \/ ProgramAsserts
        BY <3>5 DEF RunnerNext, runnerVars, AddTest, RunTestsIf, RunTest, ConstructFixture,
           Unwind, CheckTime, ExecuteTest, FinishTest, Finish, Macro, CheckHolds, Check, CheckAssert,
           EnterRequire, LeaveRequire, SetTimeConstraint, EndBody, bodyVars
      <4>2. /\ asserted' = asserted \cup {Head(current)}
            /\ stage \in Running /\ (OnTestFailure(1) \/ OnTestFailure(2))
        BY <2>1, <2>5, <4>1 DEF CheckAsserts, ProgramAsserts, ReportAssert
      <4>3. PICK k \in {1, 2} : OnTestFailure(k)
        BY <4>2
      <4>4. /\ reports'[Len(reports)].test = Head(current)
            /\ reports'[Len(reports)].failures = reports[Len(reports)].failures + k
        <5>1. k \in Nat /\ reports[Len(reports)].test = Head(current)
          BY <2>1, <4>2 DEF RunnerInv
        <5>2. QED
          BY <2>1, <3>2, <4>2, <4>3, <5>1, FailureReported
      <4>5. reports'[Len(reports)].failures > 0
        BY <2>3, <3>2, <4>4
      <4>6. \A t \in asserted : \E i \in DOMAIN reports' :
               reports'[i].test = t /\ reports'[i].failures > 0
        BY <2>1, <2>3, <3>2, <3>3 DEF AssertsCounted, Grown
      <4>7. Len(reports) \in DOMAIN reports'
        BY <3>2
      <4>8. QED
        BY <4>2, <4>4, <4>5, <4>6, <4>7 DEF AssertsCounted
    <3>6. QED
      BY <3>4, <3>5
  <2>6. ASSUME UNCHANGED <<reports, asserted>>
      PROVE  AssertsCounted'
    <3>1. Grown
      BY <2>3, <2>6 DEF Grown
    <3>2. QED
      BY <2>4, <2>6, <3>1
  <2>7. ASSUME RunTest /\ OnTestStart
      PROVE  AssertsCounted'
    <3>1. PICK r : reports' = Append(reports, r) /\ r \in Reports
      <4>1. current # <<>> /\ current \in Seq(Tests)
        BY <2>1, <2>7 DEF RunTest, RunnerInv
      <4>2. Head(current) \in Tests
        BY <4>1, HeadTailProperties
      <4>3. NewReport(Head(current)) \in Reports
        BY <4>2 DEF NewReport, Reports
      <4>4. QED
        BY <2>7, <4>3 DEF OnTestStart
    <3>2. DOMAIN reports' = 1..(Len(reports) + 1) /\ \A i \in 1..Len(reports) : reports'[i] = reports[i]
      BY <2>3, <3>1, AppendProperties, LenProperties
    <3>3. UNCHANGED asserted
      BY <2>7 DEF RunTest
    <3>4. \A i \in DOMAIN reports : i \in DOMAIN reports' /\ reports'[i] = reports[i]
      BY <2>3, <3>2
    <3>5. Grown
      BY <2>3, <3>4 DEF Grown
    <3>6. QED
      BY <2>4, <3>3, <3>5
  <2>8. ASSUME FinishTest
      PROVE  AssertsCounted'
    <3>1. UNCHANGED asserted /\ reports' = [reports EXCEPT ![Len(reports)] = [@ EXCEPT !.finished = TRUE]]
      BY <2>8 DEF FinishTest, OnTestFinish
    <3>2. \A i \in DOMAIN reports : reports'[i].test = reports[i].test /\ reports'[i].failures = reports[i].failures
      BY <2>3, <3>1 DEF Reports
    <3>3. DOMAIN reports' = DOMAIN reports
      BY <3>1
    <3>4. Grown
      BY <2>3, <3>2, <3>3 DEF Grown
    <3>5. QED
      BY <2>4, <3>1, <3>4
  <2>9. QED
    <3>1. \/ stage \in Running /\ \E n \in {0, 1, 2} : OnTestFailure(n)
          \/ UNCHANGED <<reports, asserted>>
          \/ RunTest /\ OnTestStart
          \/ FinishTest
          \/ Macro /\ NoFailure /\ stage = "body"
      BY DEF RunnerNext, runnerVars, AddTest, RunTestsIf, RunTest, ConstructFixture,
         Unwind, CheckTime, ExecuteTest, Finish, Macro, InBody, CheckHolds, Check, CheckAsserts,
         ProgramAsserts, CheckAssert, EnterRequire, LeaveRequire, SetTimeConstraint, EndBody,
         NoFailure, Running
    <3>2. "body" \in Running
      BY DEF Running
    <3>3. QED
      BY <2>1, <2>2, <2>5, <2>6, <2>7, <2>8, <3>1, <3>2 DEF AssertsKnown
<1>3. AssertsKnown => AssertsCounted
  BY DEF AssertsKnown
<1>4. QED
  BY <1>1, <1>2, <1>3, PTL DEF RunnerSpec
\* The summary: f[n] is the number of failures in the first n reports.
FailuresUpTo(f, rs) ==
  /\ f \in [0 .. Len(rs) -> Nat] /\ f[0] = 0
  /\ \A n \in 1 .. Len(rs) : f[n] = f[n - 1] + rs[n].failures

Failed(rs) == {i \in DOMAIN rs : rs[i].failures > 0}

Totals == [total : Nat, failedTests : Nat, failures : Nat, currentFailed : BOOLEAN]

CountsKnown ==
  /\ RunnerInv /\ results \in Totals
  /\ results.total = Len(reports)
  /\ results.failedTests = Cardinality(Failed(reports))
  /\ \E f : FailuresUpTo(f, reports) /\ f[Len(reports)] = results.failures
  /\ stage \in Running => (results.currentFailed <=> Len(reports) \in Failed(reports))

LEMMA FailuresAreSummed ==
  ASSUME NEW rs \in Seq(Reports), NEW f, FailuresUpTo(f, rs)
  PROVE  LET Sum[i \in 0 .. Len(rs)] == IF i = 0 THEN 0 ELSE Sum[i - 1] + rs[i].failures
         IN  Sum[Len(rs)] = f[Len(rs)]
<1> DEFINE N == Len(rs)
           Sum == CHOOSE g : g = [i \in 0 .. N |-> IF i = 0 THEN 0 ELSE g[i - 1] + rs[i].failures]
<1>1. N \in Nat /\ f = [i \in 0 .. N |-> IF i = 0 THEN 0 ELSE f[i - 1] + rs[i].failures]
  <2>1. N \in Nat /\ f \in [0 .. N -> Nat] /\ f[0] = 0 /\ \A n \in 1 .. N : f[n] = f[n - 1] + rs[n].failures
    BY LenProperties DEF FailuresUpTo
  <2>2. f = [i \in 0 .. N |-> f[i]]
    BY <2>1
  <2> HIDE DEF N
  <2>3. \A i \in 0 .. N : i = 0 \/ i \in 1 .. N
    BY <2>1
  <2>4. QED
    BY <2>1, <2>2, <2>3
<1>2. Sum = [i \in 0 .. N |-> IF i = 0 THEN 0 ELSE Sum[i - 1] + rs[i].failures]
  BY <1>1
<1> HIDE DEF Sum, N
<1> DEFINE T == {n \in Nat : n <= N => Sum[n] = f[n]}
<1>3. 0 \in T
  BY <1>1, <1>2
<1>4. ASSUME NEW n \in Nat, n \in T, n + 1 <= N PROVE Sum[n + 1] = f[n + 1]
  <2>2. n + 1 \in 0 .. N /\ n + 1 # 0 /\ (n + 1) - 1 = n /\ Sum[n] = f[n]
    BY <1>1, <1>4
  <2>3. Sum[n + 1] = Sum[n] + rs[n + 1].failures
    BY <1>2, <2>2
  <2>4. f[n + 1] = f[n] + rs[n + 1].failures
    BY <1>1, <2>2
  <2>5. QED
    BY <2>2, <2>3, <2>4
<1>5. Nat \subseteq T
  <2>1. \A n \in Nat : n \in T => n + 1 \in T
    <3>1. \A n \in Nat : n + 1 \in Nat
      OBVIOUS
    <3>2. QED
      BY <1>4, <3>1, Zenon
  <2> HIDE DEF T
  <2>2. QED
    BY <1>3, <2>1, Induction
<1>6. Sum[N] = f[N]
  <2>1. N \in T /\ N <= N
    BY <1>1, <1>5
  <2>2. QED
    BY <2>1
<1>7. QED
  BY <1>6 DEF Sum, N

LEMMA CountsKnown_Init == RunnerInit => CountsKnown
<1> SUFFICES ASSUME RunnerInit PROVE CountsKnown
  OBVIOUS
<1>1. reports = <<>> /\ stage = "static"
      /\ results = [total |-> 0, failedTests |-> 0, failures |-> 0, currentFailed |-> FALSE]
  BY DEF RunnerInit
<1>2. results \in Totals /\ Len(reports) = 0
  BY <1>1 DEF Totals
<1>3. Failed(reports) = {}
  BY <1>1 DEF Failed
<1>4. Cardinality(Failed(reports)) = 0
  BY <1>3, FS_EmptySet
<1>5. PICK f : f = [i \in 0 .. 0 |-> 0]
  OBVIOUS
<1>6. FailuresUpTo(f, reports) /\ f[0] = 0
  BY <1>2, <1>5 DEF FailuresUpTo
<1>7. QED
  BY <1>1, <1>2, <1>4, <1>6, RunnerInitInv DEF CountsKnown, Running

LEMMA CountsKnown_Step == CountsKnown /\ [RunnerNext]_runnerVars => CountsKnown'
<1> SUFFICES ASSUME CountsKnown, [RunnerNext]_runnerVars PROVE CountsKnown'
  OBVIOUS
<1>1. RunnerInv /\ RunnerInv' /\ results \in Totals
  BY RunnerNextInv DEF CountsKnown
<1>2. /\ reports \in Seq(Reports) /\ Len(reports) \in Nat /\ DOMAIN reports = 1 .. Len(reports)
      /\ \A i \in 1 .. Len(reports) : reports[i] \in Reports /\ reports[i].failures \in Nat
  <2>1. reports \in Seq(Reports) /\ Len(reports) \in Nat /\ DOMAIN reports = 1 .. Len(reports)
    BY <1>1, LenProperties DEF RunnerInv
  <2>2. \A i \in DOMAIN reports : reports[i] \in Reports
    BY <2>1, ElementOfSeq
  <2>3. QED
    BY <2>1, <2>2 DEF Reports
<1>3. PICK f : FailuresUpTo(f, reports) /\ f[Len(reports)] = results.failures
  BY DEF CountsKnown
<1>4. /\ f \in [0 .. Len(reports) -> Nat] /\ f[0] = 0
      /\ \A n \in 1 .. Len(reports) : f[n] = f[n - 1] + reports[n].failures
  BY <1>3 DEF FailuresUpTo
<1>5. /\ results.total = Len(reports) /\ results.failedTests = Cardinality(Failed(reports))
      /\ stage \in Running => (results.currentFailed <=> Len(reports) \in Failed(reports))
  BY DEF CountsKnown
<1>6. IsFiniteSet(Failed(reports))
  <2>1. IsFiniteSet(1 .. Len(reports))
    BY <1>2, FS_Interval
  <2>2. Failed(reports) \subseteq 1 .. Len(reports)
    BY <1>2 DEF Failed
  <2>3. QED
    BY <2>1, <2>2, FS_Subset
\* The reports keep their failures, and the totals stay.
<1>7. ASSUME DOMAIN reports' = DOMAIN reports, Len(reports') = Len(reports), results' = results,
             \A i \in 1 .. Len(reports) : reports'[i].failures = reports[i].failures,
             stage' \in Running => stage \in Running
      PROVE  CountsKnown'
  <2>1. Failed(reports') = Failed(reports)
    BY <1>2, <1>7 DEF Failed
  <2>2. FailuresUpTo(f, reports')
    BY <1>4, <1>7 DEF FailuresUpTo
  <2>3. QED
    BY <1>1, <1>3, <1>5, <1>7, <2>1, <2>2 DEF CountsKnown
<1>8. ASSUME stage \in Running, NEW n \in {1, 2}, OnTestFailure(n) PROVE CountsKnown'
  <2>1. /\ n \in Nat /\ n > 0 /\ OnTestFailure(n)
    BY <1>8
  <2>2. /\ Len(reports') = Len(reports) /\ DOMAIN reports' = DOMAIN reports /\ Len(reports) \in DOMAIN reports
        /\ \A i \in DOMAIN reports :
             reports'[i].failures = reports[i].failures + (IF i = Len(reports) THEN n ELSE 0)
    BY <1>1, <1>8, <2>1, FailureReported
  <2>3. PICK k \in Nat : k = Len(reports) /\ k \in 1 .. k
    BY <1>2, <2>2
  <2>4. reports'[k].failures = reports[k].failures + n /\ reports'[k].failures > 0 /\ reports[k].failures \in Nat
    <3>1. k \in DOMAIN reports /\ reports[k].failures \in Nat
      BY <1>2, <2>2, <2>3
    <3>2. reports'[k].failures = reports[k].failures + n
      BY <2>2, <2>3, <3>1
    <3>3. QED
      BY <2>1, <3>1, <3>2
  <2>5. ASSUME NEW i \in 1 .. k, i # k PROVE reports'[i].failures = reports[i].failures
    <3>1. i \in DOMAIN reports /\ i # Len(reports) /\ reports[i].failures \in Nat
      BY <1>2, <2>3, <2>5
    <3>2. reports'[i].failures = reports[i].failures + 0
      BY <2>2, <3>1
    <3>3. QED
      BY <3>1, <3>2
  <2>6. PICK g : g = [f EXCEPT ![k] = @ + n]
    OBVIOUS
  <2>7. FailuresUpTo(g, reports') /\ g[Len(reports')] = results.failures + n
    <3>1. g \in [0 .. k -> Nat] /\ g[0] = 0 /\ g[k] = f[k] + n /\ f[k] \in Nat /\ \A i \in 0 .. k - 1 : g[i] = f[i]
      BY <1>4, <2>1, <2>3, <2>6
    <3>2. ASSUME NEW i \in 1 .. k PROVE g[i] = g[i - 1] + reports'[i].failures
      <4>1. i - 1 \in 0 .. k - 1 /\ i \in 1 .. Len(reports)
        BY <2>3
      <4>2. f[i] = f[i - 1] + reports[i].failures /\ f[i - 1] \in Nat /\ g[i - 1] = f[i - 1]
        BY <1>4, <2>3, <3>1, <4>1
      <4>3. CASE i = k
        <5>1. g[i] = (f[i - 1] + reports[i].failures) + n
          BY <3>1, <4>2, <4>3
        <5>2. QED
          BY <2>1, <2>4, <4>2, <4>3, <5>1
      <4>4. CASE i # k
        <5>1. i \in 0 .. k - 1
          BY <2>3, <4>4
        <5>2. QED
          BY <2>5, <3>1, <4>2, <4>4, <5>1
      <4>5. QED
        BY <4>3, <4>4
    <3>3. FailuresUpTo(g, reports')
      BY <2>2, <2>3, <3>1, <3>2 DEF FailuresUpTo
    <3>4. QED
      BY <1>3, <2>2, <2>3, <3>1, <3>3
  <2>8. Failed(reports') = Failed(reports) \cup {k}
    <3>1. DOMAIN reports' = 1 .. k /\ DOMAIN reports = 1 .. k
      BY <1>2, <2>2, <2>3
    <3>2. \A i \in 1 .. k : reports'[i].failures > 0 <=> i = k \/ reports[i].failures > 0
      BY <2>4, <2>5
    <3>3. QED
      BY <2>3, <3>1, <3>2 DEF Failed
  <2>9. /\ results'.total = results.total /\ results'.failures = results.failures + n /\ results'.currentFailed = TRUE
        /\ results'.failedTests = IF results.currentFailed THEN results.failedTests ELSE results.failedTests + 1
        /\ results' \in Totals
    <3>1. PICK r \in Totals : r = results
      BY <1>1
    <3>2. PICK ft : ft = IF r.currentFailed THEN r.failedTests ELSE r.failedTests + 1
      OBVIOUS
    <3>3. results' = [r EXCEPT !.failures = @ + n, !.currentFailed = TRUE, !.failedTests = ft]
      BY <2>1, <3>1, <3>2 DEF OnTestFailure
    <3>4. ft \in Nat
      BY <3>2 DEF Totals
    <3>5. results' = [total |-> r.total, failedTests |-> ft, failures |-> r.failures + n, currentFailed |-> TRUE]
      BY <3>3 DEF Totals
    <3>6. r.total \in Nat /\ r.failures + n \in Nat
      BY <2>1 DEF Totals
    <3>7. results' \in Totals
      BY <3>4, <3>5, <3>6 DEF Totals
    <3>8. QED
      BY <3>1, <3>2, <3>5, <3>7
  <2>10. results'.failedTests = Cardinality(Failed(reports'))
    <3>1. CASE results.currentFailed
      <4>1. k \in Failed(reports)
        BY <1>5, <1>8, <2>3, <3>1
      <4>2. QED
        BY <1>5, <2>8, <2>9, <3>1, <4>1
    <3>2. CASE ~results.currentFailed
      <4>1. k \notin Failed(reports)
        BY <1>5, <1>8, <2>3, <3>2
      <4>2. Cardinality(Failed(reports) \cup {k}) = Cardinality(Failed(reports)) + 1
        BY <1>6, <4>1, FS_AddElement
      <4>3. QED
        BY <1>5, <2>8, <2>9, <3>2, <4>2
    <3>3. QED
      BY <3>1, <3>2
  <2>11. \E h : FailuresUpTo(h, reports') /\ h[Len(reports')] = results'.failures
    BY <2>7, <2>9
  <2>12. Len(reports') \in Failed(reports')
    BY <2>2, <2>3, <2>8
  <2>13. results'.total = Len(reports')
    BY <1>5, <2>2, <2>9
  <2>14. QED
    BY <1>1, <2>9, <2>10, <2>11, <2>12, <2>13 DEF CountsKnown
<1>9. CASE RunTest /\ OnTestStart
  <2>1. PICK r \in Reports : reports' = Append(reports, r) /\ r.failures = 0
    <3>1. current # <<>> /\ current \in Seq(Tests)
      BY <1>1, <1>9 DEF RunTest, RunnerInv
    <3>2. Head(current) \in Tests
      BY <3>1, HeadTailProperties
    <3>3. NewReport(Head(current)) \in Reports /\ NewReport(Head(current)).failures = 0
      BY <3>2 DEF NewReport, Reports
    <3>4. QED
      BY <1>9, <3>3 DEF OnTestStart
  <2>2. PICK k \in Nat : k = Len(reports)
    BY <1>2
  <2>3. /\ Len(reports') = k + 1 /\ DOMAIN reports' = 1 .. k + 1
        /\ \A i \in 1 .. k : reports'[i] = reports[i]
        /\ reports'[k + 1] = r
    BY <1>2, <2>1, <2>2, AppendProperties, LenProperties
  <2>4. PICK g : g = [i \in 0 .. k + 1 |-> IF i = k + 1 THEN f[k] ELSE f[i]]
    OBVIOUS
  <2>5. /\ g \in [0 .. k + 1 -> Nat] /\ g[0] = 0 /\ g[k + 1] = f[k] /\ f[k] \in Nat
        /\ \A i \in 0 .. k : g[i] = f[i]
    BY <1>4, <2>2, <2>4
  <2>6. ASSUME NEW i \in 1 .. k + 1 PROVE g[i] = g[i - 1] + reports'[i].failures
    <3>1. CASE i = k + 1
      <4>1. i - 1 = k /\ k \in 0 .. k
        BY <3>1
      <4>2. g[i - 1] = f[k] /\ g[i] = f[k] /\ reports'[i].failures = 0
        BY <2>1, <2>3, <2>5, <3>1, <4>1
      <4>3. QED
        BY <2>5, <4>2
    <3>2. CASE i # k + 1
      <4>1. i \in 1 .. k /\ i \in 0 .. k /\ i - 1 \in 0 .. k
        BY <3>2
      <4>2. f[i] = f[i - 1] + reports[i].failures
        BY <1>4, <2>2, <4>1
      <4>3. QED
        BY <2>3, <2>5, <4>1, <4>2
    <3>3. QED
      BY <3>1, <3>2
  <2>7. FailuresUpTo(g, reports')
    BY <2>3, <2>5, <2>6 DEF FailuresUpTo
  <2>8. /\ Failed(reports') = Failed(reports) /\ Len(reports') \notin Failed(reports')
    <3>1. ~(r.failures > 0) /\ k + 1 \notin 1 .. k /\ \A i \in 1 .. k + 1 : i = k + 1 \/ i \in 1 .. k
      BY <2>1
    <3>2. \A i \in 1 .. k + 1 : reports'[i].failures > 0 <=> i \in 1 .. k /\ reports[i].failures > 0
      BY <2>3, <3>1
    <3>3. \A i \in 1 .. k : i \in 1 .. k + 1
      OBVIOUS
    <3>4. QED
      BY <1>2, <2>2, <2>3, <3>1, <3>2, <3>3 DEF Failed
  <2>9. /\ results'.total = results.total + 1 /\ results'.failures = results.failures
        /\ results'.currentFailed = FALSE /\ results'.failedTests = results.failedTests /\ results' \in Totals
    <3>1. PICK x \in Totals : x = results
      BY <1>1
    <3>2. results' = [x EXCEPT !.total = @ + 1, !.currentFailed = FALSE]
      BY <1>9, <3>1 DEF OnTestStart
    <3>3. results' = [total |-> x.total + 1, failedTests |-> x.failedTests, failures |-> x.failures, currentFailed |-> FALSE]
      BY <3>2 DEF Totals
    <3>4. x.total + 1 \in Nat /\ x.failedTests \in Nat /\ x.failures \in Nat
      BY DEF Totals
    <3>5. results' \in Totals
      BY <3>3, <3>4 DEF Totals
    <3>6. QED
      BY <3>1, <3>3, <3>5
  <2>10. \E h : FailuresUpTo(h, reports') /\ h[Len(reports')] = results'.failures
    BY <1>3, <2>2, <2>3, <2>5, <2>7, <2>9
  <2>11. QED
    BY <1>1, <1>5, <2>2, <2>3, <2>8, <2>9, <2>10 DEF CountsKnown
<1>10. CASE FinishTest
  <2>1. /\ reports' = [reports EXCEPT ![Len(reports)] = [@ EXCEPT !.finished = TRUE]]
        /\ stage' = "next" /\ results' = results
    BY <1>10 DEF FinishTest, OnTestFinish
  <2>2. \A i \in 1 .. Len(reports) : reports'[i].failures = reports[i].failures
    BY <1>2, <2>1 DEF Reports
  <2>3. DOMAIN reports' = DOMAIN reports
    BY <2>1
  <2>4. reports' \in Seq(Reports)
    BY <1>1 DEF RunnerInv
  <2>5. Len(reports') \in Nat /\ DOMAIN reports' = 1 .. Len(reports')
    BY <2>4, LenProperties
  <2>6. \A m, l \in Nat : 1 .. m = 1 .. l => m = l
    <3>1. SUFFICES ASSUME NEW m \in Nat, NEW l \in Nat, 1 .. m = 1 .. l PROVE m = l
      OBVIOUS
    <3>2. m = 0 \/ m \in 1 .. l
      BY <3>1
    <3>3. l = 0 \/ l \in 1 .. m
      BY <3>1
    <3>4. QED
      BY <3>2, <3>3
  <2>7. Len(reports') = Len(reports)
    BY <1>2, <2>3, <2>5, <2>6
  <2>8. QED
    BY <1>7, <2>1, <2>2, <2>3, <2>7 DEF Running
<1>11. CASE UNCHANGED <<reports, results>> /\ (stage' \in Running => stage \in Running)
  BY <1>7, <1>11
<1>12. QED
  <2>1. \/ stage \in Running /\ \E n \in {1, 2} : OnTestFailure(n)
        \/ UNCHANGED <<reports, results>> /\ (stage' \in Running => stage \in Running)
        \/ RunTest /\ OnTestStart
        \/ FinishTest
    BY DEF RunnerNext, runnerVars, AddTest, RunTestsIf, RunTest, ConstructFixture,
       Unwind, CheckTime, ExecuteTest, Finish, Macro, InBody, CheckHolds, Check, CheckAsserts,
       ProgramAsserts, CheckAssert, EnterRequire, LeaveRequire, SetTimeConstraint, EndBody,
       NoFailure, Running
  <2>2. QED
    BY <1>8, <1>9, <1>10, <1>11, <2>1

\* The totals of the summary are those of the list of reports
\* (TestRunner.cpp:43, XmlTestReporter.cpp:57), for any tests.
THEOREM TotalsAgree == RunnerSpec => []CountsAgree
<1>1. CountsKnown => CountsAgree
  <2> SUFFICES ASSUME CountsKnown PROVE CountsAgree
    OBVIOUS
  <2>1. PICK f : FailuresUpTo(f, reports) /\ f[Len(reports)] = results.failures
    BY DEF CountsKnown
  <2>2. reports \in Seq(Reports)
    BY DEF CountsKnown, RunnerInv
  <2>3. LET Sum[i \in 0 .. Len(reports)] == IF i = 0 THEN 0 ELSE Sum[i - 1] + reports[i].failures
        IN  Sum[Len(reports)] = f[Len(reports)]
    BY <2>1, <2>2, FailuresAreSummed
  <2>4. QED
    BY <2>1, <2>3 DEF CountsKnown, CountsAgree, Failed
<1>2. QED
  BY <1>1, CountsKnown_Init, CountsKnown_Step, PTL DEF RunnerSpec

-----------------------------------------------------------------------------
(***************************************************************************)
(* What the stop watch CTimeIt and the period of CThreadIt promise for     *)
(* words of any width, wherever the counter starts.                        *)
(***************************************************************************)
\* Arithmetic modulo UINT_MAX + 1 on numbers that are one round off at most.
LEMMA WrapOnce ==
  ASSUME NEW n \in -(UINT_MAX + 1) .. 2 * UINT_MAX + 1
  PROVE  Wrap(n) = IF n < 0 THEN n + UINT_MAX + 1
                   ELSE IF n <= UINT_MAX THEN n ELSE n - (UINT_MAX + 1)
  BY WordAssumption DEF Wrap

LEMMA WrapType == ASSUME NEW n \in Int PROVE Wrap(n) \in Word
  BY WordAssumption DEF Wrap, Word

LEMMA Words ==
  ASSUME PeriodTypeOK
  PROVE  /\ tick \in 0 .. UINT_MAX /\ since \in 0 .. UINT_MAX
         /\ m_TStart \in 0 .. UINT_MAX /\ m_TimeAllowed \in 0 .. UINT_MAX
         /\ m_TimePeriod \in 0 .. UINT_MAX /\ m_TimeOut \in 0 .. UINT_MAX
         /\ Elapsed \in 0 .. UINT_MAX
         /\ UINT_MAX \in Nat
<1>1. /\ {tick, m_TStart, m_TimeAllowed, since} \subseteq Word
      /\ {m_TimePeriod, m_TimeOut, Elapsed} \subseteq Word
  BY DEF PeriodTypeOK, TypeOK
<1>2. QED
  BY <1>1, WordAssumption DEF Word
-----------------------------------------------------------------------------
(***************************************************************************)
(* The inductive invariant: the counter is where the start of the timing   *)
(* and the real time since then put it, and the thread times from its      *)
(* first wait on.                                                          *)
(***************************************************************************)
PeriodInv ==
  /\ PeriodTypeOK
  /\ m_IsTiming => tick = Wrap(m_TStart + since)
  /\ at # "start" => m_IsTiming

\* What the stop watch reads: the time, or a millisecond less once the counter
\* went round.
LEMMA ElapsedIsSince ==
  ASSUME PeriodInv, m_IsTiming
  PROVE  /\ TimeElapsed \in {since, since - 1}
         /\ TimeElapsed \in Word
<1>1. /\ UINT_MAX \in Nat
      /\ tick \in 0 .. UINT_MAX /\ m_TStart \in 0 .. UINT_MAX /\ since \in 0 .. UINT_MAX
  BY Words DEF PeriodInv
<1>2. m_TStart + since \in -(UINT_MAX + 1) .. 2 * UINT_MAX + 1
  BY <1>1
<1>3. tick = IF m_TStart + since <= UINT_MAX THEN m_TStart + since
             ELSE m_TStart + since - (UINT_MAX + 1)
  BY <1>1, <1>2, WrapOnce DEF PeriodInv
<1>4. QED
  BY <1>1, <1>3 DEF TimeElapsed, Word

LEMMA PeriodInitInv == PeriodInit => PeriodInv
<1> SUFFICES ASSUME PeriodInit PROVE PeriodInv
  OBVIOUS
<1>1. 0 \in Word
  BY WordAssumption DEF Word
<1>2. m_TimePeriod \in Word /\ m_TimeOut \in Word /\ tick \in Word
  BY PeriodAssumption DEF PeriodInit, Init
<1>3. QED
  BY <1>1, <1>2 DEF PeriodInit, Init, PeriodInv, PeriodTypeOK, TypeOK

\* A timing starts at the counter's present value.
LEMMA PeriodStartInv ==
  ASSUME PeriodTypeOK, NEW allowed \in Word, StartTiming(allowed)
  PROVE  /\ {tick', m_TStart', m_TimeAllowed', since'} \subseteq Word
         /\ m_IsTiming' = TRUE
         /\ tick' = Wrap(m_TStart' + since')
<1>1. /\ tick \in Word /\ tick' = tick /\ m_TStart' = tick /\ since' = 0
      /\ m_TimeAllowed' \in Word /\ m_IsTiming' = TRUE
  <2>1. 0 \in Word /\ tick \in Word
    BY WordAssumption, Words DEF Word
  <2>2. QED
    BY <2>1 DEF StartTiming
<1>2. tick + 0 \in -(UINT_MAX + 1) .. 2 * UINT_MAX + 1 /\ Wrap(tick + 0) = tick
  BY <1>1, WordAssumption, WrapOnce DEF Word
<1>3. QED
  BY <1>1, <1>2, WordAssumption DEF Word

\* A step that leaves the stop watch alone.
LEMMA PeriodQuietInv ==
  ASSUME PeriodInv, UNCHANGED vars,
         {m_TimePeriod', m_TimeOut', Elapsed'} \subseteq Word,
         m_PeriodicMethod' \in BOOLEAN,
         at # "start",
         at' \in {"wait", "work", "period", "method", "count down"} \/ at' = at,
         client' \in {"idle", "timeout", "timer"}
  PROVE  PeriodInv'
  BY DEF PeriodInv, PeriodTypeOK, TypeOK, vars, timerVars

LEMMA PeriodNextInv == PeriodInv /\ [PeriodNext]_allVars => PeriodInv'
<1> SUFFICES ASSUME PeriodInv, [PeriodNext]_allVars PROVE PeriodInv'
  OBVIOUS
<1>1. PeriodTypeOK /\ INFINITE \in Word /\ 0 \in Word
  BY WordAssumption DEF PeriodInv, INFINITE, Word
<1>2. \A p \in Periods : PeriodOf(p) \in Word
  BY <1>1, PeriodAssumption DEF PeriodOf
<1>3. CASE PeriodTick
  <2>1. /\ since \in 0 .. UINT_MAX - 1 /\ since' = since + 1
        /\ tick \in 0 .. UINT_MAX /\ tick' = Wrap(tick + 1)
        /\ m_TStart \in 0 .. UINT_MAX /\ UNCHANGED <<timerVars, periodVars>>
    BY <1>1, <1>3, Words DEF PeriodTick, Tick
  <2>2. since' \in Word /\ tick' \in Word
    BY <2>1, WordAssumption, WrapType DEF Word
  <2>3. m_IsTiming => tick' = Wrap(m_TStart + since')
    <3>1. /\ m_TStart + since \in -(UINT_MAX + 1) .. 2 * UINT_MAX + 1
          /\ m_TStart + (since + 1) \in -(UINT_MAX + 1) .. 2 * UINT_MAX + 1
          /\ tick + 1 \in -(UINT_MAX + 1) .. 2 * UINT_MAX + 1
      BY <2>1, WordAssumption
    <3> DEFINE Turned(n) == IF n < 0 THEN n + UINT_MAX + 1
                            ELSE IF n <= UINT_MAX THEN n ELSE n - (UINT_MAX + 1)
    <3>2. /\ Wrap(m_TStart + since) = Turned(m_TStart + since)
          /\ Wrap(m_TStart + (since + 1)) = Turned(m_TStart + (since + 1))
          /\ Wrap(tick + 1) = Turned(tick + 1)
      BY <3>1, WrapOnce
    <3>3. m_IsTiming => tick = Turned(m_TStart + since)
      BY <3>2 DEF PeriodInv
    <3>4. QED
      BY <2>1, <3>2, <3>3, WordAssumption
  <2>4. QED
    BY <2>1, <2>2, <2>3 DEF PeriodInv, PeriodTypeOK, TypeOK, timerVars, periodVars
<1>4. ASSUME NEW allowed \in Word, StartTiming(allowed),
             {m_TimePeriod', m_TimeOut', Elapsed'} \subseteq Word,
             m_PeriodicMethod' \in BOOLEAN,
             at' \in {"start", "wait", "work", "period", "method", "count down"},
             client' \in {"idle", "timeout", "timer"}
      PROVE  PeriodInv'
  BY <1>1, <1>4, PeriodStartInv DEF PeriodInv, PeriodTypeOK, TypeOK
<1>5. CASE Start
  BY <1>1, <1>4, <1>5 DEF PeriodTypeOK, Start, ThreadGoto
<1>6. CASE WaitEnds \/ WorkEnds \/ SetPeriodicMethod
  BY <1>1, <1>6, PeriodQuietInv DEF PeriodTypeOK, WaitEnds, WorkEnds, SetPeriodicMethod, ThreadGoto
<1>7. ASSUME NEW Period \in Periods, SetPeriod(Period) PROVE PeriodInv'
  <2>1. m_TimePeriod' \in Word /\ m_TimeOut' \in Word /\ StartTiming(m_TimePeriod')
    BY <1>2, <1>7 DEF SetPeriod
  <2>2. UNCHANGED <<m_PeriodicMethod, Elapsed, at, client>>
    BY <1>7 DEF SetPeriod
  <2>3. QED
    BY <1>1, <1>4, <2>1, <2>2 DEF PeriodTypeOK
<1>8. ASSUME NEW Period \in Periods, ClientPeriod(Period) PROVE PeriodInv'
  <2>1. /\ m_TimePeriod' \in Word /\ client' = "timeout"
        /\ UNCHANGED <<vars, m_TimeOut, m_PeriodicMethod, Elapsed, at>>
    BY <1>2, <1>8 DEF ClientPeriod
  <2>2. QED
    BY <2>1 DEF PeriodInv, PeriodTypeOK, TypeOK, vars, timerVars
<1>9. CASE ClientTimeOut
  BY <1>9 DEF PeriodInv, PeriodTypeOK, TypeOK, ClientTimeOut, vars, timerVars
<1>10. CASE ClientTimer
  BY <1>1, <1>4, <1>10 DEF PeriodTypeOK, ClientTimer
<1>11. ASSUME at # "start" PROVE TimeElapsed \in Word
  BY <1>11, ElapsedIsSince DEF PeriodInv
<1>12. CASE Expired \/ NotExpired
  BY <1>1, <1>11, <1>12, PeriodQuietInv DEF PeriodTypeOK, Expired, NotExpired, ThreadGoto
<1>13. CASE Restart
  BY <1>1, <1>4, <1>13 DEF PeriodTypeOK, Restart, ThreadGoto
<1>14. CASE CountDown
  <2>1. Wrap(m_TimePeriod - Elapsed) \in Word
    BY <1>1, WrapType, Words
  <2>2. QED
    BY <1>1, <1>14, <2>1, PeriodQuietInv DEF PeriodTypeOK, CountDown, ThreadGoto
<1>15. CASE UNCHANGED allVars
  BY <1>15 DEF PeriodInv, PeriodTypeOK, TypeOK, allVars, vars, timerVars, periodVars
<1>16. QED
  BY <1>3, <1>5, <1>6, <1>7, <1>8, <1>9, <1>10, <1>12, <1>13, <1>14, <1>15 DEF PeriodNext

\* The types of the stop watch and of the period: no reading of the counter
\* and no difference of times leaves the words.
THEOREM PeriodTypeCorrect == PeriodSpec => []PeriodTypeOK
<1>1. PeriodInv => PeriodTypeOK
  BY DEF PeriodInv
<1>2. QED
  BY PeriodInitInv, PeriodNextInv, <1>1, PTL DEF PeriodSpec

\* isExpired is never early, wherever the counter started, and late by a
\* millisecond at most.
THEOREM Expires == PeriodSpec => []ExpiresInTime
<1>1. PeriodInv => ExpiresInTime
  <2>1. SUFFICES ASSUME PeriodInv, m_IsTiming
                 PROVE  /\ IsExpired => since > m_TimeAllowed
                        /\ since > m_TimeAllowed + 1 => (IsExpired \/ m_TimeAllowed = 0)
    BY DEF ExpiresInTime
  <2>2. since \in Nat /\ m_TimeAllowed \in Nat
    BY <2>1, Words DEF PeriodInv
  <2>3. QED
    BY <2>1, <2>2, ElapsedIsSince DEF IsExpired
<1>2. QED
  BY PeriodInitInv, PeriodNextInv, <1>1, PTL DEF PeriodSpec

\* getTimeRemaining takes a difference of words for a signed number without
\* harm: up to half the counter's range it returns the time that is remaining.
THEOREM Remains == PeriodSpec => []RemainingIsLeft
<1>1. PeriodInv => RemainingIsLeft
  <2> DEFINE half == UINT_MAX \div 2
             remaining == IF since < m_TimeAllowed THEN m_TimeAllowed - since ELSE 0
  <2>1. SUFFICES ASSUME PeriodInv, m_IsTiming, m_TimeAllowed <= half, since <= m_TimeAllowed + half
                 PROVE  GetRemaining \in {remaining, remaining + 1}
    BY DEF RemainingIsLeft
  <2>2. half \in Nat /\ UINT_MAX = 2 * half + 1
    BY WordAssumption
  <2> HIDE DEF half
  <2>3. since \in 0 .. UINT_MAX /\ m_TimeAllowed \in 0 .. UINT_MAX
    BY <2>1, Words DEF PeriodInv
  <2>4. TimeElapsed \in {since, since - 1} /\ TimeElapsed \in 0 .. UINT_MAX
    BY <2>1, ElapsedIsSince DEF Word
  <2> DEFINE rest == m_TimeAllowed - TimeElapsed
  <2>5. /\ rest \in -(UINT_MAX + 1) .. 2 * UINT_MAX + 1
        /\ rest \in {m_TimeAllowed - since, m_TimeAllowed - since + 1}
        /\ rest <= m_TimeAllowed
    BY <2>2, <2>3, <2>4
  <2>6. Wrap(rest) = IF rest < 0 THEN rest + UINT_MAX + 1
                     ELSE IF rest <= UINT_MAX THEN rest ELSE rest - (UINT_MAX + 1)
    BY <2>5, WrapOnce
  <2>7. GetRemaining = IF Wrap(rest) > half THEN 0 ELSE Wrap(rest)
    BY DEF GetRemaining, half
  <2> HIDE DEF rest
  <2>8. CASE since < m_TimeAllowed
    <3>1. rest \in 0 .. UINT_MAX /\ rest \in {remaining, remaining + 1} /\ rest <= half
      BY <2>1, <2>2, <2>3, <2>5, <2>8
    <3>2. QED
      BY <3>1, <2>2, <2>6, <2>7
  <2>9. CASE since >= m_TimeAllowed
    <3>1. rest <= 1 /\ remaining = 0 /\ rest + UINT_MAX + 1 > half /\ rest \in Int
      BY <2>1, <2>2, <2>3, <2>5, <2>9
    <3>2. QED
      BY <3>1, <2>2, <2>6, <2>7
  <2>10. QED
    BY <2>3, <2>8, <2>9
<1>2. QED
  BY PeriodInitInv, PeriodNextInv, <1>1, PTL DEF PeriodSpec

\* The periodic method never runs before its period is over, whatever the
\* methods and a client do to the period between any two steps of the thread.
THEOREM NeverEarly == PeriodSpec => NotBeforePeriod
<1>1. PeriodInv /\ [PeriodNext]_allVars =>
        [at # "method" /\ at' = "method" => since > m_TimeAllowed]_allVars
  <2>1. SUFFICES ASSUME PeriodInv, PeriodNext, at # "method", at' = "method"
                 PROVE  since > m_TimeAllowed
    OBVIOUS
  <2>2. Expired
    BY <2>1 DEF PeriodNext, PeriodTick, Start, WaitEnds, WorkEnds, SetPeriod, ClientPeriod,
                SetPeriodicMethod, ClientTimeOut, ClientTimer, Restart, NotExpired, CountDown,
                ThreadGoto, periodVars
  <2>3. m_IsTiming /\ TimeElapsed > m_TimeAllowed
    BY <2>1, <2>2 DEF PeriodInv, Expired, ThreadGoto, IsExpired
  <2>4. since \in Nat /\ m_TimeAllowed \in Nat
    BY <2>1, Words DEF PeriodInv
  <2>5. QED
    BY <2>1, <2>3, <2>4, ElapsedIsSince
<1>2. QED
  BY PeriodInitInv, PeriodNextInv, <1>1, PTL DEF PeriodSpec, NotBeforePeriod

-----------------------------------------------------------------------------
(***************************************************************************)
(* The log files of log4cpp.  A cut says where in the log the files are     *)
(* cut: file i holds the events after cut[i - 1] up to cut[i].  What the    *)
(* appenders do to their files moves these places and nothing else.         *)
(***************************************************************************)
NFiles == Len(FileNames)

LogSlice(a, b) == [k \in 1 .. b - a |-> a + k]

\* The files t hold the events after cut[0], up to number n.
CutBy(cut, t, n) ==
  /\ cut \in [0 .. NFiles -> Nat]
  /\ cut[NFiles] = n
  /\ t = [f \in LogNames |-> t[f]]
  /\ \A i \in 1 .. NFiles : cut[i - 1] <= cut[i] /\ t[FileNames[i]] = LogSlice(cut[i - 1], cut[i])

LEMMA NamesOfFiles ==
  /\ NFiles \in Nat \ {0}
  /\ LogName = FileNames[NFiles]
  /\ LogNames = {FileNames[i] : i \in 1 .. NFiles}
  /\ \A i, j \in 1 .. NFiles : FileNames[i] = FileNames[j] => i = j
  /\ \A i \in 1 .. NFiles : FileNames[i] \in LogNames
<1> USE LogFileAssumption
<1>1. FileNames \in Seq(LogNames) /\ FileNames # <<>>
  OBVIOUS
<1>2. NFiles \in Nat \ {0} /\ DOMAIN FileNames = 1 .. NFiles
  BY <1>1 DEF NFiles
<1>3. LogNames = {FileNames[i] : i \in 1 .. NFiles}
  BY <1>2 DEF LogNames, ToSet
<1>4. \A i, j \in 1 .. NFiles : FileNames[i] = FileNames[j] => i = j
  BY <1>2 DEF IsInjective
<1>5. LogName = FileNames[NFiles]
  BY <1>1 DEF LogName, Last, NFiles
<1>6. QED
  BY <1>2, <1>3, <1>4, <1>5

LEMMA SliceProperties ==
  ASSUME NEW a \in Nat, NEW b \in Nat, a <= b
  PROVE  /\ LogSlice(a, b) \in Seq(Nat) /\ Len(LogSlice(a, b)) = b - a
         /\ LogSlice(a, b) = <<>> <=> a = b
         /\ \A e \in Nat : e \in ToSet(LogSlice(a, b)) <=> a < e /\ e <= b
         /\ \A c \in Nat : b <= c => LogSlice(a, b) \o LogSlice(b, c) = LogSlice(a, c)
         /\ Append(LogSlice(a, b), b + 1) = LogSlice(a, b + 1)
<1> DEFINE s == LogSlice(a, b)
<1>1. b - a \in Nat
  OBVIOUS
<1>2. /\ s \in [1 .. b - a -> Nat] /\ s = [k \in 1 .. b - a |-> a + k]
      /\ \A k \in 1 .. b - a : s[k] = a + k
  BY DEF LogSlice
<1> HIDE DEF s
<1>3. s \in Seq(Nat)
  BY <1>1, <1>2
<1>4. Len(s) = b - a /\ DOMAIN s = 1 .. b - a
  BY <1>1, <1>2
<1>5. s = <<>> <=> a = b
  BY <1>1, <1>3, <1>4
<1>6. ASSUME NEW e \in Nat PROVE e \in ToSet(s) <=> a < e /\ e <= b
  <2>1. a < e /\ e <= b => e - a \in 1 .. b - a /\ s[e - a] = e
    BY <1>2
  <2>2. QED
    BY <1>2, <1>4, <2>1 DEF ToSet
<1>7. ASSUME NEW c \in Nat, b <= c PROVE s \o LogSlice(b, c) = LogSlice(a, c)
  <2> DEFINE r == LogSlice(b, c)
             u == LogSlice(a, c)
  <2>1. c - b \in Nat /\ r \in [1 .. c - b -> Nat] /\ \A k \in 1 .. c - b : r[k] = b + k
    BY <1>7 DEF LogSlice
  <2>2. c - a \in Nat /\ u \in [1 .. c - a -> Nat] /\ \A k \in 1 .. c - a : u[k] = a + k
    BY <1>7 DEF LogSlice
  <2> HIDE DEF r, u
  <2>3. r \in Seq(Nat) /\ Len(r) = c - b
    BY <2>1
  <2>4. u \in Seq(Nat) /\ Len(u) = c - a
    BY <2>2
  <2>5. /\ s \o r \in Seq(Nat) /\ Len(s \o r) = Len(s) + Len(r)
        /\ \A k \in 1 .. Len(s) + Len(r) : (s \o r)[k] = IF k <= Len(s) THEN s[k] ELSE r[k - Len(s)]
    BY <1>3, <2>3, ConcatProperties
  <2>6. Len(s \o r) = c - a
    BY <1>4, <2>3, <2>5
  <2>7. ASSUME NEW k \in 1 .. c - a PROVE (s \o r)[k] = u[k]
    <3>1. (s \o r)[k] = IF k <= b - a THEN s[k] ELSE r[k - (b - a)]
      <4>1. Len(s) = b - a /\ Len(s) + Len(r) = c - a
        BY <1>4, <2>3
      <4>2. k \in 1 .. Len(s) + Len(r)
        BY <4>1, Zenon
      <4>3. (s \o r)[k] = IF k <= Len(s) THEN s[k] ELSE r[k - Len(s)]
        BY <2>5, <4>2, Zenon
      <4>4. QED
        BY <4>1, <4>3, Zenon
    <3>2. CASE k <= b - a
      BY <1>2, <2>2, <2>7, <3>1, <3>2
    <3>3. CASE ~(k <= b - a)
      <4>1. k - (b - a) \in 1 .. c - b /\ b + (k - (b - a)) = a + k
        BY <2>7, <3>3
      <4>2. r[k - (b - a)] = b + (k - (b - a))
        BY <2>1, <4>1, Zenon
      <4>3. QED
        BY <2>2, <2>7, <3>1, <3>3, <4>1, <4>2
    <3>4. QED
      BY <3>2, <3>3
  <2>8. s \o r = u
    BY <2>4, <2>5, <2>6, <2>7, SeqEqual
  <2>9. QED
    BY <2>8 DEF r, u
<1>8. Append(s, b + 1) = LogSlice(a, b + 1)
  <2>1. LogSlice(b, b + 1) = <<b + 1>>
    BY DEF LogSlice
  <2>2. b + 1 \in Nat /\ b <= b + 1
    OBVIOUS
  <2>3. Append(s, b + 1) = s \o <<b + 1>>
    BY <1>3, <2>2, AppendIsConcat
  <2>4. QED
    BY <1>7, <2>1, <2>2, <2>3
<1>9. QED
  BY <1>3, <1>4, <1>5, <1>6, <1>7, <1>8 DEF s

LEMMA SliceEmpty == ASSUME NEW a \in Nat PROVE LogSlice(a, a) = <<>>
<1>1. a <= a
  OBVIOUS
<1>2. QED
  BY <1>1, SliceProperties, Zenon

LEMMA SliceConcat ==
  ASSUME NEW a \in Nat, NEW b \in Nat, NEW c \in Nat, a <= b, b <= c
  PROVE  LogSlice(a, b) \o LogSlice(b, c) = LogSlice(a, c)
<1>1. \A d \in Nat : b <= d => LogSlice(a, b) \o LogSlice(b, d) = LogSlice(a, d)
  BY SliceProperties, Zenon
<1>2. QED
  BY <1>1, Zenon

LEMMA SliceSet ==
  ASSUME NEW a \in Nat, NEW b \in Nat, a <= b, NEW e \in Nat
  PROVE  e \in ToSet(LogSlice(a, b)) <=> a < e /\ e <= b
<1>1. \A d \in Nat : d \in ToSet(LogSlice(a, b)) <=> a < d /\ d <= b
  BY SliceProperties, Zenon
<1>2. QED
  BY <1>1, Zenon

LEMMA CutGrows ==
  ASSUME NEW cut, NEW t, NEW n, CutBy(cut, t, n), NEW i \in 0 .. NFiles, NEW j \in 0 .. NFiles, i <= j
  PROVE  cut[i] <= cut[j] /\ cut[i] \in Nat /\ cut[j] \in Nat
<1> USE NamesOfFiles
<1>1. \A k \in 0 .. NFiles : cut[k] \in Nat
  BY DEF CutBy
<1>2. ASSUME NEW k \in 0 .. NFiles, k + 1 <= NFiles PROVE cut[k] <= cut[k + 1]
  <2>1. k + 1 \in 1 .. NFiles /\ (k + 1) - 1 = k
    BY <1>2
  <2>2. QED
    BY <2>1 DEF CutBy
<1> DEFINE T == {d \in Nat : i + d <= NFiles => cut[i] <= cut[i + d]}
<1>3. 0 \in T
  BY <1>1
<1>4. ASSUME NEW d \in Nat, d \in T PROVE d + 1 \in T
  <2>1. SUFFICES ASSUME i + (d + 1) <= NFiles PROVE cut[i] <= cut[i + (d + 1)]
    OBVIOUS
  <2>2. i + d \in 0 .. NFiles /\ i + (d + 1) \in 0 .. NFiles /\ i + (d + 1) = (i + d) + 1
    BY <2>1
  <2>3. cut[i] <= cut[i + d] /\ cut[i + d] <= cut[i + (d + 1)]
    BY <1>2, <1>4, <2>2
  <2>4. QED
    BY <1>1, <2>2, <2>3
<1>5. Nat \subseteq T
  <2> HIDE DEF T
  <2> QED
    BY <1>3, <1>4, Induction
<1>6. j - i \in Nat /\ i + (j - i) = j
  OBVIOUS
<1>7. QED
  BY <1>1, <1>5, <1>6

\* Files without an event hold what is after the last one.
LEMMA CutEmpty ==
  ASSUME NEW t, NEW n \in Nat, t = [f \in LogNames |-> t[f]], \A f \in LogNames : t[f] = <<>>
  PROVE  \E cut : CutBy(cut, t, n)
<1> DEFINE cut == [i \in 0 .. NFiles |-> n]
<1>1. LogSlice(n, n) = <<>>
  BY SliceEmpty
<1>2. cut \in [0 .. NFiles -> Nat] /\ cut[NFiles] = n
  BY NamesOfFiles
<1>3. ASSUME NEW i \in 1 .. NFiles
      PROVE  cut[i - 1] <= cut[i] /\ t[FileNames[i]] = LogSlice(cut[i - 1], cut[i])
  <2>1. i \in 0 .. NFiles /\ i - 1 \in 0 .. NFiles
    BY NamesOfFiles
  <2>2. cut[i] = n /\ cut[i - 1] = n /\ t[FileNames[i]] = <<>>
    BY <2>1, NamesOfFiles
  <2>3. QED
    BY <1>1, <2>2
<1> HIDE DEF cut
<1>4. CutBy(cut, t, n)
  BY <1>2, <1>3, Zenon DEF CutBy
<1>5. QED
  BY <1>4


\* File k is renamed to j, a name before it; those in between were empty.
Moved(t, u, j, k) ==
  /\ j \in 1 .. NFiles /\ k \in 1 .. NFiles /\ j < k 
  /\ \A i \in j .. k - 1 : t[FileNames[i]] = <<>>
  /\ u = [t EXCEPT ![FileNames[j]] = t[FileNames[k]], ![FileNames[k]] = <<>>]

LEMMA CutMove ==
  ASSUME NEW cut, NEW t, NEW n, NEW u, NEW j, NEW k, CutBy(cut, t, n), Moved(t, u, j, k)
  PROVE  \E dut : CutBy(dut, u, n) /\ dut[0] = cut[0]
<1> DEFINE dut == [i \in 0 .. NFiles |-> IF j <= i /\ i < k THEN cut[k] ELSE cut[i]]
<1> USE NamesOfFiles DEF Moved
<1>1. cut \in [0 .. NFiles -> Nat] /\ cut[NFiles] = n
  BY DEF CutBy
<1>2. ASSUME NEW i \in 1 .. NFiles
      PROVE  /\ i - 1 \in 0 .. NFiles /\ cut[i] \in Nat /\ cut[i - 1] \in Nat
             /\ cut[i - 1] <= cut[i] /\ t[FileNames[i]] = LogSlice(cut[i - 1], cut[i])
             /\ t[FileNames[i]] = <<>> => cut[i - 1] = cut[i]
  <2>1. i - 1 \in 0 .. NFiles /\ i \in 0 .. NFiles
    OBVIOUS
  <2>2. cut[i] \in Nat /\ cut[i - 1] \in Nat
    BY <1>1, <2>1
  <2>3. cut[i - 1] <= cut[i] /\ t[FileNames[i]] = LogSlice(cut[i - 1], cut[i])
    BY DEF CutBy
  <2>4. LogSlice(cut[i - 1], cut[i]) = <<>> <=> cut[i - 1] = cut[i]
    BY <2>2, <2>3, SliceProperties, Zenon
  <2>5. QED
    BY <2>1, <2>2, <2>3, <2>4
<1>3. \A i \in j .. k - 1 : cut[i - 1] = cut[i]
  <2>1. \A i \in j .. k - 1 : i \in 1 .. NFiles
    OBVIOUS
  <2>2. QED
    BY <1>2, <2>1
<1>4. cut[j - 1] = cut[k - 1]
  <2> DEFINE T == {d \in Nat : j + d <= k => cut[j + d - 1] = cut[j - 1]}
  <2>1. 0 \in T
    OBVIOUS
  <2>2. ASSUME NEW d \in Nat, d \in T PROVE d + 1 \in T
    <3>1. SUFFICES ASSUME j + (d + 1) <= k PROVE cut[j + (d + 1) - 1] = cut[j - 1]
      OBVIOUS
    <3>2. j + d \in j .. k - 1 /\ j + (d + 1) - 1 = j + d
      BY <3>1
    <3>3. cut[j + d - 1] = cut[j + d] /\ cut[j + d - 1] = cut[j - 1]
      BY <1>3, <2>2, <3>2
    <3>4. QED
      BY <3>2, <3>3
  <2>3. Nat \subseteq T
    <3> HIDE DEF T
    <3> QED
      BY <2>1, <2>2, Induction
  <2>4. k - j \in Nat /\ j + (k - j) - 1 = k - 1 /\ j + (k - j) <= k
    OBVIOUS
  <2>5. QED
    BY <2>3, <2>4
<1>5. dut \in [0 .. NFiles -> Nat] /\ dut[NFiles] = n /\ dut[0] = cut[0]
  BY <1>1
<1>6. u = [f \in LogNames |-> u[f]]
  BY DEF CutBy
<1>7. ASSUME NEW i \in 1 .. NFiles
      PROVE  dut[i - 1] <= dut[i] /\ u[FileNames[i]] = LogSlice(dut[i - 1], dut[i])
  <2> DEFINE old == t[FileNames[i]]
  <2>1. u[FileNames[i]] = IF i = k THEN <<>> ELSE IF i = j THEN t[FileNames[k]] ELSE t[FileNames[i]]
    BY DEF CutBy
  <2>2. /\ dut[i] = IF j <= i /\ i < k THEN cut[k] ELSE cut[i]
        /\ dut[i - 1] = IF j <= i - 1 /\ i - 1 < k THEN cut[k] ELSE cut[i - 1]
    BY <1>2
  <2> HIDE DEF dut
  <2>3. CASE i < j \/ i > k
    <3>1. dut[i] = cut[i] /\ dut[i - 1] = cut[i - 1] /\ u[FileNames[i]] = t[FileNames[i]]
      BY <2>1, <2>2, <2>3
    <3>2. QED
      BY <1>2, <3>1, Zenon
  <2>4. CASE i = j
    <3>1. dut[i] = cut[k] /\ dut[i - 1] = cut[k - 1] /\ u[FileNames[i]] = t[FileNames[k]]
      BY <1>4, <2>1, <2>2, <2>4
    <3>2. QED
      BY <1>2, <3>1
  <2>5. CASE j < i /\ i < k
    <3>1. dut[i] = cut[k] /\ dut[i - 1] = cut[k] /\ u[FileNames[i]] = <<>>
      BY <2>1, <2>2, <2>5
    <3>2. cut[k] \in Nat
      BY <1>2
    <3>3. LogSlice(cut[k], cut[k]) = <<>>
      BY <3>2, SliceProperties
    <3>4. QED
      BY <3>1, <3>2, <3>3
  <2>6. CASE i = k
    <3>1. dut[i] = cut[k] /\ dut[i - 1] = cut[k] /\ u[FileNames[i]] = <<>>
      BY <2>1, <2>2, <2>6
    <3>2. cut[k] \in Nat
      BY <1>2
    <3>3. LogSlice(cut[k], cut[k]) = <<>>
      BY <3>2, SliceProperties
    <3>4. QED
      BY <3>1, <3>2, <3>3
  <2>7. QED
    BY <2>3, <2>4, <2>5, <2>6
<1> HIDE DEF dut
<1>8. CutBy(dut, u, n)
  BY <1>5, <1>6, <1>7, Zenon DEF CutBy
<1>9. QED
  BY <1>5, <1>8

\* The first m files are deleted.
Dropped(t, u, m) ==
  /\ m \in 0 .. NFiles
  /\ u = [f \in LogNames |-> u[f]]
  /\ \A i \in 1 .. NFiles : u[FileNames[i]] = IF i <= m THEN <<>> ELSE t[FileNames[i]]

LEMMA CutDrop ==
  ASSUME NEW cut, NEW t, NEW n, NEW u, NEW m, CutBy(cut, t, n), Dropped(t, u, m)
  PROVE  \E dut : CutBy(dut, u, n) /\ dut[0] = cut[m]
<1> DEFINE dut == [i \in 0 .. NFiles |-> IF i < m THEN cut[m] ELSE cut[i]]
<1> USE NamesOfFiles DEF Dropped
<1>1. cut \in [0 .. NFiles -> Nat] /\ cut[NFiles] = n
  BY DEF CutBy
<1>2. dut \in [0 .. NFiles -> Nat] /\ dut[NFiles] = n /\ dut[0] = cut[m]
  BY <1>1
<1>3. ASSUME NEW i \in 1 .. NFiles
      PROVE  dut[i - 1] <= dut[i] /\ u[FileNames[i]] = LogSlice(dut[i - 1], dut[i])
  <2>1. /\ cut[i - 1] <= cut[i] /\ t[FileNames[i]] = LogSlice(cut[i - 1], cut[i])
        /\ cut[m] \in Nat
    BY <1>1 DEF CutBy
  <2>2. /\ dut[i] = IF i < m THEN cut[m] ELSE cut[i]
        /\ dut[i - 1] = IF i - 1 < m THEN cut[m] ELSE cut[i - 1]
    OBVIOUS
  <2> HIDE DEF dut
  <2>3. LogSlice(cut[m], cut[m]) = <<>>
    BY <2>1, SliceProperties
  <2>4. CASE i <= m
    BY <2>1, <2>2, <2>3, <2>4
  <2>5. CASE i > m
    BY <2>1, <2>2, <2>5
  <2>6. QED
    BY <2>4, <2>5
<1> HIDE DEF dut
<1>4. CutBy(dut, u, n)
  BY <1>2, <1>3, Zenon DEF CutBy
<1>5. QED
  BY <1>2, <1>4

\* An event is written to the file in use.
LEMMA CutWrite ==
  ASSUME NEW cut, NEW t, NEW n \in Nat, CutBy(cut, t, n),
         NEW u, u = [t EXCEPT ![LogName] = Append(t[LogName], n + 1)]
  PROVE  \E dut : CutBy(dut, u, n + 1) /\ dut[0] = cut[0]
<1> DEFINE dut == [cut EXCEPT ![NFiles] = n + 1]
<1> USE NamesOfFiles
<1>1. cut \in [0 .. NFiles -> Nat] /\ cut[NFiles] = n
  BY DEF CutBy
<1>2. dut \in [0 .. NFiles -> Nat] /\ dut[NFiles] = n + 1 /\ dut[0] = cut[0]
  BY <1>1
<1>3. u = [f \in LogNames |-> u[f]]
  BY DEF CutBy
<1>4. ASSUME NEW i \in 1 .. NFiles
      PROVE  dut[i - 1] <= dut[i] /\ u[FileNames[i]] = LogSlice(dut[i - 1], dut[i])
  <2>1. /\ cut[i - 1] <= cut[i] /\ t[FileNames[i]] = LogSlice(cut[i - 1], cut[i])
        /\ cut[i - 1] \in Nat
    <3>1. i - 1 \in 0 .. NFiles
      OBVIOUS
    <3>2. cut[i - 1] \in Nat
      BY <1>1, <3>1
    <3>3. QED
      BY <3>2 DEF CutBy
  <2>2. /\ dut[i] = IF i = NFiles THEN n + 1 ELSE cut[i]
        /\ dut[i - 1] = cut[i - 1]
    BY <1>1
  <2>3. u[FileNames[i]] = IF i = NFiles THEN Append(t[LogName], n + 1) ELSE t[FileNames[i]]
    BY DEF CutBy
  <2> HIDE DEF dut
  <2>4. CASE i = NFiles
    <3>1. t[LogName] = LogSlice(cut[i - 1], n) /\ cut[i - 1] <= n
      BY <1>1, <2>1, <2>4
    <3>2. Append(LogSlice(cut[i - 1], n), n + 1) = LogSlice(cut[i - 1], n + 1)
      BY <2>1, <3>1, SliceProperties, Zenon
    <3>3. dut[i] = n + 1 /\ dut[i - 1] = cut[i - 1] /\ u[FileNames[i]] = Append(t[LogName], n + 1)
      BY <2>2, <2>3, <2>4
    <3>4. dut[i - 1] <= dut[i]
      BY <2>1, <3>1, <3>3
    <3>5. QED
      BY <3>1, <3>2, <3>3, <3>4, Zenon
  <2>5. CASE i # NFiles
    BY <2>1, <2>2, <2>3, <2>5
  <2>6. QED
    BY <2>4, <2>5
<1> HIDE DEF dut
<1>5. CutBy(dut, u, n + 1)
  BY <1>2, <1>3, <1>4, Zenon DEF CutBy
<1>6. QED
  BY <1>2, <1>5

\* Read one after the other the files are a slice of the log.
LEMMA CutIsSuffix ==
  ASSUME NEW cut, CutBy(cut, text, logged)
  PROVE  IsSuffixOfLog
<1> USE NamesOfFiles
<1> DEFINE ss == [i \in DOMAIN FileNames |-> text[FileNames[i]]]
           sums == [i \in 0 .. NFiles |-> LogSlice(cut[0], cut[i])]
<1>1. cut \in [0 .. NFiles -> Nat] /\ cut[NFiles] = logged
  BY DEF CutBy
<1>2. ASSUME NEW i \in 1 .. NFiles
      PROVE  /\ i \in 0 .. NFiles /\ i - 1 \in 0 .. NFiles
             /\ cut[i - 1] \in Nat /\ cut[i] \in Nat /\ cut[i - 1] <= cut[i]
             /\ text[FileNames[i]] = LogSlice(cut[i - 1], cut[i])
  <2>1. i \in 0 .. NFiles /\ i - 1 \in 0 .. NFiles
    OBVIOUS
  <2>2. cut[i - 1] \in Nat /\ cut[i] \in Nat
    BY <1>1, <2>1
  <2>3. QED
    BY <2>1, <2>2 DEF CutBy
<1>3. \A i \in 0 .. NFiles : cut[0] <= cut[i] /\ cut[i] \in Nat
  <2>1. \A i \in 0 .. NFiles : 0 \in 0 .. NFiles /\ 0 <= i
    OBVIOUS
  <2>2. QED
    BY <2>1, CutGrows
<1>4. DOMAIN FileNames = 1 .. NFiles
  BY LogFileAssumption DEF NFiles
<1>5. \A i \in 1 .. NFiles : ss[i] = LogSlice(cut[i - 1], cut[i]) /\ ss[i] \in Seq(Nat)
  <2>1. ASSUME NEW i \in 1 .. NFiles
        PROVE  ss[i] = LogSlice(cut[i - 1], cut[i]) /\ ss[i] \in Seq(Nat)
    <3>1. ss[i] = LogSlice(cut[i - 1], cut[i])
      BY <1>2, <1>4
    <3>2. LogSlice(cut[i - 1], cut[i]) \in Seq(Nat)
      BY <1>2, SliceProperties, Zenon
    <3>3. QED
      BY <3>1, <3>2
  <2>2. QED
    BY <2>1
<1>6. ss \in Seq(Seq(Nat)) /\ Len(ss) = NFiles
  <2>1. ss = [i \in 1 .. NFiles |-> ss[i]]
    BY <1>4
  <2> HIDE DEF ss
  <2>2. ss \in [1 .. NFiles -> Seq(Nat)] /\ NFiles \in Nat
    BY <1>5, <2>1
  <2> DEFINE D == Seq(Nat)
  <2>3. ss \in [1 .. NFiles -> D]
    BY <2>2
  <2> HIDE DEF D
  <2>4. ss \in Seq(D) /\ Len(ss) = NFiles
    BY <2>2, <2>3
  <2>5. QED
    BY <2>4 DEF D
<1>7. \A i \in 0 .. NFiles : sums[i] = LogSlice(cut[0], cut[i]) /\ sums[i] \in Seq(Nat)
  <2>1. ASSUME NEW i \in 0 .. NFiles
        PROVE  LogSlice(cut[0], cut[i]) \in Seq(Nat)
    <3>1. cut[0] \in Nat /\ cut[i] \in Nat /\ cut[0] <= cut[i]
      BY <1>3
    <3>2. QED
      BY <3>1, SliceProperties, Zenon
  <2>2. QED
    BY <2>1
<1>8. sums[0] = <<>>
  <2>1. cut[0] \in Nat /\ 0 \in 0 .. NFiles
    BY <1>3
  <2>2. LogSlice(cut[0], cut[0]) = <<>>
    BY <2>1, SliceEmpty
  <2>3. QED
    BY <1>7, <2>1, <2>2
<1>9. ASSUME NEW i \in 1 .. NFiles PROVE sums[i] = sums[i - 1] \o ss[i]
  <2>1. /\ cut[0] \in Nat /\ cut[i - 1] \in Nat /\ cut[0] <= cut[i - 1]
        /\ cut[i] \in Nat /\ cut[i - 1] <= cut[i] /\ i \in 0 .. NFiles /\ i - 1 \in 0 .. NFiles
    BY <1>2, <1>3
  <2>2. LogSlice(cut[0], cut[i - 1]) \o LogSlice(cut[i - 1], cut[i]) = LogSlice(cut[0], cut[i])
    BY <2>1, SliceConcat, Zenon
  <2>3. sums[i] = LogSlice(cut[0], cut[i]) /\ sums[i - 1] = LogSlice(cut[0], cut[i - 1])
    BY <1>7, <2>1
  <2>4. ss[i] = LogSlice(cut[i - 1], cut[i])
    BY <1>5
  <2>5. QED
    BY <2>2, <2>3, <2>4, Zenon
<1>10. sums \in [0 .. NFiles -> Seq(Nat)]
  BY <1>7
<1> HIDE DEF ss, sums
<1>11. Sums(sums, ss, Nat)
  BY <1>6, <1>8, <1>9, <1>10, Zenon DEF Sums
<1>12. FlattenSeq(ss) = sums[NFiles]
  BY <1>6, <1>11, FlattenSums
<1>13. NFiles \in 0 .. NFiles
  OBVIOUS
<1>14. Contents = LogSlice(cut[0], logged)
  BY <1>1, <1>7, <1>12, <1>13 DEF Contents, ss
<1>15. cut[0] \in Nat /\ logged \in Nat /\ cut[0] <= logged
  BY <1>1, <1>3, <1>13
<1>16. Len(Contents) = logged - cut[0]
  BY <1>14, <1>15, SliceProperties
<1>17. logged - Len(Contents) = cut[0]
  BY <1>15, <1>16
<1>18. Contents = [i \in 1 .. logged - cut[0] |-> cut[0] + i]
  BY <1>14 DEF LogSlice
<1>19. QED
  BY <1>16, <1>17, <1>18, Zenon DEF IsSuffixOfLog

\* An event after cut[0] is in one of the files, and what is in a file is
\* between its cuts.
LEMMA CutHolds ==
  ASSUME NEW cut, NEW t, NEW n \in Nat, CutBy(cut, t, n), NEW e \in Nat
  PROVE  /\ cut[0] < e /\ e <= n => \E i \in 1 .. NFiles : e \in ToSet(t[FileNames[i]])
         /\ \A i \in 1 .. NFiles : e \in ToSet(t[FileNames[i]]) =>
              cut[i - 1] < e /\ e <= cut[i] /\ e \in 1 .. n
<1> USE NamesOfFiles
<1>1. cut \in [0 .. NFiles -> Nat] /\ cut[NFiles] = n
  BY DEF CutBy
<1>2. ASSUME NEW i \in 1 .. NFiles
      PROVE  e \in ToSet(t[FileNames[i]]) <=> cut[i - 1] < e /\ e <= cut[i]
  <2>1. i \in 0 .. NFiles /\ i - 1 \in 0 .. NFiles
    OBVIOUS
  <2>2. cut[i - 1] \in Nat /\ cut[i] \in Nat
    BY <1>1, <2>1
  <2>3. cut[i - 1] <= cut[i] /\ t[FileNames[i]] = LogSlice(cut[i - 1], cut[i])
    BY DEF CutBy
  <2>4. e \in ToSet(LogSlice(cut[i - 1], cut[i])) <=> cut[i - 1] < e /\ e <= cut[i]
    BY <2>2, <2>3, SliceSet, Zenon
  <2>5. QED
    BY <2>3, <2>4
<1>3. ASSUME cut[0] < e, e <= n PROVE \E i \in 1 .. NFiles : e \in ToSet(t[FileNames[i]])
  <2> DEFINE T == {i \in 0 .. NFiles : e <= cut[i]}
  <2>1. NFiles \in T /\ T \in SUBSET Nat
    BY <1>1, <1>3
  <2>2. PICK i \in T : \A j \in T : i <= j
    <3> HIDE DEF T
    <3> QED
      BY <2>1, LeastNumber
  <2>3. cut[0] \in Nat /\ ~(e <= cut[0])
    BY <1>1, <1>3
  <2>4. i # 0
    BY <2>2, <2>3
  <2>5. i \in 1 .. NFiles /\ i - 1 \in 0 .. NFiles
    BY <2>2, <2>4
  <2>6. i - 1 \notin T
    BY <2>2, <2>5
  <2>7. cut[i - 1] \in Nat /\ ~(e <= cut[i - 1])
    BY <1>1, <2>5, <2>6
  <2>8. cut[i - 1] < e /\ e <= cut[i]
    BY <2>2, <2>7
  <2>9. QED
    BY <1>2, <2>5, <2>8
<1>4. ASSUME NEW i \in 1 .. NFiles, e \in ToSet(t[FileNames[i]])
      PROVE  cut[i - 1] < e /\ e <= cut[i] /\ e \in 1 .. n
  <2>1. cut[i - 1] < e /\ e <= cut[i]
    BY <1>2, <1>4
  <2>2. i \in 0 .. NFiles /\ i - 1 \in 0 .. NFiles /\ NFiles \in 0 .. NFiles /\ i <= NFiles
    OBVIOUS
  <2>3. cut[i] <= cut[NFiles] /\ cut[i] \in Nat /\ cut[i - 1] \in Nat
    BY <1>1, <2>2, CutGrows
  <2>4. QED
    BY <1>1, <2>1, <2>3
<1>5. QED
  BY <1>3, <1>4

-----------------------------------------------------------------------------
(* RollingFileAppender. *)

\* Names before the oldest backup are never used.  rollOver makes room before
\* it renames: the backup that is next has been taken away.
RollingInv ==
  append =>
    /\ logged \in Nat /\ dir \subseteq LogNames
    /\ \E cut : CutBy(cut, text, logged)
    /\ \A n \in LogNames \ dir : text[n] = <<>>
    /\ \A i \in 1 .. NFiles : i < NFiles - MaxBackupIndex => text[FileNames[i]] = <<>>
    /\ pc = "shift" => shifting \in 1 .. MaxBackupIndex /\ text[Backup(shifting)] = <<>>
    /\ pc \in {"ready", "written"} => fd = LogName /\ LogName \in dir

LEMMA BackupNames ==
  /\ MaxBackupIndex \in Nat /\ MaxBackupIndex < NFiles
  /\ \A i \in 0 .. MaxBackupIndex : NFiles - i \in 1 .. NFiles /\ Backup(i) = FileNames[NFiles - i]
BY RollingAssumption, NamesOfFiles DEF Backup, NFiles

LEMMA RollingInit_Inv == RollingInit => RollingInv
<1> SUFFICES ASSUME RollingInit PROVE RollingInv
  OBVIOUS
<1> USE NamesOfFiles
<1> DEFINE cut == [i \in 0 .. NFiles |-> 0]
<1>1. text = [f \in LogNames |-> <<>>] /\ logged = 0 /\ dir = {} /\ pc = "off"
  BY DEF RollingInit, FileInit
<1>2. LogSlice(0, 0) = <<>>
  BY SliceEmpty
<1>3. \A i \in 1 .. NFiles : FileNames[i] \in LogNames
  BY NamesOfFiles
<1>4. CutBy(cut, text, logged)
  BY <1>1, <1>2, <1>3 DEF CutBy
<1>5. \A n \in LogNames : text[n] = <<>>
  BY <1>1
<1>6. QED
  BY <1>1, <1>3, <1>4, <1>5, Zenon DEF RollingInv

LEMMA RollingInv_Step == RollingInv /\ [RollingNext]_rollingVars => RollingInv'
<1> SUFFICES ASSUME RollingInv, [RollingNext]_rollingVars, append' PROVE RollingInv'
  BY DEF RollingInv
<1> USE NamesOfFiles, BackupNames
<1>1. append' = append
  BY DEF RollingNext, rollingVars, fileVars, RollingConstruct, RollingWrite, CheckSize, RemoveLast,
    Shift, RollingOpen, RollingCrash
<1>2. /\ append /\ logged \in Nat /\ dir \subseteq LogNames
      /\ \A n \in LogNames \ dir : text[n] = <<>>
      /\ \A i \in 1 .. NFiles : i < NFiles - MaxBackupIndex => text[FileNames[i]] = <<>>
      /\ pc = "shift" => shifting \in 1 .. MaxBackupIndex /\ text[Backup(shifting)] = <<>>
      /\ pc \in {"ready", "written"} => fd = LogName /\ LogName \in dir
  BY <1>1 DEF RollingInv
<1>3. PICK cut : CutBy(cut, text, logged)
  BY <1>2 DEF RollingInv
<1>4. text = [f \in LogNames |-> text[f]] /\ LogName \in LogNames
  BY <1>3 DEF CutBy
<1>5. ASSUME UNCHANGED <<text, logged>>
      PROVE  \E dut : CutBy(dut, text', logged')
  BY <1>3, <1>5
\* The constructor and the end of rollOver.
<1>6. ASSUME Open, pc' = "ready", UNCHANGED <<append, logged>>
      PROVE  RollingInv'
  <2>1. dir' = dir \cup {LogName} /\ text' = text /\ fd' = LogName
    BY <1>2, <1>6 DEF Open
  <2>2. \A n \in LogNames \ dir' : text'[n] = <<>>
    BY <1>2, <2>1
  <2>3. \E dut : CutBy(dut, text', logged')
    BY <1>5, <1>6, <2>1
  <2>4. QED
    BY <1>2, <1>4, <1>6, <2>1, <2>2, <2>3 DEF RollingInv
<1>7. CASE RollingConstruct
  BY <1>6, <1>7 DEF RollingConstruct
<1>8. CASE RollingWrite
  <2>1. fd = LogName /\ LogName \in dir /\ logged' = logged + 1 /\ pc' = "written" /\ dir' = dir /\ fd' = fd
    BY <1>2, <1>8 DEF RollingWrite, Write
  <2>2. LogName # NoFile
    BY <1>4, LogFileAssumption
  <2>3. text' = [text EXCEPT ![LogName] = Append(text[LogName], logged + 1)]
    BY <1>8, <2>1, <2>2 DEF RollingWrite, Write
  <2>4. \E dut : CutBy(dut, text', logged')
    <3>1. PICK u : u = text'
      OBVIOUS
    <3>2. u = [text EXCEPT ![LogName] = Append(text[LogName], logged + 1)]
      BY <2>3, <3>1
    <3>3. \E dut : CutBy(dut, u, logged + 1) /\ dut[0] = cut[0]
      <4> HIDE NamesOfFiles, BackupNames
      <4>1. logged \in Nat
        BY <1>2
      <4>2. QED
        BY <1>3, <3>2, <4>1, CutWrite, Zenon
    <3>4. QED
      BY <2>1, <3>1, <3>3
  <2>5. \A n \in LogNames : n # LogName => text'[n] = text[n]
    BY <1>4, <2>3
  <2>6. \A n \in LogNames \ dir' : text'[n] = <<>>
    BY <1>2, <2>1, <2>5
  <2>7. \A i \in 1 .. NFiles : i < NFiles - MaxBackupIndex => text'[FileNames[i]] = <<>>
    BY <1>2, <2>5
  <2>8. QED
    BY <1>2, <2>1, <2>4, <2>6, <2>7 DEF RollingInv
<1>9. CASE CheckSize
  <2>1. UNCHANGED <<dir, text, logged>> /\ (pc' = "remove" \/ (pc' = "ready" /\ fd' = fd /\ pc = "written"))
    BY <1>9 DEF CheckSize
  <2>2. \E dut : CutBy(dut, text', logged')
    BY <1>5, <2>1
  <2>3. QED
    BY <1>2, <2>1, <2>2 DEF RollingInv
<1>10. CASE RemoveLast
  <2>1. CASE MaxBackupIndex > 0
    <3>1. /\ Unlink(Backup(MaxBackupIndex)) /\ pc' = "shift" /\ shifting' = MaxBackupIndex
          /\ UNCHANGED <<logged, fd>>
      BY <1>10, <2>1 DEF RemoveLast
    <3>2. PICK m \in 1 .. NFiles : m = NFiles - MaxBackupIndex /\ Backup(MaxBackupIndex) = FileNames[m]
      OBVIOUS
    <3>3. dir' = dir \ {FileNames[m]} /\ text' = [text EXCEPT ![FileNames[m]] = <<>>]
      BY <3>1, <3>2 DEF Unlink
    <3>4. PICK u : u = text'
      OBVIOUS
    <3>5. /\ u = [f \in LogNames |-> u[f]]
          /\ \A n \in LogNames : u[n] = IF n = FileNames[m] THEN <<>> ELSE text[n]
      BY <1>4, <3>3, <3>4
    <3>6. \A i \in 1 .. NFiles : u[FileNames[i]] = IF i <= m THEN <<>> ELSE text[FileNames[i]]
      <4>1. \A i \in 1 .. NFiles : i < m => text[FileNames[i]] = <<>>
        BY <1>2, <3>2
      <4>2. ASSUME NEW i \in 1 .. NFiles
            PROVE  u[FileNames[i]] = IF i <= m THEN <<>> ELSE text[FileNames[i]]
        <5>1. FileNames[i] \in LogNames /\ (FileNames[i] = FileNames[m] <=> i = m)
          BY NamesOfFiles, Zenon
        <5>2. u[FileNames[i]] = IF i = m THEN <<>> ELSE text[FileNames[i]]
          BY <3>5, <5>1
        <5> HIDE NamesOfFiles, BackupNames
        <5>3. QED
          BY <4>1, <5>2
      <4>3. QED
        BY <4>2
    <3>7. \E dut : CutBy(dut, u, logged) /\ dut[0] = cut[m]
      <4>1. m \in 0 .. NFiles
        BY <3>2
      <4>2. u = [f \in LogNames |-> u[f]]
        BY <3>5
      <4> HIDE NamesOfFiles, BackupNames
      <4>3. Dropped(text, u, m)
        BY <3>6, <4>1, <4>2, Zenon DEF Dropped
      <4>4. QED
        BY <1>3, <4>3, CutDrop
    <3>8. \A n \in LogNames \ dir' : u[n] = <<>>
      BY <1>2, <3>3, <3>5
    <3>9. \A i \in 1 .. NFiles : i < NFiles - MaxBackupIndex => u[FileNames[i]] = <<>>
      BY <3>2, <3>6
    <3>10. shifting' \in 1 .. MaxBackupIndex /\ u[Backup(shifting')] = <<>>
      <4>1. u[FileNames[m]] = <<>>
        BY <3>5
      <4>2. MaxBackupIndex \in 1 .. MaxBackupIndex
        BY <2>1
      <4> HIDE NamesOfFiles, BackupNames
      <4>3. QED
        BY <3>1, <3>2, <4>1, <4>2
    <3>11. dir' \subseteq LogNames
      BY <1>2, <3>3
    <3>12. \E dut : CutBy(dut, text', logged')
      BY <3>1, <3>4, <3>7
    <3>13. QED
      BY <1>2, <3>1, <3>4, <3>8, <3>9, <3>10, <3>11, <3>12 DEF RollingInv, Backup
  <2>2. CASE ~(MaxBackupIndex > 0)
    <3>1. UNCHANGED <<dir, text, logged>> /\ pc' = "open"
      BY <1>10, <2>2 DEF RemoveLast
    <3>2. QED
      BY <1>2, <1>5, <3>1 DEF RollingInv
  <2>3. QED
    BY <2>1, <2>2
<1>11. CASE Shift
  <2> DEFINE from == IF shifting > 1 THEN Backup(shifting - 1) ELSE LogName
  <2>1. pc = "shift" /\ shifting \in 1 .. MaxBackupIndex /\ text[Backup(shifting)] = <<>>
    BY <1>2, <1>11 DEF Shift
  <2>2. /\ Rename(from, Backup(shifting)) /\ shifting' = shifting - 1
        /\ pc' = IF shifting = 1 THEN "open" ELSE "shift"
        /\ UNCHANGED <<logged, fd>>
    BY <1>11 DEF Shift
  <2>3. PICK j \in 1 .. NFiles : j = NFiles - shifting /\ Backup(shifting) = FileNames[j]
    BY <2>1
  <2>4. PICK k \in 1 .. NFiles : k = j + 1 /\ from = FileNames[k]
    <3>1. CASE shifting > 1
      <4>1. shifting - 1 \in 0 .. MaxBackupIndex /\ NFiles - (shifting - 1) = j + 1
        BY <2>1, <2>3, <3>1
      <4>2. from = FileNames[j + 1] /\ j + 1 \in 1 .. NFiles
        BY <3>1, <4>1
      <4>3. QED
        BY <4>2
    <3>2. CASE ~(shifting > 1)
      <4>1. shifting = 1 /\ NFiles = j + 1
        BY <2>1, <2>3, <3>2
      <4>2. from = LogName
        BY <3>2
      <4>3. QED
        BY <4>1, <4>2
    <3>3. QED
      BY <3>1, <3>2
  <2> HIDE DEF from
  <2>5. CASE from \in dir
    <3>1. PICK u : u = text'
      OBVIOUS
    <3>2. /\ dir' = (dir \ {FileNames[k]}) \cup {FileNames[j]}
          /\ u = [text EXCEPT ![FileNames[j]] = text[FileNames[k]], ![FileNames[k]] = <<>>]
      BY <2>2, <2>3, <2>4, <2>5, <3>1 DEF Rename
    <3>3. \E dut : CutBy(dut, u, logged) /\ dut[0] = cut[0]
      <4>1. j < k /\ \A i \in j .. k - 1 : text[FileNames[i]] = <<>>
        BY <2>1, <2>3, <2>4
      <4>2. u = [text EXCEPT ![FileNames[j]] = text[FileNames[k]], ![FileNames[k]] = <<>>]
        BY <3>2
      <4> HIDE NamesOfFiles, BackupNames
      <4>3. j \in 1 .. NFiles /\ k \in 1 .. NFiles
        BY <2>3, <2>4
      <4>4. Moved(text, u, j, k)
        BY <4>1, <4>2, <4>3 DEF Moved
      <4>5. QED
        BY <1>3, <4>4, CutMove, Zenon
    <3>4. \A n \in LogNames :
            u[n] = IF n = FileNames[k] THEN <<>> ELSE IF n = FileNames[j] THEN text[FileNames[k]] ELSE text[n]
      BY <1>4, <3>2
    <3>5. \A n \in LogNames \ dir' : u[n] = <<>>
      BY <1>2, <3>2, <3>4
    <3>6. \A i \in 1 .. NFiles : i < NFiles - MaxBackupIndex => u[FileNames[i]] = <<>>
      <4>1. NFiles - MaxBackupIndex <= j
        BY <2>1, <2>3
      <4>2. QED
        BY <1>2, <2>4, <3>4, <4>1
    <3>7. pc' = "shift" => shifting' \in 1 .. MaxBackupIndex /\ u[Backup(shifting')] = <<>>
      <4>1. SUFFICES ASSUME pc' = "shift" PROVE shifting - 1 \in 1 .. MaxBackupIndex /\ u[Backup(shifting - 1)] = <<>>
        BY <2>2
      <4>2. shifting > 1
        BY <2>1, <2>2, <4>1
      <4>3. Backup(shifting - 1) = FileNames[k]
        BY <2>4, <4>2 DEF from
      <4>4. u[FileNames[k]] = <<>>
        BY <2>4, <3>4
      <4>5. u[Backup(shifting - 1)] = <<>>
        BY <4>3, <4>4
      <4> HIDE NamesOfFiles
      <4>6. shifting - 1 \in 1 .. MaxBackupIndex
        BY <2>1, <4>2
      <4>7. QED
        BY <4>5, <4>6
    <3>8. pc' \notin {"ready", "written"}
      BY <2>2
    <3>9. dir' \subseteq LogNames
      BY <1>2, <3>2
    <3>10. \E dut : CutBy(dut, text', logged')
      BY <2>2, <3>1, <3>3
    <3>11. QED
      BY <1>2, <2>2, <3>1, <3>5, <3>6, <3>7, <3>8, <3>9, <3>10 DEF RollingInv, Backup
  <2>6. CASE from \notin dir
    <3>1. UNCHANGED <<dir, text, logged>>
      BY <2>2, <2>6 DEF Rename
    <3>2. pc' = "shift" => shifting' \in 1 .. MaxBackupIndex /\ text[Backup(shifting')] = <<>>
      <4>1. SUFFICES ASSUME pc' = "shift" PROVE shifting - 1 \in 1 .. MaxBackupIndex /\ text[Backup(shifting - 1)] = <<>>
        BY <2>2
      <4>2. shifting > 1
        BY <2>1, <2>2, <4>1
      <4>3. Backup(shifting - 1) = FileNames[k] /\ text[FileNames[k]] = <<>>
        BY <1>2, <2>4, <2>6, <4>2 DEF from
      <4>4. text[Backup(shifting - 1)] = <<>>
        BY <4>3
      <4> HIDE NamesOfFiles
      <4>5. shifting - 1 \in 1 .. MaxBackupIndex
        BY <2>1, <4>2
      <4>6. QED
        BY <4>4, <4>5
    <3>3. pc' \notin {"ready", "written"}
      BY <2>2
    <3>4. \E dut : CutBy(dut, text', logged')
      BY <1>5, <3>1
    <3>5. QED
      BY <1>2, <3>1, <3>2, <3>3, <3>4 DEF RollingInv, Backup
  <2>7. QED
    BY <2>5, <2>6
<1>12. CASE RollingOpen
  BY <1>6, <1>12 DEF RollingOpen
<1>13. CASE RollingCrash
  BY <1>2, <1>5, <1>13 DEF RollingCrash, RollingInv
<1>14. CASE UNCHANGED rollingVars
  BY <1>2, <1>5, <1>14 DEF rollingVars, fileVars, RollingInv, Backup
<1>15. QED
  BY <1>7, <1>8, <1>9, <1>10, <1>11, <1>12, <1>13, <1>14 DEF RollingNext

\* With append the backups and the file are the end of the log, wherever the
\* program ends and starts again (RollingFileAppender.cpp:61).
THEOREM BackupsStayInOrder == RollingSpec => []BackupsInOrder
<1>1. RollingInv => BackupsInOrder
  BY CutIsSuffix DEF RollingInv, BackupsInOrder
<1>2. QED
  BY <1>1, RollingInit_Inv, RollingInv_Step, PTL DEF RollingSpec

-----------------------------------------------------------------------------
(* DailyRollingFileAppender. *)

\* The files that exist were last written in the order of their names, and the
\* dates in use are all before the one the file will get.
DailyDates ==
  /\ clock \in 0 .. MaxTime /\ mtime \in [LogNames -> 0 .. MaxTime] /\ dir \subseteq LogNames
  /\ \A n \in dir : mtime[n] \in 0 .. clock
  /\ \A i, j \in 1 .. NFiles :
       i < j /\ FileNames[i] \in dir /\ FileNames[j] \in dir => mtime[FileNames[i]] <= mtime[FileNames[j]]
  /\ \A d \in 1 .. MaxDay : Dated(d) \in dir =>
       /\ d < DateOf[clock]
       /\ dailyAt \in {"ready", "rename", "write"} => d < logsTime
       /\ dailyAt \in {"open", "clean"} => d < DateOf[moment]
       /\ LogName \in dir => d < DateOf[mtime[LogName]]

\* What is known of the file in use.  It has no name only if it was too old
\* when it was opened, and all that was there was then too old; the next event
\* is then one of a later date.
DailyStages ==
  /\ dailyAt \in {"off", "ready", "rename", "open", "clean", "write"}
  /\ dailyAt # "off" => logsTime \in 1 .. DateOf[clock]
  /\ dailyAt \in {"rename", "open", "clean", "write"} => moment \in 0 .. clock
  /\ dailyAt \in {"rename", "open", "clean"} => logsTime < DateOf[moment]
  /\ dailyAt = "write" => DateOf[moment] = logsTime
  /\ dailyAt \in {"ready", "rename", "write"} /\ LogName \in dir => logsTime <= DateOf[mtime[LogName]]
  /\ dailyAt \in {"ready", "write"} /\ fd # NoFile => fd = LogName /\ LogName \in dir
  /\ dailyAt \in {"ready", "write"} /\ fd = NoFile => dir = {}
  /\ dailyAt = "ready" /\ fd = NoFile => logsTime < DateOf[clock]
  /\ dailyAt = "write" /\ fd = NoFile => moment < clock - KeptFor
  /\ dailyAt = "open" => LogName \notin dir
  /\ dailyAt = "clean" => fd = LogName /\ LogName \in dir /\ moment <= mtime[LogName]

\* The calendar: dates follow the times, and a file that is too old is of an
\* earlier date.
LEMMA Calendar ==
  /\ MaxTime \in Nat /\ KeptFor \in Nat /\ 0 \in 0 .. MaxTime
  /\ \A t \in 0 .. MaxTime : t \in Nat /\ DateOf[t] \in 1 .. MaxDay /\ DateOf[t] \in Nat
  /\ \A s, t \in 0 .. MaxTime : s <= t => DateOf[s] <= DateOf[t]
  /\ \A s, t \in 0 .. MaxTime : s < t - KeptFor => DateOf[s] < DateOf[t]
<1>1. /\ MaxTime \in Nat /\ MaxDay \in Nat /\ DayLength \in Nat \ {0} /\ MaxDaysToKeep \in Nat \ {0}
      /\ DateOf \in [0 .. MaxTime -> 1 .. MaxDay]
      /\ \A s, t \in 0 .. MaxTime : s <= t => DateOf[s] <= DateOf[t]
      /\ \A s, t \in 0 .. MaxTime : s < t - DayLength => DateOf[s] < DateOf[t]
  BY DailyAssumption
<1>2. KeptFor \in Nat /\ DayLength <= KeptFor
  BY <1>1 DEF KeptFor
<1>3. ASSUME NEW s \in 0 .. MaxTime, NEW t \in 0 .. MaxTime, s < t - KeptFor
      PROVE  DateOf[s] < DateOf[t]
  <2>1. s < t - DayLength
    BY <1>1, <1>2, <1>3
  <2>2. QED
    BY <1>1, <2>1
<1>4. \A t \in 0 .. MaxTime : t \in Nat /\ DateOf[t] \in 1 .. MaxDay /\ DateOf[t] \in Nat
  BY <1>1
<1>5. 0 \in 0 .. MaxTime
  BY <1>1
<1>6. QED
  BY <1>1, <1>2, <1>3, <1>4, <1>5

LEMMA DatedNames ==
  /\ MaxDay \in Nat \ {0} /\ NFiles = MaxDay + 1
  /\ LogName \in LogNames /\ LogName # NoFile /\ LogName = FileNames[NFiles]
  /\ \A d \in 1 .. MaxDay : d \in 1 .. NFiles /\ Dated(d) = FileNames[d] /\ Dated(d) \in LogNames
  /\ \A i \in 1 .. NFiles : FileNames[i] # LogName => i \in 1 .. MaxDay /\ FileNames[i] = Dated(i)
  /\ \A c, d \in 1 .. MaxDay : Dated(c) = Dated(d) => c = d
  /\ \A d \in 1 .. MaxDay : Dated(d) # LogName
<1>1. MaxDay \in Nat \ {0} /\ NFiles = MaxDay + 1
  BY DailyAssumption DEF NFiles
<1>2. LogName \in LogNames /\ LogName = FileNames[NFiles] /\ LogName # NoFile
  BY NamesOfFiles, LogFileAssumption
<1>3. \A d \in 1 .. MaxDay : d \in 1 .. NFiles /\ d # NFiles
  BY <1>1
<1>4. \A i \in 1 .. NFiles : i # NFiles => i \in 1 .. MaxDay
  BY <1>1
<1>5. QED
  BY <1>1, <1>2, <1>3, <1>4, NamesOfFiles DEF Dated

LEMMA DailyInit_Order == DailyInit => DailyDates /\ DailyStages
<1> SUFFICES ASSUME DailyInit PROVE DailyDates /\ DailyStages
  OBVIOUS
<1>1. clock = 0 /\ mtime = [n \in LogNames |-> 0] /\ dir = {} /\ dailyAt = "off"
  BY DEF DailyInit, FileInit
<1>2. QED
  BY <1>1, DatedNames, Calendar DEF DailyDates, DailyStages

\* open: the file is there afterwards, and no file was written after it.
LEMMA DailyOpened ==
  ASSUME DailyDates, OpenTouches, clock' = clock
  PROVE  /\ dir' = dir \cup {LogName} /\ fd' = LogName /\ mtime' \in [LogNames -> 0 .. MaxTime]
         /\ \A n \in dir' : mtime'[n] \in 0 .. clock
         /\ \A n \in LogNames : n # LogName => mtime'[n] = mtime[n]
         /\ \A i, j \in 1 .. NFiles :
              i < j /\ FileNames[i] \in dir' /\ FileNames[j] \in dir' => mtime'[FileNames[i]] <= mtime'[FileNames[j]]
         /\ \A d \in 1 .. MaxDay : Dated(d) \in dir' => d < DateOf[clock] /\ d < DateOf[mtime'[LogName]]
         /\ LogName \notin dir => mtime'[LogName] = clock
<1> USE DatedNames, Calendar
<1>1. dir' = dir \cup {LogName} /\ fd' = LogName
  BY DEF OpenTouches, Open
<1>2. (mtime' = mtime /\ LogName \in dir) \/ mtime' = [mtime EXCEPT ![LogName] = clock]
  BY DEF OpenTouches
<1>3. mtime \in [LogNames -> 0 .. MaxTime] /\ clock \in 0 .. MaxTime /\ clock \in Nat /\ dir \subseteq LogNames
  BY DEF DailyDates
<1>4. /\ mtime' \in [LogNames -> 0 .. MaxTime]
      /\ \A n \in LogNames : n # LogName => mtime'[n] = mtime[n]
      /\ mtime'[LogName] = clock \/ (LogName \in dir /\ mtime'[LogName] = mtime[LogName])
  BY <1>2, <1>3
<1>5. \A n \in dir' : mtime'[n] \in 0 .. clock
  BY <1>1, <1>3, <1>4 DEF DailyDates
<1>6. ASSUME NEW i \in 1 .. NFiles, NEW j \in 1 .. NFiles, i < j, FileNames[i] \in dir', FileNames[j] \in dir'
      PROVE  mtime'[FileNames[i]] <= mtime'[FileNames[j]]
  <2>1. i # NFiles /\ FileNames[i] # LogName
    BY <1>6, NamesOfFiles
  <2>2. FileNames[i] \in dir /\ FileNames[i] \in LogNames /\ mtime'[FileNames[i]] = mtime[FileNames[i]]
    BY <1>1, <1>3, <1>4, <1>6, <2>1
  <2>3. CASE FileNames[j] = LogName
    <3>1. CASE mtime'[LogName] = clock
      BY <1>5, <1>6, <2>3, <3>1
    <3>2. CASE LogName \in dir /\ mtime'[LogName] = mtime[LogName]
      BY <1>6, <2>2, <2>3, <3>2 DEF DailyDates
    <3>3. QED
      BY <1>4, <3>1, <3>2
  <2>4. CASE FileNames[j] # LogName
    <3>1. FileNames[j] \in dir /\ mtime'[FileNames[j]] = mtime[FileNames[j]]
      BY <1>1, <1>3, <1>4, <1>6, <2>4
    <3>2. QED
      BY <1>6, <2>2, <3>1 DEF DailyDates
  <2>5. QED
    BY <2>3, <2>4
<1>7. \A d \in 1 .. MaxDay : Dated(d) \in dir' => d < DateOf[clock] /\ d < DateOf[mtime'[LogName]]
  BY <1>1, <1>4 DEF DailyDates
<1>8. LogName \notin dir => mtime'[LogName] = clock
  BY <1>4
<1>9. QED
  BY <1>1, <1>4, <1>5, <1>6, <1>7, <1>8

LEMMA DailyOrder_Step ==
  DailyDates /\ DailyStages /\ [DailyNext]_dailyVars => DailyDates' /\ DailyStages'
<1> SUFFICES ASSUME DailyDates, DailyStages, [DailyNext]_dailyVars PROVE DailyDates' /\ DailyStages'
  OBVIOUS
<1> USE DatedNames, Calendar
<1>1. clock \in 0 .. MaxTime /\ clock \in Nat /\ mtime \in [LogNames -> 0 .. MaxTime] /\ dir \subseteq LogNames
  BY DEF DailyDates
<1>2. CASE TimePasses
  <2>1. /\ clock' = clock + 1 /\ clock' \in 0 .. MaxTime /\ DateOf[clock] <= DateOf[clock']
        /\ UNCHANGED <<dir, fd, mtime, logsTime, moment, dailyAt>>
    BY <1>1, <1>2 DEF TimePasses, fileVars
  <2>2. DailyDates'
    BY <1>1, <2>1 DEF DailyDates, Dated
  <2>3. DailyStages'
    BY <1>1, <2>1 DEF DailyStages
  <2>4. QED
    BY <2>2, <2>3
<1>3. CASE DailyConstruct
  <2>1. OpenTouches /\ clock' = clock /\ logsTime' = DateOf[mtime'[LogName]] /\ dailyAt' = "ready"
    BY <1>3 DEF DailyConstruct
  <2>2. PICK u : u = mtime'
    OBVIOUS
  <2>3. /\ dir' = dir \cup {LogName} /\ fd' = LogName /\ u \in [LogNames -> 0 .. MaxTime]
        /\ \A n \in dir' : u[n] \in 0 .. clock
        /\ \A i, j \in 1 .. NFiles :
             i < j /\ FileNames[i] \in dir' /\ FileNames[j] \in dir' => u[FileNames[i]] <= u[FileNames[j]]
        /\ \A d \in 1 .. MaxDay : Dated(d) \in dir' => d < DateOf[clock] /\ d < DateOf[u[LogName]]
    BY <2>1, <2>2, DailyOpened
  <2>4. DailyDates'
    BY <1>1, <2>1, <2>2, <2>3 DEF DailyDates, Dated
  <2>5. u[LogName] \in 0 .. clock /\ DateOf[u[LogName]] \in 1 .. DateOf[clock]
    BY <1>1, <2>3
  <2>6. DailyStages'
    BY <2>1, <2>2, <2>3, <2>5 DEF DailyStages
  <2>7. QED
    BY <2>4, <2>6
<1>4. CASE DailyBegin
  <2>1. /\ dailyAt = "ready" /\ moment' = clock
        /\ UNCHANGED <<dir, clock, mtime, logsTime>>
        /\ \/ DateOf[clock] # logsTime /\ fd' = NoFile /\ dailyAt' = "rename"
           \/ DateOf[clock] = logsTime /\ fd' = fd /\ dailyAt' = "write"
    BY <1>4 DEF DailyBegin
  <2>2. logsTime \in 1 .. DateOf[clock] /\ clock \in 0 .. clock
    BY <1>1, <2>1 DEF DailyStages
  <2>3. DailyDates'
    BY <2>1 DEF DailyDates, Dated
  <2>4. DailyStages'
    <3>1. CASE DateOf[clock] # logsTime
      BY <1>1, <2>1, <2>2, <3>1 DEF DailyStages
    <3>2. CASE DateOf[clock] = logsTime
      BY <1>1, <2>1, <2>2, <3>2 DEF DailyStages
    <3>3. QED
      BY <3>1, <3>2
  <2>5. QED
    BY <2>3, <2>4
<1>5. CASE RenameToDate
  <2>1. /\ dailyAt = "rename" /\ dailyAt' = "open" /\ UNCHANGED <<fd, clock, logsTime, moment>>
        /\ Rename(LogName, Dated(logsTime))
        /\ mtime' = IF LogName \in dir THEN [mtime EXCEPT ![Dated(logsTime)] = mtime[LogName]] ELSE mtime
    BY <1>5 DEF RenameToDate
  <2>2. logsTime \in 1 .. DateOf[clock] /\ moment \in 0 .. clock /\ logsTime < DateOf[moment]
    BY <2>1 DEF DailyStages
  <2>3. /\ logsTime \in 1 .. MaxDay /\ logsTime < DateOf[clock]
        /\ moment \in 0 .. MaxTime /\ DateOf[moment] <= DateOf[clock]
    BY <1>1, <2>2
  <2>4. CASE LogName \notin dir
    <3>1. UNCHANGED <<dir, mtime>>
      BY <2>1, <2>4 DEF Rename
    <3>2. \A d \in 1 .. MaxDay : Dated(d) \in dir => d < DateOf[moment]
      BY <2>1, <2>2, <2>3 DEF DailyDates
    <3>3. DailyDates'
      BY <1>1, <2>1, <2>4, <3>1, <3>2 DEF DailyDates, Dated
    <3>4. DailyStages'
      BY <2>1, <2>2, <2>4, <3>1 DEF DailyStages
    <3>5. QED
      BY <3>3, <3>4
  <2>5. CASE LogName \in dir
    <3>1. PICK k \in 1 .. MaxDay : k = logsTime
      BY <2>3
    <3>2. /\ Dated(k) # LogName /\ Dated(k) = FileNames[k]
          /\ dir' = (dir \ {LogName}) \cup {Dated(k)}
          /\ mtime' = [mtime EXCEPT ![Dated(k)] = mtime[LogName]]
      BY <2>1, <2>5, <3>1 DEF Rename
    <3>3. PICK u : u = mtime'
      OBVIOUS
    <3>4. /\ u \in [LogNames -> 0 .. MaxTime]
          /\ \A n \in LogNames : u[n] = IF n = Dated(k) THEN mtime[LogName] ELSE mtime[n]
          /\ dir' \subseteq LogNames /\ LogName \notin dir'
      BY <1>1, <3>2, <3>3
    <3>5. \A n \in dir' : u[n] \in 0 .. clock
      BY <1>1, <2>5, <3>2, <3>4 DEF DailyDates
    <3>6. ASSUME NEW i \in 1 .. NFiles, NEW j \in 1 .. NFiles, i < j, FileNames[i] \in dir', FileNames[j] \in dir'
          PROVE  u[FileNames[i]] <= u[FileNames[j]]
      <4>1. /\ FileNames[i] # LogName /\ FileNames[j] # LogName
            /\ i \in 1 .. MaxDay /\ FileNames[i] = Dated(i) /\ j \in 1 .. MaxDay /\ FileNames[j] = Dated(j)
        BY <3>4, <3>6
      <4>2. CASE i = k
        <5>1. Dated(j) \in dir /\ j > k
          BY <3>2, <3>6, <4>1, <4>2
        <5>2. j < logsTime
          BY <2>1, <4>1, <5>1 DEF DailyDates
        <5>3. QED
          BY <2>2, <3>1, <5>1, <5>2
      <4>3. CASE i # k
        <5>1. Dated(i) # Dated(k) /\ Dated(i) \in dir /\ u[FileNames[i]] = mtime[FileNames[i]]
          BY <3>2, <3>4, <3>6, <4>1, <4>3
        <5>2. i < NFiles /\ NFiles \in 1 .. NFiles
          BY <4>1
        <5>3. mtime[FileNames[i]] <= mtime[LogName]
          BY <2>5, <4>1, <5>1, <5>2 DEF DailyDates
        <5>4. CASE j = k
          BY <3>4, <4>1, <5>1, <5>3, <5>4
        <5>5. CASE j # k
          <6>1. Dated(j) # Dated(k) /\ Dated(j) \in dir /\ u[FileNames[j]] = mtime[FileNames[j]]
            BY <3>2, <3>4, <3>6, <4>1, <5>5
          <6>2. mtime[FileNames[i]] <= mtime[FileNames[j]]
            BY <3>6, <4>1, <5>1, <6>1 DEF DailyDates
          <6>3. QED
            BY <5>1, <6>1, <6>2
        <5>6. QED
          BY <5>4, <5>5
      <4>4. QED
        BY <4>2, <4>3
    <3>7. ASSUME NEW d \in 1 .. MaxDay, Dated(d) \in dir'
          PROVE  d < DateOf[clock] /\ d < DateOf[moment]
      <4>1. CASE d = k
        BY <2>2, <2>3, <3>1, <4>1
      <4>2. CASE d # k
        <5>1. Dated(d) \in dir
          BY <3>2, <3>7, <4>2
        <5>2. d < DateOf[clock] /\ d < logsTime
          BY <2>1, <5>1 DEF DailyDates
        <5>3. QED
          BY <2>2, <2>3, <5>2
      <4>3. QED
        BY <4>1, <4>2
    <3>8. clock' \in 0 .. MaxTime
      BY <1>1, <2>1
    <3>9. DailyDates'
      BY <2>1, <3>3, <3>4, <3>5, <3>6, <3>7, <3>8 DEF DailyDates, Dated
    <3>10. DailyStages'
      BY <2>1, <2>2, <3>4 DEF DailyStages
    <3>11. QED
      BY <3>9, <3>10
  <2>6. QED
    BY <2>4, <2>5
<1>6. CASE DailyOpen
  <2>1. OpenTouches /\ dailyAt = "open" /\ dailyAt' = "clean" /\ UNCHANGED <<clock, logsTime, moment>>
    BY <1>6 DEF DailyOpen
  <2>2. LogName \notin dir /\ moment \in 0 .. clock /\ logsTime < DateOf[moment] /\ logsTime \in 1 .. DateOf[clock]
    BY <2>1 DEF DailyStages
  <2>3. PICK u : u = mtime'
    OBVIOUS
  <2>4. /\ dir' = dir \cup {LogName} /\ fd' = LogName /\ u \in [LogNames -> 0 .. MaxTime]
        /\ \A n \in dir' : u[n] \in 0 .. clock
        /\ \A i, j \in 1 .. NFiles :
             i < j /\ FileNames[i] \in dir' /\ FileNames[j] \in dir' => u[FileNames[i]] <= u[FileNames[j]]
        /\ \A d \in 1 .. MaxDay : Dated(d) \in dir' => d < DateOf[clock] /\ d < DateOf[u[LogName]]
        /\ u[LogName] = clock
    BY <2>1, <2>2, <2>3, DailyOpened
  <2>5. \A d \in 1 .. MaxDay : Dated(d) \in dir' => d < DateOf[moment]
    BY <2>1, <2>4 DEF DailyDates
  <2>6. DailyDates'
    BY <1>1, <2>1, <2>3, <2>4, <2>5 DEF DailyDates, Dated
  <2>7. DailyStages'
    BY <2>1, <2>2, <2>3, <2>4 DEF DailyStages
  <2>8. QED
    BY <2>6, <2>7
<1>7. CASE DeleteOld
  <2> DEFINE old == {n \in dir : TooOld(n)}
  <2>1. /\ dailyAt = "clean" /\ dailyAt' = "write" /\ logsTime' = DateOf[moment]
        /\ dir' = dir \ old /\ fd' = (IF fd \in old THEN NoFile ELSE fd)
        /\ UNCHANGED <<clock, mtime, moment>>
    BY <1>7 DEF DeleteOld
  <2>2. fd = LogName /\ LogName \in dir /\ moment <= mtime[LogName] /\ moment \in 0 .. clock
    BY <2>1 DEF DailyStages
  <2>7. /\ mtime[LogName] \in 0 .. MaxTime /\ moment \in 0 .. MaxTime
        /\ DateOf[moment] \in 1 .. DateOf[clock] /\ DateOf[moment] <= DateOf[mtime[LogName]]
    BY <1>1, <2>2
  <2>3. DailyDates'
    <3>1. dir' \subseteq dir
      BY <2>1
    <3>2. QED
      BY <1>1, <2>1, <3>1 DEF DailyDates, Dated
  <2>4. CASE LogName \in old
    <3>1. fd' = NoFile /\ mtime[LogName] < clock - KeptFor
      BY <2>1, <2>2, <2>4 DEF TooOld
    <3>2. ASSUME NEW n \in dir PROVE n \in old
      <4>1. PICK i \in 1 .. NFiles : n = FileNames[i]
        BY <1>1, NamesOfFiles
      <4>2. CASE i = NFiles
        BY <2>4, <4>1, <4>2
      <4>3. CASE i # NFiles
        <5>1. i < NFiles /\ NFiles \in 1 .. NFiles
          BY <4>1, <4>3
        <5>2. mtime[n] <= mtime[LogName]
          BY <2>2, <3>2, <4>1, <5>1 DEF DailyDates
        <5>3. mtime[n] \in Nat /\ mtime[LogName] \in Nat
          BY <1>1, <2>2
        <5>4. mtime[n] < clock - KeptFor
          BY <1>1, <3>1, <5>2, <5>3
        <5>5. QED
          BY <5>4 DEF TooOld
      <4>4. QED
        BY <4>2, <4>3
    <3>3. dir' = {}
      BY <2>1, <3>2
    <3>4. moment < clock - KeptFor
      BY <1>1, <2>2, <3>1
    <3>5. QED
      BY <2>1, <2>2, <2>3, <2>7, <3>1, <3>3, <3>4 DEF DailyStages
  <2>5. CASE LogName \notin old
    <3>1. fd' = LogName /\ LogName \in dir'
      BY <2>1, <2>2, <2>5
    <3> HIDE DEF old
    <3>2. QED
      BY <2>1, <2>2, <2>3, <2>7, <3>1 DEF DailyStages
  <2>6. QED
    BY <2>4, <2>5
<1>8. CASE DailyWrite
  <2>1. /\ dailyAt = "write" /\ dailyAt' = "ready" /\ UNCHANGED <<dir, fd, clock, logsTime, moment>>
        /\ mtime' = IF fd = NoFile THEN mtime ELSE [mtime EXCEPT ![fd] = clock]
    BY <1>8 DEF DailyWrite
  <2>2. CASE fd = NoFile
    <3>1. mtime' = mtime
      BY <2>1, <2>2
    <3>2. DailyDates'
      BY <2>1, <3>1 DEF DailyDates, Dated
    <3>3. moment \in 0 .. MaxTime /\ moment < clock - KeptFor /\ logsTime = DateOf[moment] /\ dir = {}
      BY <1>1, <2>1, <2>2 DEF DailyStages
    <3>4. logsTime < DateOf[clock] /\ logsTime \in 1 .. DateOf[clock]
      BY <1>1, <3>3
    <3>5. DailyStages'
      BY <2>1, <2>2, <3>1, <3>3, <3>4 DEF DailyStages
    <3>6. QED
      BY <3>2, <3>5
  <2>3. CASE fd # NoFile
    <3>1. fd = LogName /\ LogName \in dir /\ logsTime \in 1 .. DateOf[clock]
      BY <2>1, <2>3 DEF DailyStages
    <3>2. PICK u : u = mtime'
      OBVIOUS
    <3>3. /\ u = [mtime EXCEPT ![LogName] = clock] /\ u \in [LogNames -> 0 .. MaxTime]
          /\ \A n \in LogNames : u[n] = IF n = LogName THEN clock ELSE mtime[n]
      BY <1>1, <2>1, <2>3, <3>1, <3>2
    <3>4. \A n \in dir : u[n] \in 0 .. clock
      BY <1>1, <3>3 DEF DailyDates
    <3>5. ASSUME NEW i \in 1 .. NFiles, NEW j \in 1 .. NFiles, i < j, FileNames[i] \in dir, FileNames[j] \in dir
          PROVE  u[FileNames[i]] <= u[FileNames[j]]
      <4>1. i # NFiles /\ FileNames[i] # LogName /\ u[FileNames[i]] = mtime[FileNames[i]]
        BY <1>1, <3>3, <3>5, NamesOfFiles
      <4>2. CASE FileNames[j] = LogName
        BY <1>1, <3>3, <3>4, <3>5, <4>2
      <4>3. CASE FileNames[j] # LogName
        <5>1. u[FileNames[j]] = mtime[FileNames[j]]
          BY <1>1, <3>3, <3>5, <4>3
        <5>2. QED
          BY <3>5, <4>1, <5>1 DEF DailyDates
      <4>4. QED
        BY <4>2, <4>3
    <3>6. \A d \in 1 .. MaxDay : Dated(d) \in dir => d < DateOf[clock] /\ d < logsTime /\ d < DateOf[u[LogName]]
      BY <2>1, <3>3 DEF DailyDates
    <3>7. clock' \in 0 .. MaxTime
      BY <1>1, <2>1
    <3>8. DailyDates'
      BY <1>1, <2>1, <3>2, <3>3, <3>4, <3>5, <3>6, <3>7 DEF DailyDates, Dated
    <3>9. logsTime <= DateOf[u[LogName]] /\ u[LogName] = clock
      BY <1>1, <3>1, <3>3
    <3>10. DailyStages'
      BY <2>1, <2>3, <3>1, <3>2, <3>9 DEF DailyStages
    <3>11. QED
      BY <3>8, <3>10
  <2>4. QED
    BY <2>2, <2>3
<1>9. CASE DailyCrash
  <2>1. dailyAt' = "off" /\ UNCHANGED <<dir, clock, mtime>>
    BY <1>9 DEF DailyCrash
  <2>2. QED
    BY <2>1 DEF DailyDates, DailyStages, Dated
<1>10. CASE UNCHANGED dailyVars
  BY <1>10 DEF DailyDates, DailyStages, dailyVars, fileVars, Dated
<1>11. QED
  BY <1>2, <1>3, <1>4, <1>5, <1>6, <1>7, <1>8, <1>9, <1>10 DEF DailyNext

\* An event is in a file that was written at its time or later; those that are
\* in none were too old.
DailyEvents ==
  append =>
    /\ logged \in Nat /\ loggedOn \in Seq(Nat) /\ Len(loggedOn) = logged
    /\ \A e \in 1 .. logged : loggedOn[e] <= clock
    /\ \A n \in LogNames \ dir : text[n] = <<>>
    /\ \E cut : /\ CutBy(cut, text, logged)
                /\ \A e \in 1 .. logged : e <= cut[0] => loggedOn[e] < clock - KeptFor
    /\ \A n \in LogNames : \A e \in 1 .. logged : e \in ToSet(text[n]) => loggedOn[e] <= mtime[n]

LEMMA DailyInit_Events == DailyInit => DailyEvents
<1> SUFFICES ASSUME DailyInit PROVE DailyEvents
  OBVIOUS
<1>1. text = [n \in LogNames |-> <<>>] /\ logged = 0 /\ loggedOn = <<>>
  BY DEF DailyInit, FileInit
<1>2. \A n \in LogNames : text[n] = <<>>
  BY <1>1
<1>3. PICK cut : CutBy(cut, text, logged)
  BY <1>1, <1>2, CutEmpty
<1>4. loggedOn \in Seq(Nat) /\ Len(loggedOn) = 0
  BY <1>1
<1>5. logged \in Nat /\ 1 .. logged = {}
  BY <1>1
<1>6. QED
  BY <1>1, <1>2, <1>3, <1>4, <1>5 DEF DailyEvents

LEMMA DailyEvents_Step ==
  DailyDates /\ DailyStages /\ DailyEvents /\ [DailyNext]_dailyVars => DailyEvents'
<1> SUFFICES ASSUME DailyDates, DailyStages, DailyEvents, [DailyNext]_dailyVars, append'
             PROVE  DailyEvents'
  BY DEF DailyEvents
<1>1. append' = append
  BY DEF DailyNext, dailyVars, fileVars, TimePasses, DailyConstruct, DailyBegin, RenameToDate, DailyOpen,
    DeleteOld, DailyWrite, DailyCrash
<1>2. /\ append /\ logged \in Nat /\ loggedOn \in Seq(Nat) /\ Len(loggedOn) = logged
      /\ \A e \in 1 .. logged : loggedOn[e] <= clock
      /\ \A n \in LogNames \ dir : text[n] = <<>>
      /\ \A n \in LogNames : \A e \in 1 .. logged : e \in ToSet(text[n]) => loggedOn[e] <= mtime[n]
  BY <1>1 DEF DailyEvents
<1>3. PICK cut : CutBy(cut, text, logged) /\ \A e \in 1 .. logged : e <= cut[0] => loggedOn[e] < clock - KeptFor
  BY <1>2 DEF DailyEvents
<1>4. /\ text = [f \in LogNames |-> text[f]] /\ \A e \in 1 .. logged : loggedOn[e] \in Nat
      /\ clock \in Nat /\ mtime \in [LogNames -> Nat] /\ dir \subseteq LogNames /\ KeptFor \in Nat
  <2>1. text = [f \in LogNames |-> text[f]]
    BY <1>3 DEF CutBy
  <2>2. \A e \in 1 .. logged : loggedOn[e] \in Nat
    BY <1>2
  <2>3. mtime \in [LogNames -> 0 .. MaxTime] /\ dir \subseteq LogNames /\ clock \in 0 .. MaxTime
    BY DEF DailyDates
  <2>4. clock \in Nat /\ mtime \in [LogNames -> Nat]
    BY <2>3, Calendar
  <2>5. QED
    BY <2>1, <2>2, <2>3, <2>4, Calendar
<1>5. cut \in [0 .. NFiles -> Nat] /\ 0 \in 0 .. NFiles /\ cut[0] \in Nat
  BY <1>3, NamesOfFiles DEF CutBy
\* Steps that only touch names, dates and the descriptor.
<1>6. ASSUME UNCHANGED <<text, logged, loggedOn>>, clock' \in Nat, clock <= clock', dir \subseteq dir',
             \A n \in LogNames \cap dir : mtime'[n] = mtime[n]
      PROVE  DailyEvents'
  <2>1. \A n \in LogNames \ dir' : text'[n] = <<>>
    BY <1>2, <1>6
  <2>2. \A e \in 1 .. logged : e <= cut[0] => loggedOn[e] < clock' - KeptFor
    BY <1>3, <1>4, <1>6
  <2>3. ASSUME NEW n \in LogNames, NEW e \in 1 .. logged, e \in ToSet(text[n])
        PROVE  loggedOn[e] <= mtime'[n]
    <3>1. text[n] # <<>>
      BY <2>3 DEF ToSet
    <3>2. n \in dir
      BY <1>2, <2>3, <3>1
    <3>3. QED
      BY <1>2, <1>6, <2>3, <3>2
  <2>4. \A e \in 1 .. logged : loggedOn[e] <= clock'
    BY <1>2, <1>4, <1>6
  <2>5. logged' = logged /\ loggedOn' = loggedOn /\ text' = text
    BY <1>6
  <2>6. QED
    BY <1>2, <1>3, <2>1, <2>2, <2>3, <2>4, <2>5, Zenon DEF DailyEvents
<1>7. ASSUME OpenTouches, UNCHANGED <<clock, logged, loggedOn>>
      PROVE  DailyEvents'
  <2>1. text' = text /\ dir' = dir \cup {LogName}
    BY <1>2, <1>7 DEF OpenTouches, Open
  <2>2. mtime' = IF LogName \in dir THEN mtime ELSE [mtime EXCEPT ![LogName] = clock]
    BY <1>2, <1>7 DEF OpenTouches
  <2>3. \A n \in LogNames \cap dir : mtime'[n] = mtime[n]
    BY <1>4, <2>2
  <2>4. QED
    BY <1>4, <1>6, <1>7, <2>1, <2>3
<1>8. CASE TimePasses
  <2>1. clock' = clock + 1 /\ UNCHANGED <<text, logged, loggedOn, dir, mtime>>
    BY <1>8 DEF TimePasses, fileVars
  <2>2. clock' \in Nat /\ clock <= clock'
    BY <1>4, <2>1
  <2>3. QED
    BY <1>6, <2>1, <2>2
<1>9. CASE DailyConstruct
  BY <1>7, <1>9 DEF DailyConstruct
<1>10. CASE DailyBegin
  <2>1. UNCHANGED <<text, logged, loggedOn, dir, mtime, clock>>
    BY <1>10 DEF DailyBegin
  <2>2. QED
    BY <1>4, <1>6, <2>1
<1>11. CASE RenameToDate
  <2>1. /\ dailyAt = "rename" /\ UNCHANGED <<clock, logged, loggedOn>>
        /\ Rename(LogName, Dated(logsTime))
        /\ mtime' = IF LogName \in dir THEN [mtime EXCEPT ![Dated(logsTime)] = mtime[LogName]] ELSE mtime
    BY <1>11 DEF RenameToDate
  <2>2. CASE LogName \notin dir
    <3>1. UNCHANGED <<dir, text, mtime>>
      BY <2>1, <2>2 DEF Rename
    <3>2. QED
      BY <1>4, <1>6, <2>1, <3>1
  <2>3. CASE LogName \in dir
    <3>1. logsTime \in 1 .. MaxDay
      <4>1. clock \in 0 .. MaxTime /\ logsTime \in 1 .. DateOf[clock]
        BY <2>1 DEF DailyStages, DailyDates
      <4>2. QED
        BY <4>1, Calendar, DatedNames
    <3>2. PICK j : j = logsTime
      OBVIOUS
    <3>3. PICK u : u = text'
      OBVIOUS
    <3>4. PICK v : v = mtime'
      OBVIOUS
    <3>5. /\ j \in 1 .. MaxDay /\ j \in 1 .. NFiles /\ j < NFiles /\ NFiles \in 1 .. NFiles
          /\ Dated(j) = FileNames[j] /\ Dated(j) \in LogNames /\ Dated(j) # LogName
          /\ LogName = FileNames[NFiles] /\ LogName \in LogNames
      BY <3>1, <3>2, DatedNames
    <3>6. /\ dir' = (dir \ {LogName}) \cup {Dated(j)}
          /\ u = [text EXCEPT ![Dated(j)] = text[LogName], ![LogName] = <<>>]
          /\ v = [mtime EXCEPT ![Dated(j)] = mtime[LogName]]
      BY <2>1, <2>3, <3>2, <3>3, <3>4 DEF Rename
    <3>7. Moved(text, u, j, NFiles)
      <4>1. ASSUME NEW i \in j .. NFiles - 1 PROVE text[FileNames[i]] = <<>>
        <5>1. i \in 1 .. MaxDay /\ Dated(i) = FileNames[i] /\ Dated(i) \in LogNames /\ ~(i < j)
          BY <3>5, DatedNames
        <5>2. Dated(i) \notin dir
          BY <2>1, <3>2, <5>1 DEF DailyDates
        <5>3. QED
          BY <1>2, <5>1, <5>2
      <4>2. u = [text EXCEPT ![FileNames[j]] = text[FileNames[NFiles]], ![FileNames[NFiles]] = <<>>]
        BY <3>5, <3>6
      <4>3. QED
        BY <3>5, <4>1, <4>2 DEF Moved
    <3>8. PICK dut : CutBy(dut, u, logged) /\ dut[0] = cut[0]
      BY <1>3, <3>7, CutMove
    <3>9. \A n \in LogNames : /\ u[n] = IF n = LogName THEN <<>> ELSE IF n = Dated(j) THEN text[LogName] ELSE text[n]
                              /\ v[n] = IF n = Dated(j) THEN mtime[LogName] ELSE mtime[n]
      BY <1>4, <3>5, <3>6
    <3>10. \A n \in LogNames \ dir' : u[n] = <<>>
      BY <1>2, <3>6, <3>9
    <3>11. ASSUME NEW n \in LogNames, NEW e \in 1 .. logged, e \in ToSet(u[n])
           PROVE  loggedOn[e] <= v[n]
      <4>1. n # LogName
        BY <3>9, <3>11 DEF ToSet
      <4>2. QED
        BY <1>2, <3>5, <3>9, <3>11, <4>1
    <3>12. \A e \in 1 .. logged : e <= dut[0] => loggedOn[e] < clock - KeptFor
      BY <1>3, <3>8
    <3>13. /\ logged' = logged /\ loggedOn' = loggedOn /\ clock' = clock
      BY <2>1
    <3>14. QED
      BY <1>2, <3>3, <3>4, <3>8, <3>10, <3>11, <3>12, <3>13, Zenon DEF DailyEvents
  <2>4. QED
    BY <2>2, <2>3
<1>12. CASE DailyOpen
  BY <1>7, <1>12 DEF DailyOpen
<1>13. CASE DeleteOld
  <2>1. /\ dir' = dir \ {n \in dir : TooOld(n)} /\ UNCHANGED <<clock, logged, loggedOn, mtime>>
        /\ text' = [n \in LogNames |-> IF n \in {f \in dir : TooOld(f)} THEN <<>> ELSE text[n]]
    BY <1>13 DEF DeleteOld
  <2>2. PICK u : u = text'
    OBVIOUS
  <2>3. PICK old : old = {n \in dir : TooOld(n)}
    OBVIOUS
  <2>4. /\ u = [f \in LogNames |-> u[f]]
        /\ \A n \in LogNames : u[n] = IF n \in old THEN <<>> ELSE text[n]
    BY <2>1, <2>2, <2>3
  <2>5. \A n \in dir : n \in old <=> mtime[n] < clock - KeptFor
    BY <2>3 DEF TooOld
  <2>6. old \subseteq dir
    BY <2>3
  \* The newest file that is deleted.
  <2>7. PICK m \in 0 .. NFiles :
          /\ m = 0 \/ FileNames[m] \in old
          /\ \A i \in 1 .. NFiles : FileNames[i] \in old => i <= m
    <3> DEFINE T == {i \in 0 .. NFiles : i = NFiles \/ FileNames[NFiles - i] \in old}
    <3>1. T \in SUBSET Nat /\ T # {} /\ NFiles \in Nat
      BY NamesOfFiles
    <3>2. PICK k \in T : \A i \in T : k <= i
      <4> HIDE DEF T
      <4> QED
        BY <3>1, LeastNumber
    <3>3. NFiles - k \in 0 .. NFiles /\ (NFiles - k = 0 \/ FileNames[NFiles - k] \in old)
      BY <3>1, <3>2
    <3>4. ASSUME NEW i \in 1 .. NFiles, FileNames[i] \in old PROVE i <= NFiles - k
      <4>1. NFiles - i \in 0 .. NFiles /\ NFiles - (NFiles - i) = i
        BY <3>1
      <4>2. NFiles - i \in T
        BY <3>4, <4>1
      <4>3. k <= NFiles - i /\ k \in Nat
        BY <3>1, <3>2, <4>2
      <4> HIDE DEF T
      <4>4. QED
        BY <3>1, <4>3
    <3>5. QED
      BY <3>3, <3>4
  <2>8. ASSUME NEW i \in 1 .. NFiles, i <= m, FileNames[i] \in dir PROVE FileNames[i] \in old
    <3>1. m \in 1 .. NFiles /\ FileNames[m] \in old
      BY <2>7, <2>8, NamesOfFiles
    <3>2. CASE i = m
      BY <3>1, <3>2
    <3>3. CASE i # m
      <4>1. i < m /\ FileNames[m] \in dir
        BY <2>6, <2>8, <3>1, <3>3
      <4>2. mtime[FileNames[i]] <= mtime[FileNames[m]]
        BY <2>8, <3>1, <4>1 DEF DailyDates
      <4>3. mtime[FileNames[i]] \in Nat /\ mtime[FileNames[m]] \in Nat
        BY <1>4, <2>8, <4>1
      <4>4. mtime[FileNames[m]] < clock - KeptFor
        BY <2>5, <3>1, <4>1
      <4>5. QED
        BY <1>4, <2>5, <2>8, <4>2, <4>3, <4>4
    <3>4. QED
      BY <3>2, <3>3
  <2>9. Dropped(text, u, m)
    <3>1. ASSUME NEW i \in 1 .. NFiles
          PROVE  u[FileNames[i]] = IF i <= m THEN <<>> ELSE text[FileNames[i]]
      <4>1. FileNames[i] \in LogNames
        BY NamesOfFiles
      <4>2. CASE FileNames[i] \in old
        BY <2>4, <2>7, <4>1, <4>2
      <4>3. CASE FileNames[i] \notin old
        <5>1. i <= m => text[FileNames[i]] = <<>>
          BY <1>2, <2>8, <4>1, <4>3
        <5>2. QED
          BY <2>4, <4>1, <4>3, <5>1
      <4>4. QED
        BY <4>2, <4>3
    <3>2. QED
      BY <2>4, <2>7, <3>1 DEF Dropped
  <2>10. PICK dut : CutBy(dut, u, logged) /\ dut[0] = cut[m]
    BY <1>3, <2>9, CutDrop
  <2>11. ASSUME NEW e \in 1 .. logged, e <= dut[0]
         PROVE  loggedOn[e] < clock - KeptFor
    <3>1. CASE e <= cut[0]
      BY <1>3, <3>1
    <3>2. CASE ~(e <= cut[0])
      <4>1. cut[0] < e /\ e <= cut[m] /\ m # 0 /\ m \in 1 .. NFiles
        BY <1>5, <2>7, <2>10, <2>11, <3>2, NamesOfFiles
      <4>2. PICK i \in 1 .. NFiles : e \in ToSet(text[FileNames[i]])
        BY <1>2, <1>3, <4>1, CutHolds
      <4>3. cut[i - 1] < e /\ i \in 0 .. NFiles /\ i - 1 \in 0 .. NFiles
        BY <1>2, <1>3, <4>2, CutHolds, NamesOfFiles
      <4>4. i <= m
        <5>1. SUFFICES ASSUME ~(i <= m) PROVE FALSE
          OBVIOUS
        <5>2. m <= i - 1
          BY <4>1, <4>2, <5>1
        <5>3. cut[m] <= cut[i - 1]
          BY <1>3, <2>7, <4>3, <5>2, CutGrows
        <5>4. cut[m] \in Nat /\ cut[i - 1] \in Nat
          BY <1>5, <2>7, <4>3
        <5>5. QED
          BY <4>1, <4>3, <5>3, <5>4
      <4>5. FileNames[i] \in LogNames /\ text[FileNames[i]] # <<>>
        BY <4>2, NamesOfFiles DEF ToSet
      <4>6. FileNames[i] \in dir
        BY <1>2, <4>5
      <4>7. FileNames[i] \in old
        BY <2>8, <4>4, <4>6
      <4>8. loggedOn[e] <= mtime[FileNames[i]] /\ mtime[FileNames[i]] < clock - KeptFor
        BY <1>2, <2>5, <4>2, <4>5, <4>6, <4>7
      <4>9. loggedOn[e] \in Nat /\ mtime[FileNames[i]] \in Nat
        BY <1>4, <4>5
      <4>10. QED
        BY <1>4, <4>8, <4>9
    <3>3. QED
      BY <3>1, <3>2
  <2>12. \A n \in LogNames \ dir' : u[n] = <<>>
    BY <1>2, <2>1, <2>3, <2>4
  <2>13. \A n \in LogNames : \A e \in 1 .. logged : e \in ToSet(u[n]) => loggedOn[e] <= mtime[n]
    BY <1>2, <2>4 DEF ToSet
  <2>14. logged' = logged /\ loggedOn' = loggedOn /\ clock' = clock /\ mtime' = mtime
    BY <2>1
  <2>15. QED
    BY <1>2, <2>2, <2>10, <2>11, <2>12, <2>13, <2>14, Zenon DEF DailyEvents
<1>14. CASE DailyWrite
  <2>1. /\ dailyAt = "write" /\ logged' = logged + 1 /\ UNCHANGED <<dir, clock>>
        /\ text' = (IF fd = NoFile THEN text ELSE [text EXCEPT ![fd] = Append(@, logged')])
        /\ mtime' = (IF fd = NoFile THEN mtime ELSE [mtime EXCEPT ![fd] = clock])
        /\ loggedOn' = Append(loggedOn, moment)
    BY <1>14 DEF DailyWrite, Write
  <2>2. moment \in Nat /\ moment <= clock
    BY <1>4, <2>1 DEF DailyStages
  <2>3. PICK on : on = loggedOn'
    OBVIOUS
  <2>4. /\ on \in Seq(Nat) /\ Len(on) = logged + 1 /\ on[logged + 1] = moment
        /\ \A e \in 1 .. logged : on[e] = loggedOn[e]
    BY <1>2, <2>1, <2>2, <2>3
  <2>5. logged + 1 \in Nat /\ \A e \in 1 .. logged + 1 : e = logged + 1 \/ e \in 1 .. logged
    BY <1>2
  <2>6. \A e \in 1 .. logged + 1 : on[e] <= clock
    BY <1>2, <2>2, <2>4, <2>5
  <2>7. CASE fd = NoFile
    <3>1. text' = text /\ mtime' = mtime /\ dir = {} /\ moment < clock - KeptFor
      BY <2>1, <2>7 DEF DailyStages
    <3>2. \A n \in LogNames : text[n] = <<>>
      BY <1>2, <3>1
    <3>3. PICK dut : CutBy(dut, text, logged + 1)
      BY <1>4, <2>5, <3>2, CutEmpty
    <3>4. \A e \in 1 .. logged : loggedOn[e] < clock - KeptFor
      <4>1. ASSUME NEW e \in 1 .. logged, cut[0] < e PROVE FALSE
        <5>1. PICK i \in 1 .. NFiles : e \in ToSet(text[FileNames[i]])
          BY <1>2, <1>3, <4>1, CutHolds
        <5>2. QED
          BY <3>2, <5>1, NamesOfFiles DEF ToSet
      <4>2. \A e \in 1 .. logged : e <= cut[0]
        BY <1>5, <4>1
      <4>3. QED
        BY <1>3, <4>2
    <3>5. \A e \in 1 .. logged + 1 : on[e] < clock - KeptFor
      BY <2>2, <2>4, <2>5, <3>1, <3>4
    <3>6. \A n \in LogNames : \A e \in 1 .. logged + 1 : e \in ToSet(text[n]) => on[e] <= mtime[n]
      BY <3>2 DEF ToSet
    <3>7. \A n \in LogNames \ dir' : text'[n] = <<>>
      BY <3>1, <3>2
    <3>8. logged' = logged + 1 /\ clock' = clock /\ text' = text /\ mtime' = mtime
      BY <2>1, <3>1
    <3>9. \A e \in 1 .. logged + 1 : e <= dut[0] => on[e] < clock - KeptFor
      BY <3>5
    <3>10. QED
      BY <2>3, <2>4, <2>5, <2>6, <3>3, <3>6, <3>7, <3>8, <3>9, Zenon DEF DailyEvents
  <2>8. CASE fd # NoFile
    <3>1. fd = LogName /\ LogName \in dir /\ LogName \in LogNames
      BY <2>1, <2>8, DatedNames DEF DailyStages
    <3>2. PICK u : u = text'
      OBVIOUS
    <3>3. PICK v : v = mtime'
      OBVIOUS
    <3>4. /\ u = [text EXCEPT ![LogName] = Append(text[LogName], logged + 1)]
          /\ v = [mtime EXCEPT ![LogName] = clock]
      BY <2>1, <2>8, <3>1, <3>2, <3>3
    <3>5. PICK dut : CutBy(dut, u, logged + 1) /\ dut[0] = cut[0]
      <4>1. logged \in Nat
        BY <1>2
      <4>2. CutBy(cut, text, logged)
        BY <1>3
      <4>3. u = [text EXCEPT ![LogName] = Append(text[LogName], logged + 1)]
        BY <3>4
      <4>4. QED
        BY <4>1, <4>2, <4>3, CutWrite, Zenon
    <3>6. \A n \in LogNames : /\ n # LogName => u[n] = text[n] /\ v[n] = mtime[n]
                              /\ n = LogName => u[n] = Append(text[LogName], logged + 1) /\ v[n] = clock
      BY <1>4, <3>4
    <3>7. \A n \in LogNames \ dir' : u[n] = <<>>
      BY <1>2, <2>1, <3>1, <3>6
    <3>8. cut[0] <= logged
      <4>1. 0 \in 0 .. NFiles /\ NFiles \in 0 .. NFiles /\ 0 <= NFiles
        BY NamesOfFiles
      <4>2. cut[0] <= cut[NFiles]
        BY <1>3, <4>1, CutGrows
      <4>3. QED
        BY <1>3, <4>2 DEF CutBy
    <3>9. \A e \in 1 .. logged + 1 : e <= dut[0] => on[e] < clock - KeptFor
      BY <1>2, <1>3, <1>5, <2>4, <2>5, <3>5, <3>8
    <3>10. ASSUME NEW n \in LogNames, NEW e \in 1 .. logged + 1, e \in ToSet(u[n])
           PROVE  on[e] <= v[n]
      <4>1. CASE n = LogName
        BY <2>6, <3>6, <4>1
      <4>2. CASE n # LogName
        <5>1. e \in ToSet(text[n])
          BY <3>6, <3>10, <4>2
        <5>2. e \in 1 .. logged
          <6>1. PICK i \in 1 .. NFiles : n = FileNames[i]
            BY NamesOfFiles
          <6>2. e \in Nat /\ e \in ToSet(text[FileNames[i]])
            BY <1>2, <3>10, <5>1, <6>1
          <6>3. QED
            BY <1>2, <1>3, <6>2, CutHolds
        <5>3. QED
          BY <1>2, <2>4, <3>6, <4>2, <5>1, <5>2
      <4>3. QED
        BY <4>1, <4>2
    <3>11. logged' = logged + 1 /\ clock' = clock
      BY <2>1
    <3>12. QED
      BY <2>3, <2>4, <2>5, <2>6, <3>2, <3>3, <3>5, <3>7, <3>9, <3>10, <3>11, Zenon DEF DailyEvents
  <2>9. QED
    BY <2>7, <2>8
<1>15. CASE DailyCrash
  <2>1. UNCHANGED <<text, logged, loggedOn, dir, mtime, clock>>
    BY <1>15 DEF DailyCrash
  <2>2. QED
    BY <1>4, <1>6, <2>1
<1>16. CASE UNCHANGED dailyVars
  BY <1>4, <1>6, <1>16 DEF dailyVars, fileVars
<1>17. QED
  BY <1>8, <1>9, <1>10, <1>11, <1>12, <1>13, <1>14, <1>15, <1>16 DEF DailyNext

\* With append no event is lost or moved before its time, wherever midnight and
\* the end of the program fall, for every calendar and every resolution of the
\* clock (DailyRollingFileAppender.cpp:73).
THEOREM EventsStayTheirDays == DailySpec => []DaysKept
<1>1. DailyDates /\ DailyEvents => DaysKept
  <2> SUFFICES ASSUME DailyDates, DailyEvents, append PROVE DaysKept
    BY DEF DaysKept
  <2>1. PICK cut : CutBy(cut, text, logged) /\ \A e \in 1 .. logged : e <= cut[0] => loggedOn[e] < clock - KeptFor
    BY DEF DailyEvents
  <2>2. IsSuffixOfLog
    BY <2>1, CutIsSuffix
  <2>3. /\ logged \in Nat /\ DOMAIN loggedOn = 1 .. logged /\ \A e \in 1 .. logged : loggedOn[e] \in Nat
        /\ clock \in Nat /\ KeptFor \in Nat
    BY Calendar DEF DailyEvents, DailyDates
  <2>4. ASSUME NEW e \in 1 .. logged, loggedOn[e] >= clock - KeptFor
        PROVE  \E n \in LogNames : e \in ToSet(text[n])
    <3>1. ~(e <= cut[0])
      BY <2>1, <2>3, <2>4
    <3>2. cut[0] \in Nat
      BY <2>1, NamesOfFiles DEF CutBy
    <3>3. cut[0] < e /\ e <= logged /\ e \in Nat
      BY <3>1, <3>2
    <3>4. PICK i \in 1 .. NFiles : e \in ToSet(text[FileNames[i]])
      BY <2>1, <2>3, <3>3, CutHolds
    <3>5. QED
      BY <3>4, NamesOfFiles
  <2>5. QED
    BY <2>2, <2>3, <2>4 DEF DaysKept
<1>2. QED
  BY <1>1, DailyInit_Order, DailyOrder_Step, DailyInit_Events, DailyEvents_Step, PTL DEF DailySpec

-----------------------------------------------------------------------------
(***************************************************************************)
(* The mails of log4cpp.  What a lossy buffer has mailed and what it keeps, *)
(* newest first, are apart: all of it came once, and the last to come is    *)
(* still the last.                                                          *)
(***************************************************************************)
Mail == [from : Buffers, events : Seq(Nat)]

EventsOf(m, b) == IF m.from = b THEN m.events ELSE <<>>

MailedIn(all, b) == FlattenSeq([i \in DOMAIN all |-> EventsOf(all[i], b)])

LossyState(gone, kept, n) ==
  /\ gone \in Seq(Nat) /\ kept \in Seq(Nat) /\ Len(kept) <= BufferSize
  /\ \A i, j \in 1 .. Len(gone) : i < j => gone[i] < gone[j]
  /\ \A i, j \in 1 .. Len(kept) : i < j => kept[i] > kept[j]
  /\ \A i \in 1 .. Len(gone), j \in 1 .. Len(kept) : gone[i] < kept[j]
  /\ \A i \in 1 .. Len(gone) : gone[i] <= n
  /\ \A j \in 1 .. Len(kept) : kept[j] <= n
  /\ n > 0 => IF kept = <<>> THEN gone # <<>> /\ gone[Len(gone)] = n ELSE kept[1] = n

MailInv ==
  /\ lossy \in [Buffers -> BOOLEAN] /\ events \in [Buffers -> Nat]
  /\ buffer \in [Buffers -> Seq(Nat)]
  /\ mails \in Seq(Mail) /\ outbox \in Seq(Mail)
  /\ sender = "sending" => mails # <<>>
  /\ \A b \in Buffers : lossy[b] => LossyState(Mailed(b), buffer[b], events[b])

LEMMA ReverseProperties ==
  ASSUME NEW q \in Seq(Nat)
  PROVE  /\ Reverse(q) \in Seq(Nat) /\ Len(Reverse(q)) = Len(q)
         /\ \A i \in 1 .. Len(q) : Len(q) - i + 1 \in 1 .. Len(q) /\ Reverse(q)[i] = q[Len(q) - i + 1]
<1>1. Len(q) \in Nat /\ \A i \in 1 .. Len(q) : Len(q) - i + 1 \in 1 .. Len(q)
  OBVIOUS
<1>2. Reverse(q) \in [1 .. Len(q) -> Nat] /\ \A i \in 1 .. Len(q) : Reverse(q)[i] = q[Len(q) - i + 1]
  BY <1>1 DEF Reverse
<1>3. Reverse(q) \in Seq(Nat) /\ Len(Reverse(q)) = Len(q)
  <2>1. PICK v : v = Reverse(q)
    OBVIOUS
  <2>2. PICK n \in Nat : n = Len(q)
    BY <1>1
  <2>3. v \in [1 .. n -> Nat]
    BY <1>2, <2>1, <2>2
  <2>4. v \in Seq(Nat) /\ Len(v) = n
    BY <2>2, <2>3
  <2>5. QED
    BY <2>1, <2>2, <2>4
<1>4. QED
  BY <1>1, <1>2, <1>3

\* An event comes to a buffer that has given up its oldest one if need be.
LEMMA EventKept ==
  ASSUME NEW gone, NEW kept, NEW n \in Nat, LossyState(gone, kept, n),
         NEW p \in Seq(Nat), Len(p) < BufferSize, Len(p) <= Len(kept), \A j \in 1 .. Len(p) : p[j] = kept[j]
  PROVE  LossyState(gone, <<n + 1>> \o p, n + 1)
<1> DEFINE now == <<n + 1>> \o p
<1>1. /\ now \in Seq(Nat) /\ Len(now) = Len(p) + 1 /\ now[1] = n + 1
      /\ \A j \in 1 .. Len(now) : j # 1 => j - 1 \in 1 .. Len(p) /\ now[j] = p[j - 1]
  OBVIOUS
<1>2. /\ gone \in Seq(Nat) /\ kept \in Seq(Nat)
      /\ \A i, j \in 1 .. Len(gone) : i < j => gone[i] < gone[j]
      /\ \A i, j \in 1 .. Len(kept) : i < j => kept[i] > kept[j]
      /\ \A i \in 1 .. Len(gone), j \in 1 .. Len(kept) : gone[i] < kept[j]
      /\ \A i \in 1 .. Len(gone) : gone[i] <= n
      /\ \A j \in 1 .. Len(kept) : kept[j] <= n
  BY DEF LossyState
<1>3. \A j \in 1 .. Len(p) : j \in 1 .. Len(kept) /\ p[j] <= n /\ p[j] = kept[j] /\ p[j] \in Nat
  BY <1>2
<1>4. \A i \in 1 .. Len(gone) : gone[i] <= n + 1 /\ gone[i] < n + 1
  BY <1>2
<1> HIDE DEF now
<1>5. Len(now) <= BufferSize /\ now # <<>>
  BY <1>1, MailAssumption
<1>6. ASSUME NEW j \in 1 .. Len(now)
      PROVE  now[j] <= n + 1 /\ \A i \in 1 .. Len(gone) : gone[i] < now[j]
  <2>1. CASE j = 1
    BY <1>1, <1>4, <2>1
  <2>2. CASE j # 1
    <3>1. j - 1 \in 1 .. Len(p) /\ now[j] = p[j - 1]
      BY <1>1, <2>2
    <3>2. now[j] = kept[j - 1] /\ now[j] <= n /\ now[j] \in Nat /\ j - 1 \in 1 .. Len(kept)
      BY <1>3, <3>1
    <3>3. \A i \in 1 .. Len(gone) : gone[i] < kept[j - 1]
      BY <1>2, <3>2
    <3>4. now[j] <= n + 1
      BY <3>2
    <3>5. QED
      BY <3>2, <3>3, <3>4
  <2>3. QED
    BY <2>1, <2>2
<1>7. ASSUME NEW i \in 1 .. Len(now), NEW j \in 1 .. Len(now), i < j PROVE now[i] > now[j]
  <2>1. j # 1
    BY <1>7
  <2>2. j - 1 \in 1 .. Len(p) /\ now[j] = p[j - 1]
    BY <1>1, <2>1
  <2>3. now[j] = kept[j - 1] /\ now[j] <= n /\ now[j] \in Nat /\ j - 1 \in 1 .. Len(kept)
    BY <1>3, <2>2
  <2>4. CASE i = 1
    <3>1. now[i] = n + 1
      BY <1>1, <2>4
    <3>2. QED
      BY <2>3, <3>1
  <2>5. CASE i # 1
    <3>1. i - 1 \in 1 .. Len(p) /\ now[i] = p[i - 1]
      BY <1>1, <2>5
    <3>2. now[i] = kept[i - 1] /\ i - 1 \in 1 .. Len(kept)
      BY <1>3, <3>1
    <3>3. i - 1 < j - 1
      BY <1>7
    <3>4. QED
      BY <1>2, <2>3, <3>2, <3>3
  <2>6. QED
    BY <2>4, <2>5
<1>8. LossyState(gone, now, n + 1)
  BY <1>1, <1>2, <1>4, <1>5, <1>6, <1>7 DEF LossyState
<1>9. QED
  BY <1>8 DEF now

\* Everything that is kept is mailed, oldest first.
LEMMA AllMailed ==
  ASSUME NEW gone, NEW kept, NEW n \in Nat, LossyState(gone, kept, n)
  PROVE  /\ gone \o Reverse(kept) \in Seq(Nat)
         /\ \A i, j \in 1 .. Len(gone \o Reverse(kept)) :
              i < j => (gone \o Reverse(kept))[i] < (gone \o Reverse(kept))[j]
         /\ \A i \in 1 .. Len(gone \o Reverse(kept)) : (gone \o Reverse(kept))[i] <= n
         /\ n > 0 => /\ gone \o Reverse(kept) # <<>>
                     /\ (gone \o Reverse(kept))[Len(gone \o Reverse(kept))] = n
<1> DEFINE r == Reverse(kept)
           s == gone \o r
<1>1. /\ gone \in Seq(Nat) /\ kept \in Seq(Nat)
      /\ \A i, j \in 1 .. Len(gone) : i < j => gone[i] < gone[j]
      /\ \A i, j \in 1 .. Len(kept) : i < j => kept[i] > kept[j]
      /\ \A i \in 1 .. Len(gone), j \in 1 .. Len(kept) : gone[i] < kept[j]
      /\ \A i \in 1 .. Len(gone) : gone[i] <= n
      /\ \A j \in 1 .. Len(kept) : kept[j] <= n
      /\ n > 0 => IF kept = <<>> THEN gone # <<>> /\ gone[Len(gone)] = n ELSE kept[1] = n
  BY DEF LossyState
<1>2. kept \in Seq(Nat) /\ gone \in Seq(Nat)
  BY <1>1
<1>3. /\ r \in Seq(Nat) /\ Len(r) = Len(kept) /\ Len(kept) \in Nat /\ Len(gone) \in Nat
      /\ \A i \in 1 .. Len(r) : Len(kept) - i + 1 \in 1 .. Len(kept) /\ r[i] = kept[Len(kept) - i + 1]
  BY <1>2, ReverseProperties
<1>4. r \in Seq(Nat) /\ Len(r) \in Nat
  BY <1>3
<1> HIDE DEF r
<1>5. /\ s \in Seq(Nat) /\ Len(s) = Len(gone) + Len(r)
      /\ \A i \in 1 .. Len(s) : s[i] = IF i <= Len(gone) THEN gone[i] ELSE r[i - Len(gone)]
  BY <1>2, <1>4, ConcatProperties
<1> HIDE DEF s
<1>6. ASSUME NEW i \in 1 .. Len(s)
      PROVE  \/ i <= Len(gone) /\ i \in 1 .. Len(gone) /\ s[i] = gone[i]
             \/ /\ i > Len(gone) /\ Len(kept) - (i - Len(gone)) + 1 \in 1 .. Len(kept)
                /\ s[i] = kept[Len(kept) - (i - Len(gone)) + 1]
  <2>1. CASE i <= Len(gone)
    BY <1>3, <1>5, <2>1
  <2>2. CASE ~(i <= Len(gone))
    <3>1. i - Len(gone) \in 1 .. Len(r) /\ i > Len(gone)
      <4>1. Len(s) = Len(gone) + Len(r) /\ Len(gone) \in Nat /\ Len(r) \in Nat
        BY <1>3, <1>5, <1>4
      <4>2. QED
        BY <2>2, <4>1
    <3>2. s[i] = r[i - Len(gone)]
      BY <1>5, <2>2
    <3>3. QED
      BY <1>3, <3>1, <3>2
  <2>3. QED
    BY <2>1, <2>2
<1>7. ASSUME NEW i \in 1 .. Len(s), NEW j \in 1 .. Len(s), i < j PROVE s[i] < s[j]
  <2>1. CASE j <= Len(gone)
    <3>1. i <= Len(gone) /\ i \in 1 .. Len(gone) /\ j \in 1 .. Len(gone)
      BY <1>3, <1>7, <2>1
    <3>2. s[i] = gone[i] /\ s[j] = gone[j]
      BY <1>3, <1>5, <2>1, <3>1
    <3>3. gone[i] < gone[j]
      BY <1>1, <1>7, <3>1
    <3>4. QED
      BY <3>2, <3>3
  <2>2. CASE ~(j <= Len(gone))
    <3>1. PICK y \in 1 .. Len(kept) : y = Len(kept) - (j - Len(gone)) + 1 /\ s[j] = kept[y]
      BY <1>3, <1>6, <2>2
    <3>2. CASE i <= Len(gone)
      <4>1. i \in 1 .. Len(gone) /\ s[i] = gone[i]
        BY <1>3, <1>5, <3>2
      <4>2. gone[i] < kept[y]
        BY <1>1, <3>1, <4>1
      <4>3. QED
        BY <3>1, <4>1, <4>2
    <3>3. CASE ~(i <= Len(gone))
      <4>1. PICK x \in 1 .. Len(kept) : x = Len(kept) - (i - Len(gone)) + 1 /\ s[i] = kept[x]
        BY <1>3, <1>6, <3>3
      <4>2. y < x
        BY <1>3, <1>5, <1>7, <3>1, <4>1
      <4>3. kept[y] > kept[x]
        BY <1>1, <3>1, <4>1, <4>2
      <4>4. kept[x] \in Nat /\ kept[y] \in Nat
        <5>1. kept \in Seq(Nat)
          BY <1>2
        <5>2. \A z \in 1 .. Len(kept) : kept[z] \in Nat
          BY <5>1
        <5>3. QED
          BY <5>2, <3>1, <4>1
      <4>5. QED
        BY <3>1, <4>1, <4>3, <4>4
    <3>4. QED
      BY <3>2, <3>3
  <2>3. QED
    BY <2>1, <2>2
<1>8. \A i \in 1 .. Len(s) : s[i] <= n
  BY <1>1, <1>6
<1>9. ASSUME n > 0 PROVE s # <<>> /\ s[Len(s)] = n
  <2>1. CASE kept = <<>>
    <3>1. Len(r) = 0 /\ Len(s) = Len(gone) /\ gone # <<>> /\ gone[Len(gone)] = n
      BY <1>1, <1>3, <1>5, <1>9, <2>1
    <3>2. Len(gone) # 0
      BY <1>2, <3>1
    <3>3. Len(s) \in 1 .. Len(s) /\ Len(s) <= Len(gone)
      BY <1>3, <3>1, <3>2
    <3>4. s[Len(s)] = gone[Len(gone)]
      BY <1>5, <3>1, <3>3
    <3>5. QED
      BY <3>1, <3>3, <3>4
  <2>2. CASE kept # <<>>
    <3>1. Len(kept) # 0 /\ kept[1] = n
      BY <1>1, <1>9, <2>2
    <3>2. Len(s) \in 1 .. Len(s) /\ Len(s) > Len(gone) /\ Len(kept) - (Len(s) - Len(gone)) + 1 = 1
      BY <1>3, <1>5, <3>1
    <3>3. s[Len(s)] = kept[Len(kept) - (Len(s) - Len(gone)) + 1]
      <4>1. ~(Len(s) <= Len(gone))
        BY <1>3, <3>2
      <4>2. QED
        BY <1>6, <3>2, <4>1
    <3>4. QED
      BY <3>1, <3>2, <3>3
  <2>3. QED
    BY <2>1, <2>2
<1>10. QED
  BY <1>5, <1>7, <1>8, <1>9 DEF r, s

LEMMA BufferMailed ==
  ASSUME NEW gone, NEW kept, NEW n \in Nat, LossyState(gone, kept, n)
  PROVE  LossyState(gone \o Reverse(kept), <<>>, n)
<1>1. PICK s : s = gone \o Reverse(kept)
  OBVIOUS
<1>2. /\ s \in Seq(Nat) /\ \A i, j \in 1 .. Len(s) : i < j => s[i] < s[j]
      /\ \A i \in 1 .. Len(s) : s[i] <= n
      /\ n > 0 => s # <<>> /\ s[Len(s)] = n
  BY <1>1, AllMailed
<1>3. <<>> \in Seq(Nat) /\ Len(<<>>) = 0
  OBVIOUS
<1>4. 1 .. 0 = {} /\ 0 <= BufferSize
  BY MailAssumption
<1>5. LossyState(s, <<>>, n)
  BY <1>2, <1>3, <1>4 DEF LossyState
<1>6. QED
  BY <1>1, <1>5

\* One more mail.
LEMMA OneMoreMail ==
  ASSUME NEW all \in Seq(Mail), NEW m \in Mail, NEW b
  PROVE  MailedIn(all, b) \in Seq(Nat) /\ MailedIn(Append(all, m), b) = MailedIn(all, b) \o EventsOf(m, b)
<1> DEFINE ss == [i \in DOMAIN all |-> EventsOf(all[i], b)]
           tt == [i \in DOMAIN Append(all, m) |-> EventsOf(Append(all, m)[i], b)]
           D == Seq(Nat)
<1>1. \A x \in Mail : EventsOf(x, b) \in D
  BY EmptySeq DEF Mail, EventsOf
<1>2. DOMAIN all = 1 .. Len(all) /\ Len(all) \in Nat /\ \A i \in 1 .. Len(all) : all[i] \in Mail
  OBVIOUS
<1>3. /\ DOMAIN Append(all, m) = 1 .. Len(all) + 1
      /\ Append(all, m)[Len(all) + 1] = m
      /\ \A i \in 1 .. Len(all) : Append(all, m)[i] = all[i]
  OBVIOUS
<1> HIDE DEF D
<1>4. ss \in [1 .. Len(all) -> D]
  BY <1>1, <1>2
<1>5. ss \in Seq(D) /\ Len(ss) = Len(all)
  BY <1>2, <1>4
<1>6. tt = Append(ss, EventsOf(m, b))
  <2>1. EventsOf(m, b) \in D
    BY <1>1
  <2>2. /\ Append(ss, EventsOf(m, b)) = [i \in 1 .. Len(all) + 1 |-> Append(ss, EventsOf(m, b))[i]]
        /\ Append(ss, EventsOf(m, b))[Len(all) + 1] = EventsOf(m, b)
        /\ \A i \in 1 .. Len(all) : Append(ss, EventsOf(m, b))[i] = EventsOf(all[i], b)
    BY <1>2, <1>5, <2>1
  <2>3. tt = [i \in 1 .. Len(all) + 1 |-> EventsOf(Append(all, m)[i], b)]
    BY <1>3
  <2>4. \A i \in 1 .. Len(all) + 1 : i = Len(all) + 1 \/ i \in 1 .. Len(all)
    BY <1>2
  <2>5. \A i \in 1 .. Len(all) + 1 : Append(ss, EventsOf(m, b))[i] = EventsOf(Append(all, m)[i], b)
    BY <1>3, <2>2, <2>4
  <2> HIDE DEF ss, tt
  <2>6. QED
    BY <2>2, <2>3, <2>5
<1>7. EventsOf(m, b) \in Seq(Nat) /\ ss \in Seq(Seq(Nat))
  BY <1>1, <1>5 DEF D
<1> HIDE DEF ss, tt
<1>8. FlattenSeq(ss) \in Seq(Nat) /\ FlattenSeq(Append(ss, EventsOf(m, b))) = FlattenSeq(ss) \o EventsOf(m, b)
  BY <1>7, FlattenAppend
<1>9. QED
  BY <1>6, <1>8 DEF MailedIn, ss, tt

LEMMA MailedAll == \A b : Mailed(b) = MailedIn(outbox \o mails, b)
BY DEF Mailed, MailedIn, EventsOf

\* A buffer is mailed, or it is not.
Queued(all, b, q, piece) ==
  /\ piece \in Seq(Mail) /\ all \o piece \in Seq(Mail) /\ MailedIn(all, b) \in Seq(Nat)
  /\ \A c : c # b => MailedIn(all \o piece, c) = MailedIn(all, c)
  /\ piece = <<>> => MailedIn(all \o piece, b) = MailedIn(all, b)
  /\ piece = Dump(b, q) => MailedIn(all \o piece, b) = MailedIn(all, b) \o Reverse(q)

LEMMA PieceMailed ==
  ASSUME NEW all, NEW b, NEW q, NEW piece,
         all \in Seq(Mail), b \in Buffers, q \in Seq(Nat), piece = <<>> \/ piece = Dump(b, q)
  PROVE  Queued(all, b, q, piece)
<1> USE DEF Queued
<1> DEFINE m == [from |-> b, events |-> Reverse(q)]
<1>1. m \in Mail /\ m.from = b /\ m.events = Reverse(q)
  BY ReverseProperties DEF Mail
<1>2. Dump(b, q) = <<m>>
  BY DEF Dump
<1> HIDE DEF m
<1>3. MailedIn(all, b) \in Seq(Nat)
  BY <1>1, OneMoreMail
<1>4. CASE piece = <<>>
  <2>1. all \o piece = all /\ piece \in Seq(Mail) /\ piece # <<m>>
    BY <1>4
  <2>2. QED
    BY <1>2, <1>3, <2>1
<1>5. CASE piece = <<m>>
  <2>1. all \o piece = Append(all, m) /\ piece \in Seq(Mail) /\ Append(all, m) \in Seq(Mail) /\ piece # <<>>
    BY <1>1, <1>5
  <2>2. \A c : MailedIn(all, c) \in Seq(Nat) /\ MailedIn(Append(all, m), c) = MailedIn(all, c) \o EventsOf(m, c)
    BY <1>1, OneMoreMail
  <2>3. EventsOf(m, b) = Reverse(q) /\ \A c : c # b => EventsOf(m, c) = <<>>
    BY <1>1 DEF EventsOf
  <2>4. \A x \in Seq(Nat) : x \o <<>> = x
    OBVIOUS
  <2>5. QED
    BY <1>3, <2>1, <2>2, <2>3, <2>4
<1>6. QED
  BY <1>2, <1>4, <1>5

LEMMA MailInit_Inv == MailInit => MailInv
<1> SUFFICES ASSUME MailInit PROVE MailInv
  OBVIOUS
<1>1. /\ lossy \in [Buffers -> BOOLEAN] /\ mails = <<>> /\ outbox = <<>> /\ sender = "loop"
      /\ events = [b \in Buffers |-> 0] /\ buffer = [b \in Buffers |-> <<>>]
  BY DEF MailInit
<1>2. events \in [Buffers -> Nat] /\ buffer \in [Buffers -> Seq(Nat)] /\ mails \in Seq(Mail) /\ outbox \in Seq(Mail)
  BY <1>1
<1>3. ASSUME NEW b \in Buffers PROVE Mailed(b) = <<>>
  <2>1. outbox \o mails = <<>> /\ DOMAIN (outbox \o mails) = {}
    BY <1>1
  <2>2. PICK ss : ss = [i \in {} |-> EventsOf((outbox \o mails)[i], b)]
    OBVIOUS
  <2>3. ss = <<>>
    BY <2>2
  <2>4. Len(<<>>) = 0
    OBVIOUS
  <2>5. FlattenSeq(<<>>) = <<>>
    BY <2>4 DEF FlattenSeq
  <2>6. QED
    BY <2>1, <2>2, <2>3, <2>5, MailedAll DEF MailedIn
<1>4. LossyState(<<>>, <<>>, 0)
  <2>1. <<>> \in Seq(Nat) /\ Len(<<>>) = 0 /\ 1 .. 0 = {} /\ 0 <= BufferSize
    BY MailAssumption
  <2>2. QED
    BY <2>1 DEF LossyState
<1>5. \A b \in Buffers : events[b] = 0 /\ buffer[b] = <<>>
  BY <1>1
<1>6. QED
  BY <1>1, <1>2, <1>3, <1>4, <1>5 DEF MailInv

LEMMA MailInv_Step == MailInv /\ [MailNext]_mailVars => MailInv'
<1> SUFFICES ASSUME MailInv, [MailNext]_mailVars PROVE MailInv'
  OBVIOUS
<1>1. /\ lossy \in [Buffers -> BOOLEAN] /\ events \in [Buffers -> Nat]
      /\ buffer \in [Buffers -> Seq(Nat)]
      /\ mails \in Seq(Mail) /\ outbox \in Seq(Mail)
      /\ \A b \in Buffers : lossy[b] => LossyState(MailedIn(outbox \o mails, b), buffer[b], events[b])
  BY MailedAll DEF MailInv
<1>2. MailedAll'
  BY DEF Mailed, MailedIn, EventsOf
<1>3. ASSUME NEW b \in Buffers, NEW trigger \in BOOLEAN, AppendMail(b, trigger) PROVE MailInv'
  <2> DEFINE q == buffer[b]
             n == events[b]
             full == Len(q) = BufferSize
             p == IF full /\ lossy[b] THEN Front(q) ELSE q
             now == <<n + 1>> \o p
             first == IF full /\ ~lossy[b] THEN Dump(b, q) ELSE <<>>
             second == IF trigger THEN Dump(b, now) ELSE <<>>
             all == outbox \o mails
  <2>1. /\ events' = [events EXCEPT ![b] = n + 1]
        /\ buffer' = [buffer EXCEPT ![b] = IF trigger THEN <<>> ELSE now]
        /\ mails' = mails \o (first \o second)
        /\ sender' = sender \/ sender' = "woken"
        /\ lossy' = lossy /\ outbox' = outbox
    BY <1>3 DEF AppendMail, SendMail
  <2>2. n \in Nat /\ q \in Seq(Nat) /\ all \in Seq(Mail) /\ BufferSize \in Nat \ {0}
    BY <1>1, MailAssumption
  <2>3. /\ p \in Seq(Nat) /\ Len(p) <= Len(q) /\ \A j \in 1 .. Len(p) : p[j] = q[j]
        /\ lossy[b] /\ Len(q) <= BufferSize => Len(p) < BufferSize
    <3>1. CASE full /\ lossy[b]
      <4>1. Len(q) \in Nat \ {0} /\ p = SubSeq(q, 1, Len(q) - 1)
        BY <2>2, <3>1 DEF Front
      <4>2. p \in Seq(Nat) /\ Len(p) = Len(q) - 1 /\ \A j \in 1 .. Len(p) : p[j] = q[j]
        <5> HIDE DEF q, p
        <5>1. Len(q) - 1 <= Len(q) /\ 1 \in 1 .. Len(q) + 1 /\ Len(q) - 1 \in 0 .. Len(q) /\ q \in Seq(Nat)
          BY <2>2, <4>1
        <5>2. Len(q) - 1 \in Int /\ \A j \in 1 .. Len(q) - 1 : j \in 1 .. Len(q) /\ q[j] \in Nat /\ 1 + j - 1 = j
          BY <4>1, <5>1
        <5>3. /\ SubSeq(q, 1, Len(q) - 1) \in Seq(Nat)
              /\ Len(SubSeq(q, 1, Len(q) - 1)) = IF 1 <= Len(q) - 1 THEN (Len(q) - 1) - 1 + 1 ELSE 0
              /\ \A j \in 1 .. (Len(q) - 1) - 1 + 1 : SubSeq(q, 1, Len(q) - 1)[j] = q[1 + j - 1]
          BY <5>2, SubSeqProperties
        <5>4. (Len(q) - 1) - 1 + 1 = Len(q) - 1 /\ (~(1 <= Len(q) - 1) => Len(q) - 1 = 0)
          <6>1. Len(q) \in Nat /\ Len(q) # 0
            BY <4>1
          <6>2. \A k \in Nat : k # 0 => (k - 1) - 1 + 1 = k - 1 /\ (~(1 <= k - 1) => k - 1 = 0)
            OBVIOUS
          <6>3. QED
            BY <6>1, <6>2
        <5>5. /\ SubSeq(q, 1, Len(q) - 1) \in Seq(Nat) /\ Len(SubSeq(q, 1, Len(q) - 1)) = Len(q) - 1
              /\ \A j \in 1 .. Len(q) - 1 : SubSeq(q, 1, Len(q) - 1)[j] = q[j]
          BY <5>2, <5>3, <5>4
        <5>6. QED
          BY <4>1, <5>5
      <4>3. QED
        BY <3>1, <4>1, <4>2
    <3>2. CASE ~(full /\ lossy[b])
      <4>1. p = q /\ Len(q) \in Nat
        BY <2>2, <3>2
      <4>2. lossy[b] /\ Len(q) <= BufferSize => Len(q) < BufferSize
        BY <2>2, <3>2, <4>1
      <4> HIDE DEF p, q
      <4>3. QED
        BY <2>2, <4>1, <4>2
    <3>3. QED
      BY <3>1, <3>2
  <2> HIDE DEF p
  <2>4. now \in Seq(Nat) /\ now # <<>>
    BY <2>2, <2>3
  <2>5. (first = <<>> \/ first = Dump(b, q)) /\ (second = <<>> \/ second = Dump(b, now))
    OBVIOUS
  <2>6. lossy[b] => first = <<>>
    OBVIOUS
  <2>7. trigger => second = Dump(b, now)
    OBVIOUS
  <2>8. ~trigger => second = <<>>
    OBVIOUS
  <2> HIDE DEF now, all, first, second, q, full
  <2>9. Queued(all, b, q, first)
    BY <2>2, <2>5, PieceMailed, Zenon
  <2>10. Queued(all \o first, b, now, second)
    <3>1. all \o first \in Seq(Mail)
      BY <2>9 DEF Queued
    <3>2. QED
      BY <2>4, <2>5, <3>1, PieceMailed, Zenon
  <2>11. outbox' \o mails' = (all \o first) \o second
    <3>1. first \in Seq(Mail) /\ second \in Seq(Mail)
      BY <2>9, <2>10 DEF Queued
    <3>2. outbox \in Seq(Mail) /\ mails \in Seq(Mail)
      BY <1>1
    <3>3. ((outbox \o mails) \o first) \o second = outbox \o (mails \o (first \o second))
      <4>1. Joined(outbox, mails) \in Seq(Mail) /\ Joined(first, second) \in Seq(Mail)
        BY <3>1, <3>2, JoinedType
      <4>2. Joined(Joined(Joined(outbox, mails), first), second) = Joined(outbox, Joined(mails, Joined(first, second)))
        BY <3>1, <3>2, <4>1, JoinedOnce
      <4>3. QED
        BY <4>2 DEF Joined
    <3>4. QED
      BY <2>1, <3>3 DEF all
  <2>12. first \o second \in Seq(Mail) /\ mails' \in Seq(Mail) /\ (mails # <<>> => mails' # <<>>)
    BY <1>1, <2>1, <2>9, <2>10 DEF Queued
  <2>13. PICK kept : kept = IF trigger THEN <<>> ELSE now
    OBVIOUS
  <2>14. kept \in Seq(Nat)
    BY <2>4, <2>13
  <2>15. events' \in [Buffers -> Nat] /\ buffer' \in [Buffers -> Seq(Nat)]
    <3>1. n + 1 \in Nat /\ buffer' = [buffer EXCEPT ![b] = kept]
      BY <2>1, <2>2, <2>13
    <3> HIDE DEF n
    <3>2. QED
      BY <1>1, <2>1, <2>14, <3>1
  <2>16. ASSUME NEW c \in Buffers, lossy'[c]
         PROVE  LossyState(MailedIn(outbox' \o mails', c), buffer'[c], events'[c])
    <3>1. lossy[c] /\ LossyState(MailedIn(all, c), buffer[c], events[c])
      BY <1>1, <2>1, <2>16 DEF all
    <3>2. CASE c # b
      <4>1. buffer'[c] = buffer[c] /\ events'[c] = events[c]
        BY <1>1, <2>1, <3>2
      <4>2. MailedIn(outbox' \o mails', c) = MailedIn(all, c)
        BY <2>9, <2>10, <2>11, <3>2 DEF Queued
      <4>3. QED
        BY <3>1, <4>1, <4>2
    <3>3. CASE c = b
      <4>1. buffer'[c] = kept /\ events'[c] = n + 1 /\ lossy[b]
        BY <1>1, <2>1, <2>13, <3>1, <3>3
      <4>2. LossyState(MailedIn(all, b), q, n)
        BY <3>1, <3>3 DEF q, n
      <4>3. MailedIn(all \o first, b) = MailedIn(all, b)
        BY <2>9, <2>6, <4>1 DEF Queued
      <4> HIDE DEF n
      <4>4. LossyState(MailedIn(all, b), <<n + 1>> \o p, n + 1)
        <5>1. Len(p) < BufferSize
          BY <2>3, <4>1, <4>2 DEF LossyState
        <5>2. QED
          BY <2>2, <2>3, <4>2, <5>1, EventKept
      <4>5. LossyState(MailedIn(all, b), now, n + 1) /\ n + 1 \in Nat
        BY <2>2, <4>4 DEF now
      <4>6. CASE trigger
        <5>1. MailedIn((all \o first) \o second, b) = MailedIn(all, b) \o Reverse(now) /\ kept = <<>>
          BY <2>10, <2>7, <2>13, <4>3, <4>6 DEF Queued
        <5>2. LossyState(MailedIn(all, b) \o Reverse(now), <<>>, n + 1)
          BY <4>5, BufferMailed, Zenon
        <5>3. QED
          BY <2>11, <3>3, <4>1, <5>1, <5>2
      <4>7. CASE ~trigger
        <5>1. MailedIn((all \o first) \o second, b) = MailedIn(all, b) /\ kept = now
          BY <2>10, <2>8, <2>13, <4>3, <4>7 DEF Queued
        <5>2. QED
          BY <2>11, <3>3, <4>1, <4>5, <5>1
      <4>8. QED
        BY <4>6, <4>7
    <3>4. QED
      BY <3>2, <3>3
  <2>17. sender' = "sending" => mails' # <<>>
    BY <2>1, <2>12 DEF MailInv
  <2>18. lossy' \in [Buffers -> BOOLEAN] /\ outbox' \in Seq(Mail)
    BY <1>1, <2>1
  <2>19. QED
    BY <1>2, <2>12, <2>15, <2>16, <2>17, <2>18 DEF MailInv
\* The steps that leave the mails in their order.
<1>4. ASSUME UNCHANGED <<lossy, buffer, events>>, outbox' \o mails' = outbox \o mails,
             mails' \in Seq(Mail), outbox' \in Seq(Mail), sender' = "sending" => mails' # <<>>
      PROVE  MailInv'
  BY <1>1, <1>2, <1>4 DEF MailInv
<1>5. CASE SenderLoop \/ SenderLook \/ SenderShutdown \/ SenderJoin \/ UNCHANGED mailVars
  <2>1. UNCHANGED <<lossy, buffer, events, mails, outbox>>
    BY <1>5 DEF SenderLoop, SenderLook, SenderShutdown, SenderJoin, mailVars
  <2>2. sender' = "sending" => mails' # <<>>
    BY <1>5 DEF SenderLoop, SenderLook, SenderShutdown, SenderJoin, mailVars, MailInv
  <2>3. QED
    BY <1>1, <1>4, <2>1, <2>2
<1>6. CASE SenderErase
  <2>1. /\ sender = "sending" /\ outbox' = Append(outbox, Head(mails)) /\ mails' = Tail(mails) /\ sender' = "loop"
        /\ UNCHANGED <<lossy, buffer, events>>
    BY <1>6 DEF SenderErase
  <2>2. mails # <<>>
    BY <2>1 DEF MailInv
  <2>3. Head(mails) \in Mail /\ mails' \in Seq(Mail) /\ outbox' \in Seq(Mail) /\ mails = <<Head(mails)>> \o Tail(mails)
    BY <1>1, <2>1, <2>2
  <2>4. outbox' \o mails' = outbox \o mails
    <3>1. Append(outbox, Head(mails)) = outbox \o <<Head(mails)>>
      BY <1>1, <2>3, AppendIsConcat
    <3>2. <<Head(mails)>> \in Seq(Mail) /\ Tail(mails) \in Seq(Mail)
      BY <2>1, <2>3
    <3>3. (outbox \o <<Head(mails)>>) \o Tail(mails) = outbox \o (<<Head(mails)>> \o Tail(mails))
      BY <1>1, <3>2, ConcatAssociative
    <3>4. QED
      BY <2>1, <2>3, <3>1, <3>3
  <2>5. QED
    BY <1>4, <2>1, <2>3, <2>4
<1>7. QED
  BY <1>3, <1>5, <1>6 DEF MailNext, SenderStep

\* An event of a lossy buffer is mailed once at most and in its turn, whatever
\* the other buffers and the sender's thread do (BufferingAppender.cpp:22).
THEOREM MailedOnce == MailSpec => []LossyMailedOnce
<1>1. MailInv => LossyMailedOnce
  <2> SUFFICES ASSUME MailInv, NEW b \in Buffers, lossy[b]
               PROVE  LET s == Mailed(b) \o Reverse(buffer[b])
                      IN  /\ \A i \in 1 .. Len(s) - 1 : s[i] < s[i + 1]
                          /\ Len(buffer[b]) <= BufferSize
                          /\ events[b] > 0 => s # <<>> /\ Last(s) = events[b]
    BY DEF LossyMailedOnce
  <2>1. events[b] \in Nat /\ LossyState(Mailed(b), buffer[b], events[b])
    BY DEF MailInv
  <2>2. PICK s : s = Mailed(b) \o Reverse(buffer[b])
    OBVIOUS
  <2>3. /\ s \in Seq(Nat) /\ \A i, j \in 1 .. Len(s) : i < j => s[i] < s[j]
        /\ events[b] > 0 => s # <<>> /\ s[Len(s)] = events[b]
    BY <2>1, <2>2, AllMailed
  <2>4. \A i \in 1 .. Len(s) - 1 : i \in 1 .. Len(s) /\ i + 1 \in 1 .. Len(s) /\ i < i + 1
    BY <2>3
  <2>5. \A i \in 1 .. Len(s) - 1 : s[i] < s[i + 1]
    BY <2>3, <2>4
  <2>6. Len(buffer[b]) <= BufferSize
    BY <2>1 DEF LossyState
  <2>7. QED
    BY <2>2, <2>3, <2>5, <2>6 DEF Last
<1>2. QED
  BY <1>1, MailInit_Inv, MailInv_Step, PTL DEF MailSpec

-----------------------------------------------------------------------------
(***************************************************************************)
(* The packets of the syslog appender.  A packet is the priority and a      *)
(* slice of the message; what is still to be sent is in the buffer, behind  *)
(* the priority again.                                                      *)
(***************************************************************************)
LEMMA PreambleForm ==
  ASSUME NEW p
  PROVE  \E S : Nat \subseteq S /\ Preamble(p) \in Seq(S) /\ Len(Preamble(p)) \in Nat /\ Len(Preamble(p)) < 5
<1> DEFINE n == LOG_USER + ToSyslogPriority(p)
<1>1. Preamble(p) = IF n < 10 THEN <<"<", n, ">">> ELSE <<"<", n \div 10, n % 10, ">">>
  BY DEF Preamble
<1> HIDE DEF n
<1> DEFINE S == Nat \cup {"<", ">", n, n \div 10, n % 10}
<1>2. CASE n < 10
  <2>1. Preamble(p) = <<"<", n, ">">> /\ n \in S
    BY <1>1, <1>2
  <2>2. "<" \in S /\ ">" \in S /\ Nat \subseteq S
    OBVIOUS
  <2> HIDE DEF S
  <2>3. <<"<", n, ">">> \in Seq(S) /\ Len(<<"<", n, ">">>) = 3
    BY <2>1, <2>2
  <2>4. QED
    BY <2>1, <2>2, <2>3
<1>3. CASE ~(n < 10)
  <2>1. PICK x, y : x = n \div 10 /\ y = n % 10
    OBVIOUS
  <2>2. Preamble(p) = <<"<", x, y, ">">> /\ x \in S /\ y \in S
    BY <1>1, <1>3, <2>1
  <2>3. "<" \in S /\ ">" \in S /\ Nat \subseteq S
    OBVIOUS
  <2> HIDE DEF S
  <2>4. <<"<", x, y, ">">> \in Seq(S) /\ Len(<<"<", x, y, ">">>) = 4
    BY <2>2, <2>3
  <2>5. QED
    BY <2>2, <2>3, <2>4
<1>4. QED
  BY <1>2, <1>3

\* The priority pre and a slice of the message behind it.
IsPacket(s, S, pre, a, b) ==
  /\ s \in Seq(S) /\ Len(s) = Len(pre) + (b - a)
  /\ \A i \in 1 .. Len(pre) + (b - a) : s[i] = IF i <= Len(pre) THEN pre[i] ELSE a + (i - Len(pre))

LEMMA PacketForm ==
  ASSUME NEW S, Nat \subseteq S, NEW pre \in Seq(S), NEW a \in Nat, NEW b \in Nat, a <= b
  PROVE  IsPacket(pre \o LogSlice(a, b), S, pre, a, b)
<1> DEFINE r == LogSlice(a, b)
<1>1. b - a \in Nat /\ r \in [1 .. b - a -> Nat] /\ \A i \in 1 .. b - a : r[i] = a + i
  BY DEF LogSlice
<1> HIDE DEF r
<1>2. r \in [1 .. b - a -> S]
  BY <1>1
<1>3. r \in Seq(S) /\ Len(r) = b - a
  BY <1>1, <1>2
<1>4. /\ pre \o r \in Seq(S) /\ Len(pre \o r) = Len(pre) + Len(r)
      /\ \A i \in 1 .. Len(pre) + Len(r) : (pre \o r)[i] = IF i <= Len(pre) THEN pre[i] ELSE r[i - Len(pre)]
  BY <1>3, ConcatProperties
<1>5. ASSUME NEW i \in 1 .. Len(pre) + (b - a)
      PROVE  (pre \o r)[i] = IF i <= Len(pre) THEN pre[i] ELSE a + (i - Len(pre))
  <2>1. (pre \o r)[i] = IF i <= Len(pre) THEN pre[i] ELSE r[i - Len(pre)]
    BY <1>3, <1>4
  <2>2. CASE i <= Len(pre)
    BY <2>1, <2>2
  <2>3. CASE ~(i <= Len(pre))
    <3>1. Len(pre) \in Nat
      OBVIOUS
    <3>2. i - Len(pre) \in 1 .. b - a
      BY <1>1, <2>3, <3>1
    <3>3. QED
      BY <1>1, <2>1, <2>3, <3>2
  <2>4. QED
    BY <2>2, <2>3
<1>6. QED
  BY <1>3, <1>4, <1>5 DEF r, IsPacket

LEMMA PacketFront ==
  ASSUME NEW S, Nat \subseteq S, NEW pre \in Seq(S), NEW a \in Nat, NEW b \in Nat, a <= b, NEW m \in 0 .. b - a
  PROVE  SubSeq(pre \o LogSlice(a, b), 1, Len(pre) + m) = pre \o LogSlice(a, a + m)
<1>1. PICK s : s = pre \o LogSlice(a, b)
  OBVIOUS
<1>2. PICK u : u = pre \o LogSlice(a, a + m)
  OBVIOUS
<1>3. PICK k \in Nat : k = Len(pre)
  OBVIOUS
<1>4. /\ s \in Seq(S) /\ Len(s) = k + (b - a)
      /\ \A i \in 1 .. k + (b - a) : s[i] = IF i <= k THEN pre[i] ELSE a + (i - k)
  <2>1. IsPacket(pre \o LogSlice(a, b), S, pre, a, b)
    BY PacketForm, Zenon
  <2>2. QED
    BY <1>1, <1>3, <2>1 DEF IsPacket
<1>5. a + m \in Nat /\ a <= a + m /\ (a + m) - a = m
  OBVIOUS
<1>6. /\ u \in Seq(S) /\ Len(u) = k + m
      /\ \A i \in 1 .. k + m : u[i] = IF i <= k THEN pre[i] ELSE a + (i - k)
  <2>1. IsPacket(pre \o LogSlice(a, a + m), S, pre, a, a + m)
    BY <1>5, PacketForm, Zenon
  <2>2. QED
    BY <1>2, <1>3, <1>5, <2>1 DEF IsPacket
<1>7. \A i \in 1 .. k + m : i \in 1 .. k + (b - a) /\ 1 + i - 1 = i /\ s[i] \in S
  BY <1>3, <1>4
<1>8. /\ SubSeq(s, 1, k + m) \in Seq(S)
      /\ Len(SubSeq(s, 1, k + m)) = IF 1 <= k + m THEN (k + m) - 1 + 1 ELSE 0
      /\ \A i \in 1 .. (k + m) - 1 + 1 : SubSeq(s, 1, k + m)[i] = s[1 + i - 1]
  <2>1. 1 \in Int /\ k + m \in Int
    BY <1>3
  <2>2. QED
    BY <1>7, <2>1, SubSeqProperties
<1>9. (k + m) - 1 + 1 = k + m /\ (~(1 <= k + m) => k + m = 0)
  BY <1>3
<1>10. Len(SubSeq(s, 1, k + m)) = k + m
  BY <1>8, <1>9
<1>11. \A i \in 1 .. k + m : SubSeq(s, 1, k + m)[i] = u[i]
  BY <1>4, <1>6, <1>7, <1>8, <1>9
<1>12. SubSeq(s, 1, k + m) = u
  <2>1. PICK v : v = SubSeq(s, 1, k + m)
    OBVIOUS
  <2>2. v \in Seq(S) /\ Len(v) = Len(u) /\ \A i \in 1 .. Len(v) : v[i] = u[i]
    BY <1>6, <1>8, <1>10, <1>11, <2>1
  <2>3. v = u
    BY <1>6, <2>2, SeqEqual
  <2>4. QED
    BY <2>1, <2>3
<1>13. QED
  BY <1>1, <1>2, <1>3, <1>12

LEMMA PacketRest ==
  ASSUME NEW S, Nat \subseteq S, NEW pre \in Seq(S), NEW a \in Nat, NEW b \in Nat, a <= b, NEW m \in 0 .. b - a
  PROVE  SubSeq(pre \o LogSlice(a, b), Len(pre) + m + 1, Len(pre) + (b - a)) = LogSlice(a + m, b)
<1>1. PICK s : s = pre \o LogSlice(a, b)
  OBVIOUS
<1>2. PICK k \in Nat : k = Len(pre)
  OBVIOUS
<1>3. /\ s \in Seq(S) /\ Len(s) = k + (b - a)
      /\ \A i \in 1 .. k + (b - a) : s[i] = IF i <= k THEN pre[i] ELSE a + (i - k)
  <2>1. IsPacket(pre \o LogSlice(a, b), S, pre, a, b)
    BY PacketForm, Zenon
  <2>2. QED
    BY <1>1, <1>2, <2>1 DEF IsPacket
<1>4. PICK f : f = k + m + 1
  OBVIOUS
<1>5. PICK l : l = k + (b - a)
  OBVIOUS
<1>6. f \in Int /\ l \in Int /\ l - f + 1 = b - (a + m) /\ b - (a + m) \in Nat
  BY <1>2, <1>4, <1>5
<1>7. \A i \in f .. l : s[i] \in Nat
  BY <1>2, <1>3, <1>4, <1>5
<1>8. /\ SubSeq(s, f, l) \in Seq(Nat)
      /\ Len(SubSeq(s, f, l)) = IF f <= l THEN l - f + 1 ELSE 0
      /\ \A i \in 1 .. l - f + 1 : SubSeq(s, f, l)[i] = s[f + i - 1]
  BY <1>6, <1>7, SubSeqProperties
<1>9. PICK v : v = SubSeq(s, f, l)
  OBVIOUS
<1>10. Len(v) = b - (a + m)
  <2>1. Len(v) = IF f <= l THEN l - f + 1 ELSE 0
    BY <1>8, <1>9
  <2>2. ~(f <= l) => l - f + 1 = 0
    BY <1>6
  <2>3. QED
    BY <1>6, <2>1, <2>2
<1>11. \A i \in 1 .. b - (a + m) : v[i] = a + m + i
  <2>1. ASSUME NEW i \in 1 .. b - (a + m) PROVE v[i] = a + m + i
    <3>1. v[i] = s[f + i - 1]
      BY <1>6, <1>8, <1>9
    <3>2. f + i - 1 \in 1 .. k + (b - a) /\ ~(f + i - 1 <= k) /\ a + ((f + i - 1) - k) = a + m + i
      BY <1>2, <1>4
    <3>3. QED
      BY <1>3, <3>1, <3>2
  <2>2. QED
    BY <2>1
<1>12. v \in Seq(Nat)
  BY <1>8, <1>9
<1>13. v = [i \in 1 .. b - (a + m) |-> a + m + i]
  BY <1>10, <1>11, <1>12
<1>14. QED
  BY <1>1, <1>2, <1>4, <1>5, <1>9, <1>13 DEF LogSlice

Payload(pre, packet) == SubSeq(packet, Len(pre) + 1, Len(packet))

Payloads(pre, ps) == [i \in DOMAIN ps |-> Payload(pre, ps[i])]

PacketsWith(pre) ==
  {packet \in Seq(Nat \cup ToSet(pre)) :
     \E a, b \in Nat : a <= b /\ Len(pre) + (b - a) <= MAX_PACKET /\ packet = pre \o LogSlice(a, b)}

\* The packets ps bring the message up to its byte a.
SentUpTo(ps, pre, a) ==
  ps \in Seq(PacketsWith(pre)) /\ FlattenSeq(Payloads(pre, ps)) = LogSlice(0, a)

\* A thread is done with its message f, or has the last l bytes in its buffer.
PacketState(where, l, b, ps, f) ==
  /\ where = "idle" => SentUpTo(ps, Preamble(f.priority), f.length)
  /\ where # "idle" => /\ l <= f.length
                       /\ b = Preamble(f.priority) \o LogSlice(f.length - l, f.length)
                       /\ SentUpTo(ps, Preamble(f.priority), f.length - l)

SyslogInv ==
  /\ formatted \in [Senders -> [length : Nat, priority : EventPriorities \cup {0}]]
  /\ left \in [Senders -> Nat]
  /\ sending = [t \in Senders |-> sending[t]]
  /\ buf = [t \in Senders |-> buf[t]]
  /\ packets = [t \in Senders |-> packets[t]]
  /\ \A t \in Senders : PacketState(sending[t], left[t], buf[t], packets[t], formatted[t])

LEMMA PayloadIs ==
  ASSUME NEW S, Nat \subseteq S, NEW pre \in Seq(S), NEW a \in Nat, NEW b \in Nat, a <= b
  PROVE  Payload(pre, pre \o LogSlice(a, b)) = LogSlice(a, b)
<1>1. SubSeq(pre \o LogSlice(a, b), Len(pre) + 0 + 1, Len(pre) + (b - a)) = LogSlice(a + 0, b)
  <2>1. 0 \in 0 .. b - a
    OBVIOUS
  <2>2. QED
    BY <2>1, PacketRest, Zenon
<1>2. Len(pre) \in Nat /\ Len(pre) + 0 + 1 = Len(pre) + 1 /\ a + 0 = a
  OBVIOUS
<1>3. Len(pre \o LogSlice(a, b)) = Len(pre) + (b - a)
  <2>1. IsPacket(pre \o LogSlice(a, b), S, pre, a, b)
    BY PacketForm, Zenon
  <2>2. QED
    BY <2>1, Zenon DEF IsPacket
<1>4. QED
  BY <1>1, <1>2, <1>3, Zenon DEF Payload

\* A packet of the property: short enough, and the priority in front.
LEMMA PacketIs ==
  ASSUME NEW S, Nat \subseteq S, NEW pre \in Seq(S), NEW packet \in PacketsWith(pre)
  PROVE  Len(packet) <= MAX_PACKET /\ IsPrefix(pre, packet) /\ Payload(pre, packet) \in Seq(Nat)
<1>1. PICK a \in Nat, b \in Nat : a <= b /\ Len(pre) + (b - a) <= MAX_PACKET /\ packet = pre \o LogSlice(a, b)
  BY Zenon DEF PacketsWith
<1>2. a <= b
  BY <1>1
<1>3. Payload(pre, packet) = LogSlice(a, b)
  BY <1>1, <1>2, PayloadIs, Zenon
<1>4. LogSlice(a, b) \in Seq(Nat)
  BY <1>2, SliceProperties, Zenon
<1>5. Len(packet) = Len(pre) + (b - a) /\ Len(pre) \in Nat
  <2>1. IsPacket(pre \o LogSlice(a, b), S, pre, a, b)
    BY <1>2, PacketForm, Zenon
  <2>2. QED
    BY <1>1, <2>1 DEF IsPacket
<1>6. ASSUME NEW c \in Nat, NEW d \in Nat, c <= d
      PROVE  SubSeq(pre \o LogSlice(c, d), 1, Len(pre)) = pre
  <2>1. 0 \in 0 .. d - c /\ Len(pre) + 0 = Len(pre) /\ c + 0 = c
    BY <1>6
  <2>2. SubSeq(pre \o LogSlice(c, d), 1, Len(pre) + 0) = pre \o LogSlice(c, c + 0)
    BY <1>6, <2>1, PacketFront, Zenon
  <2>3. LogSlice(c, c) = <<>>
    BY SliceEmpty, Zenon
  <2>4. pre \o <<>> = pre
    OBVIOUS
  <2>5. QED
    BY <2>1, <2>2, <2>3, <2>4
<1>7. SubSeq(pre, 1, Len(pre)) = pre
  <2>1. 0 \in Nat /\ 0 <= 0
    OBVIOUS
  <2>2. SubSeq(pre \o LogSlice(0, 0), 1, Len(pre)) = pre
    BY <1>6, <2>1, Zenon
  <2>3. LogSlice(0, 0) = <<>> /\ pre \o <<>> = pre
    BY <2>1, SliceEmpty
  <2>4. QED
    BY <2>2, <2>3
<1>8. SubSeq(packet, 1, Len(pre)) = pre
  BY <1>1, <1>2, <1>6
<1>9. Len(packet) <= MAX_PACKET /\ Len(pre) <= Len(packet)
  BY <1>1, <1>2, <1>5
<1>10. QED
  BY <1>3, <1>4, <1>7, <1>8, <1>9 DEF IsPrefix

\* One more packet.
LEMMA PacketAdded ==
  ASSUME NEW S, Nat \subseteq S, NEW pre \in Seq(S), NEW a \in Nat, NEW b \in Nat, a <= b,
         Len(pre) + (b - a) <= MAX_PACKET, NEW ps, SentUpTo(ps, pre, a)
  PROVE  SentUpTo(Append(ps, pre \o LogSlice(a, b)), pre, b)
<1>1. PICK packet : packet = pre \o LogSlice(a, b)
  OBVIOUS
<1>2. PICK P : P = PacketsWith(pre)
  OBVIOUS
<1>3. packet \in P
  <2>1. pre \in Seq(Nat \cup ToSet(pre))
    <3>1. Len(pre) \in Nat /\ DOMAIN pre = 1 .. Len(pre) /\ pre = [i \in 1 .. Len(pre) |-> pre[i]]
      OBVIOUS
    <3>2. \A i \in 1 .. Len(pre) : pre[i] \in Nat \cup ToSet(pre)
      BY <3>1 DEF ToSet
    <3>3. pre \in [1 .. Len(pre) -> Nat \cup ToSet(pre)]
      BY <3>1, <3>2
    <3>4. QED
      BY <3>1, <3>3
  <2>2. IsPacket(packet, Nat \cup ToSet(pre), pre, a, b)
    <3>1. Nat \subseteq Nat \cup ToSet(pre)
      OBVIOUS
    <3>2. QED
      BY <1>1, <2>1, <3>1, PacketForm, Zenon
  <2>3. packet \in Seq(Nat \cup ToSet(pre))
    BY <2>2, Zenon DEF IsPacket
  <2>4. QED
    BY <1>1, <1>2, <2>3, Zenon DEF PacketsWith
<1>4. ps \in Seq(P) /\ FlattenSeq(Payloads(pre, ps)) = LogSlice(0, a)
  BY <1>2 DEF SentUpTo
<1> DEFINE ss == Payloads(pre, ps)
           tt == Payloads(pre, Append(ps, packet))
           last == Payload(pre, packet)
           D == Seq(Nat)
<1>5. \A x \in P : Payload(pre, x) \in D
  BY <1>2, PacketIs, Zenon
<1>6. DOMAIN ps = 1 .. Len(ps) /\ Len(ps) \in Nat /\ \A i \in 1 .. Len(ps) : ps[i] \in P
  BY <1>4
<1>7. /\ DOMAIN Append(ps, packet) = 1 .. Len(ps) + 1
      /\ Append(ps, packet)[Len(ps) + 1] = packet
      /\ \A i \in 1 .. Len(ps) : Append(ps, packet)[i] = ps[i]
      /\ Append(ps, packet) \in Seq(P)
  BY <1>3, <1>4
<1>8. ss = [i \in 1 .. Len(ps) |-> Payload(pre, ps[i])]
  BY <1>6 DEF Payloads
<1>9. tt = [i \in 1 .. Len(ps) + 1 |-> Payload(pre, Append(ps, packet)[i])]
  BY <1>7 DEF Payloads
<1>10. last \in D
  BY <1>3, <1>5
<1> HIDE DEF D, ss, tt, last
<1>11. ss \in [1 .. Len(ps) -> D]
  BY <1>5, <1>6, <1>8
<1>12. ss \in Seq(D) /\ Len(ss) = Len(ps)
  BY <1>6, <1>11
<1>13. tt = Append(ss, last)
  <2>1. /\ Append(ss, last) = [i \in 1 .. Len(ps) + 1 |-> Append(ss, last)[i]]
        /\ Append(ss, last)[Len(ps) + 1] = last
        /\ \A i \in 1 .. Len(ps) : Append(ss, last)[i] = ss[i]
    <3>1. /\ Append(ss, last) \in Seq(D) /\ Len(Append(ss, last)) = Len(ss) + 1
          /\ \A i \in 1 .. Len(ss) : Append(ss, last)[i] = ss[i]
          /\ Append(ss, last)[Len(ss) + 1] = last
      BY <1>10, <1>12, AppendProperties
    <3>2. PICK w : w = Append(ss, last)
      OBVIOUS
    <3>3. w \in Seq(D) /\ Len(w) = Len(ps) + 1
      BY <1>12, <3>1, <3>2
    <3>4. w = [i \in 1 .. Len(w) |-> w[i]]
      BY <3>3
    <3>5. QED
      BY <1>12, <3>1, <3>2, <3>3, <3>4
  <2>2. \A i \in 1 .. Len(ps) + 1 : i = Len(ps) + 1 \/ i \in 1 .. Len(ps)
    BY <1>6
  <2>3. \A i \in 1 .. Len(ps) : ss[i] = Payload(pre, ps[i])
    BY <1>8
  <2>4. \A i \in 1 .. Len(ps) + 1 : Append(ss, last)[i] = Payload(pre, Append(ps, packet)[i])
    BY <1>7, <2>1, <2>2, <2>3 DEF last
  <2>5. QED
    BY <1>9, <2>1, <2>4
<1>14. last \in Seq(Nat) /\ ss \in Seq(Seq(Nat))
  BY <1>10, <1>12 DEF D
<1>15. FlattenSeq(Append(ss, last)) = FlattenSeq(ss) \o last
  BY <1>14, FlattenAppend
<1>16. last = LogSlice(a, b)
  BY <1>1, PayloadIs, Zenon DEF last
<1>17. LogSlice(0, a) \o LogSlice(a, b) = LogSlice(0, b)
  <2>1. 0 \in Nat /\ 0 <= a
    OBVIOUS
  <2>2. QED
    BY <2>1, SliceConcat, Zenon
<1>18. FlattenSeq(tt) = LogSlice(0, b)
  BY <1>4, <1>13, <1>15, <1>16, <1>17 DEF ss
<1>19. QED
  BY <1>1, <1>2, <1>7, <1>18 DEF SentUpTo, tt

LEMMA NothingSent == \A pre : SentUpTo(<<>>, pre, 0)
<1> SUFFICES ASSUME NEW pre PROVE SentUpTo(<<>>, pre, 0)
  OBVIOUS
<1>1. PICK P : P = PacketsWith(pre)
  OBVIOUS
<1>2. <<>> \in Seq(P) /\ DOMAIN <<>> = {} /\ Len(<<>>) = 0
  OBVIOUS
<1>3. PICK ss : ss = [i \in {} |-> Payload(pre, <<>>[i])]
  OBVIOUS
<1>4. ss = <<>>
  BY <1>3
<1>5. Payloads(pre, <<>>) = <<>>
  BY <1>2, <1>3, <1>4 DEF Payloads
<1>6. FlattenSeq(<<>>) = <<>>
  BY <1>2 DEF FlattenSeq
<1>7. LogSlice(0, 0) = <<>>
  BY SliceEmpty
<1>8. QED
  BY <1>1, <1>2, <1>5, <1>6, <1>7 DEF SentUpTo

\* A turn of the loop, by its values: the last l bytes of n are in the buffer.
LEMMA LoopTurn ==
  ASSUME NEW p, NEW n \in Nat, NEW l \in Nat, 0 < l, l <= n, NEW b, NEW ps,
         b = Preamble(p) \o LogSlice(n - l, n), SentUpTo(ps, Preamble(p), n - l)
  PROVE  IF Len(Preamble(p)) + l > MAX_PACKET
         THEN LET m == l - (MAX_PACKET - Len(Preamble(p)))
              IN  /\ m \in Nat /\ m <= n
                  /\ SentUpTo(Append(ps, SubSeq(b, 1, MAX_PACKET)), Preamble(p), n - m)
                  /\ Preamble(p) \o SubSeq(b, MAX_PACKET + 1, MAX_PACKET + m)
                       = Preamble(p) \o LogSlice(n - m, n)
         ELSE SentUpTo(Append(ps, SubSeq(b, 1, Len(Preamble(p)) + l)), Preamble(p), n)
<1>1. PICK pre : pre = Preamble(p)
  OBVIOUS
<1>2. PICK S : Nat \subseteq S /\ pre \in Seq(S) /\ Len(pre) \in Nat /\ Len(pre) < 5
  BY <1>1, PreambleForm
<1>3. Nat \subseteq S /\ pre \in Seq(S)
  BY <1>2
<1>4. PICK k \in Nat : k = Len(pre) /\ k < 5
  BY <1>2
<1>5. PICK a \in Nat : a = n - l
  OBVIOUS
<1>6. a <= n /\ n - a = l /\ MAX_PACKET \in Nat /\ MAX_PACKET > 5
  BY <1>5, PacketAssumption
<1>7. b = pre \o LogSlice(a, n) /\ SentUpTo(ps, pre, a)
  BY <1>1, <1>5
<1>8. CASE k + l > MAX_PACKET
  <2>1. PICK r \in 0 .. n - a : r = MAX_PACKET - k
    <3>1. MAX_PACKET - k \in 0 .. l
      BY <1>4, <1>6, <1>8
    <3>2. QED
      BY <1>6, <3>1
  <2>2. PICK m \in Nat : m = l - r
    BY <1>6, <2>1
  <2>3. /\ k + r = MAX_PACKET /\ k + r + 1 = MAX_PACKET + 1 /\ k + (n - a) = MAX_PACKET + m
        /\ n - m = a + r /\ m <= n /\ a + r \in Nat /\ a <= a + r /\ k + ((a + r) - a) <= MAX_PACKET
    BY <1>4, <1>5, <1>6, <2>1, <2>2
  <2>4. SubSeq(pre \o LogSlice(a, n), 1, Len(pre) + r) = pre \o LogSlice(a, a + r)
    BY <1>3, <1>6, PacketFront, Zenon
  <2>5. SubSeq(pre \o LogSlice(a, n), Len(pre) + r + 1, Len(pre) + (n - a)) = LogSlice(a + r, n)
    BY <1>3, <1>6, PacketRest, Zenon
  <2>6. SentUpTo(Append(ps, pre \o LogSlice(a, a + r)), pre, a + r)
    BY <1>3, <1>4, <1>7, <2>3, PacketAdded, Zenon
  <2>7. SubSeq(b, 1, MAX_PACKET) = pre \o LogSlice(a, a + r)
    BY <1>4, <1>7, <2>3, <2>4, Zenon
  <2>8. SubSeq(b, MAX_PACKET + 1, MAX_PACKET + m) = LogSlice(a + r, n)
    BY <1>4, <1>7, <2>3, <2>5, Zenon
  <2>9. SentUpTo(Append(ps, SubSeq(b, 1, MAX_PACKET)), pre, n - m)
    BY <2>3, <2>6, <2>7, Zenon
  <2>10. pre \o SubSeq(b, MAX_PACKET + 1, MAX_PACKET + m) = pre \o LogSlice(n - m, n)
    BY <2>3, <2>8, Zenon
  <2>11. m = l - (MAX_PACKET - Len(pre)) /\ Len(pre) + l > MAX_PACKET
    BY <1>4, <1>8, <2>1, <2>2
  <2>12. QED
    BY <1>1, <2>3, <2>9, <2>10, <2>11
<1>9. CASE ~(k + l > MAX_PACKET)
  <2>1. /\ l \in 0 .. n - a /\ a + l = n /\ k + (n - a) <= MAX_PACKET /\ ~(Len(pre) + l > MAX_PACKET)
    BY <1>4, <1>5, <1>6, <1>9
  <2>2. SubSeq(pre \o LogSlice(a, n), 1, Len(pre) + l) = pre \o LogSlice(a, a + l)
    BY <1>3, <1>6, <2>1, PacketFront, Zenon
  <2>3. SentUpTo(Append(ps, pre \o LogSlice(a, n)), pre, n)
    BY <1>3, <1>4, <1>6, <1>7, <2>1, PacketAdded, Zenon
  <2>4. SentUpTo(Append(ps, SubSeq(b, 1, Len(pre) + l)), pre, n)
    BY <1>7, <2>1, <2>2, <2>3, Zenon
  <2>5. QED
    BY <1>1, <2>1, <2>4
<1>10. QED
  BY <1>8, <1>9

LEMMA SyslogInit_Inv == SyslogInit => SyslogInv
<1> SUFFICES ASSUME SyslogInit PROVE SyslogInv
  OBVIOUS
<1>1. /\ sending = [t \in Senders |-> "idle"] /\ buf = [t \in Senders |-> <<>>] /\ left = [t \in Senders |-> 0]
      /\ formatted = [t \in Senders |-> [length |-> 0, priority |-> 0]] /\ packets = [t \in Senders |-> <<>>]
  BY DEF SyslogInit
<1>2. formatted \in [Senders -> [length : Nat, priority : EventPriorities \cup {0}]] /\ left \in [Senders -> Nat]
  BY <1>1
<1>3. \A t \in Senders : PacketState(sending[t], left[t], buf[t], packets[t], formatted[t])
  BY <1>1, NothingSent DEF PacketState
<1>4. QED
  BY <1>1, <1>2, <1>3 DEF SyslogInv

LEMMA SyslogInv_Step == SyslogInv /\ [SyslogNext]_syslogVars => SyslogInv'
<1> SUFFICES ASSUME SyslogInv, [SyslogNext]_syslogVars PROVE SyslogInv'
  OBVIOUS
<1>1. /\ formatted \in [Senders -> [length : Nat, priority : EventPriorities \cup {0}]]
      /\ left \in [Senders -> Nat]
      /\ sending = [t \in Senders |-> sending[t]]
      /\ buf = [t \in Senders |-> buf[t]]
      /\ packets = [t \in Senders |-> packets[t]]
      /\ \A t \in Senders : PacketState(sending[t], left[t], buf[t], packets[t], formatted[t])
  BY DEF SyslogInv
\* A step of one thread: what becomes of its own values is a PacketState again.
<1>2. ASSUME NEW t \in Senders, NEW w, NEW l \in Nat, NEW b, NEW ps,
             NEW f \in [length : Nat, priority : EventPriorities \cup {0}],
             sending' = [sending EXCEPT ![t] = w], left' = [left EXCEPT ![t] = l],
             buf' = [buf EXCEPT ![t] = b], packets' = [packets EXCEPT ![t] = ps],
             formatted' = [formatted EXCEPT ![t] = f], PacketState(w, l, b, ps, f)
      PROVE  SyslogInv'
  <2>1. /\ formatted' \in [Senders -> [length : Nat, priority : EventPriorities \cup {0}]]
        /\ left' \in [Senders -> Nat]
    BY <1>1, <1>2
  <2>2. /\ sending' = [s \in Senders |-> sending'[s]] /\ buf' = [s \in Senders |-> buf'[s]]
        /\ packets' = [s \in Senders |-> packets'[s]]
    BY <1>1, <1>2
  <2>3. ASSUME NEW s \in Senders PROVE PacketState(sending'[s], left'[s], buf'[s], packets'[s], formatted'[s])
    <3>1. CASE s = t
      <4>1. sending'[s] = w /\ left'[s] = l /\ buf'[s] = b /\ packets'[s] = ps /\ formatted'[s] = f
        BY <1>1, <1>2, <3>1
      <4>2. QED
        BY <1>2, <4>1
    <3>2. CASE s # t
      <4>1. /\ sending'[s] = sending[s] /\ left'[s] = left[s] /\ buf'[s] = buf[s]
            /\ packets'[s] = packets[s] /\ formatted'[s] = formatted[s]
        BY <1>1, <1>2, <3>2
      <4>2. QED
        BY <1>1, <4>1
    <3>3. QED
      BY <3>1, <3>2
  <2>4. QED
    BY <2>1, <2>2, <2>3 DEF SyslogInv
<1>3. CASE CloseSocket \/ OpenSocket \/ UNCHANGED syslogVars
  BY <1>1, <1>3 DEF CloseSocket, OpenSocket, syslogVars, SyslogInv
<1>4. ASSUME NEW t \in Senders, FillBuffer(t) PROVE SyslogInv'
  <2>1. PICK n \in MessageLengths, p \in EventPriorities :
          /\ formatted' = [formatted EXCEPT ![t] = [length |-> n, priority |-> p]]
          /\ buf' = [buf EXCEPT ![t] = Preamble(p) \o Numbered(n)]
          /\ left' = [left EXCEPT ![t] = n]
    BY <1>4 DEF FillBuffer
  <2>2. packets' = [packets EXCEPT ![t] = <<>>] /\ sending' = [sending EXCEPT ![t] = "loop"]
    BY <1>4 DEF FillBuffer
  <2>3. n \in Nat /\ n - n = 0 /\ n <= n
    BY PacketAssumption
  <2>4. LogSlice(0, n) = Numbered(n)
    BY <2>3 DEF LogSlice, Numbered
  <2>5. PICK f : f = [length |-> n, priority |-> p]
    OBVIOUS
  <2>6. f.length = n /\ f.priority = p /\ f \in [length : Nat, priority : EventPriorities \cup {0}]
    BY <2>3, <2>5
  <2>7. PacketState("loop", n, Preamble(p) \o Numbered(n), <<>>, f)
    <3>1. SentUpTo(<<>>, Preamble(p), 0)
      BY NothingSent
    <3>2. QED
      BY <2>3, <2>4, <2>6, <3>1 DEF PacketState
  <2>8. QED
    BY <1>2, <2>1, <2>2, <2>3, <2>5, <2>6, <2>7
<1>5. ASSUME NEW t \in Senders, sending[t] = "loop"
      PROVE  /\ formatted[t].length \in Nat /\ left[t] \in Nat /\ left[t] <= formatted[t].length
             /\ buf[t] = PreambleOf(t) \o LogSlice(formatted[t].length - left[t], formatted[t].length)
             /\ SentUpTo(packets[t], PreambleOf(t), formatted[t].length - left[t])
  BY <1>1, <1>5 DEF PacketState, PreambleOf
<1>6. ASSUME NEW t \in Senders PROVE formatted = [formatted EXCEPT ![t] = formatted[t]]
  BY <1>1
<1>7. ASSUME NEW t \in Senders, NothingToSend(t) PROVE SyslogInv'
  <2>1. sending[t] = "loop" /\ left[t] = 0 /\ sending' = [sending EXCEPT ![t] = "idle"]
        /\ UNCHANGED <<buf, left, formatted, packets>>
    BY <1>7 DEF NothingToSend
  <2>2. formatted[t].length \in Nat /\ SentUpTo(packets[t], PreambleOf(t), formatted[t].length)
    BY <1>5, <2>1
  <2>3. PacketState("idle", left[t], buf[t], packets[t], formatted[t])
    BY <2>2 DEF PacketState, PreambleOf
  <2>4. PICK l, b, ps, f : l = left[t] /\ b = buf[t] /\ ps = packets[t] /\ f = formatted[t]
    OBVIOUS
  <2>5. /\ l \in Nat /\ f \in [length : Nat, priority : EventPriorities \cup {0}]
        /\ left' = [left EXCEPT ![t] = l] /\ buf' = [buf EXCEPT ![t] = b]
        /\ packets' = [packets EXCEPT ![t] = ps] /\ formatted' = [formatted EXCEPT ![t] = f]
        /\ sending' = [sending EXCEPT ![t] = "idle"]
    BY <1>1, <2>1, <2>4
  <2>6. PacketState("idle", l, b, ps, f)
    BY <2>3, <2>4
  <2>7. QED
    BY <1>2, <2>5, <2>6
<1>8. ASSUME NEW t \in Senders, SendPacket(t) PROVE SyslogInv'
  <2>1. sending[t] = "loop" /\ left[t] > 0 /\ formatted' = formatted
    BY <1>8 DEF SendPacket
  <2>2. PICK p, n, l, b, ps, f :
          /\ p = formatted[t].priority /\ n = formatted[t].length /\ l = left[t] /\ b = buf[t]
          /\ ps = packets[t] /\ f = formatted[t]
    OBVIOUS
  <2>3. /\ n \in Nat /\ l \in Nat /\ 0 < l /\ l <= n /\ b = Preamble(p) \o LogSlice(n - l, n)
        /\ SentUpTo(ps, Preamble(p), n - l)
    BY <1>5, <2>1, <2>2 DEF PreambleOf
  <2>4. /\ f \in [length : Nat, priority : EventPriorities \cup {0}] /\ f.length = n /\ f.priority = p
        /\ formatted' = [formatted EXCEPT ![t] = f] /\ sending = [sending EXCEPT ![t] = "loop"]
    BY <1>1, <2>1, <2>2
  <2>5. CASE Len(Preamble(p)) + l > MAX_PACKET
    <3>1. PICK m : m = l - (MAX_PACKET - Len(Preamble(p)))
      OBVIOUS
    <3>2. PICK c : c = Preamble(p) \o SubSeq(b, MAX_PACKET + 1, MAX_PACKET + m)
      OBVIOUS
    <3>3. PICK qs : qs = Append(ps, SubSeq(b, 1, MAX_PACKET))
      OBVIOUS
    <3>4. /\ m \in Nat /\ m <= n /\ SentUpTo(qs, Preamble(p), n - m) /\ c = Preamble(p) \o LogSlice(n - m, n)
      BY <2>3, <2>5, <3>1, <3>2, <3>3, LoopTurn
    <3>5. /\ packets' = [packets EXCEPT ![t] = qs] /\ left' = [left EXCEPT ![t] = m]
          /\ sending' = [sending EXCEPT ![t] = "loop"]
      BY <1>8, <2>2, <2>4, <2>5, <3>1, <3>3 DEF SendPacket, PreambleOf
    <3>6. left'[t] = m
      BY <1>1, <3>5
    <3>7. buf' = [buf EXCEPT ![t] = c]
      BY <1>8, <2>2, <2>5, <3>2, <3>6 DEF SendPacket, PreambleOf
    <3>8. PacketState("loop", m, c, qs, f)
      BY <2>4, <3>4 DEF PacketState
    <3>9. QED
      BY <1>2, <2>4, <3>4, <3>5, <3>7, <3>8
  <2>6. CASE ~(Len(Preamble(p)) + l > MAX_PACKET)
    <3>1. PICK qs : qs = Append(ps, SubSeq(b, 1, Len(Preamble(p)) + l))
      OBVIOUS
    <3>2. SentUpTo(qs, Preamble(p), n)
      BY <2>3, <2>6, <3>1, LoopTurn
    <3>3. /\ packets' = [packets EXCEPT ![t] = qs] /\ sending' = [sending EXCEPT ![t] = "idle"]
          /\ left' = left /\ buf' = buf
      BY <1>8, <2>2, <2>6, <3>1 DEF SendPacket, PreambleOf
    <3>4. left' = [left EXCEPT ![t] = l] /\ buf' = [buf EXCEPT ![t] = b]
      BY <1>1, <2>2, <3>3
    <3>5. PacketState("idle", l, b, qs, f)
      BY <2>4, <3>2 DEF PacketState
    <3>6. QED
      BY <1>2, <2>3, <2>4, <3>3, <3>4, <3>5
  <2>7. QED
    BY <2>5, <2>6
<1>9. QED
  BY <1>3, <1>4, <1>7, <1>8 DEF SyslogNext

\* A message comes whole: its packets are short enough, each begins with the
\* priority, and the rests of them are the message, whatever the other threads
\* and a reopening do (RemoteSyslogAppender.cpp:154).
THEOREM MessagesComeWhole == SyslogSpec => []MessageInPackets
<1>1. SyslogInv => MessageInPackets
  <2> SUFFICES ASSUME SyslogInv, NEW t \in Senders
               PROVE  /\ \A i \in DOMAIN packets[t] :
                           Len(packets[t][i]) <= MAX_PACKET /\ IsPrefix(PreambleOf(t), packets[t][i])
                      /\ sending[t] = "idle" =>
                           FlattenSeq([i \in DOMAIN packets[t] |->
                                         SubSeq(packets[t][i], Len(PreambleOf(t)) + 1, Len(packets[t][i]))])
                             = Numbered(formatted[t].length)
    BY DEF MessageInPackets
  <2>1. PacketState(sending[t], left[t], buf[t], packets[t], formatted[t]) /\ formatted[t].length \in Nat
    BY DEF SyslogInv
  <2>2. PICK pre : pre = PreambleOf(t)
    OBVIOUS
  <2>3. packets[t] \in Seq(PacketsWith(pre))
    BY <2>1, <2>2 DEF PacketState, SentUpTo, PreambleOf
  <2>4. PICK S : Nat \subseteq S /\ pre \in Seq(S)
    BY <2>2, PreambleForm DEF PreambleOf
  <2>5. \A packet \in PacketsWith(pre) : Len(packet) <= MAX_PACKET /\ IsPrefix(pre, packet)
    BY <2>4, PacketIs, Zenon
  <2>6. \A i \in DOMAIN packets[t] : packets[t][i] \in PacketsWith(pre)
    BY <2>3
  <2>7. ASSUME sending[t] = "idle"
        PROVE  FlattenSeq(Payloads(pre, packets[t])) = Numbered(formatted[t].length)
    <3>1. LogSlice(0, formatted[t].length) = Numbered(formatted[t].length)
      BY <2>1 DEF LogSlice, Numbered
    <3>2. FlattenSeq(Payloads(pre, packets[t])) = LogSlice(0, formatted[t].length)
      BY <2>1, <2>2, <2>7 DEF PacketState, SentUpTo, PreambleOf
    <3>3. QED
      BY <3>1, <3>2
  <2>8. Payloads(pre, packets[t]) =
          [i \in DOMAIN packets[t] |-> SubSeq(packets[t][i], Len(pre) + 1, Len(packets[t][i]))]
    BY DEF Payloads, Payload
  <2>9. QED
    BY <2>2, <2>5, <2>6, <2>7, <2>8
<1>2. QED
  BY <1>1, SyslogInit_Inv, SyslogInv_Step, PTL DEF SyslogSpec
=============================================================================
