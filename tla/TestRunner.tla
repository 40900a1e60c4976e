----------------------------- MODULE TestRunner -----------------------------
(***************************************************************************)
(* UnitTest++, which the tests of threadit are written with                 *)
(* (src/unittest-cpp-master/UnitTest++): a list of tests that static        *)
(* objects fill, a runner that goes through it, and the failures that       *)
(* checks, exceptions, asserts and time limits put into TestResults.  The   *)
(* control of a test is in exceptions: REQUIRE hangs a reporter in front of *)
(* the results that throws once it has reported, and CHECK_ASSERT switches  *)
(* a flag that every assert of the program looks at.                        *)
(*                                                                          *)
(* One thread runs everything.  A step is a macro of a test's body, or one  *)
(* level of the calls around the body.  The build is the one with           *)
(* exceptions.                                                              *)
(***************************************************************************)
EXTENDS Naturals, Sequences, FiniteSets

CONSTANTS
  Tests,
  SuiteOf,         \* test -> suite
  HasFixture,      \* test -> BOOLEAN: TEST_FIXTURE or TEST
  AnySuite,        \* a null pointer for the suite's name
  MaxMacros,       \* macros a body executes
  RequireAsserts   \* whether a body uses CHECK_ASSERT inside REQUIRE

ASSUME RunnerAssumption ==
  /\ HasFixture \in [Tests -> BOOLEAN] /\ RequireAsserts \in BOOLEAN
  /\ MaxMacros \in Nat /\ \A t \in Tests : SuiteOf[t] # AnySuite

VARIABLES
  list,        \* TestList
  suite,       \* the suite that is run
  timed,       \* maxTestTimeInMs > 0
  current,     \* what of the list is still to be run; the head is the test
  stage,       \* where RunTest is
  macros,      \* macros executed by this body
  depth,       \* RequiredCheckTestReporters in front of the reporter
  constraint,  \* whether the body has a TimeConstraint
  exempt,      \* TestDetails::timeConstraintExempt
  thrown,      \* how the body ended
  expected,    \* AssertExpectedFlag
  results,     \* TestResults
  reports,     \* DeferredTestReporter::m_results
  asserted     \* tests in which an assert failed that was not expected

bodyVars == <<macros, depth, constraint, thrown>>
runnerVars == <<list, suite, timed, current, stage, bodyVars, exempt, expected, results, reports, asserted>>

RunnerInit ==
  /\ list = <<>> /\ suite = AnySuite /\ timed = FALSE /\ current = <<>>
  /\ stage = "static"
  /\ macros = 0 /\ depth = 0 /\ constraint = FALSE /\ thrown = "nothing"
  /\ exempt = {} /\ expected = FALSE
  /\ results = [total |-> 0, failedTests |-> 0, failures |-> 0, currentFailed |-> FALSE]
  /\ reports = <<>> /\ asserted = {}

\* ListAdder, before main.
AddTest(t) ==
  /\ stage = "static" /\ \A i \in DOMAIN list : list[i] # t
  /\ list' = Append(list, t)
  /\ UNCHANGED <<suite, timed, current, stage, bodyVars, exempt, expected, results, reports, asserted>>

RunTestsIf(s, max) ==
  /\ stage = "static"
  /\ suite' = s /\ timed' = max /\ current' = list
  /\ stage' = "next"
  /\ UNCHANGED <<list, bodyVars, exempt, expected, results, reports, asserted>>

---------------------------------------------------------------------------
(* TestResults and the reporters.                                           *)

NewReport(t) == [test |-> t, failures |-> 0, finished |-> FALSE]

\* Mutant: the flag of the last test is kept.
OnTestStart_KeepsFlag ==
  /\ results' = [results EXCEPT !.total = @ + 1]
  /\ reports' = Append(reports, NewReport(Head(current)))

OnTestStart ==
  /\ results' = [results EXCEPT !.total = @ + 1, !.currentFailed = FALSE]
  /\ reports' = Append(reports, NewReport(Head(current)))

\* n calls of OnTestFailure in a row
OnTestFailure(n) ==
  /\ results' = [results EXCEPT !.failures = @ + n, !.currentFailed = TRUE,
                   !.failedTests = IF results.currentFailed THEN @ ELSE @ + 1]
  /\ reports' = [reports EXCEPT ![Len(reports)].failures = @ + n]

NoFailure == UNCHANGED <<results, reports>>

OnTestFinish == reports' = [reports EXCEPT ![Len(reports)].finished = TRUE]

---------------------------------------------------------------------------
(* The body of a test.                                                      *)

InBody == stage = "body" /\ macros < MaxMacros /\ macros' = macros + 1

\* The body is left by an exception, or goes on.
LeaveBody(how) == stage' = "unwind" /\ thrown' = how
StayInBody == UNCHANGED <<stage, thrown>>

\* ThrowingTestReporter::ReportFailure: the failure first, then the exception.
Reported == IF depth > 0 THEN LeaveBody("required check") ELSE StayInBody

\* A check whose values agree has nothing to report.
CheckHolds ==
  /\ InBody
  /\ UNCHANGED <<list, suite, timed, current, stage, depth, constraint, exempt, thrown, expected, results, reports, asserted>>

\* A check whose values differ, or whose expression throws: the handler of the
\* macro reports as well.
Check ==
  /\ InBody
  /\ OnTestFailure(1) /\ Reported
  /\ UNCHANGED <<list, suite, timed, current, depth, constraint, exempt, expected, asserted>>

\* ReportAssertEx: an assert that is not expected is a failure; the flag is
\* reset unless the reporter has thrown.
ReportAssert ==
  /\ expected' = FALSE
  /\ asserted' = asserted \cup {Head(current)}

\* An assert of the program fails in the expression of a check: the macro
\* takes the AssertException for any exception.
CheckAsserts ==
  /\ InBody
  /\ ReportAssert
  /\ OnTestFailure(IF expected \/ depth > 0 THEN 1 ELSE 2) /\ Reported
  /\ UNCHANGED <<list, suite, timed, current, depth, constraint, exempt>>

\* An assert of the program fails outside a check: ExecuteTest catches the
\* AssertException and says nothing.
ProgramAsserts ==
  /\ InBody
  /\ ReportAssert
  /\ IF expected THEN NoFailure ELSE OnTestFailure(1)
  /\ LeaveBody(IF depth > 0 /\ ~expected THEN "required check" ELSE "assert")
  /\ UNCHANGED <<list, suite, timed, current, depth, constraint, exempt>>

\* CHECK_ASSERT: the flag is set, the expression is to fail an assert, the
\* flag is reset.  If it fails none the reporter may throw before the reset.
CheckAssert(fails) ==
  /\ InBody
  /\ depth > 0 => RequireAsserts
  /\ IF fails
     THEN NoFailure /\ StayInBody /\ expected' = FALSE
     ELSE OnTestFailure(1) /\ Reported /\ expected' = (depth > 0)
  /\ UNCHANGED <<list, suite, timed, current, depth, constraint, exempt, asserted>>

EnterRequire ==
  /\ InBody
  /\ depth' = depth + 1
  /\ UNCHANGED <<list, suite, timed, current, stage, constraint, exempt, thrown, expected, results, reports, asserted>>

LeaveRequire ==
  /\ stage = "body" /\ depth > 0
  /\ depth' = depth - 1
  /\ UNCHANGED <<list, suite, timed, current, stage, macros, constraint, exempt, thrown, expected, results, reports, asserted>>

\* UNITTEST_TIME_CONSTRAINT at the top of the body, or the exemption from the
\* limit of the run.
SetTimeConstraint ==
  /\ InBody /\ depth = 0 /\ ~constraint
  /\ \/ constraint' = TRUE /\ UNCHANGED exempt
     \/ exempt' = exempt \cup {Head(current)} /\ UNCHANGED constraint
  /\ UNCHANGED <<list, suite, timed, current, stage, depth, thrown, expected, results, reports, asserted>>

\* The body returns, or an exception of the program leaves it.
EndBody ==
  /\ stage = "body"
  /\ \/ depth = 0 /\ LeaveBody("nothing")
     \/ LeaveBody("exception")
  /\ UNCHANGED <<list, suite, timed, current, macros, depth, constraint, exempt, expected, results, reports, asserted>>

---------------------------------------------------------------------------
(* Around the body.                                                         *)

\* RunTest, or a test that is not in the suite is passed over.
RunTest ==
  /\ stage = "next" /\ current # <<>>
  /\ IF suite \in {AnySuite, SuiteOf[Head(current)]}
     THEN /\ OnTestStart
          /\ stage' = IF HasFixture[Head(current)] THEN "fixture" ELSE "body"
          /\ UNCHANGED current
     ELSE NoFailure /\ current' = Tail(current) /\ UNCHANGED stage
  /\ macros' = 0 /\ constraint' = FALSE /\ thrown' = "nothing"
  /\ UNCHANGED <<list, suite, timed, depth, exempt, expected, asserted>>

\* The constructor of the fixture: a check in it may fail, an exception ends
\* the test, and a failed REQUIRE is caught as an exception and reported twice.
ConstructFixture ==
  /\ stage = "fixture"
  /\ \/ NoFailure /\ stage' = "body"
     \/ OnTestFailure(1) /\ stage' \in {"body", "ending"}
     \/ OnTestFailure(2) /\ stage' = "ending"
  /\ UNCHANGED <<list, suite, timed, current, bodyVars, exempt, expected, asserted>>

\* The destructors: the reporters of the REQUIREs, then the TimeConstraint.
Unwind(slow) ==
  /\ stage = "unwind"
  /\ depth' = 0
  /\ IF constraint /\ slow THEN OnTestFailure(1) ELSE NoFailure
  /\ stage' = "caught"
  /\ UNCHANGED <<list, suite, timed, current, macros, constraint, exempt, thrown, expected, asserted>>

\* ExecuteTest: only an exception that is not one of its own is a failure.
ExecuteTest ==
  /\ stage = "caught"
  /\ IF thrown = "exception" THEN OnTestFailure(1) ELSE NoFailure
  /\ stage' = "ending"
  /\ UNCHANGED <<list, suite, timed, current, bodyVars, exempt, expected, asserted>>

\* The limit of the run.
CheckTime(slow) ==
  /\ stage = "ending"
  /\ IF timed /\ slow /\ Head(current) \notin exempt THEN OnTestFailure(1) ELSE NoFailure
  /\ stage' = "finish"
  /\ UNCHANGED <<list, suite, timed, current, bodyVars, exempt, expected, asserted>>

FinishTest ==
  /\ stage = "finish"
  /\ OnTestFinish
  /\ current' = Tail(current) /\ stage' = "next"
  /\ UNCHANGED <<list, suite, timed, bodyVars, exempt, expected, results, asserted>>

\* ReportSummary and the value of RunTestsIf
Finish ==
  /\ stage = "next" /\ current = <<>>
  /\ stage' = "summary"
  /\ UNCHANGED <<list, suite, timed, current, bodyVars, exempt, expected, results, reports, asserted>>

Macro ==
  \/ CheckHolds \/ Check \/ CheckAsserts \/ ProgramAsserts \/ \E fails \in BOOLEAN : CheckAssert(fails)
  \/ EnterRequire \/ LeaveRequire \/ SetTimeConstraint \/ EndBody

RunnerNext ==
  \/ \E t \in Tests : AddTest(t)
  \/ \E s \in {AnySuite} \cup {SuiteOf[t] : t \in Tests}, max \in BOOLEAN : RunTestsIf(s, max)
  \/ RunTest \/ ConstructFixture \/ Macro
  \/ \E slow \in BOOLEAN : Unwind(slow) \/ CheckTime(slow)
  \/ ExecuteTest \/ FinishTest \/ Finish

RunnerSpec == RunnerInit /\ [][RunnerNext]_runnerVars

---------------------------------------------------------------------------
RunnerTypeOK ==
  /\ stage \in {"static", "next", "fixture", "body", "unwind", "caught", "ending", "finish", "summary"}
  /\ macros \in 0..MaxMacros /\ depth \in 0..MaxMacros
  /\ thrown \in {"nothing", "exception", "required check", "assert"}
  /\ expected \in BOOLEAN /\ constraint \in BOOLEAN
  /\ exempt \subseteq Tests /\ asserted \subseteq Tests

\* The three totals of the summary (TestRunner.cpp:43) are those of the list
\* that the XML reporter writes below them (XmlTestReporter.cpp:57): which
\* test a failure is counted for depends on a flag that outlives the test.
CountsAgree ==
  LET failed == {i \in DOMAIN reports : reports[i].failures > 0}
      Sum[i \in 0..Len(reports)] == IF i = 0 THEN 0 ELSE Sum[i - 1] + reports[i].failures
  IN  /\ results.total = Len(reports)
      /\ results.failedTests = Cardinality(failed)
      /\ results.failures = Sum[Len(reports)]

\* Inside REQUIRE the first failure is the only one and ends the body,
\* whichever macro it comes from (ThrowingTestReporter.cpp:36).
RequireEndsBody ==
  [][stage = "body" /\ depth > 0 /\ results'.failures # results.failures =>
       results'.failures = results.failures + 1 /\ stage' = "unwind"]_runnerVars

\* The results have their own reporter back before anything else is reported
\* of the test, and before the next one: a failure outside the body never
\* throws (RequiredCheckTestReporter.cpp:19).
ReporterRestored == stage \notin {"body", "unwind"} => depth = 0

\* An assert of the program that no CHECK_ASSERT waited for leaves its test
\* failed (ReportAssert.cpp:45), whatever the tests before it did to the flag.
AssertsCounted ==
  \A t \in asserted : \E i \in DOMAIN reports : reports[i].test = t /\ reports[i].failures > 0
=============================================================================
