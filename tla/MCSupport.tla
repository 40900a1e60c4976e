------------------------------ MODULE MCSupport ------------------------------
(***************************************************************************)
(* The parts that do not interact with each other, one of them chosen in    *)
(* each behaviour: those of log4cpp, of UnitTest++, the period of CThreadIt,*)
(* the result queue and the program of TestThreadIt.cpp.  A part that was   *)
(* not chosen stays as it is in one of its initial states.                  *)
(***************************************************************************)
EXTENDS Category, RollingFile, DailyFile, MailSender, PatternLayout, Syslog,
        PropertyFile, TestRunner, TestResultQ, MCTestThreadIt, PeriodTimer

CONSTANTS root, ab, no, x1, x2, X   \* model values of Category

VARIABLE part

---------------------------------------------------------------------------
(* Values of the constants.                                                 *)

MCParentOf == [n \in Names |-> IF n = root THEN no ELSE root]
MCNameOf == [a \in Appenders |-> X]
MCThreshold == [a \in Appenders |-> IF a = x2 THEN 300 ELSE NOTSET]
MCFilters == [a \in Appenders |-> IF a = x1 THEN <<"NEUTRAL", "ACCEPT", "DENY">> ELSE <<>>]
EntryOf(n, p, additivity, refs) == [name |-> n, priority |-> p, additive |-> additivity, refs |-> refs]
MCFiles ==
  {[appenders |-> <<[name |-> X, fault |-> f]>>, categories |-> <<>>] : f \in {"type", "layout", "threshold"}}
  \cup
  {[appenders |-> <<[name |-> X, fault |-> "none"]>>,
    categories |-> <<EntryOf(root, 600, TRUE, <<>>), EntryOf(ab, 600, FALSE, <<X>>)>>]}

MCFileNames == <<"log.3", "log.2", "log.1", "log">>
MCSizeOf == [e \in 1..MaxLogged |-> 1 + (e % 2)]
MCDateOf == [t \in 0..MaxTime |-> 1 + (t \div DayLength)]

MCSymbols == {" ", ".", "%", "n", "[", "-", "a", "b", "c", "k", "x", "y"} \cup ToSet(PriorityNames)
ConversionOf(s, low, high, precision) ==
  [Conversion(s) EXCEPT !.minWidth = low, !.maxWidth = high, !.precision = precision]
TextElement(t) == [Conversion("text") EXCEPT !.text = t]
MCPatterns ==
  {<<ConversionOf("c", 0, 0, 2), TextElement(<<"-">>), ConversionOf("x", -4, 0, -1), ConversionOf("p", 3, 0, -1), Conversion("n")>>,
   <<TextElement(<<"[">>), ConversionOf("x", 0, 4, -1), ConversionOf("c", 3, 1, 1), Conversion("%"), ConversionOf("m", -3, 0, -1)>>,
   <<ConversionOf("c", 0, 0, 0), TextElement(<<"[">>)>>}
MCCategoryNames == {<<"a", ".", "b", ".", "c">>, <<"a">>}
MCContexts == {<<"k">>}
MCPieces == {<<"x", "y">>}
ASSUME NothingOdd == PlainTexts

ValueLine(key, parts) == [kind |-> "value", key |-> key, parts |-> parts, comment |-> <<>>]
PartOf(kind, t) == [kind |-> kind, text |-> t]
MCFileLines ==
  {ValueLine(<<"log4cpp", ".", "a">>, <<PartOf("text", <<"x", "y">>)>>),
   ValueLine(<<"b">>, <<PartOf("variable", <<"a">>), PartOf("text", <<"z", " ", "w">>),
                     PartOf("variable", <<"HOME">>), PartOf("variable", <<"c">>)>>),
   [ValueLine(<<"c">>, <<PartOf("text", <<"x">>)>>) EXCEPT !.kind = "comment"],
   [ValueLine(<<"a">>, <<PartOf("escape", <<>>), PartOf("variable", <<"b">>), PartOf("open", <<"u">>)>>)
      EXCEPT !.comment = <<"#", "k", "=", "k">>],
   [ValueLine(<<>>, <<>>) EXCEPT !.kind = "other"]}
MCFileTexts ==
  {[lines |-> l, newline |-> n] : l \in {<<>>} \cup UNION {[1..k -> MCFileLines] : k \in 1..3}, n \in BOOLEAN}
MCLetters == {"a", "b", "c", "h", "k", "u", "w", "x", "y", "z", "/", ".", "log4cpp", "HOME",
              "${", "}", "=", "#", " ", NEWLINE}
MCEnvironment == [k \in {<<"HOME">>} |-> <<"/", "h">>]

MCSuiteOf == [t \in Tests |-> t]
MCHasFixture == [t \in Tests |-> t = "t2"]

---------------------------------------------------------------------------
rollingOnly == <<pc, shifting>>
dailyOnly == <<clock, mtime, logsTime, moment, dailyAt, loggedOn>>

Chosen(p) == part = p

MCInit ==
  /\ part \in {"category", "rolling file", "daily file", "mail", "layout", "syslog",
               "properties", "test runner", "result queue", "test", "period"}
  /\ CategoryInit
  /\ RollingInit /\ DailyInit
  /\ Chosen("rolling file") \/ Chosen("daily file") \/ append
  /\ MailInit /\ (Chosen("mail") \/ \A b \in Buffers : lossy[b])
  /\ LayoutInit
  /\ SyslogInit /\ (Chosen("syslog") \/ socket = "open")
  /\ file \in (IF Chosen("properties") THEN FileTexts ELSE {CHOOSE f \in FileTexts : TRUE})
  /\ PropertyInit
  /\ RunnerInit
  /\ ResultInit
  /\ plan \in (IF Chosen("test") THEN Plans ELSE {CHOOSE p \in Plans : TRUE})
  /\ TestInit
  /\ tick \in (IF Chosen("period") THEN Word ELSE {0})
  /\ PeriodInit
  /\ Chosen("period") \/ (m_PeriodicMethod /\ m_TimePeriod = CHOOSE p \in Periods \ {0} : TRUE)

MCNext ==
  \/ Chosen("category") /\ CategoryNext
     /\ UNCHANGED <<part, rollingVars, dailyOnly, mailVars, layoutVars, syslogVars, propertyVars,
                    runnerVars, resultVars, testVars, allVars>>
  \/ Chosen("rolling file") /\ RollingNext
     /\ UNCHANGED <<part, categoryVars, dailyOnly, mailVars, layoutVars, syslogVars, propertyVars,
                    runnerVars, resultVars, testVars, allVars>>
  \/ Chosen("daily file") /\ DailyNext
     /\ UNCHANGED <<part, categoryVars, rollingOnly, mailVars, layoutVars, syslogVars, propertyVars,
                    runnerVars, resultVars, testVars, allVars>>
  \/ Chosen("mail") /\ MailNext
     /\ UNCHANGED <<part, categoryVars, rollingVars, dailyOnly, layoutVars, syslogVars, propertyVars,
                    runnerVars, resultVars, testVars, allVars>>
  \/ Chosen("layout") /\ LayoutNext
     /\ UNCHANGED <<part, categoryVars, rollingVars, dailyOnly, mailVars, syslogVars, propertyVars,
                    runnerVars, resultVars, testVars, allVars>>
  \/ Chosen("syslog") /\ SyslogNext
     /\ UNCHANGED <<part, categoryVars, rollingVars, dailyOnly, mailVars, layoutVars, propertyVars,
                    runnerVars, resultVars, testVars, allVars>>
  \/ Chosen("properties") /\ PropertyNext
     /\ UNCHANGED <<part, categoryVars, rollingVars, dailyOnly, mailVars, layoutVars, syslogVars,
                    runnerVars, resultVars, testVars, allVars>>
  \/ Chosen("test runner") /\ RunnerNext
     /\ UNCHANGED <<part, categoryVars, rollingVars, dailyOnly, mailVars, layoutVars, syslogVars,
                    propertyVars, resultVars, testVars, allVars>>
  \/ Chosen("result queue") /\ ResultNext
     /\ UNCHANGED <<part, categoryVars, rollingVars, dailyOnly, mailVars, layoutVars, syslogVars,
                    propertyVars, runnerVars, testVars, allVars>>
  \/ Chosen("test") /\ TestNext
     /\ UNCHANGED <<part, categoryVars, rollingVars, dailyOnly, mailVars, layoutVars, syslogVars,
                    propertyVars, runnerVars, resultVars, allVars>>
  \/ Chosen("period") /\ PeriodNext
     /\ UNCHANGED <<part, categoryVars, rollingVars, dailyOnly, mailVars, layoutVars, syslogVars,
                    propertyVars, runnerVars, resultVars, testVars>>

MCVars == <<part, categoryVars, rollingVars, dailyOnly, mailVars, layoutVars, syslogVars, propertyVars,
            runnerVars, resultVars, testVars, allVars>>

\* The fairness of the modules, each asked of the part it belongs to only.
MCFairness ==
  /\ WF_categoryVars(Chosen("category") /\ JobStep)
  /\ \A t \in Loggers : WF_categoryVars(Chosen("category") /\ LogStep(t))
  /\ WF_mailVars(Chosen("mail") /\ SenderStep) /\ WF_mailVars(Chosen("mail") /\ SenderJoin)
  /\ WF_resultVars(Chosen("result queue") /\ ResultCall)

MCSpec == MCInit /\ [][MCNext]_MCVars /\ MCFairness
=============================================================================
