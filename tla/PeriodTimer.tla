---------------------------- MODULE PeriodTimer -----------------------------
(***************************************************************************)
(* How CThreadIt::threadRoutine keeps its period: the stop watch m_Period  *)
(* (module TimeIt) says whether the periodic method is due, and the time   *)
(* out of the next wait is the rest of the period.  setPeriod and          *)
(* setPeriodicMethod may be called by the methods the thread runs and by   *)
(* clients, the constructor of a derived class among them (the thread is   *)
(* started by the base class).  One step is one access to shared data.     *)
(***************************************************************************)
EXTENDS TimeIt

CONSTANTS Periods,       \* the arguments of setPeriod
          ClientSets,    \* TRUE: a client calls setPeriod
          MethodChanges  \* TRUE: a worker method calls setPeriodicMethod

ASSUME PeriodAssumption == /\ Periods \subseteq Word
                           /\ {ClientSets, MethodChanges} \subseteq BOOLEAN

VARIABLES m_TimePeriod, m_TimeOut,
          m_PeriodicMethod,  \* there is one
          Elapsed,           \* threadRoutine's variable
          at,                \* where the thread is in threadRoutine
          client             \* where the client is in setPeriod

periodVars == <<m_TimePeriod, m_TimeOut, m_PeriodicMethod, Elapsed, at, client>>
allVars == <<vars, periodVars>>

PeriodInit ==
  /\ Init
  /\ m_TimePeriod \in Periods \ {0}
  /\ m_TimeOut = m_TimePeriod
  /\ m_PeriodicMethod \in BOOLEAN
  /\ Elapsed = 0
  /\ at = "start"
  /\ client = "idle"

ThreadGoto(from, to) == at = from /\ at' = to

\* Time passes anywhere; how long a wait lasts is left open.
PeriodTick == Tick /\ UNCHANGED periodVars

Start ==
  /\ ThreadGoto("start", "wait")
  /\ StartTiming(m_TimePeriod)
  /\ m_TimeOut' = m_TimePeriod
  /\ UNCHANGED <<m_TimePeriod, m_PeriodicMethod, Elapsed, client>>

\* Whatever ended the wait: a pack for a worker method, or nothing.
WaitEnds ==
  /\ ThreadGoto("wait", "work") \/ ThreadGoto("wait", "period")
  /\ UNCHANGED <<vars, m_TimePeriod, m_TimeOut, m_PeriodicMethod, Elapsed, client>>

WorkEnds ==
  /\ ThreadGoto("work", "period")
  /\ UNCHANGED <<vars, m_TimePeriod, m_TimeOut, m_PeriodicMethod, Elapsed, client>>

\* 0 turns the period off.
PeriodOf(Period) == IF Period = 0 THEN INFINITE ELSE Period

\* setPeriod in a method that the thread itself runs.
SetPeriod(Period) ==
  /\ at \in {"work", "method"}
  /\ m_TimePeriod # Period
  /\ m_TimePeriod' = PeriodOf(Period)
  /\ m_TimeOut' = m_TimePeriod'
  /\ StartTiming(m_TimePeriod')
  /\ UNCHANGED <<m_PeriodicMethod, Elapsed, at, client>>

SetPeriodicMethod ==
  /\ MethodChanges
  /\ at = "work"
  /\ m_PeriodicMethod' = ~m_PeriodicMethod
  /\ UNCHANGED <<vars, m_TimePeriod, m_TimeOut, Elapsed, at, client>>

\* setPeriod in a client: three writes, with the thread in between.
ClientPeriod(Period) ==
  /\ ClientSets
  /\ client = "idle" /\ client' = "timeout"
  /\ m_TimePeriod # Period
  /\ m_TimePeriod' = PeriodOf(Period)
  /\ UNCHANGED <<vars, m_TimeOut, m_PeriodicMethod, Elapsed, at>>

ClientTimeOut ==
  /\ client = "timeout" /\ client' = "timer"
  /\ m_TimeOut' = m_TimePeriod
  /\ UNCHANGED <<vars, m_TimePeriod, m_PeriodicMethod, Elapsed, at>>

ClientTimer ==
  /\ client = "timer" /\ client' = "idle"
  /\ StartTiming(m_TimePeriod)
  /\ UNCHANGED <<m_TimePeriod, m_TimeOut, m_PeriodicMethod, Elapsed, at>>

\* isExpired (Elapsed) is evaluated only if there is a method.
Expired ==
  /\ m_PeriodicMethod /\ IsExpired
  /\ ThreadGoto("period", "method")
  /\ Elapsed' = TimeElapsed
  /\ UNCHANGED <<vars, m_TimePeriod, m_TimeOut, m_PeriodicMethod, client>>

\* After the periodic method: start timing again.
Restart ==
  /\ ThreadGoto("method", "wait")
  /\ StartTiming(m_TimePeriod)
  /\ m_TimeOut' = m_TimePeriod
  /\ UNCHANGED <<m_TimePeriod, m_PeriodicMethod, Elapsed, client>>

NotExpired ==
  /\ ~(m_PeriodicMethod /\ IsExpired)
  /\ ThreadGoto("period", "count down")
  /\ Elapsed' = IF m_PeriodicMethod THEN TimeElapsed ELSE Elapsed
  /\ UNCHANGED <<vars, m_TimePeriod, m_TimeOut, m_PeriodicMethod, client>>

\* m_TimePeriod - Elapsed on words; "<= 0" is then only true of 0.
CountDown ==
  /\ ThreadGoto("count down", "wait")
  /\ m_TimeOut' = Wrap(m_TimePeriod - Elapsed)
  /\ UNCHANGED <<vars, m_TimePeriod, m_PeriodicMethod, Elapsed, client>>

PeriodNext ==
  \/ PeriodTick
  \/ Start \/ WaitEnds \/ WorkEnds
  \/ \E Period \in Periods : SetPeriod(Period) \/ ClientPeriod(Period)
  \/ SetPeriodicMethod
  \/ ClientTimeOut \/ ClientTimer
  \/ Expired \/ Restart \/ NotExpired \/ CountDown

PeriodSpec == PeriodInit /\ [][PeriodNext]_allVars
-----------------------------------------------------------------------------
\* Type correctness.
PeriodTypeOK ==
  /\ TypeOK
  /\ {m_TimePeriod, m_TimeOut, Elapsed} \subseteq Word
  /\ m_PeriodicMethod \in BOOLEAN
  /\ at \in {"start", "wait", "work", "period", "method", "count down"}
  /\ client \in {"idle", "timeout", "timer"}

\* The periodic method does not run again before its period is over,
\* whatever clients and methods do to the period meanwhile.
NotBeforePeriod ==
  [][(at # "method" /\ at' = "method") => since > m_TimeAllowed]_allVars
=============================================================================
