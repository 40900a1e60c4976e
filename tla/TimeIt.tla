------------------------------- MODULE TimeIt -------------------------------
(***************************************************************************)
(* CTimeIt (TimeIt.cpp): a stop watch on GetTickCount, a counter of        *)
(* milliseconds that goes round.  Values are words: 0 .. UINT_MAX, and     *)
(* arithmetic is modulo UINT_MAX + 1.  Each method holds the mutex, so it  *)
(* is one step.  Module PeriodTimer uses it the way the library does:      *)
(* nobody there calls stopTiming or reset.                                 *)
(***************************************************************************)
EXTENDS Integers

CONSTANT UINT_MAX   \* the largest word; the code's is 2^32 - 1

ASSUME WordAssumption == UINT_MAX \in Nat /\ UINT_MAX > 1 /\ UINT_MAX % 2 = 1

Word == 0 .. UINT_MAX
INFINITE == UINT_MAX
Wrap(n) == n % (UINT_MAX + 1)

VARIABLES tick,                                 \* GetTickCount ()
          m_TStart, m_TimeAllowed, m_IsTiming,
          since                                 \* the time since startTiming

timerVars == <<m_TStart, m_TimeAllowed, m_IsTiming>>
vars == <<tick, timerVars, since>>

\* The counter may have any value when the instance is made.
Init ==
  /\ tick \in Word
  /\ m_TStart = 0 /\ m_TimeAllowed = 0 /\ m_IsTiming = FALSE
  /\ since = 0

\* A millisecond.  The model follows a timing until the counter would have
\* gone round completely (since is the bound).
Tick ==
  /\ since < UINT_MAX
  /\ tick' = Wrap(tick + 1)
  /\ since' = since + 1
  /\ UNCHANGED timerVars

\* INFINITE is kept as 0, no restriction.
StartTiming(TimeAllowed) ==
  /\ m_TimeAllowed' = IF TimeAllowed = INFINITE THEN 0 ELSE TimeAllowed
  /\ m_TStart' = tick
  /\ m_IsTiming' = TRUE
  /\ since' = 0
  /\ UNCHANGED tick

\* The branch for a counter that went round is one millisecond short.
TimeElapsed == IF tick >= m_TStart THEN tick - m_TStart
                                   ELSE (UINT_MAX - m_TStart) + tick

\* Mutant: expired at the last millisecond allowed.
IsExpired_Early == m_TimeAllowed # 0 /\ TimeElapsed + 1 > m_TimeAllowed

IsExpired == m_TimeAllowed # 0 /\ TimeElapsed > m_TimeAllowed

\* A difference with the sign bit set is taken for a negative number.
GetRemaining == LET theRemaining == Wrap(m_TimeAllowed - TimeElapsed) IN
                IF theRemaining > UINT_MAX \div 2 THEN 0 ELSE theRemaining
-----------------------------------------------------------------------------
\* Type correctness.
TypeOK == /\ {tick, m_TStart, m_TimeAllowed, since} \subseteq Word
          /\ m_IsTiming \in BOOLEAN

\* While it is timing, isExpired is right about the real time, wherever the
\* counter started, except that it may be a millisecond late.
ExpiresInTime ==
  m_IsTiming => /\ IsExpired => since > m_TimeAllowed
                /\ since > m_TimeAllowed + 1 => (IsExpired \/ m_TimeAllowed = 0)

\* Up to half the counter's range, getRemaining is the time that is left (a
\* millisecond more once the counter went round), and 0 when none is left.
RemainingIsLeft ==
  (m_IsTiming /\ m_TimeAllowed <= UINT_MAX \div 2
              /\ since <= m_TimeAllowed + UINT_MAX \div 2) =>
     LET left == IF since < m_TimeAllowed THEN m_TimeAllowed - since ELSE 0 IN
     GetRemaining \in {left, left + 1}
=============================================================================
