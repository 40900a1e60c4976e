------------------------------- MODULE Active -------------------------------
(***************************************************************************)
(* CActive (active.cpp): an object with a thread of its own, created       *)
(* suspended, resumed by startThread, run by the static threadStub and     *)
(* joined by waitForThreadToStop; and the static data the objects share:   *)
(* two counters and the set of handles KillAllThreads goes through.        *)
(*                                                                         *)
(* An object is used by one owner.  life[o] is where the owner is with it, *)
(* thread[o] where its thread is.  A handle is an index into the system's  *)
(* table, which reuses the entry of a closed handle.                       *)
(***************************************************************************)
EXTENDS Integers, FiniteSets

CONSTANTS Objects,       \* the CActive instances
          Owners,        \* the threads that create and destroy them
          OwnerOf,       \* OwnerOf[o]: the owner of o
          Handles,       \* the values a thread handle may have
          Kills,         \* TRUE: somebody calls KillAllThreads
          StopTimesOut,  \* TRUE: the wait of waitForThreadToStop may time out
          INVALID        \* INVALID_HANDLE_VALUE

ASSUME ActiveAssumption == /\ OwnerOf \in [Objects -> Owners]
                           /\ INVALID \notin Objects
                           /\ IsFiniteSet(Objects)
                           /\ INVALID \notin Handles
                           /\ {Kills, StopTimesOut} \subseteq BOOLEAN

VARIABLES m_theThread,             \* the handle of each object
          m_isThreadStarted,
          m_theThreadCount, m_theRunningThreadCount,
          m_HandleSet,
          target,                  \* target[h]: whose thread the open handle h is
          thread, life,
          read,                    \* read[o]: the count its owner has read
          zero                     \* waitForZeroThreads has returned true

ownVars == <<m_theThread, m_isThreadStarted>>
sharedVars == <<m_theThreadCount, m_theRunningThreadCount, m_HandleSet>>
vars == <<ownVars, sharedVars, target, thread, life, read, zero>>

Closed == INVALID

Init ==
  /\ m_theThread = [o \in Objects |-> INVALID]
  /\ m_isThreadStarted = [o \in Objects |-> FALSE]
  /\ m_theThreadCount = 0
  /\ m_theRunningThreadCount = 0
  /\ m_HandleSet = {}
  /\ target = [h \in Handles |-> Closed]
  /\ thread = [o \in Objects |-> "none"]
  /\ life = [o \in Objects |-> "none"]
  /\ read = [o \in Objects |-> 0]
  /\ zero = FALSE

\* An owner is in one call at a time.
Resting == {"none", "made", "joined", "gone"}
Own(o, from, to) ==
  /\ life[o] = from
  /\ \A u \in Objects \ {o} : OwnerOf[u] = OwnerOf[o] => life[u] \in Resting
  /\ life' = [life EXCEPT ![o] = to]
Run(o, from, to) == thread[o] = from /\ thread' = [thread EXCEPT ![o] = to]
-----------------------------------------------------------------------------
\* initialiseThread: _beginthreadex, ...
CreateThread(o) ==
  /\ Own(o, "none", "insert")
  /\ Run(o, "none", "suspended")
  /\ \E h \in Handles :
        /\ target[h] = Closed
        /\ target' = [target EXCEPT ![h] = o]
        /\ m_theThread' = [m_theThread EXCEPT ![o] = h]
  /\ UNCHANGED <<m_isThreadStarted, sharedVars, read, zero>>

\* Mutant: the handle of the first object only.
InsertHandle_Once(o) ==
  /\ Own(o, "insert", "count")
  /\ m_HandleSet' = IF m_HandleSet = {} THEN {m_theThread[o]} ELSE m_HandleSet
  /\ UNCHANGED <<ownVars, m_theThreadCount, m_theRunningThreadCount, target,
                 thread, read, zero>>

\* ... m_HandleSet.insert, ...
InsertHandle(o) ==
  /\ Own(o, "insert", "count")
  /\ m_HandleSet' = m_HandleSet \cup {m_theThread[o]}
  /\ UNCHANGED <<ownVars, m_theThreadCount, m_theRunningThreadCount, target,
                 thread, read, zero>>

\* ... and ++m_theThreadCount on a volatile UINT: a read ...
CountRead(o) ==
  /\ Own(o, "count", "add") \/ Own(o, "joined", "subtract")
  /\ read' = [read EXCEPT ![o] = m_theThreadCount]
  /\ UNCHANGED <<ownVars, sharedVars, target, thread, zero>>

\* ... and a write.
CountAdd(o) ==
  /\ Own(o, "add", "made")
  /\ m_theThreadCount' = read[o] + 1
  /\ UNCHANGED <<ownVars, m_theRunningThreadCount, m_HandleSet, target, thread,
                 read, zero>>

\* ~CActive: m_theThreadCount--, after CountRead.
CountSubtract(o) ==
  /\ Own(o, "subtract", "gone")
  /\ m_theThreadCount' = read[o] - 1
  /\ UNCHANGED <<ownVars, m_theRunningThreadCount, m_HandleSet, target, thread,
                 read, zero>>

StartThread(o) ==
  /\ Own(o, "made", "made")
  /\ Run(o, "suspended", "resumed")
  /\ m_isThreadStarted' = [m_isThreadStarted EXCEPT ![o] = TRUE]
  /\ UNCHANGED <<m_theThread, sharedVars, target, read, zero>>

Over == {"ended", "killed"}

\* CloseHandle, and m_theThread = INVALID_HANDLE_VALUE.
CloseThread(o) ==
  /\ target' = [target EXCEPT ![m_theThread[o]] = Closed]
  /\ m_theThread' = [m_theThread EXCEPT ![o] = INVALID]

\* waitForThreadToStop of a thread that was started: the handle is closed
\* whatever the outcome of the wait.
JoinStarted(o) ==
  /\ Own(o, "made", "joined")
  /\ m_isThreadStarted[o]
  /\ thread[o] \in Over \/ StopTimesOut
  /\ CloseThread(o)
  /\ UNCHANGED <<m_isThreadStarted, sharedVars, thread, read, zero>>

\* waitForThreadToStop of a thread that never was: it is terminated.
JoinUnstarted(o) ==
  /\ Own(o, "made", "joined")
  /\ ~m_isThreadStarted[o]
  /\ thread' = [thread EXCEPT ![o] = "killed"]
  /\ CloseThread(o)
  /\ UNCHANGED <<m_isThreadStarted, sharedVars, read, zero>>
-----------------------------------------------------------------------------
\* Mutant: the thread is not counted in.
StubEnter_Uncounted(o) ==
  /\ Run(o, "resumed", "routine")
  /\ UNCHANGED <<ownVars, sharedVars, target, life, read, zero>>

\* threadStub: InterlockedIncrement, then the derived class's threadRoutine.
StubEnter(o) ==
  /\ Run(o, "resumed", "routine")
  /\ m_theRunningThreadCount' = m_theRunningThreadCount + 1
  /\ UNCHANGED <<ownVars, m_theThreadCount, m_HandleSet, target, life, read, zero>>

\* threadRoutine has returned or thrown: InterlockedDecrement, ...
StubLeave(o) ==
  /\ Run(o, "routine", "erase")
  /\ m_theRunningThreadCount' = m_theRunningThreadCount - 1
  /\ UNCHANGED <<ownVars, m_theThreadCount, m_HandleSet, target, life, read, zero>>

\* ... m_HandleSet.erase (whatever m_theThread is now), _endthreadex.
StubErase(o) ==
  /\ Run(o, "erase", "ended")
  /\ m_HandleSet' = m_HandleSet \ {m_theThread[o]}
  /\ UNCHANGED <<ownVars, m_theThreadCount, m_theRunningThreadCount, target,
                 life, read, zero>>

\* TerminateThread on every handle in the set, in one critical section.
KillAllThreads ==
  /\ Kills
  /\ thread' = [o \in Objects |->
                  IF thread[o] \notin Over \cup {"none"}
                     /\ \E h \in m_HandleSet : target[h] = o
                  THEN "killed" ELSE thread[o]]
  /\ m_HandleSet' = {}
  /\ UNCHANGED <<ownVars, m_theThreadCount, m_theRunningThreadCount, target,
                 life, read, zero>>

\* waitForZeroThreads sees a count of zero and returns true.
WaitForZeroThreads ==
  /\ ~zero
  /\ m_theRunningThreadCount = 0
  /\ zero' = TRUE
  /\ UNCHANGED <<ownVars, sharedVars, target, thread, life, read>>
-----------------------------------------------------------------------------
Next ==
  \/ \E o \in Objects :
        \/ CreateThread(o) \/ InsertHandle(o)
        \/ CountRead(o) \/ CountAdd(o) \/ CountSubtract(o)
        \/ StartThread(o) \/ JoinStarted(o) \/ JoinUnstarted(o)
        \/ StubEnter(o) \/ StubLeave(o) \/ StubErase(o)
  \/ KillAllThreads
  \/ WaitForZeroThreads

Spec == Init /\ [][Next]_vars
-----------------------------------------------------------------------------
\* Type correctness; the running count stays between zero and the objects.
TypeOK ==
  /\ m_theThread \in [Objects -> Handles \cup {INVALID}]
  /\ m_isThreadStarted \in [Objects -> BOOLEAN]
  /\ m_theThreadCount \in Int
  /\ m_theRunningThreadCount \in 0 .. Cardinality(Objects)
  /\ m_HandleSet \subseteq Handles
  /\ target \in [Handles -> Objects \cup {Closed}]
  /\ thread \in [Objects -> {"none", "suspended", "resumed", "routine", "erase"} \cup Over]
  /\ life \in [Objects -> Resting \cup {"insert", "count", "add", "subtract"}]
  /\ read \in [Objects -> Int]
  /\ zero \in BOOLEAN

\* KillAllThreads reaches every thread that is left of an object, from the
\* moment its constructor has inserted the handle, although handles of other
\* objects are closed, reused and erased meanwhile.
KillReachesAll ==
  \A o \in Objects :
     (thread[o] \notin Over \cup {"none"} /\ life[o] # "insert") =>
        \E h \in m_HandleSet : target[h] = o

\* After waitForThreadToStop the thread has ended, and no open handle is
\* left of it: ~CActive takes the invalid handle as the proof of that.
JoinedIsOver ==
  \A o \in Objects :
     life[o] \in {"joined", "subtract", "gone"} =>
        thread[o] \in Over /\ \A h \in Handles : target[h] # o

\* When waitForZeroThreads returns true no thread is in its threadRoutine,
\* although threads are killed without being counted out.  (A thread that
\* was started may still be on its way in, and one may be on its way out.)
ZeroMeansNoneRuns ==
  [][zero' # zero => \A o \in Objects : thread[o] # "routine"]_vars
=============================================================================
