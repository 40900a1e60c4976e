---------------------------- MODULE ActiveProofs -----------------------------
(***************************************************************************)
(* What the static data of CActive promises, for any objects, owners and   *)
(* handles, with or without KillAllThreads; and what the program of        *)
(* TestThreadIt.cpp finds when an instance of CThreadIt does its packs.    *)
(* The two share no variable.                                              *)
(***************************************************************************)
EXTENDS Active, TestThreadIt, ProofLemmas

(***************************************************************************)
(* The running count: a thread that KillAllThreads or an owner terminates  *)
(* is not counted out, so that the count is only bounded, from below by    *)
(* the threads in their threadRoutine, from above by those that came there *)
(* or may have been killed there.                                          *)
(***************************************************************************)
Running == {o \in Objects : thread[o] = "routine"}
Entered == {o \in Objects : thread[o] \in {"routine", "erase"} \cup Over}

CountInv ==
  /\ TypeOK
  /\ \A o \in Objects : life[o] = "insert" => m_theThread[o] \in Handles
  /\ Cardinality(Running) <= m_theRunningThreadCount
  /\ m_theRunningThreadCount <= Cardinality(Entered)

LEMMA Counts ==
  ASSUME TypeOK
  PROVE  /\ IsFiniteSet(Running) /\ Cardinality(Running) \in Nat
         /\ IsFiniteSet(Entered) /\ Cardinality(Entered) \in Nat
         /\ Cardinality(Entered) <= Cardinality(Objects)
         /\ Cardinality(Objects) \in Nat
<1>1. Running \in SUBSET Objects /\ Entered \in SUBSET Objects
  BY DEF Running, Entered
<1>2. QED
  BY <1>1, ActiveAssumption, FS_Subset, FS_CardinalityType

\* What is left of TypeOK when the running count is known to be right.
Types ==
  /\ m_theThread \in [Objects -> Handles \cup {INVALID}]
  /\ m_isThreadStarted \in [Objects -> BOOLEAN]
  /\ m_theThreadCount \in Int
  /\ m_theRunningThreadCount \in Int
  /\ m_HandleSet \subseteq Handles
  /\ target \in [Handles -> Objects \cup {Closed}]
  /\ thread \in [Objects -> {"none", "suspended", "resumed", "routine", "erase"} \cup Over]
  /\ life \in [Objects -> Resting \cup {"insert", "count", "add", "subtract"}]
  /\ read \in [Objects -> Int]
  /\ zero \in BOOLEAN
  /\ \A o \in Objects : life[o] = "insert" => m_theThread[o] \in Handles

LEMMA Bounds ==
  ASSUME NEW R \in SUBSET Objects, NEW E \in SUBSET Objects, NEW n \in Int,
         Cardinality(R) <= n, n <= Cardinality(E)
  PROVE  n \in 0 .. Cardinality(Objects)
<1>1. /\ Cardinality(R) \in Nat /\ Cardinality(E) \in Nat
      /\ Cardinality(E) <= Cardinality(Objects) /\ Cardinality(Objects) \in Nat
  BY ActiveAssumption, FS_Subset, FS_CardinalityType
<1>2. QED
  BY <1>1

LEMMA CountInit == Init => CountInv
<1> SUFFICES ASSUME Init PROVE CountInv
  OBVIOUS
<1>1. Running = {} /\ Entered = {} /\ m_theRunningThreadCount = 0
  BY DEF Init, Running, Entered, Over
<1>2. Cardinality({}) = 0 /\ Cardinality(Objects) \in Nat
  BY ActiveAssumption, FS_EmptySet, FS_CardinalityType
<1>3. /\ m_theThread \in [Objects -> Handles \cup {INVALID}]
      /\ target \in [Handles -> Objects \cup {Closed}]
      /\ thread \in [Objects -> {"none", "suspended", "resumed", "routine", "erase"} \cup Over]
  <2>1. m_theThread = [o \in Objects |-> INVALID] /\ target = [h \in Handles |-> Closed]
    BY DEF Init
  <2>2. thread = [o \in Objects |-> "none"]
    BY DEF Init
  <2> HIDE DEF Init
  <2>3. QED
    BY <2>1, <2>2
<1>4. life \in [Objects -> Resting \cup {"insert", "count", "add", "subtract"}]
  BY DEF Init, Resting
<1>5. TypeOK
  <2>1. m_isThreadStarted \in [Objects -> BOOLEAN] /\ read \in [Objects -> Int]
    BY DEF Init
  <2>2. m_theThreadCount = 0 /\ m_HandleSet = {} /\ zero = FALSE
    BY DEF Init
  <2>3. m_theRunningThreadCount \in 0 .. Cardinality(Objects)
    BY <1>1, <1>2
  <2>4. m_theThreadCount \in Int /\ zero \in BOOLEAN
    <3>1. m_theThreadCount \in Int
      BY <2>2
    <3>2. zero \in BOOLEAN
      BY <2>2
    <3>3. QED
      BY <3>1, <3>2
  <2>5. m_HandleSet \subseteq Handles
    BY <2>2
  <2>6. QED
    BY ONLY <2>1, <2>3, <2>4, <2>5, <1>3, <1>4 DEF TypeOK
<1>6. QED
  BY <1>1, <1>2, <1>5 DEF Init, CountInv

LEMMA CountNext == CountInv /\ [Next]_vars => CountInv'
<1> SUFFICES ASSUME CountInv, [Next]_vars PROVE CountInv'
  OBVIOUS
<1>1. Types /\ TypeOK
  <2>1. m_theRunningThreadCount \in Int
    BY Counts DEF CountInv, TypeOK
  <2>2. QED
    BY <2>1 DEF CountInv, TypeOK, Types
<1>2. /\ IsFiniteSet(Running) /\ Cardinality(Running) \in Nat
      /\ IsFiniteSet(Entered) /\ Cardinality(Entered) \in Nat
      /\ Cardinality(Running) <= m_theRunningThreadCount
      /\ m_theRunningThreadCount <= Cardinality(Entered)
      /\ m_theRunningThreadCount \in Int
  BY <1>1, Counts DEF CountInv, Types
<1>9. ASSUME Types', Cardinality(Running') <= m_theRunningThreadCount',
             m_theRunningThreadCount' <= Cardinality(Entered')
      PROVE  CountInv'
  <2>1. Running' \in SUBSET Objects /\ Entered' \in SUBSET Objects
    BY DEF Running, Entered
  <2>2. m_theRunningThreadCount' \in Int
    BY <1>9 DEF Types
  <2>3. m_theRunningThreadCount' \in 0 .. Cardinality(Objects)
    BY <1>9, <2>1, <2>2, Bounds
  <2>4. QED
    BY <1>9, <2>3 DEF Types, CountInv, TypeOK
\* Where a thread may go without being counted.
<1>3. ASSUME Types', UNCHANGED m_theRunningThreadCount,
             \A o \in Objects : \/ thread'[o] = thread[o]
                                \/ thread'[o] \in Over
                                \/ thread[o] \notin {"routine", "erase"} \cup Over
                                   /\ thread'[o] # "routine"
      PROVE  CountInv'
  <2>1. Running' \in SUBSET Running /\ Entered \in SUBSET Entered'
    BY <1>1, <1>3 DEF Running, Entered, Over
  <2>2. Entered' \in SUBSET Objects
    BY DEF Entered
  <2>3. /\ IsFiniteSet(Entered')
        /\ Cardinality(Running') <= Cardinality(Running) /\ Cardinality(Running') \in Nat
    BY <1>2, <2>1, <2>2, ActiveAssumption, FS_Subset, FS_CardinalityType
  <2>4. Cardinality(Entered) <= Cardinality(Entered') /\ Cardinality(Entered') \in Nat
    BY <2>1, <2>3, FS_Subset, FS_CardinalityType
  <2>5. /\ Cardinality(Running') <= m_theRunningThreadCount'
        /\ m_theRunningThreadCount' <= Cardinality(Entered')
    BY <1>2, <1>3, <2>3, <2>4
  <2>6. QED
    BY <1>9, <1>3, <2>5
<1>4. ASSUME NEW o \in Objects, CreateThread(o) PROVE CountInv'
  <2>1. Types'
    BY <1>1, <1>4 DEF Types, CreateThread, Own, Run, sharedVars, Resting, Closed
  <2>2. QED
    BY <1>1, <1>3, <1>4, <2>1 DEF CreateThread, Run, sharedVars, Types, Over
<1>5. ASSUME NEW o \in Objects,
             \/ InsertHandle(o) \/ CountRead(o) \/ CountAdd(o) \/ CountSubtract(o)
      PROVE  CountInv'
  <2>1. Types'
    BY <1>1, <1>5 DEF Types, InsertHandle, CountRead, CountAdd, CountSubtract, Own, ownVars, sharedVars, Resting
  <2>2. QED
    BY <1>1, <1>3, <1>5, <2>1 DEF InsertHandle, CountRead, CountAdd, CountSubtract, sharedVars
<1>6. ASSUME NEW o \in Objects, StartThread(o) PROVE CountInv'
  <2>1. Types'
    BY <1>1, <1>6 DEF Types, StartThread, Own, Run, sharedVars, Resting
  <2>2. QED
    BY <1>1, <1>3, <1>6, <2>1 DEF StartThread, Run, sharedVars, Types, Over
<1>7. ASSUME NEW o \in Objects, JoinStarted(o) \/ JoinUnstarted(o) PROVE CountInv'
  <2>1. Types'
    BY <1>1, <1>7 DEF Types, JoinStarted, JoinUnstarted, CloseThread, Own, sharedVars, Resting, Closed, Over
  <2>2. QED
    BY <1>1, <1>3, <1>7, <2>1 DEF JoinStarted, JoinUnstarted, sharedVars, Types, Over
<1>8. ASSUME NEW o \in Objects, StubEnter(o) PROVE CountInv'
  <2>1. Types'
    BY <1>1, <1>8 DEF Types, StubEnter, Run, ownVars
  <2>2. /\ Running' = Running \cup {o} /\ Entered' = Entered \cup {o} /\ o \notin Entered
        /\ o \notin Running
    BY <1>1, <1>8 DEF Types, StubEnter, Run, Running, Entered, Over
  <2>3. /\ Cardinality(Running') = Cardinality(Running) + 1
        /\ Cardinality(Entered') = Cardinality(Entered) + 1
    BY <1>2, <2>2, FS_AddElement
  <2>4. m_theRunningThreadCount' = m_theRunningThreadCount + 1
    BY <1>8 DEF StubEnter
  <2>5. QED
    BY <1>2, <1>9, <2>1, <2>3, <2>4
<1>10. ASSUME NEW o \in Objects, StubLeave(o) PROVE CountInv'
  <2>1. Types'
    BY <1>1, <1>10 DEF Types, StubLeave, Run, ownVars
  <2>2. Running' = Running \ {o} /\ Entered' = Entered /\ o \in Running /\ o \in Entered
    BY <1>1, <1>10 DEF Types, StubLeave, Run, Running, Entered, Over
  <2>3. Cardinality(Running') = Cardinality(Running) - 1
    BY <1>2, <2>2, FS_RemoveElement
  <2>4. m_theRunningThreadCount' = m_theRunningThreadCount - 1
    BY <1>10 DEF StubLeave
  <2>5. QED
    BY <1>2, <1>9, <2>1, <2>2, <2>3, <2>4
<1>11. ASSUME NEW o \in Objects, StubErase(o) PROVE CountInv'
  <2>1. Types'
    BY <1>1, <1>11 DEF Types, StubErase, Run, ownVars, Over
  <2>2. QED
    BY <1>1, <1>3, <1>11, <2>1 DEF StubErase, Run, Types, Over
<1>12. CASE KillAllThreads
  <2>1. Types'
    BY <1>1, <1>12 DEF Types, KillAllThreads, ownVars, Over
  <2>2. QED
    BY <1>1, <1>3, <1>12, <2>1 DEF KillAllThreads, Types, Over
<1>13. CASE WaitForZeroThreads \/ UNCHANGED vars
  <2>1. Types'
    BY <1>1, <1>13 DEF Types, WaitForZeroThreads, vars, ownVars, sharedVars
  <2>2. QED
    BY <1>1, <1>3, <1>13, <2>1 DEF WaitForZeroThreads, vars, ownVars, sharedVars
<1>14. QED
  BY <1>4, <1>5, <1>6, <1>7, <1>8, <1>10, <1>11, <1>12, <1>13 DEF Next

\* The types of the handles, the counts and the threads; the running count is
\* never negative and never more than the objects there are.
THEOREM TypeCorrect == Spec => []TypeOK
<1>1. CountInv => TypeOK
  BY DEF CountInv
<1>2. QED
  BY CountInit, CountNext, <1>1, PTL DEF Spec

\* waitForZeroThreads returns true only when no thread is in its threadRoutine,
\* although threads are killed without being counted out.
THEOREM ZeroIsNone == Spec => ZeroMeansNoneRuns
<1>1. CountInv /\ [Next]_vars =>
        [zero' # zero => \A o \in Objects : thread[o] # "routine"]_vars
  <2>1. SUFFICES ASSUME CountInv, Next, zero' # zero
                 PROVE  \A o \in Objects : thread[o] # "routine"
    OBVIOUS
  <2>2. m_theRunningThreadCount = 0
    BY <2>1 DEF Next, CreateThread, InsertHandle, CountRead, CountAdd, CountSubtract, StartThread,
                JoinStarted, JoinUnstarted, StubEnter, StubLeave, StubErase, KillAllThreads,
                WaitForZeroThreads
  <2>3. Cardinality(Running) = 0 /\ IsFiniteSet(Running)
    BY <2>1, <2>2, Counts DEF CountInv
  <2>4. Running = {}
    BY <2>3, FS_EmptySet
  <2>5. QED
    BY <2>4 DEF Running
<1>2. QED
  BY CountInit, CountNext, <1>1, PTL DEF Spec, ZeroMeansNoneRuns
-----------------------------------------------------------------------------
(***************************************************************************)
(* The handles, when no wait for a thread times out: the handle of an      *)
(* object is open from CreateThread to the wait, names its own thread, and *)
(* is in the set as long as the thread lives; what is left in the set of   *)
(* other objects does no harm.                                             *)
(***************************************************************************)
Live(o) == thread[o] \notin Over \cup {"none"}

HandleInv ==
  /\ \A o \in Objects :
       /\ life[o] = "none" => m_theThread[o] = INVALID /\ thread[o] = "none"
       /\ life[o] \in {"insert", "count", "add", "made"} =>
            m_theThread[o] \in Handles /\ target[m_theThread[o]] = o
       /\ life[o] \in {"joined", "subtract", "gone"} =>
            m_theThread[o] = INVALID /\ thread[o] \in Over
       /\ Live(o) /\ life[o] # "insert" => m_theThread[o] \in m_HandleSet
  /\ \A h \in Handles : target[h] \in Objects => m_theThread[target[h]] = h

IInv == TypeOK /\ HandleInv

\* A live thread's object has its handle, and no other object has the same.
LEMMA OwnHandle ==
  ASSUME IInv, NEW o \in Objects, Live(o)
  PROVE  /\ life[o] \in {"insert", "count", "add", "made"}
         /\ m_theThread[o] \in Handles /\ target[m_theThread[o]] = o
         /\ \A u \in Objects : u # o => m_theThread[u] # m_theThread[o]
<1>1. life[o] \in Resting \cup {"insert", "count", "add", "subtract"}
  BY DEF IInv, TypeOK
<1>2. life[o] \in {"insert", "count", "add", "made"}
  BY <1>1 DEF IInv, HandleInv, Live, Resting
<1>3. m_theThread[o] \in Handles /\ target[m_theThread[o]] = o
  BY <1>2 DEF IInv, HandleInv
<1>4. ASSUME NEW u \in Objects, u # o, m_theThread[u] = m_theThread[o] PROVE FALSE
  <2>1. life[u] \in Resting \cup {"insert", "count", "add", "subtract"}
    BY DEF IInv, TypeOK
  <2>2. life[u] \in {"insert", "count", "add", "made"}
    BY <2>1, <1>3, <1>4, ActiveAssumption DEF IInv, HandleInv, Resting
  <2>3. target[m_theThread[u]] = u
    BY <2>2 DEF IInv, HandleInv
  <2>4. QED
    BY <2>3, <1>3, <1>4
<1>5. QED
  BY <1>2, <1>3, <1>4

LEMMA HandleInit == Init => HandleInv
  BY ActiveAssumption DEF Init, HandleInv, Live, Closed

LEMMA HandleNext == ~StopTimesOut /\ IInv /\ [Next]_vars => HandleInv'
<1> SUFFICES ASSUME ~StopTimesOut, IInv, [Next]_vars PROVE HandleInv'
  OBVIOUS
<1> USE ActiveAssumption
<1>1. TypeOK /\ HandleInv
  BY DEF IInv
<1>2. ASSUME NEW o \in Objects, CreateThread(o) PROVE HandleInv'
  <2>1. PICK h \in Handles : /\ target[h] = Closed
                             /\ target' = [target EXCEPT ![h] = o]
                             /\ m_theThread' = [m_theThread EXCEPT ![o] = h]
    BY <1>2 DEF CreateThread
  <2>2. /\ life[o] = "none" /\ life' = [life EXCEPT ![o] = "insert"]
        /\ thread' = [thread EXCEPT ![o] = "suspended"]
        /\ m_HandleSet' = m_HandleSet
    BY <1>2 DEF CreateThread, Own, Run, sharedVars
  <2>3. \A g \in Handles : target[g] # o
    BY <1>1, <2>2 DEF HandleInv
  <2>4. QED
    BY <1>1, <2>1, <2>2, <2>3 DEF HandleInv, TypeOK, Live, Closed
<1>3. ASSUME NEW o \in Objects, InsertHandle(o) PROVE HandleInv'
  BY <1>1, <1>3 DEF HandleInv, TypeOK, Live, InsertHandle, Own, ownVars
<1>4. ASSUME NEW o \in Objects, CountRead(o) \/ CountAdd(o) \/ CountSubtract(o) PROVE HandleInv'
  BY <1>1, <1>4 DEF HandleInv, TypeOK, Live, CountRead, CountAdd, CountSubtract, Own, ownVars, sharedVars
<1>5. ASSUME NEW o \in Objects, StartThread(o) PROVE HandleInv'
  BY <1>1, <1>5 DEF HandleInv, TypeOK, Live, StartThread, Own, Run, sharedVars, Over
<1>6. ASSUME NEW o \in Objects, JoinStarted(o) \/ JoinUnstarted(o) PROVE HandleInv'
  <2>1. /\ life[o] = "made" /\ life' = [life EXCEPT ![o] = "joined"]
        /\ target' = [target EXCEPT ![m_theThread[o]] = Closed]
        /\ m_theThread' = [m_theThread EXCEPT ![o] = INVALID]
        /\ m_HandleSet' = m_HandleSet
    BY <1>6 DEF JoinStarted, JoinUnstarted, Own, CloseThread, sharedVars
  <2>2. thread'[o] \in Over /\ \A u \in Objects : u # o => thread'[u] = thread[u]
    BY <1>1, <1>6 DEF TypeOK, JoinStarted, JoinUnstarted, Over
  <2>3. m_theThread[o] \in Handles /\ target[m_theThread[o]] = o
    BY <1>1, <2>1 DEF HandleInv
  <2>4. ASSUME NEW u \in Objects, u # o,
               life[u] \in {"insert", "count", "add", "made"}
        PROVE  target'[m_theThread[u]] = u
    <3>1. m_theThread[u] \in Handles /\ target[m_theThread[u]] = u
      BY <1>1, <2>4 DEF HandleInv
    <3>2. QED
      BY <1>1, <2>1, <2>3, <2>4, <3>1 DEF TypeOK
  <2>5. ASSUME NEW h \in Handles, target'[h] \in Objects PROVE m_theThread'[target'[h]] = h
    <3>1. h # m_theThread[o] /\ target'[h] = target[h]
      BY <1>1, <2>1, <2>3, <2>5 DEF TypeOK, Closed
    <3>2. target[h] # o /\ m_theThread[target[h]] = h
      BY <1>1, <2>5, <3>1 DEF HandleInv
    <3>3. QED
      BY <1>1, <2>1, <2>5, <3>1, <3>2 DEF TypeOK
  <2>6. QED
    BY <1>1, <2>1, <2>2, <2>4, <2>5 DEF HandleInv, TypeOK, Live
<1>7. ASSUME NEW o \in Objects, StubEnter(o) \/ StubLeave(o) PROVE HandleInv'
  BY <1>1, <1>7 DEF HandleInv, TypeOK, Live, StubEnter, StubLeave, Run, ownVars, Over
<1>8. ASSUME NEW o \in Objects, StubErase(o) PROVE HandleInv'
  <2>1. Live(o) /\ thread' = [thread EXCEPT ![o] = "ended"]
    BY <1>8 DEF Live, StubErase, Run, Over
  <2>2. /\ m_HandleSet' = m_HandleSet \ {m_theThread[o]}
        /\ UNCHANGED <<m_theThread, target, life>>
    BY <1>8 DEF StubErase, ownVars
  <2>3. \A u \in Objects : u # o => m_theThread[u] # m_theThread[o]
    BY <2>1, OwnHandle
  <2>4. QED
    BY <1>1, <2>1, <2>2, <2>3, OwnHandle DEF HandleInv, TypeOK, Live, Over
<1>9. CASE KillAllThreads
  <2>1. UNCHANGED <<m_theThread, target, life>>
    BY <1>9 DEF KillAllThreads, ownVars
  <2>2. ASSUME NEW o \in Objects
        PROVE  /\ thread'[o] = thread[o] \/ (Live(o) /\ thread'[o] = "killed")
               /\ Live(o) /\ life[o] # "insert" => thread'[o] = "killed"
    <3>1. thread'[o] = IF Live(o) /\ \E h \in m_HandleSet : target[h] = o
                       THEN "killed" ELSE thread[o]
      BY <1>9 DEF KillAllThreads, Live
    <3>2. Live(o) /\ life[o] # "insert" => \E h \in m_HandleSet : target[h] = o
      BY <1>1, OwnHandle DEF HandleInv
    <3>3. QED
      BY <3>1, <3>2
  <2>3. QED
    BY <1>1, <2>1, <2>2, OwnHandle DEF HandleInv, Live, Over
<1>10. CASE WaitForZeroThreads \/ UNCHANGED vars
  BY <1>1, <1>10 DEF HandleInv, Live, WaitForZeroThreads, vars, ownVars, sharedVars
<1>11. QED
  BY <1>2, <1>3, <1>4, <1>5, <1>6, <1>7, <1>8, <1>9, <1>10 DEF Next

\* KillAllThreads terminates every thread that lives and has its handle in
\* the set: handles are closed, reused and erased, but never one that is needed.
THEOREM KillReaches == ~StopTimesOut => (Spec => []KillReachesAll)
<1> SUFFICES ASSUME ~StopTimesOut PROVE Spec => []KillReachesAll
  OBVIOUS
<1>1. CountInv /\ HandleInv /\ [Next]_vars => HandleInv'
  BY HandleNext DEF IInv, CountInv
<1>2. CountInv /\ HandleInv => KillReachesAll
  BY OwnHandle DEF CountInv, IInv, HandleInv, KillReachesAll, Live
<1>3. QED
  BY CountInit, CountNext, HandleInit, <1>1, <1>2, PTL DEF Spec

\* An object that was waited for is over: its thread has ended, and none of
\* the open handles names it, whatever handles others have got since.
THEOREM WaitedIsOver == ~StopTimesOut => (Spec => []JoinedIsOver)
<1> SUFFICES ASSUME ~StopTimesOut PROVE Spec => []JoinedIsOver
  OBVIOUS
<1>1. CountInv /\ HandleInv /\ [Next]_vars => HandleInv'
  BY HandleNext DEF IInv, CountInv
<1>2. CountInv /\ HandleInv => JoinedIsOver
  BY ActiveAssumption DEF CountInv, TypeOK, HandleInv, JoinedIsOver
<1>3. QED
  BY CountInit, CountNext, HandleInit, <1>1, <1>2, PTL DEF Spec
-----------------------------------------------------------------------------
(***************************************************************************)
(* The tests of CThreadIt.                                                 *)
(***************************************************************************)
Things ==
  {None} \cup UNION {UNION {{p.packs[i].object, p.packs[i].item} : i \in DOMAIN p.packs} : p \in Plans}

PackType ==
  [instruction : Instructions, id : Nat,
   status : {"ok", "object null", "invalid instruction", "no method"},
   send : BOOLEAN, notify : BOOLEAN, useDefaultQ : BOOLEAN, inCallback : BOOLEAN,
   object : Things, item : Things]

TestTypeOK ==
  /\ plan \in Plans
  /\ workQ \in Seq(PackType) /\ doneQ \in Seq(PackType) /\ eventQ \in Seq(PackType)
  /\ answers \in Seq(PackType) /\ pWorkDone \in PackType
  /\ itemQ \in Seq(Things) /\ items \in Seq(Things)
  /\ changeCount \in Nat /\ callback \in [instruction : Instructions, item : Things]
  /\ eventMethods \in 0..MAX_EVENT_METHODS /\ listed \subseteq 1..eventMethods
  /\ reset \in BOOLEAN /\ scan \in 1..(MAX_EVENT_METHODS + 1)
  /\ signals \in [1..MAX_EVENT_METHODS -> Nat] /\ due \in 0..MaxPeriods
  /\ instance \in {"turn", "scan", "wait", "prepare", "deliver", "change", "queue item"}
  /\ tester \in {"events", "flag", "signal", "send", "collect", "item", "over"}
  /\ sent \in 0..Len(plan.packs) /\ ids = [i \in 1..sent |-> i]

\* The packs that the instance has taken, and what waits for it.
Taken == sent - Len(workQ)
InWorkQ ==
  /\ Len(workQ) <= sent
  /\ \A i \in 1..Len(workQ) : workQ[i] = [plan.packs[Taken + i] EXCEPT !.id = Taken + i]

\* The instance has a result in hand.
Working == instance \in {"prepare", "deliver", "change", "queue item"}

\* What the result in hand still asks for is what the pack taken last did; a
\* result without a number is that of an event or a period.
InHand ==
  /\ Working =>
       IF pWorkDone.id = 0 THEN pWorkDone.send /\ pWorkDone.notify
       ELSE /\ pWorkDone.id = Taken
            /\ \A f \in {"instruction", "send", "notify", "useDefaultQ", "inCallback", "item"} :
                 pWorkDone[f] = plan.packs[Taken][f]
  /\ instance \in {"change", "queue item"} => pWorkDone.notify

\* The numbers of the replies in a list, which rise along it.
Numbers(s) == {s[k].id : k \in DOMAIN s} \ {0}
Rising(s) ==
  \A k, l \in DOMAIN s : s[k].id # 0 /\ s[l].id # 0 /\ k < l => s[k].id < s[l].id
OfPacks(s, p) ==
  \A k \in DOMAIN s : s[k].id # 0 => s[k].instruction = p.packs[s[k].id].instruction

\* The packs up to this one have been replied to.
Latest == IF instance \in {"prepare", "deliver"} /\ pWorkDone.id # 0 THEN Taken - 1 ELSE Taken
Asked(p, n) == {i \in 1..n : p.packs[i].send}
Told(p, n) == {i \in 1..n : p.packs[i].notify}

Replies ==
  /\ Numbers(answers) \cup Numbers(doneQ) = Asked(plan, Latest)
  /\ Numbers(eventQ) = {}
  /\ Rising(answers) /\ Rising(doneQ)
  /\ \A i \in Numbers(answers) : \A j \in Numbers(doneQ) : i < j
  /\ OfPacks(answers, plan) /\ OfPacks(doneQ, plan)

\* The signals that have not been worked on.
Preparing == {"events", "flag", "signal"}
Owed(m, n, counts) == {x \in (1..m) \X (1..n) : x[2] <= counts[x[1]]}
Outstanding ==
  IF tester \in Preparing THEN eventMethods * plan.signals
  ELSE Cardinality(Owed(eventMethods, plan.signals, signals))
Signalled ==
  /\ tester \in Preparing => \A e \in DOMAIN signals : signals[e] = 0
  /\ \A e \in DOMAIN signals : signals[e] <= plan.signals
  /\ plan.events = 0 => eventMethods = 0

\* An event that has been worked on is listed, or its slot comes in the scan.
Attended ==
  tester \notin Preparing =>
    \A e \in 1..eventMethods :
      signals[e] # plan.signals => e \in listed \/ (instance = "scan" /\ scan <= e)

Bit(b) == IF b THEN 1 ELSE 0
Made ==
  Len(answers) + Len(doneQ) + Len(eventQ) + Bit(instance \in {"prepare", "deliver"} /\ pWorkDone.send)
Heard == changeCount + Bit(instance \in {"prepare", "deliver", "change"} /\ pWorkDone.notify)
Counted ==
  /\ Made + Outstanding = Cardinality(Asked(plan, Taken)) + eventMethods * plan.signals + due
  /\ Heard + Outstanding = Cardinality(Told(plan, Taken)) + eventMethods * plan.signals + due

\* The test is over when nothing is left to do.
TestOver ==
  /\ tester \in {"collect", "item", "over"} => sent = Len(plan.packs)
  /\ tester = "over" => Quiet /\ doneQ = <<>> /\ eventQ = <<>> /\ itemQ = <<>>

TestInv ==
  TestTypeOK /\ InWorkQ /\ InHand /\ Replies /\ Signalled /\ Attended /\ Counted /\ TestOver

\* The data items, of a test without events and period.
OnlyPacks == plan.events = 0 /\ ~plan.periodic
ItemAt(k) == IF k <= Len(items) THEN items[k] ELSE itemQ[k - Len(items)]
Announced ==
  OnlyPacks =>
    /\ due = 0 /\ (Working => pWorkDone.id # 0)
    /\ (instance \in {"deliver", "change", "queue item"} /\ pWorkDone.notify /\ pWorkDone.inCallback) =>
         callback.item = pWorkDone.item
    /\ Len(items) + Len(itemQ) + Bit(Working /\ pWorkDone.notify) = Cardinality(Told(plan, Taken))
    /\ \A i \in Told(plan, Taken) :
         plan.packs[i].inCallback /\ Cardinality(Told(plan, i)) <= Len(items) + Len(itemQ) =>
           ItemAt(Cardinality(Told(plan, i))) = plan.packs[i].item

\* What a plan sends, and what the instance makes of it: a result keeps all
\* that the pack asked for.
LEMMA PackForms ==
  /\ NewPack \in PackType /\ NewPack.id = 0
  /\ \A p \in PackType :
       /\ p = [instruction |-> p.instruction, id |-> p.id, status |-> p.status, send |-> p.send,
               notify |-> p.notify, useDefaultQ |-> p.useDefaultQ, inCallback |-> p.inCallback,
               object |-> p.object, item |-> p.item]
       /\ Copy(p) = p
<1>1. None \in Things
  BY DEF Things
<1>2. NewPack \in PackType /\ NewPack.id = 0
  BY <1>1, PlanAssumption DEF NewPack, PackType, Instructions
<1>3. ASSUME NEW p \in PackType
      PROVE  /\ p = [instruction |-> p.instruction, id |-> p.id, status |-> p.status, send |-> p.send,
                     notify |-> p.notify, useDefaultQ |-> p.useDefaultQ, inCallback |-> p.inCallback,
                     object |-> p.object, item |-> p.item]
             /\ Copy(p) = p
  BY <1>3 DEF PackType, Copy, NewPack
<1>4. QED
  BY <1>2, <1>3

\* A result has the number and all the requests of its pack.
SameRequest(r, p) ==
  /\ r.id = p.id /\ r.instruction = p.instruction /\ r.send = p.send /\ r.notify = p.notify
  /\ r.useDefaultQ = p.useDefaultQ /\ r.inCallback = p.inCallback /\ r.item = p.item

LEMMA StatusSet ==
  ASSUME NEW p \in PackType, NEW s \in {"ok", "object null", "invalid instruction", "no method"}
  PROVE  [p EXCEPT !.status = s] \in PackType /\ SameRequest([p EXCEPT !.status = s], p)
BY DEF PackType, SameRequest

LEMMA PerformedPack ==
  ASSUME NEW p \in PackType
  PROVE  Performed(p) \in PackType /\ SameRequest(Performed(p), p)
<1>1. Copy(p) = p
  BY PackForms
<1>2. \E s \in {"ok", "object null", "invalid instruction", "no method"} :
         Performed(p) = [p EXCEPT !.status = s]
  <2>1. CASE p.instruction \notin DOMAIN m_WorkerMethod
    BY <2>1 DEF Performed
  <2>2. CASE p.instruction \in DOMAIN m_WorkerMethod /\ m_WorkerMethod[p.instruction] = None
    BY <2>2 DEF Performed, None
  <2>3. CASE /\ p.instruction \in DOMAIN m_WorkerMethod
             /\ m_WorkerMethod[p.instruction] = "setup"
    BY <1>1, <2>3 DEF Performed, None
  <2>4. CASE /\ p.instruction \in DOMAIN m_WorkerMethod
             /\ m_WorkerMethod[p.instruction] \notin {None, "setup"}
    BY <1>1, <2>4 DEF Performed, CheckParams, ParamStatus
  <2>5. QED
    BY <2>1, <2>2, <2>3, <2>4
<1>3. QED
  BY <1>2, StatusSet

LEMMA PlanPacks ==
  ASSUME NEW p \in Plans
  PROVE  /\ p.periodic \in BOOLEAN /\ p.events \in Nat /\ p.signals \in Nat
         /\ Len(p.packs) \in Nat /\ DOMAIN p.packs = 1..Len(p.packs)
         /\ \A i \in 1..Len(p.packs) :
              /\ p.packs[i].send \in BOOLEAN /\ p.packs[i].notify \in BOOLEAN
              /\ p.packs[i].inCallback \in BOOLEAN /\ p.packs[i].useDefaultQ = TRUE
              /\ [p.packs[i] EXCEPT !.id = i] \in PackType
              /\ \A f \in {"instruction", "send", "notify", "useDefaultQ", "inCallback", "item"} :
                   [p.packs[i] EXCEPT !.id = i][f] = p.packs[i][f]
              /\ [p.packs[i] EXCEPT !.id = i].id = i
<1>1. /\ p.periodic \in BOOLEAN /\ p.events \in Nat /\ p.signals \in Nat
      /\ Len(p.packs) \in Nat /\ DOMAIN p.packs = 1..Len(p.packs)
      /\ \A i \in 1..Len(p.packs) : PackSetting(p.packs[i])
  <2>1. p.packs \in Seq(ToSet(p.packs))
    BY PlanAssumption
  <2>2. Len(p.packs) \in Nat /\ DOMAIN p.packs = 1..Len(p.packs)
    BY <2>1, LenProperties
  <2>3. QED
    BY <2>2, PlanAssumption
<1>2. ASSUME NEW i \in 1..Len(p.packs)
      PROVE  /\ p.packs[i].send \in BOOLEAN /\ p.packs[i].notify \in BOOLEAN
             /\ p.packs[i].inCallback \in BOOLEAN /\ p.packs[i].useDefaultQ = TRUE
             /\ [p.packs[i] EXCEPT !.id = i] \in PackType
             /\ \A f \in {"instruction", "send", "notify", "useDefaultQ", "inCallback", "item"} :
                  [p.packs[i] EXCEPT !.id = i][f] = p.packs[i][f]
             /\ [p.packs[i] EXCEPT !.id = i].id = i
  <2>1. p.packs[i].object \in Things /\ p.packs[i].item \in Things
    BY <1>1, <1>2 DEF Things
  <2>2. PICK q : q = p.packs[i]
    OBVIOUS
  <2>3. /\ DOMAIN q = PackFields /\ q = [f \in PackFields |-> q[f]]
        /\ q.instruction \in Instructions /\ q.status = "ok" /\ q.useDefaultQ = TRUE
        /\ q.send \in BOOLEAN /\ q.notify \in BOOLEAN /\ q.inCallback \in BOOLEAN
        /\ q.object \in Things /\ q.item \in Things
    BY <1>1, <2>1, <2>2 DEF PackSetting
  <2>4. q = [instruction |-> q.instruction, id |-> q.id, status |-> q.status, send |-> q.send,
             notify |-> q.notify, useDefaultQ |-> q.useDefaultQ, inCallback |-> q.inCallback,
             object |-> q.object, item |-> q.item]
    BY <2>3 DEF PackFields
  <2>5. [q EXCEPT !.id = i] = [instruction |-> q.instruction, id |-> i, status |-> q.status, send |-> q.send,
             notify |-> q.notify, useDefaultQ |-> q.useDefaultQ, inCallback |-> q.inCallback,
             object |-> q.object, item |-> q.item]
    BY <2>4
  <2>6. PICK r : r = [q EXCEPT !.id = i]
    OBVIOUS
  <2>7. r \in PackType
    <3>0. q.useDefaultQ \in BOOLEAN
      BY <2>3, Zenon
    <3>1. i \in Nat
      BY <1>1
    <3>2. q.status \in {"ok", "object null", "invalid instruction", "no method"}
      BY <2>3
    <3>3. r = [instruction |-> q.instruction, id |-> i, status |-> q.status, send |-> q.send,
             notify |-> q.notify, useDefaultQ |-> q.useDefaultQ, inCallback |-> q.inCallback,
             object |-> q.object, item |-> q.item]
      BY <2>5, <2>6
    <3>4. QED
      BY <2>3, <3>0, <3>1, <3>2, <3>3, Zenon DEF PackType
  <2>8. /\ r.instruction = q.instruction /\ r.send = q.send /\ r.notify = q.notify
        /\ r.useDefaultQ = q.useDefaultQ /\ r.inCallback = q.inCallback /\ r.item = q.item
        /\ r.id = i
    BY <2>5, <2>6
  <2>9. QED
    BY <2>2, <2>3, <2>6, <2>7, <2>8
<1>3. QED
  BY <1>1, <1>2
-----------------------------------------------------------------------------
\* Lists of replies: what a reply more and a reply less do to them.
LEMMA ReplyAppended ==
  ASSUME NEW s \in Seq(PackType), NEW x \in PackType
  PROVE  /\ Append(s, x) \in Seq(PackType) /\ Len(Append(s, x)) = Len(s) + 1
         /\ Numbers(Append(s, x)) = Numbers(s) \cup ({x.id} \ {0})
         /\ Rising(s) /\ (x.id # 0 => \A i \in Numbers(s) : i < x.id) => Rising(Append(s, x))
         /\ \A p : OfPacks(s, p) /\ (x.id # 0 => x.instruction = p.packs[x.id].instruction)
                     => OfPacks(Append(s, x), p)
<1>1. /\ Append(s, x) \in Seq(PackType)
      /\ Len(Append(s, x)) = Len(s) + 1 /\ Len(s) \in Nat
      /\ DOMAIN Append(s, x) = 1..(Len(s) + 1) /\ DOMAIN s = 1..Len(s)
      /\ \A i \in 1..Len(s) : Append(s, x)[i] = s[i]
      /\ Append(s, x)[Len(s) + 1] = x
  BY AppendProperties, LenProperties
<1>2. PICK t : t = Append(s, x)
  OBVIOUS
<1>3. PICK n \in Nat : n = Len(s)
  BY <1>1
<1>4. /\ DOMAIN t = 1..(n + 1) /\ DOMAIN s = 1..n
      /\ \A i \in 1..n : t[i] = s[i]
      /\ t[n + 1] = x
  BY <1>1, <1>2, <1>3
<1>5. Numbers(t) = Numbers(s) \cup ({x.id} \ {0})
  <2>1. {t[k].id : k \in 1..(n + 1)} = {s[k].id : k \in 1..n} \cup {x.id}
    <3>1. 1..(n + 1) = (1..n) \cup {n + 1}
      OBVIOUS
    <3>2. QED
      BY <1>4, <3>1
  <2>2. QED
    BY <1>4, <2>1 DEF Numbers
<1>6. ASSUME Rising(s), x.id # 0 => \A i \in Numbers(s) : i < x.id PROVE Rising(t)
  <2>1. SUFFICES ASSUME NEW k \in 1..(n + 1), NEW l \in 1..(n + 1), t[k].id # 0, t[l].id # 0, k < l
                 PROVE  t[k].id < t[l].id
    BY <1>4 DEF Rising
  <2>2. k \in 1..n /\ s[k].id # 0 /\ t[k] = s[k] /\ s[k].id \in Numbers(s)
    BY <1>4, <2>1 DEF Numbers
  <2>3. CASE l = n + 1
    BY <1>4, <1>6, <2>1, <2>2, <2>3
  <2>4. CASE l \in 1..n
    BY <1>4, <1>6, <2>1, <2>2, <2>4 DEF Rising
  <2>5. QED
    BY <2>3, <2>4
<1>7. ASSUME NEW p, OfPacks(s, p), x.id # 0 => x.instruction = p.packs[x.id].instruction
      PROVE  OfPacks(t, p)
  <2>1. SUFFICES ASSUME NEW k \in 1..(n + 1), t[k].id # 0
                 PROVE  t[k].instruction = p.packs[t[k].id].instruction
    BY <1>4 DEF OfPacks
  <2>2. CASE k = n + 1
    BY <1>4, <1>7, <2>1, <2>2
  <2>3. CASE k \in 1..n
    BY <1>4, <1>7, <2>1, <2>3 DEF OfPacks
  <2>4. QED
    BY <2>2, <2>3
<1>8. QED
  BY <1>1, <1>2, <1>5, <1>6, <1>7

LEMMA ReplyTaken ==
  ASSUME NEW s \in Seq(PackType), s # <<>>
  PROVE  /\ Head(s) \in PackType /\ Tail(s) \in Seq(PackType) /\ Len(Tail(s)) = Len(s) - 1
         /\ Len(s) \in Nat \ {0}
         /\ Numbers(s) = Numbers(Tail(s)) \cup ({Head(s).id} \ {0})
         /\ Rising(s) => /\ Rising(Tail(s))
                         /\ Head(s).id # 0 => \A i \in Numbers(Tail(s)) : Head(s).id < i
         /\ \A p : OfPacks(s, p) =>
              /\ OfPacks(Tail(s), p)
              /\ Head(s).id # 0 => Head(s).instruction = p.packs[Head(s).id].instruction
<1>1. /\ Head(s) \in PackType /\ Head(s) = s[1]
      /\ Tail(s) \in Seq(PackType)
      /\ Len(s) \in Nat \ {0}
      /\ Len(Tail(s)) = Len(s) - 1
      /\ DOMAIN s = 1..Len(s)
      /\ DOMAIN Tail(s) = 1..(Len(s) - 1)
      /\ \A i \in 1..(Len(s) - 1) : Tail(s)[i] = s[i + 1]
  BY HeadTailProperties, LenProperties, EmptySeq
<1>2. PICK t : t = Tail(s)
  OBVIOUS
<1>2a. PICK m \in Nat \ {0} : m = Len(s)
  BY <1>1
<1>3. PICK n \in Nat : n + 1 = m
  <2>1. m - 1 \in Nat /\ (m - 1) + 1 = m
    OBVIOUS
  <2>2. QED
    BY <2>1
<1>4. PICK x : x = Head(s)
  OBVIOUS
<1>5. /\ DOMAIN s = 1..(n + 1) /\ DOMAIN t = 1..n
      /\ \A i \in 1..n : t[i] = s[i + 1]
      /\ s[1] = x
  <2>1. m - 1 = n
    BY <1>3
  <2>2. QED
    BY <1>1, <1>2, <1>2a, <1>3, <1>4, <2>1
<1>6. Numbers(s) = Numbers(t) \cup ({x.id} \ {0})
  <2>1. {s[k].id : k \in 1..(n + 1)} = {t[k].id : k \in 1..n} \cup {x.id}
    <3>1. ASSUME NEW k \in 1..(n + 1) PROVE s[k].id \in {t[i].id : i \in 1..n} \cup {x.id}
      <4>1. CASE k = 1
        BY <1>5, <4>1
      <4>2. CASE k # 1
        <5>1. PICK j \in 1..n : k = j + 1
          BY <4>2
        <5>2. s[k].id = t[j].id
          BY <1>5, <5>1
        <5>3. QED
          BY <5>2
      <4>3. QED
        BY <4>1, <4>2
    <3>2. ASSUME NEW i \in 1..n PROVE t[i].id \in {s[k].id : k \in 1..(n + 1)}
      BY <1>5
    <3>3. x.id \in {s[k].id : k \in 1..(n + 1)}
      BY <1>5
    <3>4. QED
      BY <3>1, <3>2, <3>3
  <2>2. QED
    BY <1>5, <2>1 DEF Numbers
<1>7. ASSUME Rising(s) PROVE Rising(t) /\ (x.id # 0 => \A i \in Numbers(t) : x.id < i)
  <2>1. Rising(t)
    <3>1. SUFFICES ASSUME NEW k \in 1..n, NEW l \in 1..n, t[k].id # 0, t[l].id # 0, k < l
                   PROVE  t[k].id < t[l].id
      BY <1>5 DEF Rising
    <3>2. t[k] = s[k + 1] /\ t[l] = s[l + 1] /\ k + 1 \in DOMAIN s /\ l + 1 \in DOMAIN s /\ k + 1 < l + 1
      BY <1>5, <3>1
    <3>3. QED
      BY <1>7, <3>1, <3>2 DEF Rising
  <2>2. ASSUME x.id # 0, NEW k \in 1..n, t[k].id # 0 PROVE x.id < t[k].id
    <3>1. t[k] = s[k + 1] /\ s[1] = x /\ 1 \in DOMAIN s /\ k + 1 \in DOMAIN s /\ 1 < k + 1
      BY <1>5
    <3>2. QED
      BY <1>7, <2>2, <3>1 DEF Rising
  <2>3. QED
    BY <1>5, <2>1, <2>2 DEF Numbers
<1>8. ASSUME NEW p, OfPacks(s, p)
      PROVE  OfPacks(t, p) /\ (x.id # 0 => x.instruction = p.packs[x.id].instruction)
  <2>1. ASSUME NEW k \in 1..n, t[k].id # 0 PROVE t[k].instruction = p.packs[t[k].id].instruction
    <3>1. t[k] = s[k + 1] /\ k + 1 \in DOMAIN s
      BY <1>5
    <3>2. QED
      BY <1>8, <2>1, <3>1 DEF OfPacks
  <2>2. s[1] = x /\ 1 \in DOMAIN s
    BY <1>5
  <2>3. x.id # 0 => x.instruction = p.packs[x.id].instruction
    BY <1>8, <2>2 DEF OfPacks
  <2>4. QED
    BY <1>5, <2>1, <2>3 DEF OfPacks
<1>9. QED
  BY <1>1, <1>2, <1>4, <1>6, <1>7, <1>8

\* One pack more: how many of the packs ask for a result, and for a callback.
LEMMA OneMorePack ==
  ASSUME NEW p \in Plans, NEW n \in Nat
  PROVE  /\ IsFiniteSet(Asked(p, n)) /\ Cardinality(Asked(p, n)) \in Nat
         /\ IsFiniteSet(Told(p, n)) /\ Cardinality(Told(p, n)) \in Nat
         /\ n + 1 <= Len(p.packs) =>
              /\ Asked(p, n + 1) = Asked(p, n) \cup (IF p.packs[n + 1].send THEN {n + 1} ELSE {})
              /\ Told(p, n + 1) = Told(p, n) \cup (IF p.packs[n + 1].notify THEN {n + 1} ELSE {})
              /\ Cardinality(Asked(p, n + 1)) = Cardinality(Asked(p, n)) + Bit(p.packs[n + 1].send)
              /\ Cardinality(Told(p, n + 1)) = Cardinality(Told(p, n)) + Bit(p.packs[n + 1].notify)
<1>1. /\ IsFiniteSet(Asked(p, n)) /\ Cardinality(Asked(p, n)) \in Nat
      /\ IsFiniteSet(Told(p, n)) /\ Cardinality(Told(p, n)) \in Nat
  <2>1. IsFiniteSet(1..n) /\ Asked(p, n) \subseteq 1..n /\ Told(p, n) \subseteq 1..n
    BY FS_Interval DEF Asked, Told
  <2>2. QED
    BY <2>1, FS_Subset, FS_CardinalityType
<1>2. n + 1 \notin Asked(p, n) /\ n + 1 \notin Told(p, n) /\ 1..(n + 1) = (1..n) \cup {n + 1}
  BY DEF Asked, Told
<1>3. Asked(p, n + 1) = Asked(p, n) \cup (IF p.packs[n + 1].send THEN {n + 1} ELSE {})
  BY <1>2 DEF Asked
<1>4. Told(p, n + 1) = Told(p, n) \cup (IF p.packs[n + 1].notify THEN {n + 1} ELSE {})
  BY <1>2 DEF Told
<1>5. Cardinality(Asked(p, n + 1)) = Cardinality(Asked(p, n)) + Bit(p.packs[n + 1].send)
  <2>1. CASE p.packs[n + 1].send
    BY <1>1, <1>2, <1>3, <2>1, FS_AddElement DEF Bit
  <2>2. CASE ~p.packs[n + 1].send
    <3>1. Asked(p, n + 1) = Asked(p, n)
      BY <1>3, <2>2
    <3>2. QED
      BY <1>1, <2>2, <3>1 DEF Bit
  <2>3. QED
    BY <2>1, <2>2
<1>6. Cardinality(Told(p, n + 1)) = Cardinality(Told(p, n)) + Bit(p.packs[n + 1].notify)
  <2>1. CASE p.packs[n + 1].notify
    BY <1>1, <1>2, <1>4, <2>1, FS_AddElement DEF Bit
  <2>2. CASE ~p.packs[n + 1].notify
    <3>1. Told(p, n + 1) = Told(p, n)
      BY <1>4, <2>2
    <3>2. QED
      BY <1>1, <2>2, <3>1 DEF Bit
  <2>3. QED
    BY <2>1, <2>2
<1>7. QED
  BY <1>1, <1>3, <1>4, <1>5, <1>6

\* Signals: all of them, one less, and none.
LEMMA OwedCount ==
  ASSUME NEW m \in Nat, NEW n \in Nat
  PROVE  /\ m * n \in Nat
         /\ \A f : IsFiniteSet(Owed(m, n, f)) /\ Cardinality(Owed(m, n, f)) \in Nat
         /\ \A f : (\A e \in 1..m : f[e] = n) => Cardinality(Owed(m, n, f)) = m * n
         /\ \A f : (\A e \in 1..m : f[e] = 0) => Cardinality(Owed(m, n, f)) = 0
<1>1. /\ IsFiniteSet((1..m) \X (1..n)) /\ Cardinality((1..m) \X (1..n)) = m * n
      /\ m * n \in Nat
  <2>1. /\ IsFiniteSet(1..m) /\ Cardinality(1..m) = m
        /\ IsFiniteSet(1..n) /\ Cardinality(1..n) = n
    <3>1. /\ Cardinality(1..m) = IF 1 > m THEN 0 ELSE m - 1 + 1
          /\ Cardinality(1..n) = IF 1 > n THEN 0 ELSE n - 1 + 1
          /\ IsFiniteSet(1..m) /\ IsFiniteSet(1..n)
      BY FS_Interval
    <3>2. QED
      BY <3>1
  <2>2. m * n \in Nat
    OBVIOUS
  <2>3. /\ IsFiniteSet((1..m) \X (1..n))
        /\ Cardinality((1..m) \X (1..n)) = Cardinality(1..m) * Cardinality(1..n)
    BY <2>1, FS_Product, Zenon
  <2>4. QED
    BY <2>1, <2>2, <2>3, Zenon
<1>2. ASSUME NEW f
      PROVE  IsFiniteSet(Owed(m, n, f)) /\ Cardinality(Owed(m, n, f)) \in Nat
  <2>1. Owed(m, n, f) \subseteq (1..m) \X (1..n)
    BY DEF Owed
  <2>2. IsFiniteSet(Owed(m, n, f))
    BY <1>1, <2>1, FS_Subset
  <2>3. QED
    BY <2>2, FS_CardinalityType
<1>3. ASSUME NEW f, \A e \in 1..m : f[e] = n
      PROVE  Cardinality(Owed(m, n, f)) = m * n
  <2>1. Owed(m, n, f) = (1..m) \X (1..n)
    BY <1>3 DEF Owed
  <2>2. QED
    BY <1>1, <2>1
<1>4. ASSUME NEW f, \A e \in 1..m : f[e] = 0
      PROVE  Cardinality(Owed(m, n, f)) = 0
  <2>1. Owed(m, n, f) = {}
    BY <1>4 DEF Owed
  <2>2. QED
    BY <2>1, FS_EmptySet
<1>5. QED
  BY <1>1, <1>2, <1>3, <1>4

\* All signals are owed of the events that nobody listens to, and of the others
\* none.
LEMMA OwedUnlisted ==
  ASSUME NEW m \in Nat, NEW n \in Nat, NEW L \in SUBSET (1..m), NEW f,
         \A e \in L : f[e] = 0, \A e \in (1..m) \ L : f[e] = n
  PROVE  /\ Cardinality(L) \in Nat
         /\ Cardinality(L) * n + Cardinality(Owed(m, n, f)) = m * n
<1>1. /\ IsFiniteSet(1..m) /\ Cardinality(1..m) = m
      /\ IsFiniteSet(1..n) /\ Cardinality(1..n) = n
  <2>1. /\ Cardinality(1..m) = IF 1 > m THEN 0 ELSE m - 1 + 1
        /\ Cardinality(1..n) = IF 1 > n THEN 0 ELSE n - 1 + 1
        /\ IsFiniteSet(1..m) /\ IsFiniteSet(1..n)
    BY FS_Interval
  <2>2. QED
    BY <2>1
<1>2. /\ IsFiniteSet(L) /\ Cardinality(L) \in Nat
      /\ IsFiniteSet((1..m) \ L) /\ Cardinality((1..m) \ L) = m - Cardinality(L)
      /\ Cardinality((1..m) \ L) \in Nat
  <2>1. IsFiniteSet(L) /\ (1..m) \cap L = L
    BY <1>1, FS_Subset
  <2>2. IsFiniteSet((1..m) \ L) /\ Cardinality((1..m) \ L) = Cardinality(1..m) - Cardinality((1..m) \cap L)
    BY <1>1, FS_Difference
  <2>3. QED
    BY <1>1, <2>1, <2>2, FS_CardinalityType
<1>3. Owed(m, n, f) = ((1..m) \ L) \X (1..n)
  <2>1. ASSUME NEW e \in 1..m, NEW k \in 1..n PROVE k <= f[e] <=> e \notin L
    <3>1. CASE e \in L
      BY <3>1
    <3>2. CASE e \notin L
      BY <3>2
    <3>3. QED
      BY <3>1, <3>2
  <2>2. ASSUME NEW x \in (1..m) \X (1..n) PROVE x \in Owed(m, n, f) <=> x \in ((1..m) \ L) \X (1..n)
    <3>1. PICK e \in 1..m, k \in 1..n : x = <<e, k>>
      OBVIOUS
    <3>2. x[1] = e /\ x[2] = k
      BY <3>1
    <3>3. x \in Owed(m, n, f) <=> k <= f[e]
      BY <2>2, <3>2 DEF Owed
    <3>4. x \in ((1..m) \ L) \X (1..n) <=> e \notin L
      BY <3>1
    <3>5. QED
      BY <2>1, <3>3, <3>4
  <2>3. Owed(m, n, f) \subseteq (1..m) \X (1..n) /\ ((1..m) \ L) \X (1..n) \subseteq (1..m) \X (1..n)
    BY DEF Owed
  <2>4. QED
    BY <2>2, <2>3
<1>4. Cardinality(Owed(m, n, f)) = Cardinality((1..m) \ L) * n
  <2>1. Cardinality(((1..m) \ L) \X (1..n)) = Cardinality((1..m) \ L) * Cardinality(1..n)
    BY <1>1, <1>2, FS_Product, Zenon
  <2>2. QED
    BY <1>1, <1>3, <2>1, Zenon
<1>5. PICK l \in Nat, u \in Nat : l = Cardinality(L) /\ u = Cardinality((1..m) \ L) /\ u = m - l
  BY <1>2
<1>6. l * n + u * n = m * n
  <2>1. l + u = m
    BY <1>5
  <2>2. (l + u) * n = l * n + u * n
    OBVIOUS
  <2>3. QED
    BY <2>1, <2>2
<1>7. QED
  BY <1>2, <1>4, <1>5, <1>6

LEMMA OneSignalLess ==
  ASSUME NEW m \in Nat, NEW n \in Nat, NEW f, NEW g, NEW e \in 1..m,
         f[e] \in Nat \ {0}, f[e] <= n, g[e] = f[e] - 1,
         \A d \in 1..m : d # e => g[d] = f[d]
  PROVE  Cardinality(Owed(m, n, f)) = Cardinality(Owed(m, n, g)) + 1
<1>2. g[e] = f[e] - 1 /\ \A d \in 1..m : d # e => g[d] = f[d]
  OBVIOUS
<1>3. <<e, f[e]>> \notin Owed(m, n, g)
  BY <1>2 DEF Owed
<1>4. Owed(m, n, f) = Owed(m, n, g) \cup {<<e, f[e]>>}
  <2>1. <<e, f[e]>> \in Owed(m, n, f)
    BY DEF Owed
  <2>2. ASSUME NEW d \in 1..m, NEW k \in 1..n, <<d, k>> # <<e, f[e]>>
        PROVE  k <= f[d] <=> k <= g[d]
    BY <1>2, <2>2
  <2>3. ASSUME NEW x \in (1..m) \X (1..n), x # <<e, f[e]>>
        PROVE  x \in Owed(m, n, f) <=> x \in Owed(m, n, g)
    BY <2>2, <2>3 DEF Owed
  <2>4. Owed(m, n, f) \subseteq (1..m) \X (1..n) /\ Owed(m, n, g) \subseteq (1..m) \X (1..n)
    BY DEF Owed
  <2>5. QED
    BY <2>1, <2>3, <2>4
<1>5. IsFiniteSet(Owed(m, n, g))
  BY OwedCount
<1>6. QED
  BY <1>3, <1>4, <1>5, FS_AddElement

\* The event that the instance works on first is one that is signalled.
LEMMA FirstIsReady ==
  ASSUME TestTypeOK, Ready # {}
  PROVE  /\ FirstReady \in 1..eventMethods /\ FirstReady \in 1..MAX_EVENT_METHODS
         /\ signals[FirstReady] > 0 /\ FirstReady \in listed
<1>1. /\ eventMethods \in Nat /\ MAX_EVENT_METHODS \in Nat
      /\ listed \subseteq 1..eventMethods /\ eventMethods <= MAX_EVENT_METHODS
  <2>1. MAX_EVENT_METHODS \in Nat
    BY PlanAssumption
  <2>2. eventMethods \in 0..MAX_EVENT_METHODS /\ listed \subseteq 1..eventMethods
    BY Zenon DEF TestTypeOK
  <2>3. QED
    BY <2>1, <2>2
<1>2. Ready \subseteq Nat
  <2>1. 1..eventMethods \subseteq Nat
    BY <1>1
  <2>2. Ready \subseteq listed
    BY DEF Ready
  <2>3. QED
    BY <1>1, <2>1, <2>2
<1>3. PICK e \in Ready : \A f \in Ready : e <= f
  BY <1>2, LeastNumber
<1>4. FirstReady \in Ready
  BY <1>3 DEF FirstReady
<1>5. QED
  BY <1>1, <1>4 DEF Ready
-----------------------------------------------------------------------------
\* The numbers behind the invariant.
LEMMA TestNumbers ==
  ASSUME TestTypeOK, InWorkQ
  PROVE  /\ plan \in Plans /\ Len(plan.packs) \in Nat /\ plan.signals \in Nat
         /\ sent \in Nat /\ sent <= Len(plan.packs) /\ Len(workQ) \in Nat
         /\ Taken \in Nat /\ Taken <= sent /\ sent = Taken + Len(workQ)
         /\ eventMethods \in Nat /\ eventMethods <= MAX_EVENT_METHODS /\ MAX_EVENT_METHODS \in Nat
         /\ listed \subseteq 1..eventMethods
         /\ due \in Nat /\ due <= MaxPeriods /\ MaxPeriods \in Nat
         /\ Outstanding \in Nat /\ eventMethods * plan.signals \in Nat
         /\ changeCount \in Nat
         /\ Len(answers) \in Nat /\ Len(doneQ) \in Nat /\ Len(eventQ) \in Nat
         /\ Len(items) \in Nat /\ Len(itemQ) \in Nat
<1>1. MAX_EVENT_METHODS \in Nat /\ MaxPeriods \in Nat
  BY PlanAssumption
<1>2. /\ plan \in Plans /\ sent \in 0..Len(plan.packs) /\ due \in 0..MaxPeriods
      /\ eventMethods \in 0..MAX_EVENT_METHODS /\ listed \subseteq 1..eventMethods /\ changeCount \in Nat
      /\ workQ \in Seq(PackType) /\ answers \in Seq(PackType) /\ doneQ \in Seq(PackType)
      /\ eventQ \in Seq(PackType) /\ items \in Seq(Things) /\ itemQ \in Seq(Things)
  BY Zenon DEF TestTypeOK
<1>3. Len(plan.packs) \in Nat /\ plan.signals \in Nat
  BY <1>2, PlanPacks
<1>4. /\ Len(workQ) \in Nat /\ Len(answers) \in Nat /\ Len(doneQ) \in Nat /\ Len(eventQ) \in Nat
      /\ Len(items) \in Nat /\ Len(itemQ) \in Nat
  BY <1>2, LenProperties
<1>5. /\ sent \in Nat /\ sent <= Len(plan.packs) /\ due \in Nat /\ due <= MaxPeriods
      /\ eventMethods \in Nat /\ eventMethods <= MAX_EVENT_METHODS
      /\ listed \subseteq 1..eventMethods
  BY <1>1, <1>2, <1>3
<1>6. Taken \in Nat /\ Taken <= sent /\ sent = Taken + Len(workQ)
  <2>1. Len(workQ) <= sent
    BY DEF InWorkQ
  <2>2. QED
    BY <1>4, <1>5, <2>1 DEF Taken
<1>7. eventMethods * plan.signals \in Nat /\ Outstanding \in Nat
  <2>1. /\ eventMethods * plan.signals \in Nat
        /\ Cardinality(Owed(eventMethods, plan.signals, signals)) \in Nat
    BY <1>3, <1>5, OwedCount
  <2>2. QED
    BY <2>1 DEF Outstanding
<1>8. QED
  BY <1>1, <1>2, <1>3, <1>4, <1>5, <1>6, <1>7

LEMMA TestInitInv == TestInit => TestInv /\ Announced
<1>1. SUFFICES ASSUME TestInit PROVE TestInv /\ Announced
  OBVIOUS
<1>2. /\ plan \in Plans /\ workQ = <<>> /\ doneQ = <<>> /\ eventQ = <<>> /\ itemQ = <<>>
      /\ changeCount = 0 /\ callback = [instruction |-> 0, item |-> None]
      /\ eventMethods = 0 /\ listed = {} /\ reset = TRUE /\ scan = 1
      /\ signals = [e \in 1..MAX_EVENT_METHODS |-> 0] /\ due = 0
      /\ instance = "turn" /\ pWorkDone = NewPack /\ tester = "events"
      /\ sent = 0 /\ ids = <<>> /\ answers = <<>> /\ items = <<>>
  BY <1>1 DEF TestInit
<1>3. MAX_EVENT_METHODS \in Nat /\ MaxPeriods \in Nat /\ MAX_WORK_METHODS \in Nat
  BY PlanAssumption
<1>4. Len(plan.packs) \in Nat /\ plan.signals \in Nat
  BY <1>2, PlanPacks
<1>5. TestTypeOK
  <2>1. NewPack \in PackType /\ None \in Things
    BY PackForms DEF Things
  <2>2. <<>> \in Seq(PackType) /\ <<>> \in Seq(Things)
    BY EmptySeq
  <2>3. callback \in [instruction : Instructions, item : Things]
    BY <1>2, <1>3, <2>1 DEF Instructions
  <2>4. ids = [i \in 1..sent |-> i]
    BY <1>2
  <2>5. signals \in [1..MAX_EVENT_METHODS -> Nat] /\ due \in 0..MaxPeriods
        /\ eventMethods \in 0..MAX_EVENT_METHODS /\ listed \subseteq 1..eventMethods
        /\ scan \in 1..(MAX_EVENT_METHODS + 1) /\ reset \in BOOLEAN
        /\ sent \in 0..Len(plan.packs) /\ changeCount \in Nat
    BY <1>2, <1>3, <1>4
  <2>6. QED
    BY <1>2, <2>1, <2>2, <2>3, <2>4, <2>5 DEF TestTypeOK
<1>6. Len(<<>>) = 0 /\ Taken = 0
  <2>1. Len(<<>>) = 0
    BY EmptyItems
  <2>2. Len(workQ) = 0 /\ sent = 0
    BY <1>2, <2>1, Zenon
  <2>3. QED
    BY <2>1, <2>2 DEF Taken
<1>7. InWorkQ /\ InHand
  BY <1>2, <1>6 DEF InWorkQ, InHand, Working
<1>8. Replies
  <2>1. Latest = 0 /\ Asked(plan, 0) = {}
    BY <1>2, <1>6 DEF Latest, Asked
  <2>2. Numbers(<<>>) = {} /\ Rising(<<>>) /\ OfPacks(<<>>, plan)
    BY DEF Numbers, Rising, OfPacks
  <2>3. QED
    BY <1>2, <2>1, <2>2 DEF Replies
<1>9. Signalled /\ Attended
  BY <1>2, <1>4 DEF Signalled, Attended, Preparing
<1>10. Asked(plan, 0) = {} /\ Told(plan, 0) = {} /\ Cardinality({}) = 0
  BY FS_EmptySet DEF Asked, Told
<1>11. Counted
  <2>1. Outstanding = eventMethods * plan.signals /\ eventMethods * plan.signals \in Nat
    BY <1>2, <1>4, OwedCount DEF Outstanding, Preparing
  <2>2. QED
    <3>1. Bit(FALSE) = 0
      BY DEF Bit
    <3>2. /\ Len(answers) = 0 /\ Len(doneQ) = 0 /\ Len(eventQ) = 0
          /\ Cardinality(Asked(plan, Taken)) = 0 /\ Cardinality(Told(plan, Taken)) = 0
      BY <1>2, <1>6, <1>10
    <3>3. PICK P \in Nat : P = eventMethods * plan.signals
      BY <2>1
    <3>4. /\ Bit(instance \in {"prepare", "deliver"} /\ pWorkDone.send) = 0
          /\ Bit(instance \in {"prepare", "deliver", "change"} /\ pWorkDone.notify) = 0
      BY <1>2 DEF Bit
    <3>5. QED
      BY <1>2, <2>1, <3>2, <3>3, <3>4 DEF Counted, Made, Heard
<1>12. TestOver
  BY <1>2 DEF TestOver
<1>13. Announced
  BY <1>2, <1>6, <1>10 DEF Announced, Bit, Told, Working
<1>14. QED
  BY <1>5, <1>7, <1>8, <1>9, <1>11, <1>12, <1>13 DEF TestInv

LEMMA TestTypeKept ==
  ASSUME TestTypeOK, InWorkQ, TestNext
  PROVE  TestTypeOK'
<1>0. TestTypeOK /\ InWorkQ
  OBVIOUS
<1>1. /\ plan \in Plans /\ Len(plan.packs) \in Nat
      /\ sent \in 0..Len(plan.packs) /\ due \in 0..MaxPeriods
      /\ eventMethods \in 0..MAX_EVENT_METHODS /\ listed \subseteq 1..eventMethods /\ changeCount \in Nat
      /\ workQ \in Seq(PackType) /\ answers \in Seq(PackType) /\ doneQ \in Seq(PackType)
      /\ eventQ \in Seq(PackType) /\ items \in Seq(Things) /\ itemQ \in Seq(Things)
      /\ pWorkDone \in PackType /\ callback \in [instruction : Instructions, item : Things]
      /\ signals \in [1..MAX_EVENT_METHODS -> Nat] /\ ids = [i \in 1..sent |-> i]
      /\ instance \in {"turn", "scan", "wait", "prepare", "deliver", "change", "queue item"}
      /\ tester \in {"events", "flag", "signal", "send", "collect", "item", "over"}
      /\ reset \in BOOLEAN /\ scan \in 1..(MAX_EVENT_METHODS + 1)
  BY <1>0, TestNumbers DEF TestTypeOK
<1>2. /\ MAX_EVENT_METHODS \in Nat /\ MaxPeriods \in Nat /\ eventMethods \in Nat
      /\ due \in Nat
      /\ sent \in Nat /\ sent <= Len(plan.packs)
  <2>1. MAX_EVENT_METHODS \in Nat /\ MaxPeriods \in Nat
    BY PlanAssumption
  <2>2. /\ eventMethods \in Nat /\ due \in Nat
        /\ sent \in Nat /\ sent <= Len(plan.packs)
    BY <1>0, TestNumbers
  <2>3. QED
    BY <2>1, <2>2
<1>3. NewPack \in PackType /\ Copy(NewPack) = NewPack
  BY PackForms
<1>4. CASE TakeAndPerform
  <2>1. Head(workQ) \in PackType /\ Tail(workQ) \in Seq(PackType)
    BY <1>1, <1>4, ReplyTaken DEF TakeAndPerform
  <2>2. Performed(Head(workQ)) \in PackType
    BY <2>1, PerformedPack
  <2>3. QED
    BY <1>1, <1>2, <1>4, <2>1, <2>2 DEF TestTypeOK, eventVars, TakeAndPerform, testerVars
<1>5. CASE PerformEvent
  <2>1. [signals EXCEPT ![FirstReady] = @ - 1] \in [1..MAX_EVENT_METHODS -> Nat]
    <3>1. /\ FirstReady \in 1..MAX_EVENT_METHODS /\ signals[FirstReady] > 0
      BY <1>0, <1>5, FirstIsReady DEF PerformEvent
    <3>2. PICK e \in 1..MAX_EVENT_METHODS : e = FirstReady
      BY <3>1
    <3>3. signals[e] \in Nat /\ signals[e] > 0
      BY <1>1, <3>1, <3>2
    <3>4. signals[e] - 1 \in Nat
      BY <3>3
    <3>5. QED
      BY <1>1, <3>2, <3>4
  <2>2. [NewPack EXCEPT !.send = TRUE, !.notify = TRUE, !.useDefaultQ = FALSE] \in PackType
    BY <1>3 DEF PackType
  <2>3. QED
    BY <1>1, <1>2, <1>3, <1>5, <2>1, <2>2 DEF TestTypeOK, eventVars, PerformEvent, testerVars, queueVarsT
<1>6. CASE PeriodEnds
  <2>1. [NewPack EXCEPT !.send = TRUE, !.notify = TRUE] \in PackType
    BY <1>3 DEF PackType
  <2>2. due' \in 0..MaxPeriods
    BY <1>1, <1>2, <1>6 DEF PeriodEnds
  <2>3. pWorkDone' \in PackType /\ instance' \in {"turn", "prepare"}
    BY <1>1, <1>3, <1>6, <2>1 DEF PeriodEnds
  <2>4. QED
    BY <1>1, <1>2, <1>6, <2>2, <2>3 DEF TestTypeOK, eventVars, PeriodEnds, testerVars, queueVarsT
<1>7. CASE PrepareCallback
  <2>1. callback' \in [instruction : Instructions, item : Things]
    BY <1>1, <1>7 DEF PrepareCallback, PackType
  <2>2. QED
    BY <1>1, <1>7, <2>1 DEF TestTypeOK, eventVars, PrepareCallback, testerVars, queueVarsT
<1>8. CASE Deliver
  <2>1. doneQ' \in Seq(PackType) /\ eventQ' \in Seq(PackType)
    BY <1>1, <1>8, AppendProperties DEF Deliver
  <2>2. instance' \in {"change", "turn"}
    BY <1>8 DEF Deliver
  <2>3. QED
    BY <1>1, <1>8, <2>1, <2>2 DEF TestTypeOK, eventVars, Deliver, testerVars
<1>9. CASE OnChange
  <2>1. changeCount' \in Nat /\ instance' = "queue item"
    <3>1. changeCount \in Nat
      BY <1>1
    <3>2. changeCount' = changeCount + 1 /\ instance' = "queue item"
      BY <1>9 DEF OnChange
    <3>3. changeCount + 1 \in Nat
      BY <3>1
    <3>4. QED
      BY <3>2, <3>3, Zenon
  <2>2. QED
    BY <1>1, <1>9, <2>1 DEF TestTypeOK, eventVars, OnChange, testerVars, queueVarsT
<1>10. CASE OnChangeQueue
  <2>1. itemQ' \in Seq(Things)
    BY <1>1, <1>10, AppendProperties DEF OnChangeQueue
  <2>2. QED
    BY <1>1, <1>10, <2>1 DEF TestTypeOK, eventVars, OnChangeQueue, testerVars
<1>11. CASE RegisterEvent
  <2>1. plan.events \in Nat
    BY <1>1, PlanPacks
  <2>2. eventMethods' = eventMethods + 1 /\ eventMethods' \in 0..MAX_EVENT_METHODS
    <3>1. eventMethods' = eventMethods + 1 /\ eventMethods < MAX_EVENT_METHODS
      BY <1>11 DEF RegisterEvent
    <3>2. QED
      BY <1>2, <3>1
  <2>3. listed' \subseteq 1..eventMethods'
    <3>1. listed' = listed /\ listed \subseteq 1..eventMethods
      BY <1>1, <1>11 DEF RegisterEvent, instanceVars, eventVars
    <3>2. 1..eventMethods \subseteq 1..eventMethods'
      BY <1>2, <2>2
    <3>3. QED
      BY <3>1, <3>2
  <2>4. QED
    BY <1>1, <1>11, <2>2, <2>3 DEF TestTypeOK, eventVars, RegisterEvent, instanceVars, queueVarsT
<1>11a. CASE AskForScan
  BY <1>1, <1>11a DEF TestTypeOK, eventVars, AskForScan, instanceVars, queueVarsT
<1>11b. CASE AllRegistered
  <2>1. /\ tester' = "signal"
        /\ UNCHANGED <<queueVarsT, instanceVars, eventMethods, reset, signals, due, plan, sent, ids, answers, items>>
    BY <1>11b DEF AllRegistered
  <2>2. QED
    BY <1>1, <2>1 DEF TestTypeOK, eventVars, instanceVars, queueVarsT
<1>11c. CASE BeginTurn
  <2>1. listed' \subseteq 1..eventMethods /\ scan' \in 1..(MAX_EVENT_METHODS + 1)
    <3>1. (listed' = {} /\ scan' = 1) \/ (listed' = listed /\ scan' = scan)
      BY <1>11c, Zenon DEF BeginTurn, eventVars
    <3>2. 1 \in 1..(MAX_EVENT_METHODS + 1)
      BY <1>2
    <3>3. QED
      BY <1>1, <3>1, <3>2
  <2>2. instance' \in {"scan", "wait"}
    BY <1>11c DEF BeginTurn
  <2>3. QED
    BY <1>1, <1>11c, <2>1, <2>2 DEF TestTypeOK, BeginTurn, testerVars, queueVarsT
<1>11d. CASE ScanSlot
  <2>1. listed' \subseteq 1..eventMethods /\ scan' \in 1..(MAX_EVENT_METHODS + 1)
    BY <1>1, <1>2, <1>11d DEF ScanSlot
  <2>2. QED
    BY <1>1, <1>11d, <2>1 DEF TestTypeOK, ScanSlot, testerVars, queueVarsT
<1>11e. CASE EndScan
  BY <1>1, <1>11e DEF TestTypeOK, EndScan, eventVars, testerVars, queueVarsT
<1>12. CASE SignalEvents
  <2>1. plan.signals \in Nat
    BY <1>1, PlanPacks
  <2>2. signals' \in [1..MAX_EVENT_METHODS -> Nat]
    BY <1>1, <1>12, <2>1 DEF SignalEvents
  <2>3. QED
    BY <1>1, <1>12, <2>2 DEF TestTypeOK, eventVars, SignalEvents, instanceVars, queueVarsT
<1>13. CASE SendPack
  <2>1. sent' = sent + 1 /\ sent' \in 1..Len(plan.packs)
    <3>1. sent' = sent + 1 /\ sent < Len(plan.packs)
      BY <1>13 DEF SendPack
    <3>2. sent \in Nat /\ Len(plan.packs) \in Nat
      BY <1>1, <1>2
    <3>3. QED
      BY <3>1, <3>2
  <2>2. [plan.packs[sent'] EXCEPT !.id = sent'] \in PackType
    BY <1>1, <2>1, PlanPacks
  <2>3. workQ' \in Seq(PackType)
    BY <1>1, <1>13, <2>2, AppendProperties DEF SendPack
  <2>4. ids' = [i \in 1..sent' |-> i]
    <3>1. PICK n \in Nat : n = sent
      BY <1>2
    <3>2. ids = [i \in 1..n |-> i] /\ ids' = Append(ids, n + 1)
      BY <1>1, <1>13, <2>1, <3>1 DEF SendPack
    <3>3. [i \in 1..n |-> i] \in Seq(Nat) /\ Len([i \in 1..n |-> i]) = n
      OBVIOUS
    <3>4. Append([i \in 1..n |-> i], n + 1) = [i \in 1..(n + 1) |-> i]
      BY <3>3
    <3>5. QED
      BY <2>1, <3>1, <3>2, <3>4
  <2>5. sent' \in 0..Len(plan'.packs)
    BY <1>2, <1>13, <2>1 DEF SendPack
  <2>6. QED
    BY <1>1, <1>13, <2>3, <2>4, <2>5 DEF TestTypeOK, eventVars, SendPack, instanceVars
<1>14. CASE StartCollecting
  BY <1>1, <1>14 DEF TestTypeOK, eventVars, StartCollecting, instanceVars, queueVarsT
<1>15. CASE CollectAnswer
  <2>1. answers' \in Seq(PackType) /\ doneQ' \in Seq(PackType) /\ eventQ' \in Seq(PackType)
    <3>1. CASE doneQ # <<>> /\ answers' = Append(answers, Head(doneQ)) /\ doneQ' = Tail(doneQ) /\ UNCHANGED eventQ
      BY <1>1, <3>1, ReplyTaken, AppendProperties
    <3>2. CASE eventQ # <<>> /\ answers' = Append(answers, Head(eventQ)) /\ eventQ' = Tail(eventQ) /\ UNCHANGED doneQ
      BY <1>1, <3>2, ReplyTaken, AppendProperties
    <3>3. QED
      BY <1>15, <3>1, <3>2 DEF CollectAnswer
  <2>2. tester' \in {"item", "collect"}
    BY <1>15 DEF CollectAnswer
  <2>3. QED
    BY <1>1, <1>15, <2>1, <2>2 DEF TestTypeOK, eventVars, CollectAnswer, instanceVars
<1>16. CASE CollectItem
  <2>1. items' \in Seq(Things) /\ itemQ' \in Seq(Things)
    BY <1>1, <1>16, HeadTailProperties, AppendProperties DEF CollectItem
  <2>2. QED
    BY <1>1, <1>16, <2>1 DEF TestTypeOK, eventVars, CollectItem, instanceVars
<1>17. CASE CollectNothing
  <2>1. tester' \in {"item", "collect", "over"}
    BY <1>17 DEF CollectNothing
  <2>2. QED
    BY <1>1, <1>17, <2>1 DEF TestTypeOK, eventVars, CollectNothing, instanceVars, queueVarsT
<1>18. QED
  BY <1>4, <1>5, <1>6, <1>7, <1>8, <1>9, <1>10, <1>11, <1>11a, <1>11b, <1>11c, <1>11d,
     <1>11e, <1>12, <1>13, <1>14, <1>15, <1>16, <1>17
     DEF TestNext, InstanceStep, TestStep
-----------------------------------------------------------------------------
\* Nothing happens any more when the test is over.
LEMMA NothingAfterOver ==
  ASSUME TestInv, TestNext
  PROVE  tester # "over"
<1>1. SUFFICES ASSUME tester = "over" PROVE FALSE
  OBVIOUS
<1>2. /\ instance = "wait" /\ workQ = <<>> /\ Ready = {} /\ ~reset
      /\ plan.periodic => due = MaxPeriods
  BY <1>1 DEF TestInv, TestOver, Quiet
<1>3. due \in Nat
  BY TestNumbers DEF TestInv
<1>4. ~InstanceStep
  <2>0. ~BeginTurn /\ ~ScanSlot /\ ~EndScan
    BY <1>2 DEF BeginTurn, ScanSlot, EndScan
  <2>1. ~TakeAndPerform /\ ~PerformEvent /\ ~PrepareCallback /\ ~Deliver /\ ~OnChange /\ ~OnChangeQueue
    BY <1>2 DEF TakeAndPerform, PerformEvent, PrepareCallback, Deliver, OnChange, OnChangeQueue
  <2>2. ~PeriodEnds
    BY <1>2, <1>3 DEF PeriodEnds
  <2>3. QED
    BY <2>0, <2>1, <2>2 DEF InstanceStep
<1>5. ~TestStep
  BY <1>1 DEF TestStep, RegisterEvent, AskForScan, AllRegistered, SignalEvents, SendPack, StartCollecting, CollectAnswer,
              CollectItem, CollectNothing
<1>6. QED
  BY <1>4, <1>5 DEF TestNext

\* What does not depend on a step: the signals, the packs in the queue, the end.
LEMMA SignalsStay ==
  ASSUME Signalled, Attended, UNCHANGED <<plan, eventMethods, signals, listed>>,
         instance # "scan" \/ UNCHANGED <<instance, scan>>,
         tester' \in Preparing <=> tester \in Preparing
  PROVE  Signalled' /\ Attended' /\ Outstanding' = Outstanding
BY DEF Signalled, Attended, Outstanding

LEMMA PacksStay ==
  ASSUME InWorkQ, UNCHANGED <<plan, workQ, sent>>
  PROVE  InWorkQ' /\ Taken' = Taken
BY DEF InWorkQ, Taken

LEMMA InstanceLeaves ==
  ASSUME TestInv, tester # "over", UNCHANGED testerVars
  PROVE  /\ plan' = plan /\ tester' = tester /\ sent' = sent /\ ids' = ids
         /\ answers' = answers /\ items' = items
         /\ TestOver'
BY DEF TestInv, TestOver, testerVars

\* The work of the instance, one step after the other.
LEMMA TakeKept ==
  ASSUME TestInv, Announced, TakeAndPerform, tester # "over"
  PROVE  TestInv' /\ Announced'
<1>1. TestTypeOK /\ InWorkQ /\ InHand /\ Replies /\ Signalled /\ Attended /\ Counted /\ TestOver
  BY DEF TestInv
<1>2. /\ instance = "wait" /\ workQ # <<>> /\ workQ' = Tail(workQ)
      /\ pWorkDone' = Performed(Head(workQ)) /\ instance' = "prepare"
      /\ UNCHANGED <<doneQ, eventQ, itemQ, callback, changeCount, listed, eventMethods, signals, due>>
      /\ UNCHANGED testerVars
  BY DEF TakeAndPerform, eventVars
<1>3. /\ plan' = plan /\ tester' = tester /\ sent' = sent /\ answers' = answers /\ items' = items
      /\ TestOver'
  BY <1>2, InstanceLeaves
<1>4. TestTypeOK'
  BY <1>1, TestTypeKept DEF TestNext, InstanceStep
<1>5. PICK n \in Nat, k \in Nat :
        n = Taken /\ k = Len(workQ) /\ sent = n + k /\ sent <= Len(plan.packs) /\ k # 0
  <2>1. Taken \in Nat /\ Len(workQ) \in Nat /\ sent = Taken + Len(workQ) /\ sent <= Len(plan.packs)
    BY <1>1, TestNumbers
  <2>2. Len(workQ) # 0
    BY <1>1, <1>2, ReplyTaken DEF TestTypeOK
  <2>3. QED
    BY <2>1, <2>2
<1>6. /\ Head(workQ) = workQ[1] /\ Len(Tail(workQ)) = k - 1
      /\ \A i \in 1..(k - 1) : Tail(workQ)[i] = workQ[i + 1]
      /\ Head(workQ) \in PackType
  BY <1>1, <1>2, <1>5, HeadTailProperties DEF TestTypeOK
<1>7. plan \in Plans /\ Len(plan.packs) \in Nat
  BY <1>1, TestNumbers
<1>8. Taken' = n + 1 /\ Len(workQ') = k - 1
  BY <1>2, <1>3, <1>5, <1>6 DEF Taken
<1>9. InWorkQ'
  <2>1. Len(workQ') <= sent'
    BY <1>3, <1>5, <1>8
  <2>2. ASSUME NEW i \in 1..(k - 1)
        PROVE  workQ'[i] = [plan.packs[n + 1 + i] EXCEPT !.id = n + 1 + i]
    <3>1. i + 1 \in 1..k /\ n + (i + 1) = n + 1 + i
      BY <2>2
    <3>2. workQ[i + 1] = [plan.packs[n + (i + 1)] EXCEPT !.id = n + (i + 1)]
      BY <1>1, <1>5, <3>1 DEF InWorkQ
    <3>3. QED
      BY <1>2, <1>6, <2>2, <3>1, <3>2
  <2>3. QED
    BY <1>3, <1>8, <2>1, <2>2 DEF InWorkQ
<1>10. n + 1 \in 1..Len(plan.packs)
  BY <1>5, <1>7
<1>11. /\ pWorkDone'.id = n + 1
       /\ pWorkDone'.instruction = plan.packs[n + 1].instruction
       /\ pWorkDone'.send = plan.packs[n + 1].send
       /\ pWorkDone'.notify = plan.packs[n + 1].notify
       /\ pWorkDone'.useDefaultQ = plan.packs[n + 1].useDefaultQ
       /\ pWorkDone'.inCallback = plan.packs[n + 1].inCallback
       /\ pWorkDone'.item = plan.packs[n + 1].item
  <2>1. PICK h : h = Head(workQ)
    OBVIOUS
  <2>2. h = [plan.packs[n + 1] EXCEPT !.id = n + 1]
    <3>1. 1 \in 1..k
      BY <1>5
    <3>2. workQ[1] = [plan.packs[n + 1] EXCEPT !.id = n + 1]
      BY <1>1, <1>5, <3>1 DEF InWorkQ
    <3>3. QED
      BY <1>6, <2>1, <3>2
  <2>3. /\ h.id = n + 1 /\ h.instruction = plan.packs[n + 1].instruction
        /\ h.send = plan.packs[n + 1].send /\ h.notify = plan.packs[n + 1].notify
        /\ h.useDefaultQ = plan.packs[n + 1].useDefaultQ
        /\ h.inCallback = plan.packs[n + 1].inCallback /\ h.item = plan.packs[n + 1].item
    BY <1>7, <1>10, <2>2, PlanPacks
  <2>4. SameRequest(Performed(h), h)
    BY <1>6, <2>1, PerformedPack
  <2>5. QED
    BY <1>2, <2>1, <2>3, <2>4 DEF SameRequest
<1>12. InHand'
  BY <1>2, <1>3, <1>5, <1>8, <1>11 DEF InHand, Working
<1>13. Latest' = Latest
  BY <1>2, <1>5, <1>8, <1>11 DEF Latest
<1>14. Replies'
  BY <1>1, <1>2, <1>3, <1>13 DEF Replies
<1>15. Signalled' /\ Attended' /\ Outstanding' = Outstanding
  BY <1>1, <1>2, <1>3, SignalsStay
<1>16. /\ Cardinality(Asked(plan, n)) \in Nat /\ Cardinality(Told(plan, n)) \in Nat
       /\ Told(plan, n + 1) = Told(plan, n) \cup (IF plan.packs[n + 1].notify THEN {n + 1} ELSE {})
       /\ Cardinality(Asked(plan, n + 1)) = Cardinality(Asked(plan, n)) + Bit(plan.packs[n + 1].send)
       /\ Cardinality(Told(plan, n + 1)) = Cardinality(Told(plan, n)) + Bit(plan.packs[n + 1].notify)
  <2>1. n + 1 <= Len(plan.packs)
    BY <1>7, <1>10
  <2>2. QED
    BY <1>7, <2>1, OneMorePack
<1>17. /\ Bit(FALSE) = 0 /\ Bit(plan.packs[n + 1].send) \in Nat /\ Bit(plan.packs[n + 1].notify) \in Nat
  BY DEF Bit
<1>18. Counted'
  <2>1. /\ Bit(instance \in {"prepare", "deliver"} /\ pWorkDone.send) = 0
        /\ Bit(instance \in {"prepare", "deliver", "change"} /\ pWorkDone.notify) = 0
    BY <1>2 DEF Bit
  <2>2. /\ Bit(instance \in {"prepare", "deliver"} /\ pWorkDone.send)' = Bit(plan.packs[n + 1].send)
        /\ Bit(instance \in {"prepare", "deliver", "change"} /\ pWorkDone.notify)'
             = Bit(plan.packs[n + 1].notify)
    BY <1>2, <1>11 DEF Bit
  <2>3. /\ Len(answers) \in Nat /\ Len(doneQ) \in Nat /\ Len(eventQ) \in Nat /\ changeCount \in Nat
        /\ Outstanding \in Nat /\ eventMethods * plan.signals \in Nat /\ due \in Nat
    BY <1>1, TestNumbers
  <2>4. PICK P \in Nat : P = eventMethods * plan.signals
    BY <2>3
  <2>5. eventMethods' * plan'.signals = P
    BY <1>2, <1>3, <2>4
  <2>6. /\ Len(answers) + Len(doneQ) + Len(eventQ) + 0 + Outstanding
             = Cardinality(Asked(plan, n)) + P + due
        /\ changeCount + 0 + Outstanding = Cardinality(Told(plan, n)) + P + due
    BY <1>1, <1>5, <2>1, <2>4 DEF Counted, Made, Heard
  <2>7. /\ Len(answers) + Len(doneQ) + Len(eventQ) + Bit(plan.packs[n + 1].send) + Outstanding
             = Cardinality(Asked(plan, n + 1)) + P + due
        /\ changeCount + Bit(plan.packs[n + 1].notify) + Outstanding
             = Cardinality(Told(plan, n + 1)) + P + due
    <3>1. PICK a \in Nat, c \in Nat, s \in Nat, t \in Nat :
            /\ a = Cardinality(Asked(plan, n)) /\ c = Cardinality(Told(plan, n))
            /\ s = Bit(plan.packs[n + 1].send) /\ t = Bit(plan.packs[n + 1].notify)
      BY <1>16, <1>17
    <3>2. PICK u \in Nat, v \in Nat, w \in Nat, x \in Nat, y \in Nat, z \in Nat :
            /\ u = Len(answers) /\ v = Len(doneQ) /\ w = Len(eventQ) /\ x = changeCount
            /\ y = Outstanding /\ z = due
      BY <2>3
    <3>3. u + v + w + 0 + y = a + P + z /\ x + 0 + y = c + P + z
      BY <2>6, <3>1, <3>2
    <3>4. u + v + w + s + y = a + s + P + z /\ x + t + y = c + t + P + z
      BY <3>3
    <3>5. Cardinality(Asked(plan, n + 1)) = a + s /\ Cardinality(Told(plan, n + 1)) = c + t
      BY <1>16, <3>1
    <3>6. QED
      BY <3>1, <3>2, <3>4, <3>5
  <2>8. QED
    BY <1>2, <1>3, <1>8, <1>15, <2>2, <2>5, <2>7 DEF Counted, Made, Heard
<1>19. Announced'
  <2>1. SUFFICES ASSUME plan.events = 0 /\ ~plan.periodic PROVE Announced'
    BY <1>3 DEF Announced, OnlyPacks, Working
  <2>2. /\ due = 0 /\ Len(items) + Len(itemQ) + 0 = Cardinality(Told(plan, n))
        /\ \A i \in Told(plan, n) :
             plan.packs[i].inCallback /\ Cardinality(Told(plan, i)) <= Len(items) + Len(itemQ) =>
               ItemAt(Cardinality(Told(plan, i))) = plan.packs[i].item
    <3>1. Bit(Working /\ pWorkDone.notify) = 0
      BY <1>2 DEF Bit, Working
    <3>2. QED
      BY <1>5, <2>1, <3>1 DEF Announced, OnlyPacks, Working
  <2>3. Len(items) \in Nat /\ Len(itemQ) \in Nat
    BY <1>1, TestNumbers
  <2>4. Bit(Working /\ pWorkDone.notify)' = Bit(plan.packs[n + 1].notify)
    BY <1>2, <1>11 DEF Bit, Working
  <2>5. Len(items) + Len(itemQ) + Bit(plan.packs[n + 1].notify) = Cardinality(Told(plan, n + 1))
    BY <1>16, <1>17, <2>2, <2>3
  <2>6. ASSUME NEW i \in Told(plan, n + 1), plan.packs[i].inCallback,
               Cardinality(Told(plan, i)) <= Len(items) + Len(itemQ)
        PROVE  ItemAt(Cardinality(Told(plan, i))) = plan.packs[i].item
    <3>1. CASE i \in Told(plan, n)
      BY <2>2, <2>6, <3>1
    <3>2. CASE i = n + 1 /\ plan.packs[n + 1].notify
      <4>1. Bit(plan.packs[n + 1].notify) = 1
        BY <3>2 DEF Bit
      <4>2. Cardinality(Told(plan, n + 1)) = Len(items) + Len(itemQ) + 1
        BY <2>5, <4>1
      <4>3. Cardinality(Told(plan, n + 1)) <= Len(items) + Len(itemQ)
        BY <2>6, <3>2
      <4>4. QED
        BY <2>3, <4>2, <4>3
    <3>3. QED
      BY <1>16, <3>1, <3>2
  <2>7. ItemAt(0)' = ItemAt(0) /\ \A j : ItemAt(j)' = ItemAt(j)
    BY <1>2, <1>3 DEF ItemAt
  <2>8. instance' = "prepare" /\ pWorkDone'.id # 0 /\ due' = due
    BY <1>2, <1>11
  <2>9. QED
    BY <1>2, <1>3, <1>8, <2>2, <2>4, <2>5, <2>6, <2>7, <2>8 DEF Announced, Working
<1>20. QED
  BY <1>3, <1>4, <1>9, <1>12, <1>14, <1>15, <1>18, <1>19 DEF TestInv

\* The counts go on: d more are due, or worked on.
LEMMA CountsMove ==
  ASSUME TestTypeOK, InWorkQ, Counted, UNCHANGED <<plan, eventMethods>>, Taken' = Taken,
         Made \in Nat, Heard \in Nat, Made' \in Nat, Heard' \in Nat, Outstanding' \in Nat,
         NEW d \in Nat, due' = due + d,
         Made' + Outstanding' = Made + Outstanding + d,
         Heard' + Outstanding' = Heard + Outstanding + d
  PROVE  Counted'
<1>1. /\ eventMethods * plan.signals \in Nat /\ due \in Nat /\ plan \in Plans /\ Taken \in Nat
  BY TestNumbers
<1>2. Cardinality(Asked(plan, Taken)) \in Nat /\ Cardinality(Told(plan, Taken)) \in Nat
  BY <1>1, OneMorePack
<1>3. PICK a \in Nat, c \in Nat, P \in Nat, z \in Nat :
        /\ a = Cardinality(Asked(plan, Taken)) /\ c = Cardinality(Told(plan, Taken))
        /\ P = eventMethods * plan.signals /\ z = due
  BY <1>1, <1>2
<1>4. Made + Outstanding = a + P + z /\ Heard + Outstanding = c + P + z
  BY <1>3 DEF Counted
<1>5. Made' + Outstanding' = a + P + due' /\ Heard' + Outstanding' = c + P + due'
  BY <1>3, <1>4
<1>6. /\ Cardinality(Asked(plan', Taken')) = a /\ Cardinality(Told(plan', Taken')) = c
      /\ eventMethods' * plan'.signals = P
  BY <1>3
<1>7. QED
  BY <1>5, <1>6 DEF Counted

LEMMA MadeType ==
  ASSUME TestTypeOK, InWorkQ
  PROVE  Made \in Nat /\ Heard \in Nat
<1>1. /\ Len(answers) \in Nat /\ Len(doneQ) \in Nat /\ Len(eventQ) \in Nat /\ changeCount \in Nat
  BY TestNumbers
<1>2. /\ Bit(instance \in {"prepare", "deliver"} /\ pWorkDone.send) \in Nat
      /\ Bit(instance \in {"prepare", "deliver", "change"} /\ pWorkDone.notify) \in Nat
  BY DEF Bit
<1>3. QED
  BY <1>1, <1>2 DEF Made, Heard

\* The data items stay where they are.
LEMMA ItemsStay ==
  ASSUME Announced, UNCHANGED <<plan, items, itemQ, due>>, Taken' = Taken,
         OnlyPacks => /\ Working' => pWorkDone'.id # 0
                      /\ (instance' \in {"deliver", "change", "queue item"}
                          /\ pWorkDone'.notify /\ pWorkDone'.inCallback) =>
                           callback'.item = pWorkDone'.item
                      /\ (Working' /\ pWorkDone'.notify) <=> (Working /\ pWorkDone.notify)
  PROVE  Announced'
<1>1. OnlyPacks' = OnlyPacks /\ \A j : ItemAt(j)' = ItemAt(j)
  BY DEF OnlyPacks, ItemAt
<1>2. OnlyPacks => Bit(Working' /\ pWorkDone'.notify) = Bit(Working /\ pWorkDone.notify)
  BY DEF Bit
<1>3. QED
  BY <1>1, <1>2 DEF Announced, Working

LEMMA PerformEventKept ==
  ASSUME TestInv, Announced, PerformEvent, tester # "over"
  PROVE  TestInv' /\ Announced'
<1>1. TestTypeOK /\ InWorkQ /\ InHand /\ Replies /\ Signalled /\ Attended /\ Counted /\ TestOver
  BY DEF TestInv
<1>2. /\ instance = "wait" /\ Ready # {} /\ signals' = [signals EXCEPT ![FirstReady] = @ - 1]
      /\ pWorkDone' = [NewPack EXCEPT !.send = TRUE, !.notify = TRUE, !.useDefaultQ = FALSE]
      /\ instance' = "prepare"
      /\ UNCHANGED <<workQ, doneQ, eventQ, itemQ, callback, changeCount, listed, eventMethods, due>>
      /\ UNCHANGED testerVars
  BY PackForms DEF PerformEvent, queueVarsT, eventVars
<1>3. /\ plan' = plan /\ tester' = tester /\ sent' = sent /\ answers' = answers /\ items' = items
      /\ TestOver'
  BY <1>2, InstanceLeaves
<1>4. TestTypeOK'
  BY <1>1, TestTypeKept DEF TestNext, InstanceStep
<1>5. InWorkQ' /\ Taken' = Taken
  BY <1>1, <1>2, <1>3, PacksStay
<1>6. pWorkDone'.id = 0 /\ pWorkDone'.send = TRUE /\ pWorkDone'.notify = TRUE
  BY <1>2, PackForms DEF PackType
<1>7. InHand'
  BY <1>2, <1>6 DEF InHand, Working
<1>8. Latest' = Latest
  BY <1>2, <1>5, <1>6 DEF Latest
<1>9. Replies'
  BY <1>1, <1>2, <1>3, <1>8 DEF Replies
<1>10. /\ eventMethods \in Nat /\ eventMethods <= MAX_EVENT_METHODS /\ MAX_EVENT_METHODS \in Nat
       /\ plan.signals \in Nat /\ Outstanding \in Nat /\ due \in Nat
  BY <1>1, TestNumbers
<1>11. PICK e \in 1..MAX_EVENT_METHODS : e = FirstReady /\ e \in 1..eventMethods /\ signals[e] > 0
  BY <1>1, <1>2, FirstIsReady
<1>12. /\ signals \in [1..MAX_EVENT_METHODS -> Nat] /\ signals[e] \in Nat /\ signals[e] <= plan.signals
       /\ \A k \in 1..MAX_EVENT_METHODS : signals[k] <= plan.signals
       /\ tester \notin Preparing
  <2>1. signals \in [1..MAX_EVENT_METHODS -> Nat]
    BY <1>1 DEF TestTypeOK
  <2>2. DOMAIN signals = 1..MAX_EVENT_METHODS /\ signals[e] \in Nat
    BY <2>1
  <2>3. \A k \in 1..MAX_EVENT_METHODS : signals[k] <= plan.signals
    BY <1>1, <2>2 DEF Signalled
  <2>4. tester \in Preparing => signals[e] = 0
    BY <1>1, <2>2 DEF Signalled
  <2>5. QED
    BY <1>11, <2>1, <2>2, <2>3, <2>4
<1>13. /\ signals' = [signals EXCEPT ![e] = @ - 1] /\ signals' \in [1..MAX_EVENT_METHODS -> Nat]
       /\ Outstanding = Outstanding' + 1 /\ Outstanding' \in Nat
  <2>1. signals' = [signals EXCEPT ![e] = @ - 1]
    BY <1>2, <1>11
  <2>2. PICK f : f = [signals EXCEPT ![e] = @ - 1]
    OBVIOUS
  <2>3. /\ f \in [1..MAX_EVENT_METHODS -> Nat]
        /\ Cardinality(Owed(eventMethods, plan.signals, signals))
             = Cardinality(Owed(eventMethods, plan.signals, f)) + 1
        /\ Cardinality(Owed(eventMethods, plan.signals, f)) \in Nat
    <3>1. /\ eventMethods \in Nat /\ plan.signals \in Nat /\ e \in 1..eventMethods
          /\ signals[e] \in Nat \ {0} /\ signals[e] <= plan.signals
          /\ signals[e] - 1 \in Nat /\ f[e] = signals[e] - 1
          /\ \A d \in 1..eventMethods : d # e => f[d] = signals[d]
      BY <1>10, <1>11, <1>12, <2>2
    <3>2. Cardinality(Owed(eventMethods, plan.signals, signals))
            = Cardinality(Owed(eventMethods, plan.signals, f)) + 1
      BY <3>1, OneSignalLess
    <3>2a. f \in [1..MAX_EVENT_METHODS -> Nat]
      BY <1>12, <2>2, <3>1
    <3>3. Cardinality(Owed(eventMethods, plan.signals, f)) \in Nat
      BY <3>1, OwedCount
    <3>4. QED
      BY <3>2, <3>2a, <3>3
  <2>4. /\ Outstanding = Cardinality(Owed(eventMethods, plan.signals, signals))
        /\ Outstanding' = Cardinality(Owed(eventMethods, plan.signals, f))
    BY <1>2, <1>3, <1>12, <2>1, <2>2 DEF Outstanding
  <2>5. QED
    BY <2>1, <2>2, <2>3, <2>4
<1>14. Signalled'
  <2>1. ASSUME NEW k \in 1..MAX_EVENT_METHODS PROVE signals'[k] <= plan.signals
    <3>1. signals[k] \in Nat /\ signals[k] <= plan.signals
      BY <1>12
    <3>2. CASE k = e
      BY <1>10, <1>12, <1>13, <3>1, <3>2
    <3>3. CASE k # e
      BY <1>12, <1>13, <3>1, <3>3
    <3>4. QED
      BY <3>2, <3>3
  <2>2. DOMAIN signals' = 1..MAX_EVENT_METHODS
    BY <1>13
  <2>3. QED
    BY <1>1, <1>2, <1>3, <1>12, <2>1, <2>2 DEF Signalled
<1>14a. Attended'
  <2>1. ASSUME NEW k \in 1..eventMethods, signals'[k] # plan.signals PROVE k \in listed
    <3>1. CASE k = e
      BY <1>2, <1>11, <3>1, FirstIsReady, <1>1 DEF Ready
    <3>2. CASE k # e
      <4>1. signals'[k] = signals[k]
        BY <1>12, <1>13, <3>2
      <4>2. QED
        BY <1>1, <1>2, <1>12, <2>1, <4>1 DEF Attended
    <3>3. QED
      BY <3>1, <3>2
  <2>2. QED
    BY <1>2, <1>3, <2>1 DEF Attended
<1>15. Counted'
  <2>1. Made \in Nat /\ Heard \in Nat /\ Outstanding' \in Nat
    BY <1>1, <1>13, MadeType
  <2>2. Made' = Made + 1 /\ Heard' = Heard + 1
    <3>1. /\ Bit(instance \in {"prepare", "deliver"} /\ pWorkDone.send) = 0
          /\ Bit(instance \in {"prepare", "deliver", "change"} /\ pWorkDone.notify) = 0
          /\ Bit(instance \in {"prepare", "deliver"} /\ pWorkDone.send)' = 1
          /\ Bit(instance \in {"prepare", "deliver", "change"} /\ pWorkDone.notify)' = 1
      BY <1>2, <1>6 DEF Bit
    <3>2. Len(answers) \in Nat /\ Len(doneQ) \in Nat /\ Len(eventQ) \in Nat /\ changeCount \in Nat
      BY <1>1, TestNumbers
    <3>3. /\ Made = Len(answers) + Len(doneQ) + Len(eventQ) + 0
          /\ Made' = Len(answers) + Len(doneQ) + Len(eventQ) + 1
          /\ Heard = changeCount + 0 /\ Heard' = changeCount + 1
      BY <1>2, <1>3, <3>1 DEF Made, Heard
    <3>4. QED
      BY <3>2, <3>3
  <2>3. /\ Made' \in Nat /\ Heard' \in Nat /\ due' = due + 0
        /\ Made' + Outstanding' = Made + Outstanding + 0
        /\ Heard' + Outstanding' = Heard + Outstanding + 0
    <3>1. PICK o \in Nat, q \in Nat, r \in Nat : o = Outstanding' /\ q = Made /\ r = Heard
      BY <2>1
    <3>2. Outstanding = o + 1 /\ Made' = q + 1 /\ Heard' = r + 1
      BY <1>13, <2>2, <3>1
    <3>3. due' = due /\ due + 0 = due
      BY <1>2, <1>10
    <3>4. q + 1 + o = q + (o + 1) + 0 /\ r + 1 + o = r + (o + 1) + 0
      OBVIOUS
    <3>5. QED
      BY <3>1, <3>2, <3>3, <3>4
  <2>4. QED
    BY <1>1, <1>2, <1>3, <1>5, <2>1, <2>3, CountsMove
<1>16. Announced'
  <2>1. ~OnlyPacks
    BY <1>1, <1>10, <1>11 DEF OnlyPacks, Signalled
  <2>2. QED
    BY <1>3, <2>1 DEF Announced, OnlyPacks, Working
<1>17. QED
  BY <1>3, <1>4, <1>5, <1>7, <1>9, <1>14, <1>14a, <1>15, <1>16 DEF TestInv

\* Steps of the instance without a result in hand.
LEMMA IdleStep ==
  ASSUME TestInv, Announced, TestTypeOK', tester # "over", UNCHANGED testerVars,
         UNCHANGED <<workQ, doneQ, eventQ, itemQ, callback, changeCount, pWorkDone>>,
         UNCHANGED <<eventMethods, signals, due>>,
         ~Working, ~Working', Attended'
  PROVE  TestInv' /\ Announced'
<1>1. TestTypeOK /\ InWorkQ /\ InHand /\ Replies /\ Signalled /\ Attended /\ Counted /\ TestOver
  BY DEF TestInv
<1>2. /\ plan' = plan /\ tester' = tester /\ sent' = sent /\ answers' = answers /\ items' = items
      /\ TestOver'
  BY InstanceLeaves
<1>3. InWorkQ' /\ Taken' = Taken
  BY <1>1, <1>2, PacksStay
<1>4. Signalled' /\ Outstanding' = Outstanding
  BY <1>1, <1>2 DEF Signalled, Outstanding
<1>5. InHand' /\ Latest' = Latest
  BY <1>3 DEF InHand, Latest, Working
<1>6. Replies'
  BY <1>1, <1>2, <1>5 DEF Replies
<1>7. Counted'
  <2>1. Made' = Made /\ Heard' = Heard
    BY <1>2 DEF Made, Heard, Bit, Working
  <2>2. QED
    BY <1>1, <1>2, <1>3, <1>4, <2>1 DEF Counted
<1>8. Announced'
  <2>1. /\ ~(instance' \in {"deliver", "change", "queue item"})
        /\ (Working' /\ pWorkDone'.notify) <=> (Working /\ pWorkDone.notify)
    BY DEF Working
  <2>2. QED
    BY <1>2, <1>3, <2>1, ItemsStay
<1>9. QED
  BY <1>1, <1>2, <1>3, <1>4, <1>5, <1>6, <1>7, <1>8 DEF TestInv

LEMMA TurnKept ==
  ASSUME TestInv, Announced, BeginTurn \/ ScanSlot \/ EndScan, tester # "over"
  PROVE  TestInv' /\ Announced'
<1>1. TestTypeOK /\ InWorkQ /\ Attended
  BY DEF TestInv
<1>2. /\ UNCHANGED <<workQ, doneQ, eventQ, itemQ, callback, changeCount, pWorkDone>>
      /\ UNCHANGED <<eventMethods, signals, due>> /\ UNCHANGED testerVars
      /\ plan' = plan /\ tester' = tester
      /\ ~Working /\ ~Working'
  BY DEF BeginTurn, ScanSlot, EndScan, queueVarsT, testerVars, Working
<1>3. TestTypeOK'
  BY <1>1, TestTypeKept DEF TestNext, InstanceStep
<1>4. eventMethods \in Nat /\ eventMethods <= MAX_EVENT_METHODS /\ MAX_EVENT_METHODS \in Nat
  BY <1>1, TestNumbers
<1>5. scan \in 1..(MAX_EVENT_METHODS + 1)
  BY <1>1 DEF TestTypeOK
<1>6. ASSUME tester \notin Preparing, NEW e \in 1..eventMethods, signals[e] # plan.signals
      PROVE  e \in listed' \/ (instance' = "scan" /\ scan' <= e)
  <2>1. e \in listed \/ (instance = "scan" /\ scan <= e)
    BY <1>1, <1>6 DEF Attended
  <2>2. CASE BeginTurn
    BY <1>4, <2>1, <2>2 DEF BeginTurn, eventVars
  <2>3. CASE ScanSlot
    BY <1>4, <1>5, <2>1, <2>3 DEF ScanSlot
  <2>4. CASE EndScan
    BY <1>4, <1>5, <2>1, <2>4 DEF EndScan, eventVars
  <2>5. QED
    BY <2>2, <2>3, <2>4
<1>7. Attended'
  BY <1>2, <1>6 DEF Attended
<1>8. QED
  BY <1>2, <1>3, <1>7, IdleStep

LEMMA PeriodKept ==
  ASSUME TestInv, Announced, PeriodEnds, tester # "over"
  PROVE  TestInv' /\ Announced'
<1>1. TestTypeOK /\ InWorkQ /\ InHand /\ Replies /\ Signalled /\ Attended /\ Counted /\ TestOver
  BY DEF TestInv
<1>2. /\ instance = "wait"
      /\ \/ /\ plan.periodic /\ due' = due + 1 /\ instance' = "prepare"
            /\ pWorkDone' = [NewPack EXCEPT !.send = TRUE, !.notify = TRUE]
         \/ instance' = "turn" /\ UNCHANGED <<due, pWorkDone>>
      /\ UNCHANGED <<workQ, doneQ, eventQ, itemQ, callback, changeCount, listed, eventMethods, signals>>
      /\ UNCHANGED testerVars
  BY PackForms DEF PeriodEnds, queueVarsT, eventVars
<1>3. /\ plan' = plan /\ tester' = tester /\ sent' = sent /\ answers' = answers /\ items' = items
      /\ TestOver'
  BY <1>2, InstanceLeaves
<1>4. TestTypeOK'
  BY <1>1, TestTypeKept DEF TestNext, InstanceStep
<1>5. InWorkQ' /\ Taken' = Taken
  BY <1>1, <1>2, <1>3, PacksStay
<1>6. Signalled' /\ Attended' /\ Outstanding' = Outstanding
  BY <1>1, <1>2, <1>3, SignalsStay
<1>7. CASE instance' = "turn" /\ UNCHANGED <<due, pWorkDone>>
  <2>1. ~Working /\ ~Working'
    BY <1>2, <1>7 DEF Working
  <2>2. QED
    BY <1>2, <1>4, <1>6, <1>7, <2>1, IdleStep
<1>8. CASE /\ plan.periodic /\ due' = due + 1 /\ instance' = "prepare"
           /\ pWorkDone' = [NewPack EXCEPT !.send = TRUE, !.notify = TRUE]
  <2>1. pWorkDone'.id = 0 /\ pWorkDone'.send = TRUE /\ pWorkDone'.notify = TRUE
    BY <1>8, PackForms DEF PackType
  <2>2. InHand'
    BY <1>8, <2>1 DEF InHand, Working
  <2>3. Latest' = Latest
    BY <1>2, <1>5, <1>8, <2>1 DEF Latest
  <2>4. Replies'
    BY <1>1, <1>2, <1>3, <2>3 DEF Replies
  <2>5. Counted'
    <3>1. Made \in Nat /\ Heard \in Nat /\ Outstanding \in Nat
      BY <1>1, MadeType, TestNumbers
    <3>2. Made' = Made + 1 /\ Heard' = Heard + 1
      <4>1. /\ Bit(instance \in {"prepare", "deliver"} /\ pWorkDone.send) = 0
            /\ Bit(instance \in {"prepare", "deliver", "change"} /\ pWorkDone.notify) = 0
            /\ Bit(instance \in {"prepare", "deliver"} /\ pWorkDone.send)' = 1
            /\ Bit(instance \in {"prepare", "deliver", "change"} /\ pWorkDone.notify)' = 1
        BY <1>2, <1>8, <2>1 DEF Bit
      <4>2. Len(answers) \in Nat /\ Len(doneQ) \in Nat /\ Len(eventQ) \in Nat /\ changeCount \in Nat
        BY <1>1, TestNumbers
      <4>3. /\ Made = Len(answers) + Len(doneQ) + Len(eventQ) + 0
            /\ Made' = Len(answers) + Len(doneQ) + Len(eventQ) + 1
            /\ Heard = changeCount + 0 /\ Heard' = changeCount + 1
        BY <1>2, <1>3, <4>1 DEF Made, Heard
      <4>4. QED
        BY <4>2, <4>3
    <3>3. /\ Made' \in Nat /\ Heard' \in Nat /\ Outstanding' \in Nat
          /\ Made' + Outstanding' = Made + Outstanding + 1
          /\ Heard' + Outstanding' = Heard + Outstanding + 1
      BY <1>6, <3>1, <3>2
    <3>4. QED
      BY <1>1, <1>2, <1>3, <1>5, <1>8, <3>1, <3>3, CountsMove
  <2>6. Announced'
    BY <1>3, <1>8 DEF Announced, OnlyPacks, Working
  <2>7. QED
    BY <1>3, <1>4, <1>5, <1>6, <2>2, <2>4, <2>5, <2>6 DEF TestInv
<1>9. QED
  BY <1>2, <1>7, <1>8

LEMMA PrepareKept ==
  ASSUME TestInv, Announced, PrepareCallback, tester # "over"
  PROVE  TestInv' /\ Announced'
<1>1. TestTypeOK /\ InWorkQ /\ InHand /\ Replies /\ Signalled /\ Attended /\ Counted /\ TestOver
  BY DEF TestInv
<1>2. /\ instance = "prepare" /\ instance' = "deliver"
      /\ callback' = IF ~pWorkDone.notify THEN callback
                     ELSE [instruction |-> pWorkDone.instruction,
                           item |-> IF pWorkDone.inCallback THEN pWorkDone.item ELSE callback.item]
      /\ UNCHANGED <<workQ, doneQ, eventQ, itemQ, changeCount, pWorkDone, listed, eventMethods, signals, due>>
      /\ UNCHANGED testerVars
  BY DEF PrepareCallback, queueVarsT, eventVars
<1>3. /\ plan' = plan /\ tester' = tester /\ sent' = sent /\ answers' = answers /\ items' = items
      /\ TestOver'
  BY <1>2, InstanceLeaves
<1>4. TestTypeOK'
  BY <1>1, TestTypeKept DEF TestNext, InstanceStep
<1>5. InWorkQ' /\ Taken' = Taken
  BY <1>1, <1>2, <1>3, PacksStay
<1>6. Signalled' /\ Attended' /\ Outstanding' = Outstanding
  BY <1>1, <1>2, <1>3, SignalsStay
<1>7. InHand' /\ Latest' = Latest
  BY <1>1, <1>2, <1>3, <1>5 DEF InHand, Latest, Working
<1>8. Replies'
  BY <1>1, <1>2, <1>3, <1>7 DEF Replies
<1>9. Counted'
  <2>1. Made' = Made /\ Heard' = Heard
    BY <1>2, <1>3 DEF Made, Heard, Bit
  <2>2. QED
    BY <1>1, <1>2, <1>3, <1>5, <1>6, <2>1 DEF Counted
<1>10. Announced'
  <2>1. pWorkDone'.notify /\ pWorkDone'.inCallback => callback'.item = pWorkDone'.item
    BY <1>2
  <2>2. OnlyPacks => pWorkDone'.id # 0
    BY <1>2 DEF Announced, Working
  <2>3. (Working' /\ pWorkDone'.notify) <=> (Working /\ pWorkDone.notify)
    BY <1>2 DEF Working
  <2>4. QED
    BY <1>2, <1>3, <1>5, <2>1, <2>2, <2>3, ItemsStay
<1>11. QED
  BY <1>3, <1>4, <1>5, <1>6, <1>7, <1>8, <1>9, <1>10 DEF TestInv

\* The result goes to one of the queues, or is deleted.
LEMMA DeliverKept ==
  ASSUME TestInv, Announced, Deliver, tester # "over"
  PROVE  TestInv' /\ Announced'
<1>1. TestTypeOK /\ InWorkQ /\ InHand /\ Replies /\ Signalled /\ Attended /\ Counted /\ TestOver
  BY DEF TestInv
<1>2. /\ instance = "deliver" /\ instance' = IF pWorkDone.notify THEN "change" ELSE "turn"
      /\ doneQ' = IF pWorkDone.send /\ pWorkDone.useDefaultQ THEN Append(doneQ, pWorkDone) ELSE doneQ
      /\ eventQ' = IF pWorkDone.send /\ ~pWorkDone.useDefaultQ THEN Append(eventQ, pWorkDone) ELSE eventQ
      /\ UNCHANGED <<workQ, itemQ, callback, changeCount, pWorkDone, listed, eventMethods, signals, due>>
      /\ UNCHANGED testerVars
  BY DEF Deliver, eventVars
<1>3. /\ plan' = plan /\ tester' = tester /\ sent' = sent /\ answers' = answers /\ items' = items
      /\ TestOver'
  BY <1>2, InstanceLeaves
<1>4. TestTypeOK'
  BY <1>1, TestTypeKept DEF TestNext, InstanceStep
<1>5. InWorkQ' /\ Taken' = Taken
  BY <1>1, <1>2, <1>3, PacksStay
<1>6. Signalled' /\ Attended' /\ Outstanding' = Outstanding
  BY <1>1, <1>2, <1>3, SignalsStay
<1>7. InHand'
  BY <1>1, <1>2, <1>3, <1>5 DEF InHand, Working
<1>8. /\ Taken \in Nat /\ plan \in Plans /\ Taken <= Len(plan.packs)
      /\ Len(answers) \in Nat /\ Len(doneQ) \in Nat /\ Len(eventQ) \in Nat
  <2>1. /\ Taken \in Nat /\ plan \in Plans /\ Taken <= sent /\ sent <= Len(plan.packs)
        /\ sent \in Nat /\ Len(plan.packs) \in Nat
        /\ Len(answers) \in Nat /\ Len(doneQ) \in Nat /\ Len(eventQ) \in Nat
    BY <1>1, TestNumbers
  <2>2. Taken <= Len(plan.packs)
    BY <2>1
  <2>3. QED
    BY <2>1, <2>2
<1>9. /\ pWorkDone \in PackType /\ doneQ \in Seq(PackType) /\ eventQ \in Seq(PackType)
      /\ pWorkDone.id \in Nat
  BY <1>1 DEF TestTypeOK, PackType
<1>10. Latest' = Taken
  BY <1>2, <1>5 DEF Latest
<1>11. Replies'
  <2>1. /\ Numbers(answers) \cup Numbers(doneQ) = Asked(plan, Latest) /\ Numbers(eventQ) = {}
        /\ Rising(answers) /\ Rising(doneQ) /\ \A i \in Numbers(answers) : \A j \in Numbers(doneQ) : i < j
        /\ OfPacks(answers, plan) /\ OfPacks(doneQ, plan)
    BY <1>1 DEF Replies
  <2>2. CASE pWorkDone.id = 0
    <3>1. Latest = Taken
      BY <2>2 DEF Latest
    <3>2. Numbers(doneQ') = Numbers(doneQ) /\ Rising(doneQ') /\ OfPacks(doneQ', plan)
      <4>1. CASE doneQ' = doneQ
        BY <2>1, <4>1
      <4>2. CASE doneQ' = Append(doneQ, pWorkDone)
        <5>1. Numbers(doneQ') = Numbers(doneQ) \cup ({0} \ {0})
          BY <1>9, <2>2, <4>2, ReplyAppended
        <5>2. Rising(doneQ')
          BY <1>9, <2>1, <2>2, <4>2, ReplyAppended
        <5>3. OfPacks(doneQ', plan)
          BY <1>9, <2>1, <2>2, <4>2, ReplyAppended
        <5>4. QED
          BY <5>1, <5>2, <5>3
      <4>3. QED
        BY <1>2, <4>1, <4>2
    <3>3. Numbers(eventQ') = {}
      BY <1>2, <1>9, <2>1, <2>2, ReplyAppended
    <3>4. QED
      BY <1>3, <1>10, <2>1, <3>1, <3>2, <3>3 DEF Replies
  <2>3. CASE pWorkDone.id # 0
    <3>1. /\ pWorkDone.id = Taken /\ pWorkDone.instruction = plan.packs[Taken].instruction
          /\ pWorkDone.send = plan.packs[Taken].send
          /\ pWorkDone.useDefaultQ = plan.packs[Taken].useDefaultQ
      BY <1>1, <1>2, <2>3 DEF InHand, Working
    <3>2. PICK n \in Nat : Taken = n + 1
      <4>1. Taken \in Nat /\ Taken # 0
        BY <1>8, <2>3, <3>1
      <4>2. PICK m \in Nat : m = Taken /\ m # 0
        BY <4>1
      <4>3. m - 1 \in Nat /\ m = (m - 1) + 1
        BY <4>2
      <4>4. QED
        BY <4>2, <4>3
    <3>3. Latest = n
      BY <1>2, <2>3, <3>2 DEF Latest
    <3>4. Asked(plan, n + 1) = Asked(plan, n) \cup (IF pWorkDone.send THEN {n + 1} ELSE {})
      BY <1>8, <3>1, <3>2, OneMorePack
    <3>5. plan.packs[n + 1].useDefaultQ = TRUE
      <4>1. n + 1 \in 1..Len(plan.packs)
        <5>1. Len(plan.packs) \in Nat
          BY <1>8, PlanPacks
        <5>2. QED
          BY <1>8, <3>2, <5>1
      <4>2. QED
        BY <1>8, <4>1, PlanPacks
    <3>6. eventQ' = eventQ
      BY <1>2, <3>1, <3>2, <3>5
    <3>7. \A i \in Numbers(answers) \cup Numbers(doneQ) : i < n + 1
      BY <2>1, <3>3 DEF Asked
    <3>8. CASE pWorkDone.send
      <4>1. doneQ' = Append(doneQ, pWorkDone)
        BY <1>2, <3>1, <3>2, <3>5, <3>8
      <4>2. pWorkDone.id = n + 1 /\ n + 1 # 0
        BY <3>1, <3>2
      <4>3. /\ Numbers(doneQ') = Numbers(doneQ) \cup {n + 1}
            /\ Rising(doneQ') /\ OfPacks(doneQ', plan)
        <5>1. /\ Numbers(doneQ') = Numbers(doneQ) \cup ({n + 1} \ {0})
              /\ Rising(doneQ') /\ OfPacks(doneQ', plan)
          BY <1>9, <2>1, <3>1, <3>2, <3>7, <4>1, <4>2, ReplyAppended
        <5>2. QED
          BY <4>2, <5>1
      <4>4. Numbers(answers) \cup Numbers(doneQ') = Asked(plan, n + 1)
        BY <2>1, <3>3, <3>4, <3>8, <4>3
      <4>5. \A i \in Numbers(answers) : \A j \in Numbers(doneQ') : i < j
        BY <2>1, <3>7, <4>3
      <4>6. QED
        BY <1>3, <1>10, <2>1, <3>2, <3>6, <4>3, <4>4, <4>5 DEF Replies
    <3>9. CASE ~pWorkDone.send
      <4>1. doneQ' = doneQ /\ Asked(plan, n + 1) = Asked(plan, n)
        BY <1>2, <3>4, <3>9
      <4>2. QED
        BY <1>3, <1>10, <2>1, <3>2, <3>3, <3>6, <4>1 DEF Replies
    <3>10. QED
      BY <3>8, <3>9
  <2>4. QED
    BY <2>2, <2>3
<1>12. Counted'
  <2>1. Heard' = Heard
    BY <1>2 DEF Heard, Bit
  <2>2. Made' = Made
    <3>1. Bit(instance \in {"prepare", "deliver"} /\ pWorkDone.send)' = 0
      BY <1>2 DEF Bit
    <3>2. CASE pWorkDone.send
      <4>1. Bit(instance \in {"prepare", "deliver"} /\ pWorkDone.send) = 1
        BY <1>2, <3>2 DEF Bit
      <4>2. \/ Len(doneQ') = Len(doneQ) + 1 /\ Len(eventQ') = Len(eventQ)
            \/ Len(doneQ') = Len(doneQ) /\ Len(eventQ') = Len(eventQ) + 1
        BY <1>2, <1>9, <3>2, ReplyAppended
      <4>3. Made' = Len(answers) + Len(doneQ') + Len(eventQ') + 0
        BY <1>3, <3>1 DEF Made
      <4>4. Made = Len(answers) + Len(doneQ) + Len(eventQ) + 1
        BY <4>1 DEF Made
      <4>5. QED
        BY <1>8, <4>2, <4>3, <4>4
    <3>3. CASE ~pWorkDone.send
      <4>1. Bit(instance \in {"prepare", "deliver"} /\ pWorkDone.send) = 0
        BY <1>2, <3>3 DEF Bit
      <4>2. doneQ' = doneQ /\ eventQ' = eventQ
        BY <1>2, <3>3
      <4>3. QED
        BY <1>3, <3>1, <4>1, <4>2 DEF Made
    <3>4. QED
      BY <3>2, <3>3
  <2>3. QED
    BY <1>1, <1>2, <1>3, <1>5, <1>6, <2>1, <2>2 DEF Counted
<1>13. Announced'
  <2>1. (Working' /\ pWorkDone'.notify) <=> (Working /\ pWorkDone.notify)
    BY <1>2 DEF Working
  <2>2. OnlyPacks => pWorkDone'.id # 0
    BY <1>2 DEF Announced, Working
  <2>3. OnlyPacks => (pWorkDone'.notify /\ pWorkDone'.inCallback => callback'.item = pWorkDone'.item)
    BY <1>2 DEF Announced, Working
  <2>4. QED
    BY <1>2, <1>3, <1>5, <2>1, <2>2, <2>3, ItemsStay
<1>14. QED
  BY <1>3, <1>4, <1>5, <1>6, <1>7, <1>11, <1>12, <1>13 DEF TestInv

LEMMA ChangeKept ==
  ASSUME TestInv, Announced, OnChange, tester # "over"
  PROVE  TestInv' /\ Announced'
<1>1. TestTypeOK /\ InWorkQ /\ InHand /\ Replies /\ Signalled /\ Attended /\ Counted /\ TestOver
  BY DEF TestInv
<1>2. /\ instance = "change" /\ instance' = "queue item" /\ changeCount' = changeCount + 1
      /\ UNCHANGED <<workQ, doneQ, eventQ, itemQ, callback, pWorkDone, listed, eventMethods, signals, due>>
      /\ UNCHANGED testerVars
  BY DEF OnChange, queueVarsT, eventVars
<1>3. /\ plan' = plan /\ tester' = tester /\ sent' = sent /\ answers' = answers /\ items' = items
      /\ TestOver'
  BY <1>2, InstanceLeaves
<1>4. TestTypeOK'
  BY <1>1, TestTypeKept DEF TestNext, InstanceStep
<1>5. InWorkQ' /\ Taken' = Taken
  BY <1>1, <1>2, <1>3, PacksStay
<1>6. Signalled' /\ Attended' /\ Outstanding' = Outstanding
  BY <1>1, <1>2, <1>3, SignalsStay
<1>7. InHand' /\ Latest' = Latest
  BY <1>1, <1>2, <1>3, <1>5 DEF InHand, Latest, Working
<1>8. Replies'
  BY <1>1, <1>2, <1>3, <1>7 DEF Replies
<1>9. Counted'
  <2>1. Made' = Made
    BY <1>2, <1>3 DEF Made, Bit
  <2>2. Heard' = Heard
    <3>1. pWorkDone.notify
      BY <1>1, <1>2 DEF InHand, Working
    <3>2. /\ Bit(instance \in {"prepare", "deliver", "change"} /\ pWorkDone.notify) = 1
          /\ Bit(instance \in {"prepare", "deliver", "change"} /\ pWorkDone.notify)' = 0
      BY <1>2, <3>1 DEF Bit
    <3>3. changeCount \in Nat
      BY <1>1, TestNumbers
    <3>4. Heard = changeCount + 1 /\ Heard' = changeCount + 1 + 0
      BY <1>2, <3>2 DEF Heard
    <3>5. QED
      BY <3>3, <3>4
  <2>3. QED
    BY <1>1, <1>2, <1>3, <1>5, <1>6, <2>1, <2>2 DEF Counted
<1>10. Announced'
  <2>1. OnlyPacks => pWorkDone'.id # 0
    BY <1>2 DEF Announced, Working
  <2>2. OnlyPacks => (pWorkDone'.notify /\ pWorkDone'.inCallback => callback'.item = pWorkDone'.item)
    BY <1>2 DEF Announced, Working
  <2>3. (Working' /\ pWorkDone'.notify) <=> (Working /\ pWorkDone.notify)
    BY <1>2 DEF Working
  <2>4. QED
    BY <1>2, <1>3, <1>5, <2>1, <2>2, <2>3, ItemsStay
<1>11. QED
  BY <1>3, <1>4, <1>5, <1>6, <1>7, <1>8, <1>9, <1>10 DEF TestInv

\* The data item goes to the end of its queue: that of the pack taken last.
LEMMA ItemKept ==
  ASSUME TestInv, Announced, OnChangeQueue, tester # "over"
  PROVE  TestInv' /\ Announced'
<1>1. TestTypeOK /\ InWorkQ /\ InHand /\ Replies /\ Signalled /\ Attended /\ Counted /\ TestOver
  BY DEF TestInv
<1>2. /\ instance = "queue item" /\ instance' = "turn" /\ itemQ' = Append(itemQ, callback.item)
      /\ UNCHANGED <<workQ, doneQ, eventQ, callback, changeCount, pWorkDone, listed, eventMethods, signals, due>>
      /\ UNCHANGED testerVars
  BY DEF OnChangeQueue, eventVars
<1>3. /\ plan' = plan /\ tester' = tester /\ sent' = sent /\ answers' = answers /\ items' = items
      /\ TestOver'
  BY <1>2, InstanceLeaves
<1>4. TestTypeOK'
  BY <1>1, TestTypeKept DEF TestNext, InstanceStep
<1>5. InWorkQ' /\ Taken' = Taken
  BY <1>1, <1>2, <1>3, PacksStay
<1>6. Signalled' /\ Attended' /\ Outstanding' = Outstanding
  BY <1>1, <1>2, <1>3, SignalsStay
<1>7. InHand' /\ Latest' = Latest
  BY <1>1, <1>2, <1>3, <1>5 DEF InHand, Latest, Working
<1>8. Replies'
  BY <1>1, <1>2, <1>3, <1>7 DEF Replies
<1>9. Counted'
  <2>1. Made' = Made /\ Heard' = Heard
    BY <1>2, <1>3 DEF Made, Heard, Bit
  <2>2. QED
    BY <1>1, <1>2, <1>3, <1>5, <1>6, <2>1 DEF Counted
<1>10. Announced'
  <2>1. SUFFICES ASSUME OnlyPacks PROVE Announced'
    BY <1>3 DEF Announced, OnlyPacks, Working
  <2>2. /\ due = 0 /\ pWorkDone.id # 0 /\ pWorkDone.notify
        /\ pWorkDone.inCallback => callback.item = pWorkDone.item
    BY <1>1, <1>2, <2>1 DEF Announced, InHand, Working
  <2>3. PICK p \in Nat, q \in Nat : p = Len(items) /\ q = Len(itemQ)
    BY <1>1, TestNumbers
  <2>4. /\ Len(itemQ') = q + 1 /\ itemQ'[q + 1] = callback.item
        /\ \A i \in 1..q : itemQ'[i] = itemQ[i]
    <3>1. itemQ \in Seq(Things) /\ callback.item \in Things
      BY <1>1 DEF TestTypeOK
    <3>2. PICK x : x = callback.item
      OBVIOUS
    <3>3. /\ Len(Append(itemQ, x)) = Len(itemQ) + 1 /\ Append(itemQ, x)[Len(itemQ) + 1] = x
          /\ \A i \in 1..Len(itemQ) : Append(itemQ, x)[i] = itemQ[i]
      BY <3>1, <3>2, AppendProperties
    <3>4. QED
      BY <1>2, <2>3, <3>2, <3>3
  <2>5. /\ pWorkDone.id = Taken /\ plan.packs[Taken].notify
        /\ pWorkDone.inCallback = plan.packs[Taken].inCallback
        /\ pWorkDone.item = plan.packs[Taken].item
    BY <1>1, <1>2, <2>2 DEF InHand, Working
  <2>6. plan \in Plans /\ Taken \in Nat /\ Taken <= Len(plan.packs)
    <3>1. /\ plan \in Plans /\ Taken \in Nat /\ Taken <= sent /\ sent <= Len(plan.packs)
          /\ sent \in Nat /\ Len(plan.packs) \in Nat
      BY <1>1, TestNumbers
    <3>2. QED
      BY <3>1
  <2>7. PICK n \in Nat : Taken = n + 1
    <3>1. PICK m \in Nat : m = Taken /\ m # 0
      BY <2>2, <2>5, <2>6
    <3>2. m - 1 \in Nat /\ m = (m - 1) + 1
      BY <3>1
    <3>3. QED
      BY <3>1, <3>2
  <2>8. p + q + 1 = Cardinality(Told(plan, Taken))
    <3>1. Bit(Working /\ pWorkDone.notify) = 1
      BY <1>2, <2>2 DEF Bit, Working
    <3>2. QED
      BY <2>1, <2>3, <3>1 DEF Announced, Working
  <2>9. Cardinality(Told(plan, n)) = p + q /\ Told(plan, Taken) = Told(plan, n) \cup {n + 1}
    <3>1. /\ Cardinality(Told(plan, n)) \in Nat
          /\ Told(plan, n + 1) = Told(plan, n) \cup {n + 1}
          /\ Cardinality(Told(plan, n + 1)) = Cardinality(Told(plan, n)) + 1
      BY <2>5, <2>6, <2>7, OneMorePack DEF Bit
    <3>2. QED
      BY <2>7, <2>8, <3>1
  <2>10. ASSUME NEW i \in Told(plan, Taken), plan.packs[i].inCallback
         PROVE  ItemAt(Cardinality(Told(plan, i)))' = plan.packs[i].item
    <3>1. CASE i = n + 1
      <4>1. Cardinality(Told(plan, i)) = p + q + 1
        BY <2>7, <2>8, <3>1
      <4>2. ItemAt(Cardinality(Told(plan, i)))' = itemQ'[q + 1]
        <5>1. ~(p + q + 1 <= p) /\ p + q + 1 - p = q + 1
          OBVIOUS
        <5>2. QED
          BY <1>3, <2>3, <4>1, <5>1 DEF ItemAt
      <4>3. QED
        BY <2>2, <2>4, <2>5, <2>7, <2>10, <3>1, <4>2
    <3>2. CASE i \in Told(plan, n)
      <4>1. /\ i \in Nat /\ IsFiniteSet(Told(plan, n)) /\ Told(plan, i) \subseteq Told(plan, n)
        <5>1. IsFiniteSet(Told(plan, n))
          BY <2>6, OneMorePack
        <5>2. i \in 1..n
          BY <3>2 DEF Told
        <5>3. Told(plan, i) \subseteq Told(plan, n)
          BY <5>2 DEF Told
        <5>4. QED
          BY <5>1, <5>2, <5>3
      <4>2. PICK k \in Nat : k = Cardinality(Told(plan, i)) /\ k <= p + q /\ k # 0
        <5>1. Cardinality(Told(plan, i)) <= p + q
          BY <2>9, <4>1, FS_Subset
        <5>2. IsFiniteSet(Told(plan, i)) /\ i \in Told(plan, i)
          BY <3>2, <4>1, FS_Subset DEF Told
        <5>3. Cardinality(Told(plan, i)) \in Nat /\ Cardinality(Told(plan, i)) # 0
          BY <5>2, FS_CardinalityType, FS_EmptySet
        <5>4. QED
          BY <5>1, <5>3
      <4>3. ItemAt(k) = plan.packs[i].item
        BY <2>1, <2>3, <2>10, <4>2 DEF Announced, Working
      <4>4. ItemAt(k)' = ItemAt(k)
        <5>1. CASE k <= p
          BY <1>3, <2>3, <5>1 DEF ItemAt
        <5>2. CASE ~(k <= p)
          <6>1. k - p \in 1..q
            BY <4>2, <5>2
          <6>2. ItemAt(k) = itemQ[k - p] /\ ItemAt(k)' = itemQ'[k - p]
            BY <1>3, <2>3, <5>2 DEF ItemAt
          <6>3. QED
            BY <2>4, <6>1, <6>2
        <5>3. QED
          BY <5>1, <5>2
      <4>5. ItemAt(Cardinality(Told(plan, i)))' = ItemAt(k)'
        BY <1>3, <4>2 DEF ItemAt
      <4>6. QED
        BY <4>3, <4>4, <4>5
    <3>3. QED
      BY <2>9, <2>10, <3>1, <3>2
  <2>11. Len(items') + Len(itemQ') + Bit(Working' /\ pWorkDone'.notify)
           = Cardinality(Told(plan, Taken))
    <3>1. Bit(Working' /\ pWorkDone'.notify) = 0
      BY <1>2 DEF Bit, Working
    <3>2. p + (q + 1) + 0 = p + q + 1
      OBVIOUS
    <3>3. QED
      BY <1>3, <2>3, <2>4, <2>8, <3>1, <3>2
  <2>12. instance' = "turn" /\ due' = 0
    BY <1>2, <2>2
  <2>13. QED
    BY <1>3, <1>5, <2>10, <2>11, <2>12 DEF Announced, Working
<1>11. QED
  BY <1>3, <1>4, <1>5, <1>6, <1>7, <1>8, <1>9, <1>10 DEF TestInv
-----------------------------------------------------------------------------
\* What the test does leaves the instance alone.
LEMMA HandStays ==
  ASSUME InHand, UNCHANGED <<plan, instance, pWorkDone>>, Taken' = Taken
  PROVE  InHand' /\ Latest' = Latest
BY DEF InHand, Latest, Working

\* Steps of the test that take nothing from a queue.
LEMMA OtherTestStep ==
  ASSUME TestInv, Announced, TestTypeOK', UNCHANGED <<queueVarsT, instanceVars, due>>,
         UNCHANGED <<plan, sent, ids, answers, items>>, Signalled', Attended',
         \/ (Outstanding' = eventMethods' * plan'.signals /\ Outstanding = eventMethods * plan.signals)
         \/ (Outstanding' = Outstanding /\ eventMethods' = eventMethods),
         TestOver'
  PROVE  TestInv' /\ Announced'
<1>1. TestTypeOK /\ InWorkQ /\ InHand /\ Replies /\ Signalled /\ Attended /\ Counted /\ TestOver
  BY DEF TestInv
<1>2. /\ UNCHANGED <<workQ, doneQ, eventQ, itemQ, callback, changeCount, listed, scan, instance, pWorkDone, due>>
      /\ UNCHANGED <<plan, sent, ids, answers, items>>
  BY DEF queueVarsT, instanceVars, eventVars
<1>3. InWorkQ' /\ Taken' = Taken
  BY <1>1, <1>2, PacksStay
<1>4. InHand' /\ Latest' = Latest
  BY <1>1, <1>2, <1>3, HandStays
<1>5. Replies'
  BY <1>1, <1>2, <1>4 DEF Replies
<1>6. Counted'
  <2>1. Made' = Made /\ Heard' = Heard /\ Made \in Nat /\ Heard \in Nat
    BY <1>1, <1>2, MadeType DEF Made, Heard
  <2>2. CASE Outstanding' = Outstanding /\ eventMethods' = eventMethods
    BY <1>1, <1>2, <1>3, <2>1, <2>2 DEF Counted
  <2>3. CASE Outstanding' = eventMethods' * plan'.signals /\ Outstanding = eventMethods * plan.signals
    <3>1. /\ plan.signals \in Nat /\ eventMethods * plan.signals \in Nat /\ due \in Nat
          /\ Taken \in Nat /\ plan \in Plans
      BY <1>1, TestNumbers
    <3>2. eventMethods' \in Nat
      <4>1. eventMethods' \in 0..MAX_EVENT_METHODS /\ MAX_EVENT_METHODS \in Nat
        BY PlanAssumption DEF TestTypeOK
      <4>2. QED
        BY <4>1
    <3>3. eventMethods' * plan.signals \in Nat
      BY <3>1, <3>2, OwedCount
    <3>4. Cardinality(Asked(plan, Taken)) \in Nat /\ Cardinality(Told(plan, Taken)) \in Nat
      BY <3>1, OneMorePack
    <3>5. PICK a \in Nat, c \in Nat, P \in Nat, Q \in Nat, m \in Nat, h \in Nat, z \in Nat :
            /\ a = Cardinality(Asked(plan, Taken)) /\ c = Cardinality(Told(plan, Taken))
            /\ P = eventMethods * plan.signals /\ Q = eventMethods' * plan.signals
            /\ m = Made /\ h = Heard /\ z = due
      BY <2>1, <3>1, <3>3, <3>4
    <3>6. m + P = a + P + z /\ h + P = c + P + z
      BY <1>1, <2>3, <3>5 DEF Counted
    <3>7. m + Q = a + Q + z /\ h + Q = c + Q + z
      BY <3>6
    <3>8. QED
      BY <1>2, <1>3, <2>1, <2>3, <3>5, <3>7 DEF Counted
  <2>4. QED
    BY <2>2, <2>3
<1>7. Announced'
  BY <1>2, <1>3, ItemsStay DEF Announced, Working
<1>8. QED
  BY <1>3, <1>4, <1>5, <1>6, <1>7 DEF TestInv

LEMMA RegisterKept ==
  ASSUME TestInv, Announced, RegisterEvent \/ AskForScan \/ AllRegistered
  PROVE  TestInv' /\ Announced'
<1>1. TestTypeOK /\ InWorkQ /\ Signalled
  BY DEF TestInv
<1>2. /\ tester \in Preparing /\ tester' \in Preparing
      /\ eventMethods' = eventMethods \/ (eventMethods' = eventMethods + 1 /\ eventMethods < plan.events)
      /\ UNCHANGED <<queueVarsT, instanceVars, signals, due, plan, sent, ids, answers, items>>
  BY DEF RegisterEvent, AskForScan, AllRegistered, Preparing
<1>3. TestTypeOK'
  BY <1>1, TestTypeKept DEF TestNext, TestStep
<1>4. plan.events = 0 => eventMethods' = 0
  <2>1. eventMethods \in Nat
    BY <1>1, TestNumbers
  <2>2. plan.events = 0 => eventMethods = 0
    BY <1>1 DEF Signalled
  <2>3. QED
    BY <1>2, <2>1, <2>2
<1>5. Signalled' /\ Attended'
  BY <1>1, <1>2, <1>4 DEF Signalled, Attended
<1>6. Outstanding' = eventMethods' * plan'.signals /\ Outstanding = eventMethods * plan.signals
  BY <1>2 DEF Outstanding
<1>7. TestOver'
  BY <1>2 DEF TestOver, Preparing
<1>8. UNCHANGED <<queueVarsT, instanceVars, due>> /\ UNCHANGED <<plan, sent, ids, answers, items>>
  BY <1>2
<1>9. QED
  BY <1>3, <1>5, <1>6, <1>7, <1>8, OtherTestStep, Zenon

LEMMA SignalKept ==
  ASSUME TestInv, Announced, SignalEvents
  PROVE  TestInv' /\ Announced'
<1>1. TestTypeOK /\ InWorkQ /\ Signalled
  BY DEF TestInv
<1>2. /\ tester = "signal" /\ tester' = "send"
      /\ signals' = [e \in DOMAIN signals |-> IF e <= eventMethods THEN plan.signals ELSE 0]
      /\ UNCHANGED <<queueVarsT, instanceVars, eventMethods, due, plan, sent, ids, answers, items>>
  BY DEF SignalEvents
<1>3. TestTypeOK'
  BY <1>1, TestTypeKept DEF TestNext, TestStep
<1>4. /\ eventMethods \in Nat /\ eventMethods <= MAX_EVENT_METHODS /\ MAX_EVENT_METHODS \in Nat
      /\ plan.signals \in Nat /\ DOMAIN signals = 1..MAX_EVENT_METHODS
  <2>1. signals \in [1..MAX_EVENT_METHODS -> Nat]
    BY <1>1 DEF TestTypeOK
  <2>2. QED
    BY <1>1, <2>1, TestNumbers
<1>5. Signalled'
  <2>1. \A e \in DOMAIN signals' : signals'[e] <= plan.signals
    BY <1>2, <1>4
  <2>2. QED
    BY <1>1, <1>2, <2>1 DEF Signalled, Preparing
<1>5a. Attended'
  BY <1>2, <1>4 DEF Attended
<1>6. Outstanding' = Outstanding
  <2>1. PICK f : f = [e \in DOMAIN signals |-> IF e <= eventMethods THEN plan.signals ELSE 0]
    OBVIOUS
  <2>2. \A e \in 1..eventMethods : f[e] = plan.signals
    BY <1>4, <2>1
  <2>3. Cardinality(Owed(eventMethods, plan.signals, f)) = eventMethods * plan.signals
    BY <1>4, <2>2, OwedCount
  <2>4. Outstanding = eventMethods * plan.signals
    BY <1>2 DEF Outstanding, Preparing
  <2>5. Outstanding' = Cardinality(Owed(eventMethods, plan.signals, f))
    BY <1>2, <2>1 DEF Outstanding, Preparing
  <2>6. QED
    BY <2>3, <2>4, <2>5
<1>7. TestOver'
  BY <1>2 DEF TestOver
<1>8. QED
  BY <1>2, <1>3, <1>5, <1>5a, <1>6, <1>7, OtherTestStep

LEMMA StartKept ==
  ASSUME TestInv, Announced, StartCollecting \/ CollectNothing
  PROVE  TestInv' /\ Announced'
<1>1. TestTypeOK /\ InWorkQ /\ Signalled /\ Attended /\ TestOver
  BY DEF TestInv
<1>2. /\ tester \in {"send", "collect", "item"} /\ tester' \in {"collect", "item", "over"}
      /\ sent = Len(plan.packs)
      /\ UNCHANGED <<queueVarsT, instanceVars, eventMethods, reset, signals, due, plan, sent, ids, answers, items>>
  BY <1>1 DEF StartCollecting, CollectNothing, TestOver
<1>3. TestTypeOK'
  BY <1>1, TestTypeKept DEF TestNext, TestStep
<1>4. Signalled' /\ Attended' /\ Outstanding' = Outstanding
  <2>1. UNCHANGED <<plan, eventMethods, signals, listed, instance, scan>>
    BY <1>2 DEF instanceVars, eventVars
  <2>2. QED
    BY <1>1, <1>2, <2>1, SignalsStay DEF Preparing
<1>5. TestOver'
  <2>1. CASE StartCollecting
    BY <1>2, <2>1 DEF StartCollecting, TestOver
  <2>2. CASE CollectNothing
    <3>1. tester' = "over" => Quiet /\ doneQ = <<>> /\ eventQ = <<>> /\ itemQ = <<>>
      BY <2>2 DEF CollectNothing
    <3>2. Quiet' = Quiet
      BY <1>2 DEF Quiet, Ready, queueVarsT, instanceVars, eventVars
    <3>3. QED
      BY <1>2, <3>1, <3>2 DEF TestOver, queueVarsT
  <2>3. QED
    BY <2>1, <2>2
<1>6. QED
  BY <1>2, <1>3, <1>4, <1>5, OtherTestStep

LEMMA SendKept ==
  ASSUME TestInv, Announced, SendPack
  PROVE  TestInv' /\ Announced'
<1>1. TestTypeOK /\ InWorkQ /\ InHand /\ Replies /\ Signalled /\ Attended /\ Counted /\ TestOver
  BY DEF TestInv
<1>2. /\ tester = "send" /\ sent < Len(plan.packs) /\ sent' = sent + 1
      /\ workQ' = Append(workQ, [plan.packs[sent'] EXCEPT !.id = sent'])
      /\ UNCHANGED <<doneQ, eventQ, itemQ, callback, changeCount, listed, scan, instance, pWorkDone>>
      /\ UNCHANGED <<eventMethods, signals, due, plan, tester, answers, items>>
  BY DEF SendPack, instanceVars, eventVars
<1>3. TestTypeOK'
  BY <1>1, TestTypeKept DEF TestNext, TestStep
<1>4. PICK n \in Nat, k \in Nat :
        n = Taken /\ k = Len(workQ) /\ sent = n + k /\ plan \in Plans /\ Len(plan.packs) \in Nat
  BY <1>1, TestNumbers
<1>5. PICK x : x = [plan.packs[n + k + 1] EXCEPT !.id = n + k + 1]
  OBVIOUS
<1>6. workQ' = Append(workQ, x) /\ sent' = n + k + 1 /\ n + k + 1 \in 1..Len(plan.packs)
  BY <1>2, <1>4, <1>5
<1>7. /\ Len(workQ') = k + 1 /\ workQ'[k + 1] = x /\ \A i \in 1..k : workQ'[i] = workQ[i]
  <2>1. workQ \in Seq(PackType) /\ x \in PackType
    BY <1>1, <1>4, <1>5, <1>6, PlanPacks DEF TestTypeOK
  <2>2. /\ Len(Append(workQ, x)) = Len(workQ) + 1 /\ Append(workQ, x)[Len(workQ) + 1] = x
        /\ \A i \in 1..Len(workQ) : Append(workQ, x)[i] = workQ[i]
    BY <2>1, AppendProperties
  <2>3. QED
    BY <1>4, <1>6, <2>2
<1>8. Taken' = n /\ Taken' = Taken
  <2>1. n + k + 1 - (k + 1) = n
    OBVIOUS
  <2>2. QED
    BY <1>4, <1>6, <1>7, <2>1 DEF Taken
<1>9. InWorkQ'
  <2>1. ASSUME NEW i \in 1..(k + 1)
        PROVE  workQ'[i] = [plan.packs[n + i] EXCEPT !.id = n + i]
    <3>1. CASE i = k + 1
      <4>1. n + i = n + k + 1
        BY <3>1
      <4>2. QED
        BY <1>5, <1>7, <3>1, <4>1
    <3>2. CASE i \in 1..k
      BY <1>1, <1>4, <1>7, <3>2 DEF InWorkQ
    <3>3. QED
      BY <3>1, <3>2
  <2>2. Len(workQ') <= sent'
    BY <1>6, <1>7
  <2>3. QED
    BY <1>2, <1>7, <1>8, <2>1, <2>2 DEF InWorkQ
<1>10. InHand' /\ Latest' = Latest
  BY <1>1, <1>2, <1>8, HandStays
<1>11. Replies'
  BY <1>1, <1>2, <1>10 DEF Replies
<1>12. Signalled' /\ Attended' /\ Outstanding' = Outstanding
  BY <1>1, <1>2, SignalsStay
<1>13. Counted'
  BY <1>1, <1>2, <1>8, <1>12 DEF Counted, Made, Heard
<1>14. TestOver'
  BY <1>2 DEF TestOver
<1>15. Announced'
  BY <1>2, <1>8, ItemsStay DEF Announced, Working
<1>16. QED
  BY <1>3, <1>9, <1>10, <1>11, <1>12, <1>13, <1>14, <1>15 DEF TestInv

\* The test takes an answer from one of the queues.
LEMMA AnswerKept ==
  ASSUME TestInv, Announced, CollectAnswer
  PROVE  TestInv' /\ Announced'
<1>1. TestTypeOK /\ InWorkQ /\ InHand /\ Replies /\ Signalled /\ Attended /\ Counted /\ TestOver
  BY DEF TestInv
<1>2. /\ tester = "collect" /\ tester' \in {"item", "collect"}
      /\ \/ doneQ # <<>> /\ answers' = Append(answers, Head(doneQ)) /\ doneQ' = Tail(doneQ) /\ UNCHANGED eventQ
         \/ eventQ # <<>> /\ answers' = Append(answers, Head(eventQ)) /\ eventQ' = Tail(eventQ) /\ UNCHANGED doneQ
      /\ UNCHANGED <<workQ, itemQ, callback, changeCount, listed, scan, instance, pWorkDone>>
      /\ UNCHANGED <<eventMethods, signals, due, plan, sent, ids, items>>
  BY DEF CollectAnswer, instanceVars, eventVars
<1>3. TestTypeOK'
  BY <1>1, TestTypeKept DEF TestNext, TestStep
<1>4. InWorkQ' /\ Taken' = Taken
  BY <1>1, <1>2, PacksStay
<1>5. InHand' /\ Latest' = Latest
  BY <1>1, <1>2, <1>4, HandStays
<1>6. Signalled' /\ Attended' /\ Outstanding' = Outstanding
  BY <1>1, <1>2, SignalsStay DEF Preparing
<1>7. TestOver'
  BY <1>1, <1>2 DEF TestOver
<1>8. Announced'
  BY <1>2, <1>4, ItemsStay DEF Announced, Working
<1>9. /\ answers \in Seq(PackType) /\ doneQ \in Seq(PackType) /\ eventQ \in Seq(PackType)
  BY <1>1 DEF TestTypeOK
<1>10. /\ Len(answers) \in Nat /\ Len(doneQ) \in Nat /\ Len(eventQ) \in Nat
  BY <1>9, LenProperties
<1>11. /\ Numbers(answers) \cup Numbers(doneQ) = Asked(plan, Latest) /\ Numbers(eventQ) = {}
       /\ Rising(answers) /\ Rising(doneQ) /\ \A i \in Numbers(answers) : \A j \in Numbers(doneQ) : i < j
       /\ OfPacks(answers, plan) /\ OfPacks(doneQ, plan)
  BY <1>1 DEF Replies
<1>12. CASE doneQ # <<>> /\ answers' = Append(answers, Head(doneQ)) /\ doneQ' = Tail(doneQ) /\ UNCHANGED eventQ
  <2>1. PICK x \in PackType : x = Head(doneQ)
    BY <1>9, <1>12, ReplyTaken
  <2>2. /\ Len(doneQ') = Len(doneQ) - 1
        /\ Numbers(doneQ) = Numbers(doneQ') \cup ({x.id} \ {0})
        /\ Rising(doneQ') /\ (x.id # 0 => \A i \in Numbers(doneQ') : x.id < i)
        /\ OfPacks(doneQ', plan) /\ (x.id # 0 => x.instruction = plan.packs[x.id].instruction)
    BY <1>9, <1>11, <1>12, <2>1, ReplyTaken
  <2>3. x.id # 0 => \A i \in Numbers(answers) : i < x.id
    BY <1>11, <2>2
  <2>4. /\ Len(answers') = Len(answers) + 1
        /\ Numbers(answers') = Numbers(answers) \cup ({x.id} \ {0})
        /\ Rising(answers') /\ OfPacks(answers', plan)
    BY <1>9, <1>11, <1>12, <2>1, <2>2, <2>3, ReplyAppended
  <2>5. Numbers(answers') \cup Numbers(doneQ') = Asked(plan, Latest)
    BY <1>11, <2>2, <2>4
  <2>6. \A i \in Numbers(answers') : \A j \in Numbers(doneQ') : i < j
    BY <1>11, <2>2, <2>4
  <2>7. Replies'
    BY <1>2, <1>5, <1>11, <1>12, <2>2, <2>4, <2>5, <2>6 DEF Replies
  <2>8. Made' = Made
    <3>1. PICK b \in Nat : b = Bit(instance \in {"prepare", "deliver"} /\ pWorkDone.send)
      BY DEF Bit
    <3>2. Len(answers') + Len(doneQ') + Len(eventQ') + b = Len(answers) + Len(doneQ) + Len(eventQ) + b
      BY <1>10, <1>12, <2>2, <2>4
    <3>3. QED
      BY <1>2, <3>1, <3>2 DEF Made, Bit
  <2>9. Counted'
    BY <1>1, <1>2, <1>4, <1>6, <2>8 DEF Counted, Heard
  <2>10. QED
    BY <1>3, <1>4, <1>5, <1>6, <1>7, <1>8, <2>7, <2>9 DEF TestInv
<1>13. CASE eventQ # <<>> /\ answers' = Append(answers, Head(eventQ)) /\ eventQ' = Tail(eventQ) /\ UNCHANGED doneQ
  <2>1. PICK x \in PackType : x = Head(eventQ)
    BY <1>9, <1>13, ReplyTaken
  <2>2. /\ Len(eventQ') = Len(eventQ) - 1
        /\ Numbers(eventQ) = Numbers(eventQ') \cup ({x.id} \ {0})
    BY <1>9, <1>13, <2>1, ReplyTaken
  <2>3. x.id = 0 /\ Numbers(eventQ') = {}
    BY <1>11, <2>2
  <2>4. /\ Len(answers') = Len(answers) + 1
        /\ Numbers(answers') = Numbers(answers)
        /\ Rising(answers') /\ OfPacks(answers', plan)
    <3>1. /\ Len(answers') = Len(answers) + 1
          /\ Numbers(answers') = Numbers(answers) \cup ({0} \ {0})
          /\ Rising(answers') /\ OfPacks(answers', plan)
      BY <1>9, <1>11, <1>13, <2>1, <2>3, ReplyAppended
    <3>2. QED
      BY <3>1
  <2>5. Replies'
    BY <1>2, <1>5, <1>11, <1>13, <2>3, <2>4 DEF Replies
  <2>6. Made' = Made
    <3>1. PICK b \in Nat : b = Bit(instance \in {"prepare", "deliver"} /\ pWorkDone.send)
      BY DEF Bit
    <3>2. Len(answers') + Len(doneQ') + Len(eventQ') + b = Len(answers) + Len(doneQ) + Len(eventQ) + b
      BY <1>10, <1>13, <2>2, <2>4
    <3>3. QED
      BY <1>2, <3>1, <3>2 DEF Made, Bit
  <2>7. Counted'
    BY <1>1, <1>2, <1>4, <1>6, <2>6 DEF Counted, Heard
  <2>8. QED
    BY <1>3, <1>4, <1>5, <1>6, <1>7, <1>8, <2>5, <2>7 DEF TestInv
<1>14. QED
  BY <1>2, <1>12, <1>13

\* The test takes a data item: the items it has and those in the queue stay
\* the same list.
LEMMA ItemTakenKept ==
  ASSUME TestInv, Announced, CollectItem
  PROVE  TestInv' /\ Announced'
<1>1. TestTypeOK /\ InWorkQ /\ InHand /\ Replies /\ Signalled /\ Attended /\ Counted /\ TestOver
  BY DEF TestInv
<1>2. /\ tester = "item" /\ tester' = "collect" /\ itemQ # <<>>
      /\ items' = Append(items, Head(itemQ)) /\ itemQ' = Tail(itemQ)
      /\ UNCHANGED <<workQ, doneQ, eventQ, callback, changeCount, listed, scan, instance, pWorkDone>>
      /\ UNCHANGED <<eventMethods, signals, due, plan, sent, ids, answers>>
  BY DEF CollectItem, instanceVars, eventVars
<1>3. TestTypeOK'
  BY <1>1, TestTypeKept DEF TestNext, TestStep
<1>4. InWorkQ' /\ Taken' = Taken
  BY <1>1, <1>2, PacksStay
<1>5. InHand' /\ Latest' = Latest
  BY <1>1, <1>2, <1>4, HandStays
<1>6. Signalled' /\ Attended' /\ Outstanding' = Outstanding
  BY <1>1, <1>2, SignalsStay DEF Preparing
<1>7. TestOver'
  BY <1>1, <1>2 DEF TestOver
<1>8. Replies'
  BY <1>1, <1>2, <1>5 DEF Replies
<1>9. Counted'
  BY <1>1, <1>2, <1>4, <1>6 DEF Counted, Made, Heard
<1>10. Announced'
  <2>1. SUFFICES ASSUME OnlyPacks PROVE Announced'
    BY <1>2 DEF Announced, OnlyPacks, Working
  <2>2. itemQ \in Seq(Things) /\ items \in Seq(Things)
    BY <1>1 DEF TestTypeOK
  <2>3. PICK x : x = Head(itemQ)
    OBVIOUS
  <2>4. PICK p \in Nat, r \in Nat : p = Len(items) /\ r = Len(itemQ) /\ r # 0
    BY <1>2, <2>2, LenProperties, EmptySeq
  <2>5. /\ x \in Things /\ itemQ[1] = x /\ Len(itemQ') = r - 1
        /\ \A i \in 1..(r - 1) : itemQ'[i] = itemQ[i + 1]
    BY <1>2, <2>2, <2>3, <2>4, HeadTailProperties
  <2>6. Len(items') = p + 1 /\ items'[p + 1] = x /\ \A i \in 1..p : items'[i] = items[i]
    BY <1>2, <2>2, <2>3, <2>4, <2>5, AppendProperties
  <2>7. ASSUME NEW j \in 1..(p + r) PROVE ItemAt(j)' = ItemAt(j)
    <3>1. CASE j \in 1..p
      <4>1. j <= p /\ j <= p + 1
        BY <3>1
      <4>2. QED
        BY <2>4, <2>6, <3>1, <4>1 DEF ItemAt
    <3>2. CASE j = p + 1
      <4>1. ~(p + 1 <= p) /\ p + 1 <= p + 1 /\ p + 1 - p = 1
        OBVIOUS
      <4>2. QED
        BY <2>4, <2>5, <2>6, <3>2, <4>1 DEF ItemAt
    <3>3. CASE j > p + 1
      <4>1. ~(j <= p) /\ ~(j <= p + 1) /\ j - (p + 1) \in 1..(r - 1) /\ (j - (p + 1)) + 1 = j - p
        BY <3>3
      <4>2. ItemAt(j) = itemQ[j - p] /\ ItemAt(j)' = itemQ'[j - (p + 1)]
        BY <2>4, <2>6, <4>1 DEF ItemAt
      <4>3. QED
        BY <2>5, <4>1, <4>2
    <3>4. QED
      BY <3>1, <3>2, <3>3
  <2>8. Len(items') + Len(itemQ') = p + r
    BY <2>4, <2>5, <2>6
  <2>9. plan \in Plans /\ Taken \in Nat
    BY <1>1, TestNumbers
  <2>10. ASSUME NEW i \in Told(plan, Taken), plan.packs[i].inCallback,
                Cardinality(Told(plan, i)) <= p + r
         PROVE  ItemAt(Cardinality(Told(plan, i)))' = plan.packs[i].item
    <3>1. i \in Nat /\ i \in Told(plan, i) /\ IsFiniteSet(Told(plan, i))
          /\ Cardinality(Told(plan, i)) \in Nat
      <4>1. i \in Nat /\ i \in Told(plan, i)
        BY <2>9 DEF Told
      <4>2. QED
        BY <2>9, <4>1, OneMorePack
    <3>2. PICK k \in 1..(p + r) : k = Cardinality(Told(plan, i))
      <4>1. Cardinality(Told(plan, i)) # 0
        BY <3>1, FS_EmptySet
      <4>2. QED
        BY <2>10, <3>1, <4>1
    <3>3. ItemAt(k) = plan.packs[i].item
      BY <2>1, <2>4, <2>10, <3>2 DEF Announced, Working
    <3>4. ItemAt(k)' = ItemAt(k)
      BY <2>7
    <3>5. ItemAt(Cardinality(Told(plan, i)))' = ItemAt(k)'
      BY <1>2, <3>2 DEF ItemAt
    <3>6. QED
      BY <3>3, <3>4, <3>5
  <2>11. Len(items') + Len(itemQ') + Bit(Working' /\ pWorkDone'.notify) = Cardinality(Told(plan, Taken))
    <3>1. Len(items) + Len(itemQ) + Bit(Working /\ pWorkDone.notify) = Cardinality(Told(plan, Taken))
      BY <2>1 DEF Announced
    <3>2. (Working' /\ pWorkDone'.notify) <=> (Working /\ pWorkDone.notify)
      BY <1>2 DEF Working
    <3>3. Bit(Working' /\ pWorkDone'.notify) = Bit(Working /\ pWorkDone.notify)
      BY <3>2 DEF Bit
    <3>4. QED
      BY <2>4, <2>8, <3>1, <3>3
  <2>12. /\ due' = 0 /\ (Working' => pWorkDone'.id # 0)
         /\ (instance' \in {"deliver", "change", "queue item"} /\ pWorkDone'.notify /\ pWorkDone'.inCallback)
              => callback'.item = pWorkDone'.item
    BY <1>2, <2>1 DEF Announced, Working
  <2>13. QED
    BY <1>2, <1>4, <2>8, <2>10, <2>11, <2>12 DEF Announced, Working
<1>11. QED
  BY <1>3, <1>4, <1>5, <1>6, <1>7, <1>8, <1>9, <1>10 DEF TestInv

LEMMA TestStepKept ==
  ASSUME TestInv, Announced, [TestNext]_testVars
  PROVE  TestInv' /\ Announced'
<1>1. CASE UNCHANGED testVars
  <2>1. /\ UNCHANGED <<workQ, doneQ, eventQ, itemQ, callback, changeCount, listed, scan, instance, pWorkDone>>
        /\ UNCHANGED <<eventMethods, reset, signals, due, plan, tester, sent, ids, answers, items>>
    BY <1>1 DEF testVars, queueVarsT, instanceVars, eventVars, testerVars
  <2>2. TestTypeOK' /\ InWorkQ' /\ InHand' /\ Replies'
    BY <2>1 DEF TestInv, TestTypeOK, InWorkQ, InHand, Replies, Taken, Latest, Working
  <2>3. Signalled' /\ Attended' /\ Counted' /\ TestOver'
    BY <2>1 DEF TestInv, Signalled, Attended, Counted, TestOver, Made, Heard, Outstanding, Taken, Quiet, Ready
  <2>4. Announced'
    BY <2>1 DEF Announced, OnlyPacks, ItemAt, Taken, Working
  <2>5. QED
    BY <2>2, <2>3, <2>4 DEF TestInv
<1>2. CASE TestNext
  <2>1. tester # "over"
    BY <1>2, NothingAfterOver
  <2>2. CASE InstanceStep
    BY <2>1, <2>2, TurnKept, TakeKept, PerformEventKept, PeriodKept, PrepareKept, DeliverKept, ChangeKept, ItemKept
       DEF InstanceStep
  <2>3. CASE TestStep
    BY <2>3, RegisterKept, SignalKept, SendKept, StartKept, AnswerKept, ItemTakenKept DEF TestStep
  <2>4. QED
    BY <1>2, <2>2, <2>3 DEF TestNext
<1>3. QED
  BY <1>1, <1>2

\* When the test is over everything that was sent, signalled or due has been
\* worked on.
LEMMA AllDone ==
  ASSUME TestInv, tester = "over"
  PROVE  /\ Taken = Len(plan.packs) /\ Latest = Taken /\ sent = Taken
         /\ Cardinality(listed) \in Nat
         /\ Cardinality(listed) * plan.signals + Outstanding = eventMethods * plan.signals
         /\ doneQ = <<>> /\ eventQ = <<>> /\ itemQ = <<>> /\ instance = "wait"
<1>1. /\ TestTypeOK /\ InWorkQ /\ Signalled /\ Attended /\ TestOver
  BY DEF TestInv
<1>2. /\ instance = "wait" /\ workQ = <<>> /\ Ready = {}
      /\ doneQ = <<>> /\ eventQ = <<>> /\ itemQ = <<>> /\ sent = Len(plan.packs)
  BY <1>1 DEF TestOver, Quiet
<1>3. /\ sent = Taken + Len(workQ) /\ Taken \in Nat /\ eventMethods \in Nat /\ plan.signals \in Nat
      /\ eventMethods <= MAX_EVENT_METHODS /\ MAX_EVENT_METHODS \in Nat
      /\ listed \subseteq 1..eventMethods
  BY <1>1, TestNumbers
<1>4. Len(workQ) = 0
  BY <1>2, EmptyItems
<1>5. sent = Taken
  BY <1>3, <1>4
<1>6. Latest = Taken
  BY <1>2 DEF Latest
<1>7. /\ Cardinality(listed) \in Nat
      /\ Cardinality(listed) * plan.signals + Outstanding = eventMethods * plan.signals
  <2>1. signals \in [1..MAX_EVENT_METHODS -> Nat]
    BY <1>1 DEF TestTypeOK
  <2>2. ASSUME NEW e \in listed PROVE signals[e] = 0
    <3>1. e \in 1..MAX_EVENT_METHODS
      BY <1>3
    <3>2. signals[e] \in Nat /\ ~(signals[e] > 0)
      BY <1>2, <2>1, <3>1 DEF Ready
    <3>3. QED
      BY <3>2
  <2>3. tester \notin Preparing
    BY DEF Preparing
  <2>4. ASSUME NEW e \in 1..eventMethods, e \notin listed PROVE signals[e] = plan.signals
    BY <1>1, <1>2, <2>3, <2>4 DEF Attended
  <2>5. PICK m \in Nat, n \in Nat : m = eventMethods /\ n = plan.signals
    BY <1>3
  <2>6. /\ Cardinality(listed) \in Nat
        /\ Cardinality(listed) * n + Cardinality(Owed(m, n, signals)) = m * n
    <3>1. listed \in SUBSET (1..m) /\ \A e \in (1..m) \ listed : signals[e] = n
      BY <1>3, <2>4, <2>5
    <3>2. PICK L \in SUBSET (1..m) : L = listed
      BY <3>1
    <3>3. PICK f : f = signals
      OBVIOUS
    <3>4. (\A e \in L : f[e] = 0) /\ (\A e \in (1..m) \ L : f[e] = n)
      BY <2>2, <3>1, <3>2, <3>3
    <3>5. Cardinality(L) \in Nat /\ Cardinality(L) * n + Cardinality(Owed(m, n, f)) = m * n
      BY <3>4, OwedUnlisted
    <3>6. QED
      BY <3>2, <3>3, <3>5
  <2>7. QED
    BY <2>3, <2>5, <2>6 DEF Outstanding
<1>8. QED
  BY <1>2, <1>5, <1>6, <1>7

LEMMA ChecksFollow ==
  ASSUME TestInv
  PROVE  ChecksHold
<1>1. SUFFICES ASSUME tester = "over" PROVE ChecksHold
  BY DEF ChecksHold
<1>2. /\ Taken = Len(plan.packs) /\ Latest = Taken /\ sent = Taken
      /\ Cardinality(listed) \in Nat
      /\ Cardinality(listed) * plan.signals + Outstanding = eventMethods * plan.signals
      /\ doneQ = <<>> /\ eventQ = <<>> /\ instance = "wait"
  BY <1>1, AllDone
<1>3. TestTypeOK /\ InWorkQ /\ Replies /\ Counted
  BY DEF TestInv
<1>4. /\ plan \in Plans /\ ids = [i \in 1..sent |-> i] /\ answers \in Seq(PackType)
  BY <1>3 DEF TestTypeOK
<1>5. DOMAIN plan.packs = 1..Len(plan.packs) /\ Len(plan.packs) \in Nat
  BY <1>4, PlanPacks
<1>6. PICK n \in Nat : n = Taken /\ n = Len(plan.packs)
  BY <1>2, <1>5
<1>7. /\ {i \in DOMAIN plan.packs : plan.packs[i].send} = Asked(plan, n)
      /\ {i \in DOMAIN plan.packs : plan.packs[i].notify} = Told(plan, n)
      /\ \A i \in 1..n : ids[i] = i
  BY <1>2, <1>4, <1>5, <1>6 DEF Asked, Told
<1>8. Numbers(<<>>) = {}
  BY DEF Numbers
<1>9. /\ Numbers(answers) = Asked(plan, n) /\ Rising(answers) /\ OfPacks(answers, plan)
  BY <1>2, <1>3, <1>6, <1>8 DEF Replies
<1>10. Asked(plan, n) \subseteq 1..n
  BY DEF Asked
<1>11. ASSUME NEW k \in DOMAIN answers, answers[k].id # 0
       PROVE  \E i \in Asked(plan, n) :
                answers[k].id = ids[i] /\ answers[k].instruction = plan.packs[i].instruction
  <2>1. PICK i \in Asked(plan, n) : i = answers[k].id
    BY <1>9, <1>11 DEF Numbers
  <2>2. answers[k].instruction = plan.packs[i].instruction
    BY <1>9, <1>11, <2>1 DEF OfPacks
  <2>3. QED
    BY <1>7, <1>10, <2>1, <2>2
<1>12. ASSUME NEW i \in Asked(plan, n)
       PROVE  \E k \in DOMAIN answers : answers[k].id = ids[i]
  <2>1. i \in Numbers(answers)
    BY <1>9
  <2>2. QED
    BY <1>7, <1>10, <2>1 DEF Numbers
<1>13. ASSUME NEW i \in Asked(plan, n), NEW j \in Asked(plan, n), NEW k \in DOMAIN answers,
              NEW m \in DOMAIN answers, answers[k].id = ids[i], answers[m].id = ids[j]
       PROVE  i < j <=> k < m
  <2>1. answers[k].id = i /\ answers[m].id = j /\ i \in 1..n /\ j \in 1..n
    BY <1>7, <1>10, <1>13
  <2>2. k < m => i < j
    BY <1>9, <2>1 DEF Rising
  <2>3. m < k => j < i
    BY <1>9, <2>1 DEF Rising
  <2>4. k \in Nat /\ m \in Nat
    BY <1>4, LenProperties
  <2>5. k = m => i = j
    BY <2>1
  <2>6. QED
    BY <2>1, <2>2, <2>3, <2>4, <2>5
<1>14. /\ Len(answers) = Cardinality(Asked(plan, n)) + (Cardinality(listed) * plan.signals + due)
       /\ changeCount = Cardinality(Told(plan, n)) + (Cardinality(listed) * plan.signals + due)
  <2>1. /\ Len(answers) \in Nat /\ changeCount \in Nat /\ eventMethods * plan.signals \in Nat /\ due \in Nat
        /\ Outstanding \in Nat /\ plan.signals \in Nat
    BY <1>3, TestNumbers
  <2>2. Cardinality(Asked(plan, n)) \in Nat /\ Cardinality(Told(plan, n)) \in Nat
    BY <1>4, OneMorePack
  <2>2a. Cardinality(listed) * plan.signals \in Nat
    BY <1>2, <2>1, OwedCount
  <2>3. PICK a \in Nat, c \in Nat, P \in Nat, x \in Nat, y \in Nat, z \in Nat, o \in Nat, h \in Nat :
          /\ a = Cardinality(Asked(plan, n)) /\ c = Cardinality(Told(plan, n))
          /\ P = eventMethods * plan.signals /\ x = Len(answers) /\ y = changeCount /\ z = due
          /\ o = Outstanding /\ h = Cardinality(listed) * plan.signals /\ h + o = P
    BY <1>2, <2>1, <2>2, <2>2a
  <2>4. Len(doneQ) = 0 /\ Len(eventQ) = 0
    BY <1>2, EmptyItems
  <2>5. /\ Bit(instance \in {"prepare", "deliver"} /\ pWorkDone.send) = 0
        /\ Bit(instance \in {"prepare", "deliver", "change"} /\ pWorkDone.notify) = 0
    BY <1>2 DEF Bit
  <2>6. x + 0 + 0 + 0 + o = a + P + z /\ y + 0 + o = c + P + z
    BY <1>2, <1>3, <1>6, <2>3, <2>4, <2>5 DEF Counted, Made, Heard
  <2>7. x = a + (h + z) /\ y = c + (h + z)
    <3>1. x + o = a + (h + o) + z /\ y + o = c + (h + o) + z
      BY <2>3, <2>6
    <3>2. QED
      BY <3>1
  <2>8. QED
    BY <2>3, <2>7
<1>15. QED
  BY <1>7, <1>11, <1>12, <1>13, <1>14 DEF ChecksHold

LEMMA OwnItemFollows ==
  ASSUME TestInv, Announced
  PROVE  OwnItem
<1>1. SUFFICES ASSUME tester = "over", OnlyPacks PROVE OwnItem
  BY DEF OwnItem, OnlyPacks
<1>2. /\ Taken = Len(plan.packs) /\ itemQ = <<>> /\ instance = "wait"
  BY <1>1, AllDone
<1>3. plan \in Plans /\ items \in Seq(Things)
  BY DEF TestInv, TestTypeOK
<1>4. DOMAIN plan.packs = 1..Len(plan.packs) /\ Len(plan.packs) \in Nat
  BY <1>3, PlanPacks
<1>5. PICK n \in Nat : n = Taken /\ n = Len(plan.packs)
  BY <1>2, <1>4
<1>6. {i \in DOMAIN plan.packs : plan.packs[i].notify} = Told(plan, n)
  BY <1>4, <1>5 DEF Told
<1>7. Len(itemQ) = 0 /\ Len(items) \in Nat /\ Bit(Working /\ pWorkDone.notify) = 0
  BY <1>2, <1>3, EmptyItems, LenProperties DEF Bit, Working
<1>8. Len(items) = Cardinality(Told(plan, n)) /\ IsFiniteSet(Told(plan, n))
  <2>1. Len(items) + Len(itemQ) + Bit(Working /\ pWorkDone.notify) = Cardinality(Told(plan, n))
    BY <1>1, <1>5 DEF Announced, Working
  <2>2. QED
    BY <1>3, <1>7, <2>1, OneMorePack
<1>9. ASSUME NEW i \in Told(plan, n), plan.packs[i].inCallback
      PROVE  items[Cardinality(Told(plan, n) \cap 1..i)] = plan.packs[i].item
  <2>1. Told(plan, n) \cap 1..i = Told(plan, i) /\ i \in Nat
    BY DEF Told
  <2>2. Cardinality(Told(plan, i)) \in Nat /\ Cardinality(Told(plan, i)) <= Len(items)
    <3>1. Told(plan, i) \subseteq Told(plan, n)
      BY <2>1
    <3>2. Cardinality(Told(plan, i)) <= Cardinality(Told(plan, n))
      BY <1>8, <3>1, FS_Subset
    <3>3. Cardinality(Told(plan, i)) \in Nat
      BY <1>3, <2>1, OneMorePack
    <3>4. QED
      BY <1>8, <3>2, <3>3
  <2>3. PICK k \in Nat, l \in Nat : k = Cardinality(Told(plan, i)) /\ l = Len(items) /\ k <= l
    BY <1>7, <2>2
  <2>4. k <= Len(items) + Len(itemQ)
    BY <1>7, <2>3
  <2>5. ItemAt(k) = plan.packs[i].item
    BY <1>1, <1>5, <1>9, <2>3, <2>4 DEF Announced, Working
  <2>6. ItemAt(k) = items[k]
    BY <2>3 DEF ItemAt
  <2>7. QED
    BY <2>1, <2>3, <2>5, <2>6
<1>10. QED
  BY <1>6, <1>8, <1>9 DEF OwnItem

\* The numbers, the instructions and the counts that the tests check at their
\* end are right for any plan, however the threads run (TestThreadIt.cpp:337,
\* 376, 414-417, 511, 575).
THEOREM ChecksAlwaysHold == TestSpec => []ChecksHold
<1>1. TestInit => TestInv /\ Announced
  BY TestInitInv
<1>2. TestInv /\ Announced /\ [TestNext]_testVars => TestInv' /\ Announced'
  BY TestStepKept
<1>3. TestInv => ChecksHold
  BY ChecksFollow
<1>4. QED
  BY <1>1, <1>2, <1>3, PTL DEF TestSpec

\* The one callback of an instance is filled in anew for each pack: no pack is
\* announced with the data item of another (threadit.cpp:588-591).
THEOREM OwnItemAlways == TestSpec => []OwnItem
<1>1. TestInit => TestInv /\ Announced
  BY TestInitInv
<1>2. TestInv /\ Announced /\ [TestNext]_testVars => TestInv' /\ Announced'
  BY TestStepKept
<1>3. TestInv /\ Announced => OwnItem
  BY OwnItemFollows
<1>4. QED
  BY <1>1, <1>2, <1>3, PTL DEF TestSpec
=============================================================================
