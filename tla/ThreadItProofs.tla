--------------------------- MODULE ThreadItProofs ---------------------------
(***************************************************************************)
(* Theorems about ThreadIt, for any clients, packs, events and settings.   *)
(***************************************************************************)
EXTENDS ThreadIt, ProofLemmas, FiniteSetTheorems

\* These two only group variables.
USE DEF m_EventMethod, listVars

Registering == {"handle", "count", "flag"}

\* What a client's argument is while it is in a call.  One client at a time
\* is in setEventMethod, and has a slot there.
ClientArgs ==
  \A c \in Clients :
     /\ pc[c] \in {"insert", "release"} => cur[c] \in Packs
     /\ pc[c] \in {"wait", "woken"} => cur[c] \in {"done", "own"}
     /\ pc[c] \in {"handle", "count"} => cur[c] \in Events /\ m_theEventMethodCount < MaxEvents
     /\ \A d \in Clients : pc[c] \in Registering /\ pc[d] \in Registering => c = d

\* The thread has a pack wherever it uses one; there are no more events than
\* slots, so that a wait returns the index of a slot.
ThreadArgs ==
  /\ at \in {"work", "deliver", "signal"} => pWorkDone \in Packs
  /\ Len(hEventList) <= MaxEvents
  /\ at = "rebuild" => Len(hEventList) <= scanned

TypeInv == TypeOK /\ ClientArgs /\ ThreadArgs

LEMMA TypeInit == Init => TypeInv
<1> SUFFICES ASSUME Init PROVE TypeInv
  OBVIOUS
<1> USE PacksAssumption, NumbersAssumption DEF Init
<1>1. PICK sender \in [Packs \ Fresh -> Clients] :
         held = [c \in Clients |-> {p \in Packs \ Fresh : sender[p] = c}]
  OBVIOUS
<1>2. held \in [Clients -> SUBSET Packs]
  BY <1>1
<1>3. queue \in [Queues -> Seq(Packs)] /\ sem \in [Queues -> Nat]
  BY DEF Queues
<1>4. m_theCallback \in [instruction : Nat, workId : Nat, isPeriodic : BOOLEAN,
                         dataItem : Packs \cup {NULL}]
  BY DEF NoCallback
<1>5. TypeOK
  <2>1. /\ pc \in [Clients -> {"idle"}] /\ cur \in [Clients -> {NULL}]
        /\ id \in [Packs -> {NULL}]
    OBVIOUS
  <2>2. /\ theEventHandler \in [Slots -> Events \cup {NULL}]
        /\ htheEvent \in [Slots -> Events \cup {NULL}]
        /\ m_theEventMethodCount \in 0 .. MaxEvents
        /\ hEventList \in Seq(Events) /\ scanned \in 0 .. MaxEvents
    OBVIOUS
  <2>3. Result \in {NoWait} /\ {pWorkDone, answered} \subseteq {NULL} /\ WorkId \in Nat
    OBVIOUS
  <2>4. pc \in [Clients -> {"idle", "insert", "release", "wait", "woken", "handle", "count", "flag",
                             "stopping", "stopped", "joined"}]
    BY <2>1
  <2>5. cur \in [Clients -> Packs \cup Queues \cup Events \cup {NULL}]
    BY <2>1
  <2>6. /\ m_WorkPackID \in 0 .. MaxID
        /\ id \in [Packs -> (0 .. MaxID) \cup {NULL}]
    BY <2>1
  <2>7. {m_isExitThread, m_ResetEventInfo, due, isPeriodic, isNotify, alive} \subseteq BOOLEAN
    OBVIOUS
  <2>8. unborn \subseteq Packs /\ freed \subseteq Packs /\ signalled \subseteq Events
    OBVIOUS
  <2> HIDE DEF Init
  <2>9. at = "start"
    BY DEF Init
  <2> QED
    BY <1>2, <1>3, <1>4, <2>2, <2>3, <2>4, <2>5, <2>6, <2>7, <2>8, <2>9 DEF TypeOK
<1>6. ClientArgs /\ ThreadArgs
  BY DEF ClientArgs, ThreadArgs, Registering
<1> QED
  BY <1>5, <1>6 DEF TypeInv

\* What the fields of a pack's settings are.
LEMMA KindType ==
  ASSUME NEW p \in Packs
  PROVE  /\ Kind[p].instruction \in Nat
         /\ {Kind[p].isSendResult, Kind[p].isNotifyWithCallback,
             Kind[p].isObjectInCallback} \subseteq BOOLEAN
         /\ Kind[p].doneQ \in {"done", "own", "null"}
  BY PacksAssumption DEF Settings

LEMMA ContentsType ==
  ASSUME NEW p \in Packs
  PROVE  /\ Contents(p).instruction \in Nat
         /\ {Contents(p).isSendResult, Contents(p).isNotifyWithCallback,
             Contents(p).isObjectInCallback} \subseteq BOOLEAN
         /\ Contents(p).doneQ \in {"done", "own", "null"}
  BY PacksAssumption DEF Settings, Contents

\* The head of a queue, and what is left without it.
LEMMA PopType ==
  ASSUME NEW s \in Seq(Packs), s # <<>>
  PROVE  Head(s) \in Packs /\ Tail(s) \in Seq(Packs)
  OBVIOUS

\* The packs of a queue.
LEMMA ContentType ==
  ASSUME NEW s \in Seq(Packs)
  PROVE  ToSet(s) \subseteq Packs
  BY DEF ToSet

\* ReleaseSemaphore keeps the counts natural numbers.
LEMMA ReleaseType ==
  ASSUME NEW q, sem \in [Queues -> Nat], Release(q)
  PROVE  sem' \in [Queues -> Nat]
<1>1. sem' = [sem EXCEPT ![q] = sem[q] + 1]
  BY DEF Release
<1>2. CASE q \in Queues
  BY <1>1, <1>2
<1>3. CASE q \notin Queues
  BY <1>1, <1>3
<1> QED
  BY <1>2, <1>3

\* insertItem keeps the lists sequences of packs.
LEMMA PushType ==
  ASSUME NEW q, NEW p \in Packs, queue \in [Queues -> Seq(Packs)], Push(q, p)
  PROVE  queue' \in [Queues -> Seq(Packs)]
<1>1. queue' = [queue EXCEPT ![q] = Append(queue[q], p)]
  BY DEF Push
<1>2. CASE q \in Queues
  <2>1. Append(queue[q], p) \in Seq(Packs)
    BY <1>2
  <2> QED
    BY <1>1, <2>1
<1>3. CASE q \notin Queues
  BY <1>1, <1>3
<1> QED
  BY <1>2, <1>3

LEMMA TypeNext == TypeInv /\ [Next]_vars => TypeInv'
<1> SUFFICES ASSUME TypeInv, [Next]_vars PROVE TypeInv'
  OBVIOUS
<1> USE ClientsAssumption, PacksAssumption, EventsAssumption, NumbersAssumption, FlagsAssumption
    DEF Registering, Slots, TypeInv, TypeOK, ClientArgs, ThreadArgs, Queues, NoWait
<1>1. ASSUME NEW c \in Clients, NEW p \in Packs, StartWork(c, p) PROVE TypeInv'
  BY <1>1 DEF StartWork, NextID, Goto, queueVars, eventVars, threadVars, callVars
<1>2. ASSUME NEW c \in Clients, StartWorkInsert(c) PROVE TypeInv'
  BY <1>2, SMTT(20) DEF StartWorkInsert, Push, Goto, queueVars, eventVars, threadVars, callVars
<1>3. ASSUME NEW c \in Clients, StartWorkRelease(c) PROVE TypeInv'
  BY <1>3, SMTT(20) DEF StartWorkRelease, Release, Goto, queueVars, eventVars, threadVars, callVars
<1>4. ASSUME NEW c \in Clients, NEW q \in {"done", "own"}, GetWork(c, q) PROVE TypeInv'
  BY <1>4 DEF GetWork, Goto, queueVars, eventVars, threadVars, callVars
<1>5. ASSUME NEW c \in Clients, GetWorkSignalled(c) PROVE TypeInv'
  BY <1>5, SMTT(20) DEF GetWorkSignalled, Acquire, Goto, queueVars, eventVars, threadVars, callVars
<1>6. ASSUME NEW c \in Clients, GetWorkTimeout(c) PROVE TypeInv'
  BY <1>6 DEF GetWorkTimeout, Goto, queueVars, eventVars, threadVars, callVars
<1>7. ASSUME NEW c \in Clients, GetWorkPop(c) PROVE TypeInv'
  <2> DEFINE q == cur[c]
  <2>1. q \in Queues /\ queue[q] \in Seq(Packs)
    BY <1>7 DEF GetWorkPop, Goto
  <2>2. queue' \in [Queues -> Seq(Packs)] /\ held' \in [Clients -> SUBSET Packs]
    <3>1. CASE queue[q] = <<>>
      BY <1>7, <3>1 DEF GetWorkPop
    <3>2. CASE queue[q] # <<>>
      <4> DEFINE s == queue[q]
      <4>1. s \in Seq(Packs) /\ s # <<>>
        BY <2>1, <3>2
      <4>2. Head(s) \in Packs /\ Tail(s) \in Seq(Packs)
        <5> HIDE DEF s
        <5> QED
          BY <4>1, PopType
      <4>3. /\ queue' = [queue EXCEPT ![q] = Tail(s)]
            /\ held' = [held EXCEPT ![c] = @ \cup {Head(s)}]
        BY <1>7, <3>2 DEF GetWorkPop
      <4> QED
        BY <2>1, <4>2, <4>3
    <3> QED
      BY <3>1, <3>2
  <2>3. /\ pc' = [pc EXCEPT ![c] = "idle"] /\ cur' = [cur EXCEPT ![c] = NULL]
        /\ UNCHANGED <<sem, eventVars, threadVars, unborn, freed,
                       m_WorkPackID, id, m_isExitThread, due, alive>>
    BY <1>7 DEF GetWorkPop, Goto
  <2>4. ClientArgs' /\ ThreadArgs'
    <3>1. \A d \in Clients : /\ pc'[d] = IF d = c THEN "idle" ELSE pc[d]
                             /\ cur'[d] = IF d = c THEN NULL ELSE cur[d]
      BY <2>3
    <3>2. m_theEventMethodCount' = m_theEventMethodCount
      BY <2>3 DEF eventVars
    <3>3. ASSUME NEW d \in Clients
          PROVE  /\ pc'[d] \in {"insert", "release"} => cur'[d] \in Packs
                 /\ pc'[d] \in {"wait", "woken"} => cur'[d] \in {"done", "own"}
                 /\ pc'[d] \in {"handle", "count"}
                    => cur'[d] \in Events /\ m_theEventMethodCount' < MaxEvents
      BY <3>1, <3>2
    <3>4. ASSUME NEW d \in Clients, NEW f \in Clients
          PROVE  pc'[d] \in Registering /\ pc'[f] \in Registering => d = f
      BY <3>1
    <3>5. ClientArgs'
      BY <3>3, <3>4
    <3>6. ThreadArgs'
      BY <2>3 DEF eventVars, threadVars
    <3>7. QED
      BY <3>5, <3>6
  <2>5. TypeOK'
    <3>1. pc' \in [Clients -> {"idle", "insert", "release", "wait", "woken", "handle", "count", "flag",
                               "stopping", "stopped", "joined"}]
      BY <2>3
    <3>2. cur' \in [Clients -> Packs \cup Queues \cup Events \cup {NULL}]
      BY <2>3
    <3>3. QED
      BY <2>2, <2>3, <3>1, <3>2 DEF eventVars, threadVars, callVars
  <2>6. QED
    BY <2>4, <2>5
<1>8. ASSUME NEW c \in Clients, NEW e \in Events, SetEventMethod(c, e) PROVE TypeInv'
  <2>1. /\ m_theEventMethodCount + 1 \in Slots /\ m_theEventMethodCount < MaxEvents
        /\ theEventHandler' = [theEventHandler EXCEPT ![m_theEventMethodCount + 1] = e]
        /\ \A d \in Clients : pc[d] \notin Registering
        /\ pc' = [pc EXCEPT ![c] = "handle"] /\ cur' = [cur EXCEPT ![c] = e]
    BY <1>8 DEF SetEventMethod, Goto
  <2>2. UNCHANGED <<held, queueVars, m_ResetEventInfo, htheEvent, m_theEventMethodCount,
                    signalled, threadVars, unborn, freed, m_WorkPackID, id,
                    m_isExitThread, due, alive>>
    BY <1>8 DEF SetEventMethod
  <2>3. theEventHandler' \in [Slots -> Events \cup {NULL}]
    BY <2>1
  <2>4. ClientArgs'
    <3>1. \A d \in Clients : /\ pc'[d] = IF d = c THEN "handle" ELSE pc[d]
                             /\ cur'[d] = IF d = c THEN e ELSE cur[d]
      BY <2>1
    <3>2. QED
      BY <2>1, <2>2, <3>1
  <2>5. ThreadArgs'
    BY <2>2 DEF threadVars
  <2>6. TypeOK'
    <3>1. pc' \in [Clients -> {"idle", "insert", "release", "wait", "woken", "handle", "count", "flag",
                               "stopping", "stopped", "joined"}]
      BY <2>1
    <3>2. cur' \in [Clients -> Packs \cup Queues \cup Events \cup {NULL}]
      BY <2>1
    <3>3. QED
      BY <2>2, <2>3, <3>1, <3>2 DEF queueVars, threadVars, callVars
  <2>7. QED
    BY <2>4, <2>5, <2>6
<1>9. ASSUME NEW c \in Clients, SetEventMethodFlag(c) PROVE TypeInv'
  BY <1>9 DEF SetEventMethodFlag, Goto, queueVars, eventVars, threadVars, callVars
<1>38. ASSUME NEW c \in Clients, SetEventHandle(c) PROVE TypeInv'
  BY <1>38, SMTT(20) DEF SetEventHandle, Goto, queueVars, eventVars, threadVars, callVars
<1>39. ASSUME NEW c \in Clients, SetEventCount(c) PROVE TypeInv'
  BY <1>39, SMTT(20) DEF SetEventCount, Goto, queueVars, eventVars, threadVars, callVars
<1>40. ASSUME NEW c \in Clients, NEW p \in Packs, DeletePack(c, p) PROVE TypeInv'
  BY <1>40 DEF DeletePack, queueVars, eventVars, threadVars, callVars
<1>41. CASE ScanSlot
  BY <1>41, SMTT(20) DEF ScanSlot, ThreadGoto, ThreadOnly, clientVars, queueVars, eventVars, callVars
<1>10. ASSUME NEW c \in Clients, StopThread(c) PROVE TypeInv'
  BY <1>10 DEF StopThread, Goto, queueVars, eventVars, threadVars, callVars
<1>11. ASSUME NEW c \in Clients, StopThreadRelease(c) PROVE TypeInv'
  BY <1>11, SMTT(20) DEF StopThreadRelease, Release, Goto, queueVars, eventVars, threadVars, callVars
<1>12. ASSUME NEW c \in Clients, WaitForThreadToStop(c) PROVE TypeInv'
  BY <1>12 DEF WaitForThreadToStop, Goto, queueVars, eventVars, threadVars, callVars
<1>13. ASSUME NEW c \in Clients, Destroy(c) PROVE TypeInv'
  <2>1. ToSet(queue["work"]) \subseteq Packs /\ ToSet(queue["done"]) \subseteq Packs
    BY ContentType
  <2>2. freed' \subseteq Packs
    BY <1>13, <2>1 DEF Destroy
  <2>3. queue' \in [Queues -> Seq(Packs)]
    <3> DEFINE emptied == [queue EXCEPT !["work"] = <<>>]
    <3>1. <<>> \in Seq(Packs)
      OBVIOUS
    <3>2. emptied \in [Queues -> Seq(Packs)]
      BY <3>1
    <3>3. queue' = [emptied EXCEPT !["done"] = <<>>]
      BY <1>13 DEF Destroy
    <3> QED
      BY <3>1, <3>2, <3>3
  <2>4. sem' \in [Queues -> Nat]
    BY <1>13 DEF Destroy
  <2>5. /\ pc' = [pc EXCEPT ![c] = "idle"] /\ alive' = FALSE
        /\ UNCHANGED <<cur, held, eventVars, threadVars, unborn,
                       m_WorkPackID, id, m_isExitThread, due>>
    BY <1>13 DEF Destroy, Goto
  <2>6. ClientArgs' /\ ThreadArgs'
    <3>1. \A d \in Clients : pc'[d] = pc[d] \/ pc'[d] = "idle"
      BY <2>5
    <3>2. QED
      BY <2>5, <3>1 DEF ClientArgs, ThreadArgs, eventVars, threadVars, callVars
  <2>7. TypeOK'
    <3>1. pc' \in [Clients -> {"idle", "insert", "release", "wait", "woken", "handle", "count", "flag",
                               "stopping", "stopped", "joined"}]
      BY <2>5
    <3>2. QED
      BY <2>2, <2>3, <2>4, <2>5, <3>1 DEF eventVars, threadVars, callVars
  <2>8. QED
    BY <2>6, <2>7
<1>14. ASSUME NEW e \in Events, SetEvent(e) PROVE TypeInv'
  BY <1>14 DEF SetEvent, clientVars, queueVars, eventVars, threadVars, callVars
<1>15. CASE PeriodElapses
  BY <1>15 DEF PeriodElapses, clientVars, queueVars, eventVars, threadVars, callVars
<1>16. CASE Start
  BY <1>16 DEF Start, ThreadGoto, ThreadOnly, clientVars, queueVars, eventVars, callVars
<1>17. CASE RebuildEvents
  BY <1>17 DEF RebuildEvents, ThreadGoto, ThreadOnly, clientVars, queueVars, eventVars, callVars
<1>18. CASE RebuildDone
  BY <1>18 DEF RebuildDone, ThreadGoto, ThreadOnly, clientVars, queueVars, eventVars, callVars
<1>19. CASE NoRebuild
  BY <1>19 DEF NoRebuild, ThreadGoto, ThreadOnly, clientVars, queueVars, eventVars, callVars
<1>20. CASE CheckExit
  BY <1>20 DEF CheckExit, ThreadGoto, ThreadOnly, clientVars, queueVars, eventVars, callVars
<1>21. CASE WaitWork
  BY <1>21, SMTT(20) DEF WaitWork, Acquire, ThreadGoto, ThreadOnly, clientVars, queueVars, eventVars, callVars
<1>22. CASE WaitEvent
  BY <1>22 DEF WaitEvent, SignalledIndexes, ThreadGoto, ThreadOnly, clientVars, queueVars, eventVars, callVars
<1>23. CASE WaitOther
  BY <1>23 DEF WaitOther, ThreadGoto, ThreadOnly, clientVars, queueVars, eventVars, callVars
<1>24. CASE ResultExit
  BY <1>24 DEF ResultExit, ThreadGoto, ThreadOnly, clientVars, queueVars, eventVars, callVars
<1>25. CASE TakeWork
  <2>1. CASE queue["work"] = <<>>
    BY <1>25, <2>1 DEF TakeWork, ThreadOnly, clientVars, eventVars
  <2>2. CASE queue["work"] # <<>>
    <3> DEFINE p == Head(queue["work"])
    <3>1. p \in Packs /\ Tail(queue["work"]) \in Seq(Packs)
      BY <2>2, PopType
    <3>2. Contents(p).instruction \in Nat
      BY <3>1, ContentsType
    <3>3. /\ queue' = [queue EXCEPT !["work"] = Tail(queue["work"])]
          /\ pWorkDone' = p /\ WorkId' = Contents(p).instruction /\ isPeriodic' = FALSE
          /\ at' \in {"work", "respond"}
      BY <1>25, <2>2 DEF TakeWork
    <3> QED
      BY <1>25, <3>1, <3>2, <3>3 DEF TakeWork, ThreadOnly, clientVars, eventVars
  <2> QED
    BY <2>1, <2>2
<1>26. CASE WorkerMethod
  BY <1>26, SMTT(20) DEF WorkerMethod, ThreadGoto, ThreadOnly, clientVars, queueVars, eventVars, callVars
<1>27. ASSUME NEW e \in Events, WorkerSetsEvent(e) PROVE TypeInv'
  BY <1>27, SMTT(20) DEF WorkerSetsEvent, AddEvent, ThreadGoto, ThreadOnly, clientVars, queueVars, eventVars, callVars
<1>28. CASE EventMethod
  <2>1. WorkId' \in Nat /\ isPeriodic' = FALSE /\ at' = "respond"
    BY <1>28 DEF EventMethod, ThreadGoto
  <2>2. unborn' \subseteq Packs /\ pWorkDone' \in Packs \cup {NULL}
    BY <1>28 DEF EventMethod
  <2> QED
    BY <1>28, <2>1, <2>2 DEF EventMethod, ThreadOnly, clientVars, queueVars, eventVars
<1>29. CASE NothingSignalled
  BY <1>29 DEF NothingSignalled, ThreadGoto, ThreadOnly, clientVars, queueVars, eventVars, callVars
<1>30. CASE PeriodicMethod
  BY <1>30 DEF PeriodicMethod, ThreadGoto, ThreadOnly, clientVars, queueVars, eventVars, callVars
<1>31. CASE NoPeriodicMethod
  BY <1>31 DEF NoPeriodicMethod, ThreadGoto, ThreadOnly, clientVars, queueVars, eventVars, callVars
<1>32. CASE RestartPeriod
  BY <1>32 DEF RestartPeriod, ThreadGoto, ThreadOnly, clientVars, queueVars, eventVars, callVars
<1>33. CASE RespondCopy
  <2>1. /\ at' \in {"deliver", "restart", "period"} /\ (at' = "deliver" => pWorkDone \in Packs)
        /\ UNCHANGED <<queueVars, eventVars, listVars, Result, pWorkDone, WorkId, isPeriodic, unborn, freed>>
        /\ answered' \in Packs \cup {NULL}
    BY <1>33 DEF RespondCopy, AfterResponse
  <2>2. /\ isNotify' \in BOOLEAN
        /\ m_theCallback' \in [instruction : Nat, workId : Nat, isPeriodic : BOOLEAN, dataItem : Packs \cup {NULL}]
    <3>1. CASE pWorkDone = NULL
      BY <1>33, <3>1 DEF RespondCopy
    <3>2. CASE pWorkDone \in Packs
      <4>1. Contents(pWorkDone).instruction \in Nat /\ Contents(pWorkDone).isNotifyWithCallback \in BOOLEAN
        BY <3>2, ContentsType
      <4>2. Callback(pWorkDone) \in [instruction : Nat, workId : Nat, isPeriodic : BOOLEAN, dataItem : Packs \cup {NULL}]
        BY <3>2, <4>1, NumbersAssumption DEF Callback
      <4>3. QED
        BY <1>33, <3>2, <4>1, <4>2 DEF RespondCopy
    <3>3. QED
      BY <3>1, <3>2
  <2>3. QED
    BY <1>33, <2>1, <2>2 DEF RespondCopy, ThreadOnly, clientVars, queueVars, eventVars
<1>34. CASE RespondDeliver
  <2>1. /\ pWorkDone \in Packs
        /\ at' \in {"notify", "signal"} /\ freed' \subseteq Packs
        /\ pWorkDone' \in Packs \cup {NULL} /\ (at' = "signal" => pWorkDone' \in Packs)
    BY <1>34 DEF RespondDeliver
  <2>2. queue' \in [Queues -> Seq(Packs)]
    <3>1. Push(Contents(pWorkDone).doneQ, pWorkDone) \/ UNCHANGED queue
      BY <1>34 DEF RespondDeliver
    <3> QED
      BY <2>1, <3>1, PushType
  <2> QED
    BY <1>34, <2>1, <2>2 DEF RespondDeliver, ThreadOnly, clientVars, eventVars, callVars
<1>35. CASE RespondSignal
  <2>1. sem' \in [Queues -> Nat]
    BY <1>35, ReleaseType DEF RespondSignal
  <2>2. at' = "notify"
    BY <1>35 DEF RespondSignal, ThreadGoto
  <2>3. UNCHANGED <<queue, clientVars, eventVars, listVars, Result, pWorkDone, callVars,
                    unborn, freed, id, due, m_WorkPackID, m_isExitThread, alive>>
    BY <1>35 DEF RespondSignal, ThreadOnly
  <2> QED
    BY <2>1, <2>2, <2>3 DEF clientVars, eventVars, callVars
<1>36. CASE RespondNotify
  BY <1>36 DEF RespondNotify, AfterResponse, ThreadGoto, ThreadOnly, clientVars, queueVars, eventVars, callVars
<1>37. CASE UNCHANGED vars
  BY <1>37 DEF vars, clientVars, queueVars, eventVars, threadVars, callVars
<1> HIDE DEF TypeInv, TypeOK, ClientArgs, ThreadArgs, Queues, NoWait, Registering, Slots
<1> QED
  BY <1>1, <1>2, <1>3, <1>4, <1>5, <1>6, <1>7, <1>8, <1>9, <1>10, <1>11, <1>12, <1>13, <1>14, <1>15, <1>16, <1>17, <1>18, <1>19, <1>20, <1>21, <1>22, <1>23, <1>24, <1>25, <1>26, <1>27, <1>28, <1>29, <1>30, <1>31, <1>32, <1>33, <1>34, <1>35, <1>36, <1>37, <1>38, <1>39, <1>40, <1>41
     DEF Next, ClientProgress, ThreadProgress, SendResponse

\* Every variable keeps its type.
THEOREM TypeCorrect == Spec => []TypeOK
<1>1. Spec => []TypeInv
  BY TypeInit, TypeNext, PTL DEF Spec
<1> QED
  BY <1>1, PTL DEF TypeInv
-----------------------------------------------------------------------------
(***************************************************************************)
(* The events the thread waits on and their methods, when the thread alone *)
(* registers them.                                                         *)
(***************************************************************************)
\* The slots in use come first, each with its handler; hEventList lists the
\* first of them, and all of them unless it is to be built again.
EventInv ==
  /\ \A c \in Clients : pc[c] \notin Registering
  /\ \A k \in Slots : IF k <= m_theEventMethodCount
                      THEN htheEvent[k] \in Events /\ theEventHandler[k] = htheEvent[k]
                      ELSE htheEvent[k] = NULL
  /\ Len(hEventList) <= m_theEventMethodCount
  /\ \A k \in 1 .. Len(hEventList) : hEventList[k] = htheEvent[k]
  /\ m_ResetEventInfo \/ (at # "rebuild" /\ Len(hEventList) = m_theEventMethodCount)
  /\ at = "rebuild" => Len(hEventList) = IF scanned <= m_theEventMethodCount
                                         THEN scanned ELSE m_theEventMethodCount
  /\ at = "result" => Result <= Len(hEventList)

\* What the steps below need of the types.
EventTypes ==
  /\ m_theEventMethodCount \in 0 .. MaxEvents /\ scanned \in 0 .. MaxEvents
  /\ MaxEvents \in Nat
  /\ htheEvent \in [Slots -> Events \cup {NULL}]
  /\ theEventHandler \in [Slots -> Events \cup {NULL}]
  /\ hEventList \in Seq(Events) /\ Len(hEventList) \in Nat

LEMMA EventTypesHold ==
  ASSUME TypeInv
  PROVE  EventTypes
  BY NumbersAssumption DEF TypeInv, TypeOK, EventTypes

LEMMA EventNext ==
  ASSUME Registrars = {}, TypeInv, EventInv, [Next]_vars
  PROVE  EventInv'
<1> USE DEF Slots, Registering
<1>a. EventTypes
  BY EventTypesHold
<1>1. ASSUME NEW e \in Events, WorkerSetsEvent(e) PROVE EventInv'
  <2>1. /\ at' = "work" /\ AddEvent(e) /\ m_ResetEventInfo'
        /\ UNCHANGED <<pc, hEventList, scanned>>
    BY <1>1 DEF WorkerSetsEvent, ThreadGoto, ThreadOnly, clientVars
  <2>2. m_theEventMethodCount' = m_theEventMethodCount + 1 /\ m_theEventMethodCount + 1 \in Slots
    BY <1>a, <2>1 DEF AddEvent, EventTypes
  <2>3. \A k \in Slots : /\ htheEvent'[k] = IF k = m_theEventMethodCount + 1 THEN e ELSE htheEvent[k]
                         /\ theEventHandler'[k] = IF k = m_theEventMethodCount + 1 THEN e ELSE theEventHandler[k]
    BY <1>a, <2>1, <2>2 DEF AddEvent, EventTypes
  <2>4. \A k \in Slots : IF k <= m_theEventMethodCount'
                         THEN htheEvent'[k] \in Events /\ theEventHandler'[k] = htheEvent'[k]
                         ELSE htheEvent'[k] = NULL
    BY <1>a, <2>2, <2>3 DEF EventInv, EventTypes
  <2>5. \A k \in 1 .. Len(hEventList) : k \in Slots /\ k # m_theEventMethodCount + 1
    BY <1>a DEF EventInv, EventTypes
  <2>6. \A k \in 1 .. Len(hEventList') : hEventList'[k] = htheEvent'[k]
    BY <2>1, <2>3, <2>5 DEF EventInv
  <2>7. Len(hEventList') <= m_theEventMethodCount'
    BY <1>a, <2>1, <2>2 DEF EventInv, EventTypes
  <2> QED
    BY <2>1, <2>4, <2>6, <2>7 DEF EventInv
<1>2. CASE Start
  BY <1>2 DEF Start, ThreadGoto, ThreadOnly, clientVars, EventInv
<1>3. CASE RebuildEvents
  <2>1. Len(<<>>) = 0
    OBVIOUS
  <2> QED
    BY <1>3, <1>a, <2>1 DEF RebuildEvents, ThreadGoto, ThreadOnly, clientVars, eventVars,
                            EventInv, EventTypes
<1>4. CASE ScanSlot
  <2> DEFINE k == scanned + 1
             listed == m_theEventMethodCount
  <2>1. /\ at = "rebuild" /\ at' = "rebuild" /\ scanned < MaxEvents /\ scanned' = k
        /\ hEventList' = IF htheEvent[k] = NULL THEN hEventList ELSE Append(hEventList, htheEvent[k])
        /\ UNCHANGED <<pc, theEventHandler, htheEvent, m_theEventMethodCount, m_ResetEventInfo>>
    BY <1>4 DEF ScanSlot, ThreadGoto, ThreadOnly, clientVars, eventVars
  <2>2. k \in Slots /\ k \in Nat /\ listed \in Nat
    BY <1>a, <2>1 DEF EventTypes
  <2>3. CASE k <= listed
    <3>1. htheEvent[k] \in Events /\ hEventList' = Append(hEventList, htheEvent[k])
      BY <2>1, <2>2, <2>3, EventsAssumption DEF EventInv
    <3>2. Len(hEventList) = scanned
      BY <1>a, <2>1, <2>3 DEF EventInv, EventTypes
    <3>3. /\ Len(hEventList') = k /\ hEventList'[k] = htheEvent[k]
          /\ \A i \in 1 .. scanned : hEventList'[i] = hEventList[i]
      BY <1>a, <3>1, <3>2, AppendProperties DEF EventTypes
    <3>4. \A i \in 1 .. k : i = k \/ i \in 1 .. scanned
      BY <1>a DEF EventTypes
    <3>5. \A i \in 1 .. Len(hEventList') : hEventList'[i] = htheEvent[i]
      BY <3>2, <3>3, <3>4 DEF EventInv
    <3> QED
      BY <2>1, <2>2, <2>3, <3>3, <3>5 DEF EventInv
  <2>4. CASE ~(k <= listed)
    <3>1. hEventList' = hEventList
      BY <2>1, <2>2, <2>4 DEF EventInv
    <3>2. Len(hEventList) = listed
      BY <1>a, <2>1, <2>2, <2>4 DEF EventInv, EventTypes
    <3> QED
      BY <2>1, <2>2, <2>4, <3>1, <3>2 DEF EventInv
  <2> QED
    BY <2>3, <2>4
<1>5. CASE RebuildDone
  BY <1>5, <1>a DEF RebuildDone, ThreadGoto, ThreadOnly, clientVars, EventInv, EventTypes
<1>6. CASE WaitWork \/ WaitOther
  BY <1>6, <1>a DEF WaitWork, WaitOther, NoWait, ThreadGoto, ThreadOnly, clientVars, eventVars,
                    EventInv, EventTypes
<1>7. CASE WaitEvent
  BY <1>7, <1>a DEF WaitEvent, SignalledIndexes, ThreadGoto, ThreadOnly, clientVars, EventInv,
                    EventTypes
\* The other steps of the thread change neither table nor request, and none of
\* them leads to "rebuild" or "result".
<1>8. CASE \/ NoRebuild \/ CheckExit \/ ResultExit \/ TakeWork \/ WorkerMethod \/ EventMethod
           \/ NothingSignalled \/ PeriodicMethod \/ NoPeriodicMethod \/ RestartPeriod
           \/ SendResponse
  <2>1. UNCHANGED <<pc, eventVars, listVars>> \/ (UNCHANGED <<pc, listVars, m_EventMethod, m_ResetEventInfo>>)
    BY <1>8 DEF NoRebuild, CheckExit, ResultExit, TakeWork, WorkerMethod, EventMethod,
                NothingSignalled, PeriodicMethod, NoPeriodicMethod, RestartPeriod, SendResponse,
                RespondCopy, RespondDeliver, RespondSignal, RespondNotify, ThreadOnly, clientVars
  <2>2. at' \notin {"rebuild", "result"}
    BY <1>8 DEF NoRebuild, CheckExit, ResultExit, TakeWork, WorkerMethod, EventMethod,
                NothingSignalled, PeriodicMethod, NoPeriodicMethod, RestartPeriod, SendResponse,
                RespondCopy, RespondDeliver, RespondSignal, RespondNotify, AfterResponse, ThreadGoto
  <2>3. /\ UNCHANGED <<pc, hEventList, htheEvent, theEventHandler, m_theEventMethodCount>>
        /\ UNCHANGED m_ResetEventInfo
    BY <2>1 DEF eventVars
  <2> QED
    BY <2>2, <2>3 DEF EventInv
<1>9. ASSUME NEW c \in Clients,
             \/ \E p \in Packs : StartWork(c, p) \/ DeletePack(c, p)
             \/ \E q \in {"done", "own"} : GetWork(c, q)
             \/ StopThread(c) \/ ClientProgress(c)
      PROVE  EventInv'
  <2>1. ~SetEventHandle(c) /\ ~SetEventCount(c) /\ ~SetEventMethodFlag(c)
    BY DEF SetEventHandle, SetEventCount, SetEventMethodFlag, Goto, EventInv
  <2>2. UNCHANGED <<eventVars, listVars, at, Result>>
    BY <1>9, <2>1 DEF StartWork, DeletePack, GetWork, StopThread, ClientProgress, StartWorkInsert,
                StartWorkRelease, GetWorkSignalled, GetWorkTimeout, GetWorkPop,
                StopThreadRelease, WaitForThreadToStop, Destroy, threadVars
  <2>3. PICK to \in {"insert", "release", "idle", "wait", "woken", "stopping", "stopped",
                     "joined"} : pc' = pc \/ pc' = [pc EXCEPT ![c] = to]
    BY <1>9, <2>1 DEF StartWork, DeletePack, GetWork, StopThread, ClientProgress, StartWorkInsert,
                StartWorkRelease, GetWorkSignalled, GetWorkTimeout, GetWorkPop,
                StopThreadRelease, WaitForThreadToStop, Destroy, Goto
  <2>4. pc \in [Clients -> STRING] => \A d \in Clients : pc'[d] = pc[d] \/ pc'[d] = to
    BY <2>3
  <2>5. \A d \in Clients : pc'[d] \notin Registering
    <3>1. \A d \in Clients : pc'[d] = pc[d] \/ pc'[d] = to
      BY <2>3 DEF TypeInv, TypeOK
    <3> QED
      BY <2>3, <3>1 DEF EventInv
  <2> QED
    BY <2>2, <2>5 DEF eventVars, EventInv
<1>10. ASSUME NEW c \in Clients, NEW e \in Events, SetEventMethod(c, e) PROVE FALSE
  BY <1>10 DEF SetEventMethod
<1>11. CASE (\E e \in Events : SetEvent(e)) \/ PeriodElapses \/ UNCHANGED vars
  BY <1>11 DEF SetEvent, PeriodElapses, vars, eventVars, threadVars, clientVars, EventInv
<1> QED
  BY <1>1, <1>2, <1>3, <1>4, <1>5, <1>6, <1>7, <1>8, <1>9, <1>10, <1>11 DEF Next, ThreadProgress

LEMMA EventInit == Init => EventInv
<1> SUFFICES ASSUME Init PROVE EventInv
  OBVIOUS
<1>1. Len(hEventList) = 0 /\ m_theEventMethodCount = 0 /\ at = "start" /\ ~m_ResetEventInfo
  BY DEF Init
<1>2. /\ \A c \in Clients : pc[c] \notin Registering
      /\ \A k \in Slots : htheEvent[k] = NULL /\ ~(k <= 0)
  BY DEF Init, Slots, Registering
<1> QED
  BY <1>1, <1>2 DEF EventInv

\* If setEventMethod is left to the associated thread, as its comment asks, an
\* index that a wait returned names the method registered for that event: the
\* slots in use have no gap, so that the list follows them.
THEOREM EventsFindTheirMethod == Registrars = {} => (Spec => []RightMethod)
<1> SUFFICES ASSUME Registrars = {} PROVE Spec => []RightMethod
  OBVIOUS
<1>1. TypeInv /\ EventInv => RightMethod
  <2> SUFFICES ASSUME TypeInv, EventInv, at = "result", Result > 0
               PROVE  /\ Result <= m_theEventMethodCount
                      /\ theEventHandler[Result] = hEventList[Result]
    BY DEF RightMethod
  <2>1. EventTypes /\ Result \in Int
    BY EventTypesHold, NumbersAssumption DEF TypeInv, TypeOK, NoWait
  <2>2. /\ Result \in 1 .. Len(hEventList) /\ Result <= m_theEventMethodCount
        /\ Result \in Slots
    BY <2>1 DEF EventInv, EventTypes, Slots
  <2> QED
    BY <2>2 DEF EventInv
<1>2. TypeInv /\ EventInv /\ [Next]_vars => EventInv'
  BY EventNext
<1> QED
  BY <1>1, <1>2, EventInit, TypeInit, TypeNext, PTL DEF Spec

\* Nor does the thread then ever wait on a list that lacks a registered event.
THEOREM EventsAreHeard == Registrars = {} => (Spec => []RegisteredIsHeard)
<1> SUFFICES ASSUME Registrars = {} PROVE Spec => []RegisteredIsHeard
  OBVIOUS
<1>1. TypeInv /\ EventInv => RegisteredIsHeard
  <2> SUFFICES ASSUME TypeInv, EventInv, ~m_ResetEventInfo, NEW k \in 1 .. m_theEventMethodCount
               PROVE  htheEvent[k] \in ToSet(hEventList)
    BY DEF RegisteredIsHeard
  <2>1. k \in 1 .. Len(hEventList) /\ hEventList[k] = htheEvent[k]
    BY DEF EventInv
  <2>2. DOMAIN hEventList = 1 .. Len(hEventList)
    BY EventTypesHold DEF EventTypes
  <2> QED
    BY <2>1, <2>2 DEF ToSet
<1>2. TypeInv /\ EventInv /\ [Next]_vars => EventInv'
  BY EventNext
<1> QED
  BY <1>1, <1>2, EventInit, TypeInit, TypeNext, PTL DEF Spec
-----------------------------------------------------------------------------
(***************************************************************************)
(* The order of the end, and the refinement of ActiveObject.               *)
(***************************************************************************)
\* Only the owner stops the instance, it waits for the thread before it goes
\* on, and nobody is inside a call of an instance that is gone.
StopInv ==
  /\ \A c \in Clients :
        /\ pc[c] \in {"stopping", "stopped", "joined"} => c = Owner /\ alive
        /\ pc[c] = "joined" => at = "done"
        /\ pc[c] \in {"insert", "release", "handle", "count", "flag"} => alive
  /\ ~alive => at = "done"

\* A step of the thread keeps what the clients do and is not taken after its end.
LEMMA ThreadStep ==
  ASSUME ThreadProgress \/ WaitOther \/ \E e \in Events : WorkerSetsEvent(e)
  PROVE  UNCHANGED <<pc, alive>> /\ at # "done"
<1>1. UNCHANGED <<pc, alive>>
  BY DEF ThreadProgress, Start, RebuildEvents, ScanSlot, RebuildDone, NoRebuild, CheckExit, WaitWork,
         WaitEvent, WaitOther, ResultExit, TakeWork, WorkerMethod, WorkerSetsEvent,
         EventMethod, NothingSignalled, PeriodicMethod, NoPeriodicMethod, RestartPeriod,
         SendResponse, RespondCopy, RespondDeliver, RespondSignal, RespondNotify,
         ThreadOnly, clientVars
<1>2. at # "done"
  BY DEF ThreadProgress, Start, RebuildEvents, ScanSlot, RebuildDone, NoRebuild, CheckExit, WaitWork,
         WaitEvent, WaitOther, ResultExit, TakeWork, WorkerMethod, WorkerSetsEvent,
         EventMethod, NothingSignalled, PeriodicMethod, NoPeriodicMethod, RestartPeriod,
         SendResponse, RespondCopy, RespondDeliver, RespondSignal, RespondNotify,
         ThreadGoto
<1> QED
  BY <1>1, <1>2

LEMMA StopNext ==
  ASSUME ~StopTimesOut, TypeInv, StopInv, [Next]_vars
  PROVE  StopInv'
<1> USE DEF StopInv, TypeInv, TypeOK
<1>1. CASE ThreadProgress \/ WaitOther \/ \E e \in Events : WorkerSetsEvent(e)
  BY <1>1, ThreadStep
<1>2. ASSUME NEW c \in Clients,
             \/ \E p \in Packs : StartWork(c, p) \/ DeletePack(c, p)
             \/ \E q \in {"done", "own"} : GetWork(c, q)
             \/ \E e \in Events : SetEventMethod(c, e)
             \/ StopThread(c)
      PROVE  StopInv'
  BY <1>2 DEF StartWork, DeletePack, GetWork, SetEventMethod, StopThread, Goto, threadVars
<1>3. ASSUME NEW c \in Clients, ClientProgress(c), ~Destroy(c) PROVE StopInv'
  BY <1>3 DEF ClientProgress, StartWorkInsert, StartWorkRelease, GetWorkSignalled,
              GetWorkTimeout, GetWorkPop, SetEventHandle, SetEventCount, SetEventMethodFlag, StopThreadRelease,
              WaitForThreadToStop, Goto, threadVars
<1>4. ASSUME NEW c \in Clients, Destroy(c) PROVE StopInv'
  BY <1>4 DEF Destroy, Goto, threadVars
<1>5. CASE (\E e \in Events : SetEvent(e)) \/ PeriodElapses \/ UNCHANGED vars
  BY <1>5 DEF SetEvent, PeriodElapses, vars, threadVars, clientVars
<1> QED
  BY <1>1, <1>2, <1>3, <1>4, <1>5 DEF Next

LEMMA AbstractNext ==
  ASSUME ~StopTimesOut, TypeInv, StopInv, [Next]_vars
  PROVE  [Abstract!Next]_(Abstract!vars)
<1> USE DEF Abstract!Next, Abstract!vars
\* The steps of clients.
<1>1. ASSUME NEW c \in Clients, StartWorkInsert(c) PROVE Abstract!Submit(cur[c])
  BY <1>1 DEF StartWorkInsert, Push, Goto, threadVars, StopInv, TypeInv, TypeOK, Queues,
              Abstract!Submit
<1>2. ASSUME NEW c \in Clients, GetWorkPop(c) PROVE UNCHANGED Abstract!vars
  <2>1. cur[c] # "work"
    BY <1>2 DEF GetWorkPop, Goto, TypeInv, ClientArgs
  <2>2. UNCHANGED <<at, alive>>
    BY <1>2 DEF GetWorkPop, threadVars
  <2>3. queue'["work"] = queue["work"]
    BY <1>2, <2>1 DEF GetWorkPop, TypeInv, TypeOK, Queues
  <2> QED
    BY <2>2, <2>3
<1>3. ASSUME NEW c \in Clients, Destroy(c) PROVE Abstract!Destroy
  BY <1>3 DEF Destroy, Goto, threadVars, StopInv, TypeInv, TypeOK, Queues, Abstract!Destroy
<1>4. ASSUME NEW c \in Clients,
             \/ \E p \in Packs : StartWork(c, p) \/ DeletePack(c, p)
             \/ \E q \in {"done", "own"} : GetWork(c, q)
             \/ \E e \in Events : SetEventMethod(c, e)
             \/ StopThread(c) \/ StartWorkRelease(c) \/ GetWorkSignalled(c)
             \/ GetWorkTimeout(c) \/ SetEventHandle(c) \/ SetEventCount(c)
             \/ SetEventMethodFlag(c) \/ StopThreadRelease(c) \/ WaitForThreadToStop(c)
      PROVE  UNCHANGED Abstract!vars
  BY <1>4 DEF StartWork, DeletePack, GetWork, SetEventMethod, StopThread, StartWorkRelease,
              GetWorkSignalled, GetWorkTimeout, SetEventHandle, SetEventCount, SetEventMethodFlag, StopThreadRelease,
              WaitForThreadToStop, queueVars, threadVars
<1>5. CASE (\E e \in Events : SetEvent(e)) \/ PeriodElapses \/ UNCHANGED vars
  BY <1>5 DEF SetEvent, PeriodElapses, vars, queueVars, threadVars
\* The thread takes a pack, or acts on an event or on its period.
<1>6. CASE TakeWork
  BY <1>6 DEF TakeWork, ThreadOnly, TypeInv, TypeOK, Queues, Abstract!Take
<1>7. CASE EventMethod
  BY <1>7 DEF EventMethod, ThreadGoto, ThreadOnly, queueVars, Abstract!ActAlone
<1>8. CASE PeriodicMethod
  BY <1>8 DEF PeriodicMethod, ThreadOnly, queueVars, Abstract!ActAlone
\* It is busy until it has answered.
<1>9. CASE WorkerMethod \/ RespondSignal \/ \E e \in Events : WorkerSetsEvent(e)
  BY <1>9 DEF WorkerMethod, RespondSignal, WorkerSetsEvent, ThreadGoto, ThreadOnly, queueVars
<1>10. CASE RespondCopy \/ RespondNotify
  BY <1>10 DEF RespondCopy, RespondNotify, AfterResponse, ThreadGoto, ThreadOnly, queueVars,
               Abstract!Finish
<1>11. CASE RespondDeliver
  <2>1. Contents(pWorkDone).doneQ \in {"done", "own", "null"}
    BY <1>11, ContentsType DEF RespondDeliver, TypeInv, ThreadArgs
  <2>2. queue'["work"] = queue["work"]
    BY <1>11, <2>1 DEF RespondDeliver, Push, TypeInv, TypeOK, Queues
  <2>3. at = "deliver" /\ at' \in {"notify", "signal"} /\ UNCHANGED alive
    BY <1>11 DEF RespondDeliver, ThreadOnly
  <2> QED
    BY <2>2, <2>3
\* It ends between two turns, and never while it is busy.
<1>12. CASE CheckExit \/ ResultExit \/ NoPeriodicMethod \/ RestartPeriod
  BY <1>12 DEF CheckExit, ResultExit, NoPeriodicMethod, RestartPeriod, ThreadGoto, ThreadOnly,
               queueVars, Abstract!End
<1>13. CASE Start \/ RebuildEvents \/ ScanSlot \/ RebuildDone \/ NoRebuild \/ WaitWork \/ WaitEvent
            \/ WaitOther \/ NothingSignalled
  BY <1>13 DEF Start, RebuildEvents, ScanSlot, RebuildDone, NoRebuild, WaitWork, WaitEvent, WaitOther,
               NothingSignalled, ThreadGoto, ThreadOnly, queueVars
<1>14. ASSUME NEW c \in Clients, ClientProgress(c) PROVE [Abstract!Next]_(Abstract!vars)
  <2>1. ASSUME StartWorkInsert(c) PROVE Abstract!Next
    BY <2>1, <1>1 DEF StartWorkInsert, Goto, TypeInv, ClientArgs
  <2> QED
    BY <1>14, <2>1, <1>2, <1>3, <1>4 DEF ClientProgress
<1> QED
  BY <1>4, <1>5, <1>6, <1>7, <1>8, <1>9, <1>10, <1>11, <1>12, <1>13, <1>14
     DEF Next, ThreadProgress, SendResponse

\* The instance implements an active object: packs are taken in the order in
\* which they were queued, one at a time, none after the thread has ended, and
\* the instance is destroyed only after that.
THEOREM RefinesActiveObject == ~StopTimesOut => (Spec => ImplementsActiveObject)
<1> SUFFICES ASSUME ~StopTimesOut PROVE Spec => ImplementsActiveObject
  OBVIOUS
<1>1. Init => StopInv /\ Abstract!Init
  BY DEF Init, StopInv, Abstract!Init, Queues
<1>2. TypeInv /\ StopInv /\ [Next]_vars => StopInv' /\ [Abstract!Next]_(Abstract!vars)
  BY StopNext, AbstractNext
<1> QED
  BY <1>1, <1>2, TypeInit, TypeNext, PTL DEF Spec, ImplementsActiveObject, Abstract!Spec
-----------------------------------------------------------------------------
(***************************************************************************)
(* The packs: each is in one place at a time.  Formula Ledger is an account *)
(* of them: place[p] says what kind of place pack p is in, and whose[p] the *)
(* client or the queue it belongs to there.  As a function has one value,   *)
(* an account that agrees with the state is all there is to show.           *)
(***************************************************************************)
PlaceKinds == {"held", "starting", "queue", "hand", "freed", "unborn", "dropped"}

Ledger(place, whose) ==
  /\ \A p \in Packs : place[p] \in PlaceKinds
  /\ \A c \in Clients, p \in Packs : p \in held[c] <=> place[p] = "held" /\ whose[p] = c
  /\ \A c \in Clients, p \in Packs : p \in OnItsWay(c) <=> place[p] = "starting" /\ whose[p] = c
  /\ \A q \in Queues, p \in Packs : p \in ToSet(queue[q]) <=> place[p] = "queue" /\ whose[p] = q
  /\ \A p \in Packs : p \in InHand <=> place[p] = "hand"
  /\ \A p \in Packs : p \in freed <=> place[p] = "freed"
  /\ \A p \in Packs : p \in unborn <=> place[p] = "unborn"
  /\ \A p \in Packs : place[p] \in {"held", "starting"} => whose[p] \in Clients
  /\ \A p \in Packs : place[p] = "queue" => whose[p] \in Queues
  /\ \A p \in Packs : place[p] = "dropped" => Kind[p].isSendResult /\ Kind[p].doneQ = "null"

Owners == Clients \cup Queues \cup {NULL}

\* No queue has a pack twice, and there is an account.
OwnInv ==
  /\ \A q \in Queues : IsInjective(queue[q])
  /\ \E place \in [Packs -> PlaceKinds], whose \in [Packs -> Owners] : Ledger(place, whose)

LEMMA OwnInit == Init => OwnInv
<1>1. SUFFICES ASSUME Init PROVE OwnInv
  OBVIOUS
<1>2. PICK sender \in [Packs \ Fresh -> Clients] :
         held = [c \in Clients |-> {p \in Packs \ Fresh : sender[p] = c}]
  BY <1>1 DEF Init
<1>3. \A q \in Queues : IsInjective(queue[q]) /\ ToSet(queue[q]) = {}
  <2>1. \A q \in Queues : queue[q] = <<>>
    BY <1>1 DEF Init
  <2>2. QED
    BY <2>1, EmptyItems
<1>4. /\ InHand = {} /\ freed = {} /\ unborn = Fresh
      /\ \A c \in Clients : OnItsWay(c) = {}
  BY <1>1 DEF Init, InHand, OnItsWay
<1> DEFINE place == [p \in Packs |-> IF p \in Fresh THEN "unborn" ELSE "held"]
           whose == [p \in Packs |-> IF p \in Fresh THEN NULL ELSE sender[p]]
<1>5. place \in [Packs -> PlaceKinds] /\ whose \in [Packs -> Owners]
  BY <1>2 DEF PlaceKinds, Owners
<1>6. Ledger(place, whose)
  <2>1. \A c \in Clients, p \in Packs : p \in held[c] <=> place[p] = "held" /\ whose[p] = c
    BY <1>2
  <2>2. QED
    BY <1>2, <1>3, <1>4, <2>1, PacksAssumption DEF Ledger, PlaceKinds
<1>7. QED
  BY <1>3, <1>5, <1>6 DEF OwnInv

\* A step that changes nobody's packs.
LEMMA OwnQuiet ==
  ASSUME OwnInv, UNCHANGED <<held, queue, freed, unborn>>, InHand' = InHand,
         \A c \in Clients : OnItsWay(c)' = OnItsWay(c)
  PROVE  OwnInv'
<1>1. PICK place \in [Packs -> PlaceKinds], whose \in [Packs -> Owners] : Ledger(place, whose)
  BY DEF OwnInv
<1>2. Ledger(place, whose)'
  BY <1>1 DEF Ledger
<1>3. QED
  BY <1>1, <1>2 DEF OwnInv

\* A step that takes one pack to a new place and leaves the others where they are.
OthersStay(p) ==
  \A r \in Packs \ {p} :
     /\ \A c \in Clients : (r \in held'[c] <=> r \in held[c]) /\ (r \in OnItsWay(c)' <=> r \in OnItsWay(c))
     /\ \A q \in Queues : r \in ToSet(queue[q])' <=> r \in ToSet(queue[q])
     /\ r \in InHand' <=> r \in InHand
     /\ r \in freed' <=> r \in freed
     /\ r \in unborn' <=> r \in unborn

Reaches(p, kind, owner) ==
  /\ \A c \in Clients : (p \in held'[c] <=> kind = "held" /\ owner = c)
                      /\ (p \in OnItsWay(c)' <=> kind = "starting" /\ owner = c)
  /\ \A q \in Queues : p \in ToSet(queue[q])' <=> kind = "queue" /\ owner = q
  /\ p \in InHand' <=> kind = "hand"
  /\ p \in freed' <=> kind = "freed"
  /\ p \in unborn' <=> kind = "unborn"

LEMMA OwnMove ==
  ASSUME OwnInv, NEW p \in Packs, NEW kind \in PlaceKinds, NEW owner \in Owners,
         OthersStay(p), Reaches(p, kind, owner),
         \A q \in Queues : IsInjective(queue[q])',
         kind \in {"held", "starting"} => owner \in Clients,
         kind = "queue" => owner \in Queues,
         kind = "dropped" => Kind[p].isSendResult /\ Kind[p].doneQ = "null"
  PROVE  OwnInv'
<1>1. PICK place \in [Packs -> PlaceKinds], whose \in [Packs -> Owners] : Ledger(place, whose)
  BY DEF OwnInv
<1> DEFINE np == [place EXCEPT ![p] = kind]
           nw == [whose EXCEPT ![p] = owner]
<1>2. np \in [Packs -> PlaceKinds] /\ nw \in [Packs -> Owners]
  OBVIOUS
<1>3. /\ np[p] = kind /\ nw[p] = owner
      /\ \A r \in Packs \ {p} : np[r] = place[r] /\ nw[r] = whose[r]
  OBVIOUS
<1> HIDE DEF np, nw
<1>4. Ledger(np, nw)'
  BY <1>1, <1>2, <1>3 DEF Ledger, OthersStay, Reaches
<1>5. QED
  BY <1>2, <1>4 DEF OwnInv

\* The steps of the clients.
LEMMA OwnClient ==
  ASSUME TypeInv, OwnInv, NEW c \in Clients,
         \/ \E p \in Packs : StartWork(c, p) \/ DeletePack(c, p)
         \/ \E q \in {"done", "own"} : GetWork(c, q)
         \/ \E e \in Events : SetEventMethod(c, e)
         \/ StopThread(c)
         \/ ClientProgress(c)
  PROVE  OwnInv'
<1>1. PICK place \in [Packs -> PlaceKinds], whose \in [Packs -> Owners] : Ledger(place, whose)
  BY DEF OwnInv
<1>2. /\ queue \in [Queues -> Seq(Packs)] /\ held \in [Clients -> SUBSET Packs]
      /\ pc \in [Clients -> {"idle", "insert", "release", "wait", "woken", "handle", "count", "flag",
                             "stopping", "stopped", "joined"}]
      /\ cur \in [Clients -> Packs \cup Queues \cup Events \cup {NULL}]
      /\ ClientArgs
  BY DEF TypeInv, TypeOK
<1>3. \A q \in Queues : IsInjective(queue[q])
  BY DEF OwnInv
<1>4. ASSUME NEW p \in Packs, StartWork(c, p) PROVE OwnInv'
  <2>1. /\ p \in held[c] /\ pc[c] = "idle"
        /\ pc' = [pc EXCEPT ![c] = "insert"] /\ cur' = [cur EXCEPT ![c] = p]
        /\ held' = [held EXCEPT ![c] = held[c] \ {p}]
        /\ UNCHANGED <<queue, at, pWorkDone, freed, unborn>>
    BY <1>4 DEF StartWork, Goto, queueVars, threadVars
  <2>2. place[p] = "held" /\ whose[p] = c
    BY <1>1, <2>1 DEF Ledger
  <2>3. InHand' = InHand
    BY <2>1 DEF InHand
  <2>4. /\ OnItsWay(c) = {} /\ OnItsWay(c)' = {p}
        /\ \A d \in Clients \ {c} : OnItsWay(d)' = OnItsWay(d) /\ held'[d] = held[d]
        /\ held'[c] = held[c] \ {p}
    BY <1>2, <2>1 DEF OnItsWay
  <2>5. OthersStay(p)
    BY <2>1, <2>3, <2>4 DEF OthersStay
  <2>6. Reaches(p, "starting", c)
    BY <1>1, <2>1, <2>2, <2>3, <2>4 DEF Reaches, Ledger
  <2>7. \A q \in Queues : IsInjective(queue[q])'
    BY <1>3, <2>1
  <2>8. QED
    BY <2>5, <2>6, <2>7, OwnMove DEF PlaceKinds, Owners
<1>5. ASSUME StartWorkInsert(c) PROVE OwnInv'
  <2> DEFINE p == cur[c]
  <2>1. /\ pc[c] = "insert" /\ pc' = [pc EXCEPT ![c] = "release"]
        /\ queue' = [queue EXCEPT !["work"] = Append(queue["work"], p)]
        /\ UNCHANGED <<cur, held, at, pWorkDone, freed, unborn>>
    BY <1>5 DEF StartWorkInsert, Goto, Push, threadVars
  <2>2. p \in Packs /\ OnItsWay(c) = {p}
    BY <1>2, <2>1 DEF ClientArgs, OnItsWay
  <2>3. place[p] = "starting" /\ whose[p] = c
    BY <1>1, <2>2 DEF Ledger
  <2>4. "work" \in Queues /\ queue["work"] \in Seq(Packs) /\ IsInjective(queue["work"])
    BY <1>2, <1>3 DEF Queues
  <2>5. p \notin ToSet(queue["work"])
    BY <1>1, <2>2, <2>3, <2>4 DEF Ledger
  <2> HIDE DEF p
  <2>6. /\ ToSet(Append(queue["work"], p)) = ToSet(queue["work"]) \cup {p}
        /\ IsInjective(Append(queue["work"], p))
    BY <2>2, <2>4, <2>5, AppendItem
  <2>7. /\ queue'["work"] = Append(queue["work"], p)
        /\ \A q \in Queues \ {"work"} : queue'[q] = queue[q]
    BY <1>2, <2>1, <2>4
  <2>8. \A q \in Queues : IsInjective(queue[q])'
    BY <1>3, <2>6, <2>7
  <2>9. InHand' = InHand
    BY <2>1 DEF InHand
  <2>10. /\ OnItsWay(c)' = {}
         /\ \A d \in Clients \ {c} : OnItsWay(d)' = OnItsWay(d)
    BY <1>2, <2>1 DEF OnItsWay
  <2>11. OthersStay(p)
    BY <2>1, <2>2, <2>6, <2>7, <2>9, <2>10 DEF OthersStay
  <2>12. Reaches(p, "queue", "work")
    BY <1>1, <2>1, <2>2, <2>3, <2>4, <2>6, <2>7, <2>9, <2>10 DEF Reaches, Ledger
  <2>13. QED
    BY <2>2, <2>4, <2>8, <2>11, <2>12, OwnMove DEF PlaceKinds, Owners
<1>6. ASSUME GetWorkPop(c) PROVE OwnInv'
  <2> DEFINE q == cur[c]
  <2>1. /\ pc[c] = "woken" /\ pc' = [pc EXCEPT ![c] = "idle"]
        /\ cur' = [cur EXCEPT ![c] = NULL]
        /\ UNCHANGED <<at, pWorkDone, freed, unborn>>
    BY <1>6 DEF GetWorkPop, Goto, threadVars
  <2>2. q \in Queues /\ queue[q] \in Seq(Packs) /\ IsInjective(queue[q])
    BY <1>2, <1>3, <2>1 DEF ClientArgs, Queues
  <2>3. InHand' = InHand /\ \A d \in Clients : OnItsWay(d)' = OnItsWay(d)
    BY <1>2, <2>1 DEF InHand, OnItsWay
  <2>4. CASE queue[q] = <<>>
    <3>1. UNCHANGED <<held, queue>>
      BY <1>6, <2>4 DEF GetWorkPop
    <3>2. QED
      BY <2>1, <2>3, <3>1, OwnQuiet
  <2>5. CASE queue[q] # <<>>
    <3> DEFINE p == Head(queue[q])
    <3>1. /\ queue' = [queue EXCEPT ![q] = Tail(queue[q])]
          /\ held' = [held EXCEPT ![c] = held[c] \cup {p}]
      BY <1>6, <2>5 DEF GetWorkPop
    <3> HIDE DEF q
    <3>2. /\ p \in Packs /\ p \in ToSet(queue[q]) /\ p \notin ToSet(Tail(queue[q]))
          /\ ToSet(Tail(queue[q])) \cup {p} = ToSet(queue[q])
          /\ IsInjective(Tail(queue[q]))
      BY <2>2, <2>5, TailItem
    <3> HIDE DEF p
    <3>3. place[p] = "queue" /\ whose[p] = q
      BY <1>1, <2>2, <3>2 DEF Ledger
    <3>4. /\ queue'[q] = Tail(queue[q])
          /\ \A r \in Queues \ {q} : queue'[r] = queue[r]
      BY <1>2, <2>2, <3>1
    <3>5. /\ held'[c] = held[c] \cup {p}
          /\ \A d \in Clients \ {c} : held'[d] = held[d]
      BY <1>2, <3>1
    <3>6. \A r \in Queues : IsInjective(queue[r])'
      BY <1>3, <3>2, <3>4
    <3>7. OthersStay(p)
      BY <2>1, <2>3, <3>2, <3>4, <3>5 DEF OthersStay
    <3>8. Reaches(p, "held", c)
      BY <1>1, <2>1, <2>2, <2>3, <3>2, <3>3, <3>4, <3>5 DEF Reaches, Ledger
    <3>9. QED
      BY <3>2, <3>6, <3>7, <3>8, OwnMove DEF PlaceKinds, Owners
  <2>6. QED
    BY <2>4, <2>5
<1>7. ASSUME Destroy(c) PROVE OwnInv'
  <2>1. /\ pc[c] = "joined" /\ pc' = [pc EXCEPT ![c] = "idle"]
        /\ freed' = freed \cup ToSet(queue["work"]) \cup ToSet(queue["done"])
        /\ queue' = [queue EXCEPT !["work"] = <<>>, !["done"] = <<>>]
        /\ UNCHANGED <<cur, held, at, pWorkDone, unborn>>
    BY <1>7 DEF Destroy, Goto, threadVars
  <2>2. /\ queue'["work"] = <<>> /\ queue'["done"] = <<>> /\ queue'["own"] = queue["own"]
        /\ Queues = {"work", "done", "own"}
    BY <1>2, <2>1 DEF Queues
  <2>3. /\ ToSet(queue["work"])' = {} /\ ToSet(queue["done"])' = {}
        /\ ToSet(queue["own"])' = ToSet(queue["own"])
        /\ \A q \in Queues : IsInjective(queue[q])'
    BY <1>3, <2>2, EmptyItems
  <2>4. InHand' = InHand /\ \A d \in Clients : OnItsWay(d)' = OnItsWay(d)
    BY <1>2, <2>1 DEF InHand, OnItsWay
  <2> DEFINE np == [p \in Packs |-> IF place[p] = "queue" /\ whose[p] \in {"work", "done"}
                                    THEN "freed" ELSE place[p]]
  <2>5. np \in [Packs -> PlaceKinds]
    BY DEF PlaceKinds
  <2>6. Ledger(np, whose)'
    <3>1. \A q \in Queues, p \in Packs :
             p \in ToSet(queue[q])' <=> np[p] = "queue" /\ whose[p] = q
      BY <1>1, <2>2, <2>3 DEF Ledger
    <3>2. \A p \in Packs : p \in freed' <=> np[p] = "freed"
      BY <1>1, <2>1, <2>2 DEF Ledger
    <3>3. /\ \A p \in Packs : np[p] \in {"queue", "freed"} \/ np[p] = place[p]
          /\ \A p \in Packs : np[p] # place[p] => place[p] = "queue" /\ np[p] = "freed"
      OBVIOUS
    <3> HIDE DEF np
    <3>4. \A p \in Packs, k \in PlaceKinds \ {"queue", "freed"} : np[p] = k <=> place[p] = k
      BY <3>3, <2>5 DEF PlaceKinds
    <3>5. \A p \in Packs : np[p] = "queue" => place[p] = "queue"
      BY <3>3
    <3>6. \A p \in Packs :
             /\ np[p] = "held" <=> place[p] = "held"
             /\ np[p] = "starting" <=> place[p] = "starting"
             /\ np[p] = "hand" <=> place[p] = "hand"
             /\ np[p] = "unborn" <=> place[p] = "unborn"
             /\ np[p] = "dropped" <=> place[p] = "dropped"
      BY <3>4 DEF PlaceKinds
    <3>7. \A d \in Clients, p \in Packs : p \in held'[d] <=> np[p] = "held" /\ whose[p] = d
      BY <1>1, <2>1, <3>6 DEF Ledger
    <3>8. \A d \in Clients, p \in Packs : p \in OnItsWay(d)' <=> np[p] = "starting" /\ whose[p] = d
      BY <1>1, <2>4, <3>6 DEF Ledger
    <3>9. \A p \in Packs : (p \in InHand' <=> np[p] = "hand") /\ (p \in unborn' <=> np[p] = "unborn")
      BY <1>1, <2>1, <2>4, <3>6 DEF Ledger
    <3>10. \A p \in Packs : /\ np[p] \in {"held", "starting"} => whose[p] \in Clients
                            /\ np[p] = "queue" => whose[p] \in Queues
                            /\ np[p] = "dropped" => Kind[p].isSendResult /\ Kind[p].doneQ = "null"
      BY <1>1, <3>5, <3>6 DEF Ledger
    <3>11. QED
      BY <2>5, <3>1, <3>2, <3>7, <3>8, <3>9, <3>10 DEF Ledger
  <2>7. QED
    BY <2>3, <2>5, <2>6 DEF OwnInv
<1>10. ASSUME NEW p \in Packs, DeletePack(c, p) PROVE OwnInv'
  <2>1. /\ p \in held[c] /\ held' = [held EXCEPT ![c] = held[c] \ {p}]
        /\ freed' = freed \cup {p}
        /\ UNCHANGED <<pc, cur, queue, at, pWorkDone, unborn>>
    BY <1>10 DEF DeletePack, queueVars, threadVars
  <2>2. place[p] = "held" /\ whose[p] = c
    BY <1>1, <2>1 DEF Ledger
  <2>3. InHand' = InHand /\ \A d \in Clients : OnItsWay(d)' = OnItsWay(d)
    BY <2>1 DEF InHand, OnItsWay
  <2>4. /\ \A d \in Clients \ {c} : held'[d] = held[d]
        /\ held'[c] = held[c] \ {p}
    BY <1>2, <2>1
  <2>5. OthersStay(p)
    BY <2>1, <2>3, <2>4 DEF OthersStay
  <2>6. Reaches(p, "freed", NULL)
    BY <1>1, <2>1, <2>2, <2>3, <2>4 DEF Reaches, Ledger
  <2>7. \A q \in Queues : IsInjective(queue[q])'
    BY <1>3, <2>1
  <2>8. QED
    BY <2>5, <2>6, <2>7, OwnMove DEF PlaceKinds, Owners
<1>8. ASSUME \/ StartWorkRelease(c) \/ GetWorkSignalled(c) \/ GetWorkTimeout(c) \/ SetEventHandle(c)
             \/ SetEventCount(c) \/ SetEventMethodFlag(c)
             \/ StopThreadRelease(c) \/ WaitForThreadToStop(c) \/ StopThread(c)
             \/ (\E q \in {"done", "own"} : GetWork(c, q)) \/ (\E e \in Events : SetEventMethod(c, e))
      PROVE  OwnInv'
  <2>1. /\ UNCHANGED <<held, queue, freed, unborn, at, pWorkDone>>
        /\ \E to \in {"idle", "wait", "woken", "handle", "count", "flag", "stopping", "stopped", "joined"} :
              pc[c] # "insert" /\ pc' = [pc EXCEPT ![c] = to]
        /\ \E x : cur' = [cur EXCEPT ![c] = x]
    BY <1>2, <1>8 DEF StartWorkRelease, GetWorkSignalled, GetWorkTimeout, SetEventHandle, SetEventCount, SetEventMethodFlag, StopThreadRelease,
       WaitForThreadToStop, StopThread, GetWork, SetEventMethod, Goto, queueVars, threadVars
  <2>2. InHand' = InHand /\ \A d \in Clients : OnItsWay(d)' = OnItsWay(d)
    BY <1>2, <2>1 DEF InHand, OnItsWay
  <2>3. QED
    BY <2>1, <2>2, OwnQuiet
<1>9. QED
  BY <1>4, <1>5, <1>6, <1>7, <1>8, <1>10 DEF ClientProgress

\* The steps of the thread.
LEMMA OwnThread ==
  ASSUME TypeInv, OwnInv,
         ThreadProgress \/ WaitOther \/ \E e \in Events : WorkerSetsEvent(e)
  PROVE  OwnInv'
<1>1. PICK place \in [Packs -> PlaceKinds], whose \in [Packs -> Owners] : Ledger(place, whose)
  BY DEF OwnInv
<1>2. /\ queue \in [Queues -> Seq(Packs)] /\ pWorkDone \in Packs \cup {NULL}
      /\ at \in {"work", "deliver", "signal"} => pWorkDone \in Packs
      /\ NULL \notin Packs /\ unborn \subseteq Packs
  BY PacksAssumption DEF TypeInv, TypeOK, ThreadArgs
<1>3. \A q \in Queues : IsInjective(queue[q])
  BY DEF OwnInv
<1>4. ASSUME UNCHANGED clientVars
      PROVE  /\ held' = held
             /\ \A c \in Clients : OnItsWay(c)' = OnItsWay(c)
  BY <1>4 DEF clientVars, OnItsWay
<1>5. ASSUME \/ Start \/ RebuildEvents \/ ScanSlot \/ RebuildDone \/ NoRebuild \/ CheckExit \/ WaitWork \/ WaitEvent
             \/ WaitOther \/ ResultExit \/ NothingSignalled \/ NoPeriodicMethod \/ RestartPeriod
             \/ RespondSignal \/ RespondNotify \/ RespondCopy \/ \E e \in Events : WorkerSetsEvent(e)
      PROVE  OwnInv'
  <2>1. /\ UNCHANGED <<queue, freed, unborn, pWorkDone>> /\ UNCHANGED clientVars
        /\ \/ at \notin {"work", "respond", "deliver"} /\ at' \notin {"work", "respond", "deliver"}
           \/ at \in {"work", "respond", "deliver"} /\ at' \in {"work", "respond", "deliver"}
           \/ pWorkDone = NULL
    BY <1>5 DEF Start, RebuildEvents, ScanSlot, RebuildDone, NoRebuild, CheckExit, WaitWork, WaitEvent, WaitOther,
       ResultExit, NothingSignalled, NoPeriodicMethod, RestartPeriod, RespondSignal, RespondNotify, RespondCopy,
       AfterResponse, WorkerSetsEvent, ThreadGoto, ThreadOnly, queueVars
  <2>2. InHand' = InHand
    BY <2>1 DEF InHand
  <2>3. QED
    BY <1>4, <2>1, <2>2, OwnQuiet
<1>6. ASSUME TakeWork PROVE OwnInv'
  <2>1. at = "result" /\ UNCHANGED <<freed, unborn>> /\ UNCHANGED clientVars
    BY <1>6 DEF TakeWork, ThreadOnly
  <2>2. CASE queue["work"] = <<>>
    <3>1. at' = "period" /\ UNCHANGED <<queue, pWorkDone>>
      BY <1>6, <2>2 DEF TakeWork
    <3>2. InHand' = InHand
      BY <2>1, <3>1 DEF InHand
    <3>3. QED
      BY <1>4, <2>1, <3>1, <3>2, OwnQuiet
  <2>3. CASE queue["work"] # <<>>
    <3> DEFINE p == Head(queue["work"])
    <3>1. /\ queue' = [queue EXCEPT !["work"] = Tail(queue["work"])]
          /\ pWorkDone' = p /\ at' \in {"work", "respond"}
      BY <1>6, <2>3 DEF TakeWork
    <3>2. "work" \in Queues /\ queue["work"] \in Seq(Packs) /\ IsInjective(queue["work"])
      BY <1>2, <1>3 DEF Queues
    <3>3. /\ p \in Packs /\ p \in ToSet(queue["work"]) /\ p \notin ToSet(Tail(queue["work"]))
          /\ ToSet(Tail(queue["work"])) \cup {p} = ToSet(queue["work"])
          /\ IsInjective(Tail(queue["work"]))
      BY <2>3, <3>2, TailItem
    <3> HIDE DEF p
    <3>4. place[p] = "queue" /\ whose[p] = "work"
      BY <1>1, <3>2, <3>3 DEF Ledger
    <3>5. /\ queue'["work"] = Tail(queue["work"])
          /\ \A q \in Queues \ {"work"} : queue'[q] = queue[q]
      BY <1>2, <3>1, <3>2
    <3>6. InHand = {} /\ InHand' = {p}
      BY <1>2, <2>1, <3>1, <3>3 DEF InHand
    <3>7. \A q \in Queues : IsInjective(queue[q])'
      BY <1>3, <3>3, <3>5
    <3>8. OthersStay(p)
      BY <1>4, <2>1, <3>3, <3>5, <3>6 DEF OthersStay
    <3>9. Reaches(p, "hand", NULL)
      BY <1>1, <1>4, <2>1, <3>2, <3>3, <3>4, <3>5, <3>6 DEF Reaches, Ledger
    <3>10. QED
      BY <3>3, <3>7, <3>8, <3>9, OwnMove DEF PlaceKinds, Owners
  <2>4. QED
    BY <2>2, <2>3
<1>7. ASSUME NEW r \in {NULL} \cup unborn,
             UNCHANGED <<queue, freed>>, UNCHANGED clientVars, InHand = {}, InHand' = {r} \ {NULL}, unborn' = unborn \ {r}
      PROVE  OwnInv'
  <2>1. CASE r = NULL
    <3>1. InHand' = InHand /\ unborn' = unborn
      BY <1>2, <1>7, <2>1
    <3>2. QED
      BY <1>4, <1>7, <3>1, OwnQuiet
  <2>2. CASE r # NULL
    <3>1. r \in Packs /\ r \in unborn /\ InHand' = {r}
      BY <1>2, <1>7, <2>2
    <3>2. place[r] = "unborn"
      BY <1>1, <3>1 DEF Ledger
    <3>3. OthersStay(r)
      BY <1>4, <1>7, <3>1 DEF OthersStay
    <3>4. Reaches(r, "hand", NULL)
      BY <1>1, <1>4, <1>7, <3>1, <3>2 DEF Reaches, Ledger
    <3>5. QED
      BY <1>3, <1>7, <3>1, <3>3, <3>4, OwnMove DEF PlaceKinds, Owners
  <2>3. QED
    BY <2>1, <2>2
<1>8. ASSUME EventMethod \/ PeriodicMethod PROVE OwnInv'
  <2>1. PICK r \in {NULL} \cup unborn :
           /\ pWorkDone' = r /\ unborn' = unborn \ {r}
           /\ at \in {"result", "period"} /\ (at' = "respond" \/ (at' = "restart" /\ r = NULL))
           /\ UNCHANGED <<queue, freed>> /\ UNCHANGED clientVars
    <3>1. CASE EventMethod
      BY <3>1 DEF EventMethod, ThreadGoto, ThreadOnly, queueVars
    <3>2. CASE PeriodicMethod
      <4>1. PICK r \in {NULL} \cup unborn :
               /\ pWorkDone' = r /\ unborn' = unborn \ {r}
               /\ at' = (IF r = NULL THEN "restart" ELSE "respond")
        BY <3>2 DEF PeriodicMethod
      <4>2. at' = "respond" \/ (at' = "restart" /\ r = NULL)
        BY <4>1
      <4>3. at \in {"result", "period"} /\ UNCHANGED <<queue, freed>> /\ UNCHANGED clientVars
        BY <3>2 DEF PeriodicMethod, ThreadOnly, queueVars
      <4>4. QED
        BY <4>1, <4>2, <4>3
    <3>3. QED
      BY <1>8, <3>1, <3>2
  <2>2. InHand = {} /\ InHand' = {r} \ {NULL}
    BY <2>1 DEF InHand
  <2>3. QED
    BY <1>7, <2>1, <2>2
<1>9. ASSUME WorkerMethod PROVE OwnInv'
  <2>0. PICK p \in Packs : p = pWorkDone
    BY <1>2, <1>9 DEF WorkerMethod, ThreadGoto
  <2>1. PICK r \in {p, NULL} \cup unborn :
           /\ pWorkDone' = r
           /\ freed' = IF r = p THEN freed ELSE freed \cup {p}
           /\ unborn' = unborn \ {r}
    BY <1>9, <2>0 DEF WorkerMethod
  <2>2. /\ at = "work" /\ at' = "respond"
        /\ UNCHANGED queue /\ UNCHANGED clientVars
    BY <1>9 DEF WorkerMethod, ThreadGoto, ThreadOnly, queueVars
  <2>3. InHand = {p} /\ InHand' = {r} \ {NULL}
    BY <1>2, <2>0, <2>1, <2>2 DEF InHand
  <2>4. place[p] = "hand" /\ p \notin unborn
    BY <1>1, <2>2, <2>3 DEF Ledger
  <2>5. CASE r = p
    <3>1. freed' = freed /\ unborn' = unborn /\ InHand' = InHand
      BY <1>2, <2>1, <2>2, <2>3, <2>4, <2>5
    <3>2. QED
      BY <1>4, <2>2, <3>1, OwnQuiet
  <2>6. CASE r # p
    <3>1. freed' = freed \cup {p} /\ unborn' = unborn \ {r} /\ InHand' = {r} \ {NULL}
      BY <2>1, <2>3, <2>6
    <3>2. r = NULL \/ (r \in unborn /\ r \in Packs /\ place[r] = "unborn")
      BY <1>1, <1>2, <2>1, <2>6 DEF Ledger
    <3> DEFINE np == [s \in Packs |-> IF s = p THEN "freed" ELSE IF s = r THEN "hand" ELSE place[s]]
    <3>3. np \in [Packs -> PlaceKinds]
      BY DEF PlaceKinds
    <3>4. /\ np[p] = "freed" /\ (r # NULL => np[r] = "hand")
          /\ \A s \in Packs \ {p, r} : np[s] = place[s]
      BY <2>2, <2>6, <3>2
    <3> HIDE DEF np
    <3>5. /\ \A s \in Packs : s \in InHand' <=> np[s] = "hand"
          /\ \A s \in Packs : s \in freed' <=> np[s] = "freed"
          /\ \A s \in Packs : s \in unborn' <=> np[s] = "unborn"
      BY <1>1, <1>2, <2>2, <2>3, <2>4, <2>6, <3>1, <3>2, <3>4 DEF Ledger
    <3>6. \A s \in Packs : np[s] # place[s] => {np[s], place[s]} \subseteq {"hand", "freed", "unborn"}
      BY <1>2, <2>4, <2>6, <3>2, <3>4
    <3>7. /\ \A c \in Clients, s \in Packs : s \in held'[c] <=> np[s] = "held" /\ whose[s] = c
          /\ \A c \in Clients, s \in Packs : s \in OnItsWay(c)' <=> np[s] = "starting" /\ whose[s] = c
          /\ \A q \in Queues, s \in Packs : s \in ToSet(queue[q])' <=> np[s] = "queue" /\ whose[s] = q
      BY <1>1, <1>4, <2>2, <3>6 DEF Ledger
    <3>8. Ledger(np, whose)'
      <4>1. \A s \in Packs :
               /\ np[s] \in PlaceKinds
               /\ np[s] \in {"held", "starting"} => place[s] \in {"held", "starting"}
               /\ np[s] = "queue" => place[s] = "queue"
               /\ np[s] = "dropped" => place[s] = "dropped"
        BY <3>3, <3>6
      <4>2. QED
        BY <1>1, <3>5, <3>7, <4>1 DEF Ledger
    <3>9. \A q \in Queues : IsInjective(queue[q])'
      BY <1>3, <2>2
    <3>10. QED
      BY <3>3, <3>8, <3>9 DEF OwnInv
  <2>7. QED
    BY <2>5, <2>6
<1>10. ASSUME RespondDeliver PROVE OwnInv'
  <2> DEFINE p == pWorkDone
  <2>1. /\ at = "deliver" /\ at' \in {"notify", "signal"} /\ p \in Packs
        /\ UNCHANGED unborn /\ UNCHANGED clientVars
    BY <1>2, <1>10 DEF RespondDeliver, ThreadOnly
  <2>2. InHand = {p} /\ InHand' = {}
    BY <1>2, <2>1 DEF InHand
  <2>3. place[p] = "hand"
    BY <1>1, <2>1, <2>2 DEF Ledger
  <2>8. Contents(p) = Kind[p]
    BY <1>1, <2>1, <2>3 DEF Ledger, Contents
  <2>4. CASE Kind[p].isSendResult /\ Kind[p].doneQ = "null"
    <3>1. UNCHANGED <<queue, freed>>
      BY <1>10, <2>4, <2>8 DEF RespondDeliver
    <3>2. OthersStay(p)
      BY <1>4, <2>1, <2>2, <3>1 DEF OthersStay
    <3>3. Reaches(p, "dropped", NULL)
      BY <1>1, <1>4, <2>1, <2>2, <2>3, <3>1 DEF Reaches, Ledger
    <3>4. QED
      BY <1>3, <2>1, <2>4, <3>1, <3>2, <3>3, OwnMove DEF PlaceKinds, Owners
  <2>5. CASE Kind[p].isSendResult /\ Kind[p].doneQ # "null"
    <3> DEFINE q == Kind[p].doneQ
    <3>1. q \in Queues
      BY <2>1, <2>5, KindType DEF Queues
    <3>2. queue' = [queue EXCEPT ![q] = Append(queue[q], p)] /\ UNCHANGED freed
      BY <1>10, <2>5, <2>8 DEF RespondDeliver, Push
    <3> HIDE DEF q, p
    <3>3. p \notin ToSet(queue[q])
      BY <1>1, <2>1, <2>3, <3>1 DEF Ledger
    <3>4. /\ ToSet(Append(queue[q], p)) = ToSet(queue[q]) \cup {p}
          /\ IsInjective(Append(queue[q], p))
      BY <1>2, <1>3, <2>1, <3>1, <3>3, AppendItem
    <3>5. /\ queue'[q] = Append(queue[q], p)
          /\ \A s \in Queues \ {q} : queue'[s] = queue[s]
      BY <1>2, <3>1, <3>2
    <3>6. \A s \in Queues : IsInjective(queue[s])'
      BY <1>3, <3>4, <3>5
    <3>7. OthersStay(p)
      BY <1>4, <2>1, <2>2, <3>2, <3>4, <3>5 DEF OthersStay
    <3>8. Reaches(p, "queue", q)
      BY <1>1, <1>4, <2>1, <2>2, <2>3, <3>1, <3>2, <3>4, <3>5 DEF Reaches, Ledger
    <3>9. QED
      BY <2>1, <3>1, <3>6, <3>7, <3>8, OwnMove DEF PlaceKinds, Owners
  <2>6. CASE ~Kind[p].isSendResult
    <3>1. freed' = freed \cup {p} /\ UNCHANGED queue
      BY <1>10, <2>6, <2>8 DEF RespondDeliver
    <3>2. OthersStay(p)
      BY <1>4, <2>1, <2>2, <3>1 DEF OthersStay
    <3>3. Reaches(p, "freed", NULL)
      BY <1>1, <1>4, <2>1, <2>2, <2>3, <3>1 DEF Reaches, Ledger
    <3>4. QED
      BY <1>3, <2>1, <3>1, <3>2, <3>3, OwnMove DEF PlaceKinds, Owners
  <2>7. QED
    BY <2>4, <2>5, <2>6
<1>11. QED
  BY <1>5, <1>6, <1>8, <1>9, <1>10 DEF ThreadProgress, SendResponse

LEMMA OwnNext == TypeInv /\ OwnInv /\ [Next]_vars => OwnInv'
<1>1. SUFFICES ASSUME TypeInv, OwnInv, [Next]_vars PROVE OwnInv'
  OBVIOUS
<1>2. ASSUME NEW c \in Clients,
             \/ \E p \in Packs : StartWork(c, p) \/ DeletePack(c, p)
             \/ \E q \in {"done", "own"} : GetWork(c, q)
             \/ \E e \in Events : SetEventMethod(c, e)
             \/ StopThread(c)
             \/ ClientProgress(c)
      PROVE  OwnInv'
  BY <1>1, <1>2, OwnClient
<1>3. ASSUME ThreadProgress \/ WaitOther \/ \E e \in Events : WorkerSetsEvent(e) PROVE OwnInv'
  BY <1>1, <1>3, OwnThread
<1>4. ASSUME (\E e \in Events : SetEvent(e)) \/ PeriodElapses \/ UNCHANGED vars PROVE OwnInv'
  <2>1. UNCHANGED <<held, queue, freed, unborn, at, pWorkDone, pc, cur>>
    BY <1>4 DEF SetEvent, PeriodElapses, vars, clientVars, queueVars, threadVars
  <2>2. InHand' = InHand /\ \A c \in Clients : OnItsWay(c)' = OnItsWay(c)
    BY <2>1 DEF InHand, OnItsWay
  <2>3. QED
    BY <1>1, <2>1, <2>2, OwnQuiet
<1>5. QED
  BY <1>1, <1>2, <1>3, <1>4 DEF Next

\* A pack in the thread's hands is still there to be read.
LEMMA HandReads ==
  ASSUME TypeInv, OwnInv, at \in {"respond", "deliver"}, pWorkDone # NULL
  PROVE  pWorkDone \in Packs /\ Contents(pWorkDone) = Kind[pWorkDone]
<1>1. PICK place \in [Packs -> PlaceKinds], whose \in [Packs -> Owners] : Ledger(place, whose)
  BY DEF OwnInv
<1>2. pWorkDone \in Packs /\ pWorkDone \in InHand
  BY DEF TypeInv, TypeOK, InHand
<1>3. pWorkDone \notin freed
  BY <1>1, <1>2 DEF Ledger
<1>4. QED
  BY <1>2, <1>3 DEF Contents

\* What an account says of Places.
LEMMA OnePlace ==
  ASSUME OwnInv, TypeOK, NEW p \in Packs
  PROVE  /\ \E x : Places(p) \subseteq {x}
         /\ Places(p) = {} => Kind[p].isSendResult /\ Kind[p].doneQ = "null"
<1>1. PICK place \in [Packs -> PlaceKinds], whose \in [Packs -> Owners] : Ledger(place, whose)
  BY DEF OwnInv
<1> DEFINE H == {<<"held", c>> : c \in {d \in Clients : p \in held[d]}}
           S == {<<"starting", c>> : c \in {d \in Clients : p \in OnItsWay(d)}}
           In(q) == {<<q, k>> : k \in {j \in DOMAIN queue[q] : queue[q][j] = p}}
           Q == UNION {In(q) : q \in Queues}
           T == {w \in {<<"hand">>} : p \in InHand}
           F == {w \in {<<"freed">>} : p \in freed}
           U == {w \in {<<"unborn">>} : p \in unborn}
<1>2. Places(p) = H \cup S \cup Q \cup T \cup F \cup U
  BY DEF Places
<1>3. /\ place[p] # "held" => H = {}
      /\ place[p] = "held" => H = {<<"held", whose[p]>>}
  BY <1>1 DEF Ledger
<1>4. /\ place[p] # "starting" => S = {}
      /\ place[p] = "starting" => S = {<<"starting", whose[p]>>}
  BY <1>1 DEF Ledger
<1>5. /\ place[p] # "hand" => T = {}
      /\ place[p] = "hand" => T = {<<"hand">>}
  BY <1>1 DEF Ledger
<1>6. /\ place[p] # "freed" => F = {}
      /\ place[p] = "freed" => F = {<<"freed">>}
  BY <1>1 DEF Ledger
<1>7. /\ place[p] # "unborn" => U = {}
      /\ place[p] = "unborn" => U = {<<"unborn">>}
  BY <1>1 DEF Ledger
<1>8. \A q \in Queues : p \in ToSet(queue[q]) <=> \E k \in DOMAIN queue[q] : queue[q][k] = p
  BY DEF ToSet
<1>9. \A q \in Queues : ~(place[p] = "queue" /\ whose[p] = q) => In(q) = {}
  BY <1>1, <1>8 DEF Ledger
<1>10. place[p] # "queue" => Q = {}
  BY <1>9
<1>11. place[p] = "queue" => \E x : Q = {x}
  <2>1. SUFFICES ASSUME place[p] = "queue" PROVE \E x : Q = {x}
    OBVIOUS
  <2>2. whose[p] \in Queues /\ p \in ToSet(queue[whose[p]])
    BY <1>1, <2>1 DEF Ledger
  <2>3. PICK k \in DOMAIN queue[whose[p]] : queue[whose[p]][k] = p
    BY <1>8, <2>2
  <2>4. IsInjective(queue[whose[p]])
    BY <2>2 DEF OwnInv
  <2>5. In(whose[p]) = {<<whose[p], k>>}
    BY <2>3, <2>4 DEF IsInjective
  <2>6. Q = {<<whose[p], k>>}
    BY <1>9, <2>1, <2>2, <2>5
  <2>7. QED
    BY <2>6
<1> HIDE DEF H, S, Q, T, F, U
<1>12. place[p] \in PlaceKinds
  BY <1>1 DEF Ledger
<1>13. place[p] = "dropped" => Kind[p].isSendResult /\ Kind[p].doneQ = "null"
  BY <1>1 DEF Ledger
<1>14. \E x : Places(p) \subseteq {x}
  BY <1>2, <1>3, <1>4, <1>5, <1>6, <1>7, <1>10, <1>11, <1>12 DEF PlaceKinds
<1>15. Places(p) = {} => place[p] = "dropped"
  BY <1>2, <1>3, <1>4, <1>5, <1>6, <1>7, <1>10, <1>11, <1>12 DEF PlaceKinds
<1>16. QED
  BY <1>13, <1>14, <1>15

\* A set with at most one element.
LEMMA AtMostOne ==
  ASSUME NEW S, NEW x, S \subseteq {x}
  PROVE  Cardinality(S) <= 1
<1>1. S = {} \/ S = {x}
  OBVIOUS
<1>2. QED
  <2>1. Cardinality({}) = 0 /\ Cardinality({x}) = 1
    BY FS_EmptySet, FS_Singleton
  <2>2. QED
    BY <1>1, <2>1

\* A pack has one owner at a time, whatever the clients, the settings of the
\* packs and the order of the steps: it is never deleted while somebody has
\* it, and none is lost but one that names no queue for its result.
THEOREM PacksHaveOneOwner == Spec => []OneOwner
<1>1. OwnInv /\ TypeInv => OneOwner
  <2>1. SUFFICES ASSUME OwnInv, TypeInv, NEW p \in Packs
                 PROVE  /\ Cardinality(Places(p)) <= 1
                        /\ Places(p) = {} => Kind[p].isSendResult /\ Kind[p].doneQ = "null"
    BY DEF OneOwner
  <2>2. QED
    BY <2>1, OnePlace, AtMostOne DEF TypeInv
<1>2. QED
  BY <1>1, TypeInit, TypeNext, OwnInit, OwnNext, PTL DEF Spec
-----------------------------------------------------------------------------
(***************************************************************************)
(* The results and their signals.                                          *)
(***************************************************************************)
\* The clients a semaphore let through that have not taken their item yet.
Woken(q) == {c \in Clients : pc[c] = "woken" /\ cur[c] = q}

\* insertItem of sendResponse is between the list and the semaphore.
Signalling(q) == IF at = "signal" /\ Kind[pWorkDone].doneQ = q THEN 1 ELSE 0

\* A result in a list has its count, a woken client, or a thread about to
\* release the semaphore for it.
ReadyInv ==
  \A q \in {"done", "own"} :
     /\ IsFiniteSet(Woken(q))
     /\ Len(queue[q]) = sem[q] + Cardinality(Woken(q)) + Signalling(q)

\* A step that touches neither the queue nor those it wakes nor the answer.
LEMMA ReadyQuiet ==
  ASSUME ReadyInv, NEW q \in {"done", "own"},
         queue'[q] = queue[q], sem'[q] = sem[q],
         Woken(q)' = Woken(q), Signalling(q)' = Signalling(q)
  PROVE  /\ IsFiniteSet(Woken(q)')
         /\ Len(queue'[q]) = sem'[q] + Cardinality(Woken(q)') + Signalling(q)'
  BY DEF ReadyInv

\* A client that neither was woken nor is woken now changes no set of them.
LEMMA SameWoken ==
  ASSUME TypeOK, NEW c \in Clients, NEW q,
         pc[c] # "woken", pc'[c] # "woken",
         \A d \in Clients \ {c} : pc'[d] = pc[d] /\ cur'[d] = cur[d]
  PROVE  Woken(q)' = Woken(q)
  BY DEF Woken

\* The calls of a client that do not touch the result queues.
LEMMA ReadyCalls ==
  ASSUME TypeInv, ReadyInv, NEW c \in Clients,
         \/ \E p \in Packs : StartWork(c, p) \/ DeletePack(c, p)
         \/ \E q \in {"done", "own"} : GetWork(c, q)
         \/ \E e \in Events : SetEventMethod(c, e)
         \/ StopThread(c) \/ StartWorkInsert(c) \/ StartWorkRelease(c)
         \/ GetWorkTimeout(c) \/ SetEventHandle(c) \/ SetEventCount(c) \/ SetEventMethodFlag(c) \/ StopThreadRelease(c)
         \/ WaitForThreadToStop(c)
  PROVE  ReadyInv'
<1> USE DEF TypeInv, TypeOK, Queues
<1>1. /\ pc[c] # "woken" /\ pc'[c] # "woken"
      /\ \A d \in Clients \ {c} : pc'[d] = pc[d] /\ cur'[d] = cur[d]
  BY DEF StartWork, DeletePack, GetWork, SetEventMethod, StopThread, StartWorkInsert, StartWorkRelease,
         GetWorkTimeout, SetEventHandle, SetEventCount, SetEventMethodFlag, StopThreadRelease, WaitForThreadToStop, Goto
<1>2. UNCHANGED <<at, pWorkDone>>
  BY DEF StartWork, DeletePack, GetWork, SetEventMethod, StopThread, StartWorkInsert, StartWorkRelease,
         GetWorkTimeout, SetEventHandle, SetEventCount, SetEventMethodFlag, StopThreadRelease, WaitForThreadToStop, threadVars
<1>3. \A q \in {"done", "own"} : queue'[q] = queue[q] /\ sem'[q] = sem[q]
  BY DEF StartWork, DeletePack, GetWork, SetEventMethod, StopThread, StartWorkInsert, StartWorkRelease,
         GetWorkTimeout, SetEventHandle, SetEventCount, SetEventMethodFlag, StopThreadRelease, WaitForThreadToStop,
         queueVars, Push, Release
<1>4. ASSUME NEW q \in {"done", "own"}
      PROVE  Woken(q)' = Woken(q) /\ Signalling(q)' = Signalling(q)
  BY <1>1, <1>2, SameWoken DEF Signalling
<1> HIDE DEF TypeInv, TypeOK, Queues
<1>5. QED
  BY <1>3, <1>4, ReadyQuiet DEF ReadyInv

\* A count is taken: one client more that is woken.
LEMMA ReadySignalled ==
  ASSUME TypeInv, ReadyInv, NEW c \in Clients, GetWorkSignalled(c)
  PROVE  ReadyInv'
<1>1. cur[c] \in {"done", "own"} /\ pc[c] = "wait"
  BY DEF GetWorkSignalled, Goto, TypeInv, ClientArgs
<1>2. PICK r \in {"done", "own"} : r = cur[c]
  BY <1>1
<1>3. /\ \A d \in Clients : pc'[d] = IF d = c THEN "woken" ELSE pc[d]
      /\ UNCHANGED <<cur, queue, at, pWorkDone>>
  BY DEF GetWorkSignalled, Goto, TypeInv, TypeOK, threadVars
<1>4. sem[r] \in Nat /\ sem'[r] = sem[r] - 1 /\ \A q \in Queues \ {r} : sem'[q] = sem[q]
  BY <1>2 DEF GetWorkSignalled, Acquire, TypeInv, TypeOK, Queues
<1>5. c \notin Woken(r) /\ Woken(r)' = Woken(r) \cup {c}
  BY <1>1, <1>2, <1>3 DEF Woken
<1>6. /\ IsFiniteSet(Woken(r)')
      /\ Cardinality(Woken(r)') = Cardinality(Woken(r)) + 1
  BY <1>5, FS_AddElement DEF ReadyInv
<1>7. Cardinality(Woken(r)) \in Nat
  BY FS_CardinalityType DEF ReadyInv
<1>8. \A q : Signalling(q)' = Signalling(q) /\ Signalling(q) \in Nat
  BY <1>3 DEF Signalling
<1>9. Len(queue'[r]) = sem'[r] + Cardinality(Woken(r)') + Signalling(r)'
  <2>1. Len(queue[r]) = sem[r] + Cardinality(Woken(r)) + Signalling(r)
    BY DEF ReadyInv
  <2>2. QED
    BY <1>3, <1>4, <1>6, <1>7, <1>8, <2>1
<1>10. ASSUME NEW q \in {"done", "own"}, q # r
       PROVE  /\ IsFiniteSet(Woken(q)')
              /\ Len(queue'[q]) = sem'[q] + Cardinality(Woken(q)') + Signalling(q)'
  <2>1. Woken(q)' = Woken(q)
    BY <1>1, <1>2, <1>3, <1>10 DEF Woken
  <2>2. queue'[q] = queue[q] /\ sem'[q] = sem[q]
    BY <1>3, <1>4, <1>10 DEF Queues
  <2>3. QED
    BY <1>8, <2>1, <2>2, ReadyQuiet
<1>11. QED
  BY <1>6, <1>9, <1>10 DEF ReadyInv

\* A woken client finds a result, and takes it.
LEMMA ReadyPop ==
  ASSUME TypeInv, ReadyInv, NEW c \in Clients, GetWorkPop(c)
  PROVE  ReadyInv'
<1>1. cur[c] \in {"done", "own"} /\ pc[c] = "woken"
  BY DEF GetWorkPop, Goto, TypeInv, ClientArgs
<1>2. PICK r \in {"done", "own"} : r = cur[c]
  BY <1>1
<1>3. /\ \A d \in Clients : pc'[d] = IF d = c THEN "idle" ELSE pc[d]
      /\ \A d \in Clients \ {c} : cur'[d] = cur[d]
      /\ UNCHANGED <<sem, at, pWorkDone>>
  BY DEF GetWorkPop, Goto, TypeInv, TypeOK, threadVars
<1>4. c \in Woken(r) /\ Woken(r)' = Woken(r) \ {c}
  BY <1>1, <1>2, <1>3 DEF Woken
<1>5. /\ IsFiniteSet(Woken(r)')
      /\ Cardinality(Woken(r)') = Cardinality(Woken(r)) - 1
  BY <1>4, FS_RemoveElement DEF ReadyInv
<1>6. Cardinality(Woken(r)) \in Nat /\ Cardinality(Woken(r)') \in Nat
  BY <1>5, FS_CardinalityType DEF ReadyInv
<1>7. \A q : Signalling(q)' = Signalling(q) /\ Signalling(q) \in Nat
  BY <1>3 DEF Signalling
<1>8. Len(queue[r]) = sem[r] + Cardinality(Woken(r)) + Signalling(r)
  BY DEF ReadyInv
<1>9. queue[r] \in Seq(Packs) /\ sem[r] \in Nat
  BY DEF TypeInv, TypeOK, Queues
<1>10. Len(queue[r]) > 0
  BY <1>5, <1>6, <1>7, <1>8, <1>9
<1>11. queue[r] # <<>>
  BY <1>10, <1>9
<1>12. queue' = [queue EXCEPT ![r] = Tail(queue[r])]
  BY <1>2, <1>11 DEF GetWorkPop
<1>13. Len(queue'[r]) = Len(queue[r]) - 1 /\ \A q \in Queues \ {r} : queue'[q] = queue[q]
  BY <1>9, <1>11, <1>12, TailItem DEF TypeInv, TypeOK, Queues
<1>14. Len(queue'[r]) = sem'[r] + Cardinality(Woken(r)') + Signalling(r)'
  BY <1>3, <1>5, <1>6, <1>7, <1>8, <1>9, <1>13
<1>15. ASSUME NEW q \in {"done", "own"}, q # r
       PROVE  /\ IsFiniteSet(Woken(q)')
              /\ Len(queue'[q]) = sem'[q] + Cardinality(Woken(q)') + Signalling(q)'
  <2>1. Woken(q)' = Woken(q)
    BY <1>1, <1>2, <1>3, <1>15 DEF Woken
  <2>2. queue'[q] = queue[q] /\ sem'[q] = sem[q]
    BY <1>3, <1>13, <1>15 DEF Queues
  <2>3. QED
    BY <1>7, <2>1, <2>2, ReadyQuiet
<1>16. QED
  BY <1>5, <1>14, <1>15 DEF ReadyInv

\* The destructor empties m_DoneQ; nobody is in getWork then, and the thread
\* has ended.
LEMMA ReadyDestroy ==
  ASSUME TypeInv, StopInv, ReadyInv, NEW c \in Clients, Destroy(c)
  PROVE  ReadyInv'
<1>1. at = "done" /\ at' = "done"
  BY DEF Destroy, Goto, StopInv, threadVars
<1>2. \A q : Signalling(q) = 0 /\ Signalling(q)' = 0
  BY <1>1 DEF Signalling
<1>3. /\ pc[c] = "joined" /\ pc'[c] = "idle"
      /\ \A d \in Clients \ {c} : pc'[d] = pc[d]
      /\ UNCHANGED cur
  BY DEF Destroy, Goto, TypeInv, TypeOK
<1>4. Woken("done")' = {}
  BY <1>3 DEF Woken, Destroy
<1>5. Woken("own")' = Woken("own")
  BY <1>3 DEF Woken
<1>6. /\ queue'["done"] = <<>> /\ sem'["done"] = 0
      /\ queue'["own"] = queue["own"] /\ sem'["own"] = sem["own"]
  BY DEF Destroy, TypeInv, TypeOK, Queues
<1>7. /\ IsFiniteSet(Woken("done")')
      /\ Len(queue'["done"]) = sem'["done"] + Cardinality(Woken("done")') + Signalling("done")'
  <2>1. IsFiniteSet({}) /\ Cardinality({}) = 0
    BY FS_EmptySet
  <2>2. Len(<<>>) = 0
    OBVIOUS
  <2>3. IsFiniteSet(Woken("done")') /\ Cardinality(Woken("done")') = 0
    BY <1>4, <2>1
  <2>4. Len(queue'["done"]) = 0 /\ sem'["done"] = 0 /\ Signalling("done")' = 0
    BY <1>2, <1>6, <2>2
  <2>5. QED
    BY <2>3, <2>4
<1>8. /\ IsFiniteSet(Woken("own")')
      /\ Len(queue'["own"]) = sem'["own"] + Cardinality(Woken("own")') + Signalling("own")'
  BY <1>2, <1>5, <1>6, ReadyQuiet
<1>9. QED
  BY <1>7, <1>8 DEF ReadyInv

\* The steps of the thread: the answer goes to a list, then to its semaphore.
LEMMA ReadyThread ==
  ASSUME TypeInv, OwnInv, ReadyInv,
         ThreadProgress \/ WaitOther \/ \E e \in Events : WorkerSetsEvent(e)
  PROVE  ReadyInv'
<1>1. UNCHANGED clientVars
  BY DEF ThreadProgress, Start, RebuildEvents, ScanSlot, RebuildDone, NoRebuild, CheckExit, WaitWork,
         WaitEvent, WaitOther, ResultExit, TakeWork, WorkerMethod, WorkerSetsEvent,
         EventMethod, NothingSignalled, PeriodicMethod, NoPeriodicMethod, RestartPeriod,
         SendResponse, RespondCopy, RespondDeliver, RespondSignal, RespondNotify, ThreadOnly
<1>2. \A q : Woken(q)' = Woken(q)
  BY <1>1 DEF clientVars, Woken
<1>3. ASSUME ~RespondDeliver, ~RespondSignal
      PROVE  /\ \A q \in {"done", "own"} : queue'[q] = queue[q] /\ sem'[q] = sem[q]
             /\ at # "signal" /\ at' # "signal"
  <2>1. at # "signal" /\ at' # "signal"
    BY <1>3 DEF ThreadProgress, Start, RebuildEvents, ScanSlot, RebuildDone, NoRebuild, CheckExit, WaitWork,
         WaitEvent, WaitOther, ResultExit, TakeWork, WorkerMethod, WorkerSetsEvent,
         EventMethod, NothingSignalled, PeriodicMethod, NoPeriodicMethod, RestartPeriod,
         SendResponse, RespondCopy, RespondNotify, AfterResponse, ThreadGoto
  <2>2. CASE TakeWork \/ WaitWork
    BY <2>1, <2>2 DEF TakeWork, WaitWork, Acquire, TypeInv, TypeOK, Queues
  <2>3. CASE ~TakeWork /\ ~WaitWork
    <3>1. UNCHANGED queueVars
      BY <1>3, <2>3 DEF ThreadProgress, Start, RebuildEvents, ScanSlot, RebuildDone, NoRebuild, CheckExit,
         WaitEvent, WaitOther, ResultExit, WorkerMethod, WorkerSetsEvent,
         EventMethod, NothingSignalled, PeriodicMethod, NoPeriodicMethod, RestartPeriod,
         SendResponse, RespondCopy, RespondNotify
    <3>2. QED
      BY <2>1, <3>1 DEF queueVars
  <2>4. QED
    BY <2>2, <2>3
<1>4. CASE ~RespondDeliver /\ ~RespondSignal
  <2>1. \A q : Signalling(q)' = Signalling(q)
    BY <1>3, <1>4 DEF Signalling
  <2>2. QED
    BY <1>2, <1>3, <1>4, <2>1, ReadyQuiet DEF ReadyInv
<1>5. CASE RespondDeliver
  <2>1. at = "deliver" /\ pWorkDone \in Packs /\ UNCHANGED sem
    BY <1>5 DEF RespondDeliver, TypeInv, ThreadArgs
  <2>2. PICK p \in Packs : p = pWorkDone
    BY <2>1
  <2>6. Contents(p) = Kind[p]
    BY <2>1, <2>2, HandReads, PacksAssumption
  <2>3. CASE ~Kind[p].isSendResult \/ Kind[p].doneQ = "null"
    <3>1. at' = "notify" /\ UNCHANGED queue
      BY <1>5, <2>2, <2>3, <2>6 DEF RespondDeliver
    <3>2. \A q : Signalling(q)' = Signalling(q)
      BY <2>1, <3>1 DEF Signalling
    <3>3. QED
      BY <1>2, <2>1, <3>1, <3>2, ReadyQuiet DEF ReadyInv
  <2>4. CASE Kind[p].isSendResult /\ Kind[p].doneQ # "null"
    <3>1. PICK r \in {"done", "own"} : r = Kind[p].doneQ
      BY <2>4, KindType
    <3>2. at' = "signal" /\ pWorkDone' = p /\ queue' = [queue EXCEPT ![r] = Append(queue[r], p)]
      BY <1>5, <2>2, <2>4, <2>6, <3>1 DEF RespondDeliver, Push
    <3>3. Signalling(r)' = 1 /\ \A q : Signalling(q) = 0 /\ (q # r => Signalling(q)' = 0)
      BY <2>1, <3>1, <3>2 DEF Signalling
    <3>4. queue[r] \in Seq(Packs) /\ \A q \in Queues \ {r} : queue'[q] = queue[q]
      BY <3>2 DEF TypeInv, TypeOK, Queues
    <3>5. queue'[r] = Append(queue[r], p)
      BY <3>2 DEF TypeInv, TypeOK, Queues
    <3>6. Len(queue'[r]) = Len(queue[r]) + 1
      BY <3>4, <3>5
    <3>7. sem[r] \in Nat /\ Cardinality(Woken(r)) \in Nat
      BY FS_CardinalityType DEF ReadyInv, TypeInv, TypeOK, Queues
    <3>8. Len(queue[r]) = sem[r] + Cardinality(Woken(r)) + 0
      BY <3>3 DEF ReadyInv
    <3>9. Len(queue'[r]) = sem'[r] + Cardinality(Woken(r)') + Signalling(r)'
      BY <1>2, <2>1, <3>3, <3>6, <3>7, <3>8
    <3>10. \A q \in {"done", "own"} \ {r} :
              /\ IsFiniteSet(Woken(q)')
              /\ Len(queue'[q]) = sem'[q] + Cardinality(Woken(q)') + Signalling(q)'
      BY <1>2, <2>1, <3>3, <3>4, ReadyQuiet DEF Queues
    <3>11. IsFiniteSet(Woken(r)')
      BY <1>2 DEF ReadyInv
    <3>12. QED
      BY <3>9, <3>10, <3>11 DEF ReadyInv
  <2>5. QED
    BY <2>3, <2>4
<1>6. CASE RespondSignal
  <2>1. at = "signal" /\ at' = "notify" /\ pWorkDone \in Packs /\ UNCHANGED <<queue, pWorkDone>>
    BY <1>6 DEF RespondSignal, ThreadGoto, TypeInv, ThreadArgs
  <2>2. PICK p \in Packs : p = pWorkDone
    BY <2>1
  <2>3. sem' = [sem EXCEPT ![Kind[p].doneQ] = sem[Kind[p].doneQ] + 1] /\ sem \in [Queues -> Nat]
    BY <1>6, <2>2 DEF RespondSignal, Release, TypeInv, TypeOK
  <2>4. \A q : Signalling(q)' = 0 /\ Signalling(q) = IF Kind[p].doneQ = q THEN 1 ELSE 0
    BY <2>1, <2>2 DEF Signalling
  <2>5. ASSUME NEW q \in {"done", "own"}
        PROVE  /\ IsFiniteSet(Woken(q)')
               /\ Len(queue'[q]) = sem'[q] + Cardinality(Woken(q)') + Signalling(q)'
    <3>1. Cardinality(Woken(q)) \in Nat /\ IsFiniteSet(Woken(q)) /\ sem[q] \in Nat
      BY <2>3, FS_CardinalityType DEF ReadyInv, Queues
    <3>2. Len(queue[q]) = sem[q] + Cardinality(Woken(q)) + Signalling(q)
      BY DEF ReadyInv
    <3>3. CASE Kind[p].doneQ = q
      <4>1. sem'[q] = sem[q] + 1
        BY <2>3, <3>3 DEF Queues
      <4>2. QED
        BY <1>2, <2>1, <2>4, <3>1, <3>2, <3>3, <4>1
    <3>4. CASE Kind[p].doneQ # q
      <4>1. sem'[q] = sem[q]
        BY <2>3, <3>4 DEF Queues
      <4>2. QED
        BY <1>2, <2>1, <2>4, <3>1, <3>2, <3>4, <4>1
    <3>5. QED
      BY <3>3, <3>4
  <2>6. QED
    BY <2>5 DEF ReadyInv
<1>7. QED
  BY <1>4, <1>5, <1>6

LEMMA ReadyNext ==
  ASSUME TypeInv, OwnInv, StopInv, ReadyInv, [Next]_vars
  PROVE  ReadyInv'
<1>1. ASSUME NEW c \in Clients,
             \/ \E p \in Packs : StartWork(c, p) \/ DeletePack(c, p)
             \/ \E q \in {"done", "own"} : GetWork(c, q)
             \/ \E e \in Events : SetEventMethod(c, e)
             \/ StopThread(c)
             \/ ClientProgress(c)
      PROVE  ReadyInv'
  BY <1>1, ReadyCalls, ReadySignalled, ReadyPop, ReadyDestroy DEF ClientProgress
<1>2. ASSUME ThreadProgress \/ WaitOther \/ \E e \in Events : WorkerSetsEvent(e) PROVE ReadyInv'
  BY <1>2, ReadyThread
<1>3. ASSUME (\E e \in Events : SetEvent(e)) \/ PeriodElapses \/ UNCHANGED vars PROVE ReadyInv'
  <2>1. UNCHANGED <<queue, sem, at, pWorkDone, pc, cur>>
    BY <1>3 DEF SetEvent, PeriodElapses, vars, clientVars, queueVars, threadVars
  <2>2. QED
    BY <2>1 DEF ReadyInv, Woken, Signalling
<1>4. QED
  BY <1>1, <1>2, <1>3 DEF Next

\* When sendResponse calls the observers every result can be taken at once,
\* however many clients wait for results and however they share the queues;
\* the instance must not be destroyed while its thread still runs.
THEOREM ResultsAreReady == ~StopTimesOut => (Spec => []ResultReady)
<1> SUFFICES ASSUME ~StopTimesOut PROVE Spec => []ResultReady
  OBVIOUS
<1>1. Init => StopInv /\ ReadyInv
  <2> SUFFICES ASSUME Init PROVE StopInv /\ ReadyInv
    OBVIOUS
  <2>1. StopInv
    BY DEF Init, StopInv
  <2>2. \A q \in {"done", "own"} : Woken(q) = {} /\ Signalling(q) = 0 /\ queue[q] = <<>> /\ sem[q] = 0
    BY DEF Init, Woken, Signalling, Queues
  <2>3. IsFiniteSet({}) /\ Cardinality({}) = 0 /\ Len(<<>>) = 0
    BY FS_EmptySet
  <2>4. ASSUME NEW q \in {"done", "own"}
        PROVE  /\ IsFiniteSet(Woken(q)) /\ Cardinality(Woken(q)) = 0
               /\ Len(queue[q]) = 0 /\ sem[q] = 0 /\ Signalling(q) = 0
    BY <2>2, <2>3
  <2>5. ReadyInv
    BY <2>4 DEF ReadyInv
  <2>6. QED
    BY <2>1, <2>5
<1>2. TypeInv /\ OwnInv /\ StopInv /\ ReadyInv /\ [Next]_vars => StopInv' /\ ReadyInv'
  BY StopNext, ReadyNext
<1>3. TypeInv /\ ReadyInv => ResultReady
  <2> SUFFICES ASSUME TypeInv, ReadyInv, at = "notify", NEW q \in {"done", "own"}
               PROVE  Len(queue[q]) = sem[q] + Cardinality(Woken(q))
    BY DEF ResultReady, Woken
  <2>1. Cardinality(Woken(q)) \in Nat /\ sem[q] \in Nat
    BY FS_CardinalityType DEF ReadyInv, TypeInv, TypeOK, Queues
  <2>2. Len(queue[q]) = sem[q] + Cardinality(Woken(q)) + 0
    BY DEF ReadyInv, Signalling
  <2>3. QED
    BY <2>1, <2>2
<1>4. QED
  BY <1>1, <1>2, <1>3, TypeInit, TypeNext, OwnInit, OwnNext, PTL DEF Spec
-----------------------------------------------------------------------------
(***************************************************************************)
(* What the observers are told.                                            *)
(***************************************************************************)
\* What the observers of the answer p are to be told, as far as it is set up.
Told(p) ==
  /\ isNotify = Kind[p].isNotifyWithCallback
  /\ isNotify =>
       /\ m_theCallback.instruction = (IF isPeriodic THEN 0 ELSE Kind[p].instruction)
       /\ m_theCallback.workId = WorkId
       /\ m_theCallback.isPeriodic = isPeriodic
       /\ Kind[p].isObjectInCallback => m_theCallback.dataItem = p

\* From the copy to the call of the observers it stays set up, whoever has the
\* pack meanwhile.
ToldInv == at \in {"deliver", "signal", "notify"} => Told(answered)

LEMMA ToldNext ==
  ASSUME TypeInv, OwnInv, ToldInv, [Next]_vars
  PROVE  ToldInv'
<1>1. CASE RespondCopy
  <2>1. CASE pWorkDone = NULL
    BY <1>1, <2>1 DEF RespondCopy, AfterResponse, ToldInv
  <2>2. CASE pWorkDone # NULL
    <3>1. Contents(pWorkDone) = Kind[pWorkDone]
      BY <1>1, <2>2, HandReads DEF RespondCopy
    <3>2. /\ answered' = pWorkDone /\ isNotify' = Kind[pWorkDone].isNotifyWithCallback
          /\ isNotify' => m_theCallback' = Callback(pWorkDone)
          /\ UNCHANGED <<WorkId, isPeriodic>>
      BY <1>1, <2>2, <3>1 DEF RespondCopy
    <3>3. /\ Callback(pWorkDone).instruction = (IF isPeriodic THEN 0 ELSE Kind[pWorkDone].instruction)
          /\ Callback(pWorkDone).workId = WorkId
          /\ Callback(pWorkDone).isPeriodic = isPeriodic
          /\ Kind[pWorkDone].isObjectInCallback => Callback(pWorkDone).dataItem = pWorkDone
      BY <3>1 DEF Callback
    <3>4. Told(answered)'
      BY <3>2, <3>3 DEF Told
    <3>5. QED
      BY <3>4 DEF ToldInv
  <2>3. QED
    BY <2>1, <2>2
<1>2. CASE RespondDeliver \/ RespondSignal
  <2>1. at \in {"deliver", "signal"} /\ UNCHANGED callVars
    BY <1>2 DEF RespondDeliver, RespondSignal, ThreadGoto
  <2>2. QED
    BY <2>1 DEF callVars, ToldInv, Told
\* No other step of the thread leads there.
<1>3. CASE \/ Start \/ RebuildEvents \/ ScanSlot \/ RebuildDone \/ NoRebuild \/ CheckExit \/ WaitWork
           \/ WaitEvent \/ WaitOther \/ ResultExit \/ TakeWork \/ WorkerMethod \/ EventMethod
           \/ NothingSignalled \/ PeriodicMethod \/ NoPeriodicMethod \/ RestartPeriod
           \/ RespondNotify \/ \E e \in Events : WorkerSetsEvent(e)
  <2>1. at' \notin {"deliver", "signal", "notify"}
    BY <1>3 DEF Start, RebuildEvents, ScanSlot, RebuildDone, NoRebuild, CheckExit, WaitWork, WaitEvent,
                WaitOther, ResultExit, TakeWork, WorkerMethod, EventMethod, NothingSignalled,
                PeriodicMethod, NoPeriodicMethod, RestartPeriod, RespondNotify, AfterResponse,
                WorkerSetsEvent, ThreadGoto
  <2>2. QED
    BY <2>1 DEF ToldInv
<1>4. ASSUME NEW c \in Clients,
             \/ \E p \in Packs : StartWork(c, p) \/ DeletePack(c, p)
             \/ \E q \in {"done", "own"} : GetWork(c, q)
             \/ \E e \in Events : SetEventMethod(c, e)
             \/ StopThread(c)
             \/ ClientProgress(c)
      PROVE  ToldInv'
  <2>1. UNCHANGED threadVars
    BY <1>4 DEF StartWork, DeletePack, GetWork, SetEventMethod, StopThread, ClientProgress,
                StartWorkInsert, StartWorkRelease, GetWorkSignalled, GetWorkTimeout, GetWorkPop,
                SetEventHandle, SetEventCount, SetEventMethodFlag, StopThreadRelease,
                WaitForThreadToStop, Destroy
  <2>2. QED
    BY <2>1 DEF threadVars, callVars, ToldInv, Told
<1>5. CASE (\E e \in Events : SetEvent(e)) \/ PeriodElapses \/ UNCHANGED vars
  BY <1>5 DEF SetEvent, PeriodElapses, vars, threadVars, callVars, ToldInv, Told
<1>6. QED
  BY <1>1, <1>2, <1>3, <1>4, <1>5 DEF Next, ThreadProgress, SendResponse

\* Observers are told what the answered pack said and asked for, whatever its
\* receiver did with it before they are called, for any settings of the packs
\* and whatever freed memory reads as.
THEOREM ObserversAreTold == Spec => ToldAsAnswered
<1>1. Init => ToldInv
  BY DEF Init, ToldInv
<1>2. TypeInv /\ OwnInv /\ ToldInv /\ [Next]_vars => ToldInv'
  BY ToldNext
\* Only the call of the observers leaves "notify", and it changes nothing of it.
<1>3. ASSUME TypeInv, ToldInv, [Next]_vars, at = "notify", at' # "notify"
      PROVE  Told(answered) /\ UNCHANGED <<isNotify, m_theCallback>>
  <2>1. RespondNotify
    BY <1>3 DEF Next, StartWork, DeletePack, GetWork, SetEventMethod, StopThread, ClientProgress,
       StartWorkInsert, StartWorkRelease, GetWorkSignalled, GetWorkTimeout, GetWorkPop, SetEventHandle,
       SetEventCount, SetEventMethodFlag, StopThreadRelease, WaitForThreadToStop, Destroy, SetEvent,
       PeriodElapses, WorkerSetsEvent, ThreadProgress, Start, RebuildEvents, ScanSlot, RebuildDone,
       NoRebuild, CheckExit, WaitWork, WaitEvent, WaitOther, ResultExit, TakeWork, WorkerMethod,
       EventMethod, NothingSignalled, PeriodicMethod, NoPeriodicMethod, RestartPeriod, SendResponse,
       RespondCopy, RespondDeliver, RespondSignal, ThreadGoto, vars, threadVars
  <2>2. QED
    BY <1>3, <2>1 DEF RespondNotify, ToldInv
<1>4. TypeInv /\ OwnInv /\ ToldInv /\ [Next]_vars =>
        ((at = "notify" /\ at' # "notify") =>
           LET asked == Kind[answered] IN
           /\ isNotify' = asked.isNotifyWithCallback
           /\ isNotify' =>
                /\ m_theCallback'.instruction = (IF isPeriodic THEN 0 ELSE asked.instruction)
                /\ m_theCallback'.workId = WorkId
                /\ m_theCallback'.isPeriodic = isPeriodic
                /\ asked.isObjectInCallback => m_theCallback'.dataItem = answered)
  BY <1>3 DEF Told
<1>5. QED
  BY <1>1, <1>2, <1>4, TypeInit, TypeNext, OwnInit, OwnNext, PTL DEF Spec, ToldAsAnswered
=============================================================================
