------------------------------ MODULE ThreadIt ------------------------------
(***************************************************************************)
(* CThreadIt (threadit.cpp): an active object.  Clients hand work packs to *)
(* startWork, which numbers them and puts them in m_WorkQ; one thread      *)
(* executes threadRoutine, which waits on the semaphore of m_WorkQ, on the *)
(* registered events and on a time out, and answers through sendResponse:  *)
(* into m_DoneQ or a queue of the client, and by a callback.  The owner    *)
(* ends it with stopThread, waitForThreadToStop and the destructor.        *)
(*                                                                         *)
(* A step is what one thread does between two accesses to data it shares   *)
(* with another: one critical section, one call of a semaphore, one read   *)
(* or write of a flag.  Pointers are the packs themselves; a pack's        *)
(* settings are Kind[p] until it is deleted.  An event is an auto-reset    *)
(* event, and the handler registered with event e is called e as well.     *)
(***************************************************************************)
EXTENDS SequencesExt, Integers

CONSTANTS Clients,      \* the threads that use the instance
          Owner,        \* the client that stops and destroys it
          Registrars,   \* the clients that call setEventMethod
          Packs,        \* the work packs (pointers)
          Fresh,        \* the packs only the instance's methods allocate
          Kind,         \* Kind[p]: the settings of pack p
          Garbage,      \* what the settings of a deleted pack read as
          Events,       \* the waitable events
          Methods,      \* the instructions that have a worker method
          MaxEvents,    \* MAX_EVENT_METHODS
          MaxID,        \* ULONG_MAX
          Resubmit,     \* TRUE: a received pack may be sent again
          Periodic,     \* TRUE: setPeriodicMethod was called
          Timed,        \* TRUE: m_TimePeriod is not INFINITE
          StopTimesOut, \* TRUE: waitForThreadToStop may give up
          NULL

Settings == [instruction : Nat,
             isSendResult : BOOLEAN,
             isNotifyWithCallback : BOOLEAN,
             isObjectInCallback : BOOLEAN,
             doneQ : {"done", "own", "null"}]     \* m_isUseDefaultQ, m_ptheWorkDoneQ

ASSUME ClientsAssumption == Owner \in Clients /\ Registrars \subseteq Clients
ASSUME PacksAssumption == /\ Fresh \subseteq Packs
                          /\ Kind \in [Packs -> Settings]
                          /\ Garbage \in Settings
                          /\ NULL \notin Packs
ASSUME EventsAssumption == NULL \notin Events
ASSUME NumbersAssumption == MaxEvents \in Nat /\ MaxID \in Nat /\ Methods \subseteq Nat
ASSUME FlagsAssumption == {Resubmit, Periodic, Timed, StopTimesOut} \subseteq BOOLEAN

Queues == {"work", "done", "own"}   \* m_WorkQ, m_DoneQ, a client's own queue

VARIABLES queue,            \* queue[q]: the list of the CProtectedQueue q
          sem,              \* sem[q]: the count of its semaphore
          held,             \* held[c]: the packs client c owns
          unborn,           \* the packs not allocated yet
          freed,            \* the packs deleted
          pc, cur,          \* pc[c], cur[c]: where client c is, and with what
          m_WorkPackID, id, \* the counter, and the number given to each pack
          m_isExitThread, m_ResetEventInfo,
          theEventHandler,  \* m_EventMethod[k].theEventHandler, slot by slot
          htheEvent,        \* m_EventMethod[k].htheEvent
          m_theEventMethodCount,
          hEventList,       \* the events the thread waits on, after m_WorkQ
          signalled,        \* the events that are signalled
          due,              \* m_Period has expired
          at,               \* where the thread is in threadRoutine
          Result,           \* the outcome of the last wait
          scanned,          \* the slots the construction of that list has seen
          pWorkDone,        \* the pack in the thread's hands
          WorkId, isPeriodic,      \* the other arguments of sendResponse
          isNotify, m_theCallback, \* sendResponse's copies of the settings
          answered,         \* history: the pack sendResponse was called with
          alive             \* the instance has not been destroyed

clientVars == <<pc, cur, held>>
queueVars == <<queue, sem>>
m_EventMethod == <<theEventHandler, htheEvent, m_theEventMethodCount>>
eventVars == <<m_ResetEventInfo, m_EventMethod, signalled>>
listVars == <<hEventList, scanned>>
callVars == <<WorkId, isPeriodic, isNotify, m_theCallback, answered>>
threadVars == <<at, listVars, Result, pWorkDone, callVars>>
vars == <<clientVars, queueVars, eventVars, threadVars, unborn, freed,
          m_WorkPackID, id, m_isExitThread, due, alive>>

NoWait == -1
Slots == 1 .. MaxEvents
NoCallback == [instruction |-> 0, workId |-> 0, isPeriodic |-> FALSE, dataItem |-> NULL]

Init ==
  /\ queue = [q \in Queues |-> <<>>]
  /\ sem = [q \in Queues |-> 0]
  /\ \E sender \in [Packs \ Fresh -> Clients] :
        held = [c \in Clients |-> {p \in Packs \ Fresh : sender[p] = c}]
  /\ unborn = Fresh
  /\ freed = {}
  /\ pc = [c \in Clients |-> "idle"]
  /\ cur = [c \in Clients |-> NULL]
  /\ m_WorkPackID = 0
  /\ id = [p \in Packs |-> NULL]
  /\ m_isExitThread = FALSE
  /\ m_ResetEventInfo = FALSE
  /\ theEventHandler = [k \in Slots |-> NULL]
  /\ htheEvent = [k \in Slots |-> NULL]
  /\ m_theEventMethodCount = 0
  /\ hEventList = <<>>
  /\ scanned = 0
  /\ signalled = {}
  /\ due = FALSE
  /\ at = "start"
  /\ Result = NoWait
  /\ pWorkDone = NULL
  /\ WorkId = 0
  /\ isPeriodic = FALSE
  /\ isNotify = FALSE
  /\ m_theCallback = NoCallback
  /\ answered = NULL
  /\ alive = TRUE

Goto(c, from, to) == pc[c] = from /\ pc' = [pc EXCEPT ![c] = to]
ThreadGoto(from, to) == at = from /\ at' = to
Push(q, p) == queue' = [queue EXCEPT ![q] = Append(@, p)]
Release(q) == sem' = [sem EXCEPT ![q] = @ + 1]
Acquire(q) == sem[q] > 0 /\ sem' = [sem EXCEPT ![q] = @ - 1]

\* What the fields of a pack read as: those of a deleted one are anything.
Contents(p) == IF p \in freed THEN Garbage ELSE Kind[p]
-----------------------------------------------------------------------------
(***************************************************************************)
(* The clients.                                                            *)
(***************************************************************************)
\* The next number; the counter goes round before it overflows.
NextID == IF m_WorkPackID >= MaxID THEN 0 ELSE m_WorkPackID + 1

\* startWork under m_Access: the pack gets its number ...
StartWork(c, p) ==
  /\ alive
  /\ p \in held[c]
  /\ id[p] # NULL => Resubmit
  /\ Goto(c, "idle", "insert")
  /\ cur' = [cur EXCEPT ![c] = p]
  /\ held' = [held EXCEPT ![c] = @ \ {p}]
  /\ m_WorkPackID' = NextID
  /\ id' = [id EXCEPT ![p] = NextID]
  /\ UNCHANGED <<queueVars, eventVars, threadVars, unborn, freed,
                 m_isExitThread, due, alive>>

\* Mutant: the pack goes to the front of the list.
StartWorkInsert_Front(c) ==
  /\ Goto(c, "insert", "release")
  /\ queue' = [queue EXCEPT !["work"] = <<cur[c]>> \o @]
  /\ UNCHANGED <<cur, held, sem, eventVars, threadVars, unborn, freed,
                 m_WorkPackID, id, m_isExitThread, due, alive>>

\* ... and, after ReleaseMutex, goes to m_WorkQ.insertItem: the list, ...
StartWorkInsert(c) ==
  /\ Goto(c, "insert", "release")
  /\ Push("work", cur[c])
  /\ UNCHANGED <<cur, held, sem, eventVars, threadVars, unborn, freed,
                 m_WorkPackID, id, m_isExitThread, due, alive>>

\* Mutant: the semaphore is not released.
StartWorkRelease_Silent(c) ==
  /\ Goto(c, "release", "idle")
  /\ cur' = [cur EXCEPT ![c] = NULL]
  /\ UNCHANGED <<held, queueVars, eventVars, threadVars, unborn, freed,
                 m_WorkPackID, id, m_isExitThread, due, alive>>

\* ... then the semaphore.
StartWorkRelease(c) ==
  /\ Goto(c, "release", "idle")
  /\ Release("work")
  /\ cur' = [cur EXCEPT ![c] = NULL]
  /\ UNCHANGED <<held, queue, eventVars, threadVars, unborn, freed,
                 m_WorkPackID, id, m_isExitThread, due, alive>>

\* getWork waits on m_DoneQ; a client may also wait on a queue of its own.
GetWork(c, q) ==
  /\ q = "done" => alive
  /\ Goto(c, "idle", "wait")
  /\ cur' = [cur EXCEPT ![c] = q]
  /\ UNCHANGED <<held, queueVars, eventVars, threadVars, unborn, freed,
                 m_WorkPackID, id, m_isExitThread, due, alive>>

GetWorkSignalled(c) ==
  /\ Goto(c, "wait", "woken")
  /\ Acquire(cur[c])
  /\ UNCHANGED <<cur, held, queue, eventVars, threadVars, unborn, freed,
                 m_WorkPackID, id, m_isExitThread, due, alive>>

GetWorkTimeout(c) ==
  /\ Goto(c, "wait", "idle")
  /\ sem[cur[c]] = 0
  /\ cur' = [cur EXCEPT ![c] = NULL]
  /\ UNCHANGED <<held, queueVars, eventVars, threadVars, unborn, freed,
                 m_WorkPackID, id, m_isExitThread, due, alive>>

\* The client receives and owns the pack; NULL if the list is empty.
GetWorkPop(c) ==
  LET q == cur[c] IN
  /\ Goto(c, "woken", "idle")
  /\ IF queue[q] = <<>>
     THEN UNCHANGED <<queue, held>>
     ELSE /\ queue' = [queue EXCEPT ![q] = Tail(@)]
          /\ held' = [held EXCEPT ![c] = @ \cup {Head(queue[q])}]
  /\ cur' = [cur EXCEPT ![c] = NULL]
  /\ UNCHANGED <<sem, eventVars, threadVars, unborn, freed,
                 m_WorkPackID, id, m_isExitThread, due, alive>>

\* The receiver of a result deletes it.
DeletePack(c, p) ==
  /\ pc[c] = "idle"
  /\ p \in held[c]
  /\ id[p] # NULL \/ p \in Fresh
  /\ held' = [held EXCEPT ![c] = @ \ {p}]
  /\ freed' = freed \cup {p}
  /\ UNCHANGED <<pc, cur, queueVars, eventVars, threadVars, unborn,
                 m_WorkPackID, id, m_isExitThread, due, alive>>

\* setEventMethod from a client has no lock; the clients call it one after
\* the other.  The handler goes to the next slot, ...
SetEventMethod(c, e) ==
  /\ alive
  /\ c \in Registrars
  /\ \A d \in Clients : pc[d] \notin {"handle", "count", "flag"}
  /\ Goto(c, "idle", "handle")
  /\ m_theEventMethodCount < MaxEvents
  /\ cur' = [cur EXCEPT ![c] = e]
  /\ theEventHandler' = [theEventHandler EXCEPT ![m_theEventMethodCount + 1] = e]
  /\ UNCHANGED <<held, queueVars, m_ResetEventInfo, htheEvent, m_theEventMethodCount,
                 signalled, threadVars, unborn, freed, m_WorkPackID, id,
                 m_isExitThread, due, alive>>

\* ... then the handle, from where on a scan of the slots finds it, ...
SetEventHandle(c) ==
  /\ Goto(c, "handle", "count")
  /\ htheEvent' = [htheEvent EXCEPT ![m_theEventMethodCount + 1] = cur[c]]
  /\ UNCHANGED <<cur, held, queueVars, m_ResetEventInfo, theEventHandler,
                 m_theEventMethodCount, signalled, threadVars, unborn, freed,
                 m_WorkPackID, id, m_isExitThread, due, alive>>

\* ... then the slot is counted, ...
SetEventCount(c) ==
  /\ Goto(c, "count", "flag")
  /\ m_theEventMethodCount' = m_theEventMethodCount + 1
  /\ UNCHANGED <<cur, held, queueVars, m_ResetEventInfo, theEventHandler, htheEvent,
                 signalled, threadVars, unborn, freed, m_WorkPackID, id,
                 m_isExitThread, due, alive>>

\* ... then the list is asked for again.
SetEventMethodFlag(c) ==
  /\ Goto(c, "flag", "idle")
  /\ m_ResetEventInfo' = TRUE
  /\ cur' = [cur EXCEPT ![c] = NULL]
  /\ UNCHANGED <<held, queueVars, m_EventMethod, signalled, threadVars,
                 unborn, freed, m_WorkPackID, id, m_isExitThread, due, alive>>

\* stopThread: the flag ...
StopThread(c) ==
  /\ alive
  /\ c = Owner
  /\ Goto(c, "idle", "stopping")
  /\ m_isExitThread' = TRUE
  /\ UNCHANGED <<cur, held, queueVars, eventVars, threadVars, unborn, freed,
                 m_WorkPackID, id, due, alive>>

\* Mutant: the thread is not woken.
StopThreadRelease_Silent(c) ==
  /\ Goto(c, "stopping", "stopped")
  /\ UNCHANGED <<cur, held, queueVars, eventVars, threadVars, unborn, freed,
                 m_WorkPackID, id, m_isExitThread, due, alive>>

\* ... then the semaphore of m_WorkQ, so that the wait ends.
StopThreadRelease(c) ==
  /\ Goto(c, "stopping", "stopped")
  /\ Release("work")
  /\ UNCHANGED <<cur, held, queue, eventVars, threadVars, unborn, freed,
                 m_WorkPackID, id, m_isExitThread, due, alive>>

\* waitForThreadToStop: after its time out it only writes a log record.
WaitForThreadToStop(c) ==
  /\ Goto(c, "stopped", "joined")
  /\ at = "done" \/ StopTimesOut
  /\ UNCHANGED <<cur, held, queueVars, eventVars, threadVars, unborn, freed,
                 m_WorkPackID, id, m_isExitThread, due, alive>>

\* ~CThreadIt clears both queues, deleting their packs.  Nobody else may be
\* in a call of the instance: that is the owner's duty.
Destroy(c) ==
  /\ Goto(c, "joined", "idle")
  /\ \A d \in Clients \ {c} : \/ pc[d] = "idle"
                               \/ (pc[d] \in {"wait", "woken"} /\ cur[d] = "own")
  /\ freed' = freed \cup ToSet(queue["work"]) \cup ToSet(queue["done"])
  /\ queue' = [queue EXCEPT !["work"] = <<>>, !["done"] = <<>>]
  /\ sem' = [sem EXCEPT !["work"] = 0, !["done"] = 0]
  /\ alive' = FALSE
  /\ UNCHANGED <<cur, held, eventVars, threadVars, unborn,
                 m_WorkPackID, id, m_isExitThread, due>>
-----------------------------------------------------------------------------
(***************************************************************************)
(* The environment: events are set, and time passes.                       *)
(***************************************************************************)
SetEvent(e) ==
  /\ e \notin signalled
  /\ signalled' = signalled \cup {e}
  /\ UNCHANGED <<clientVars, queueVars, m_ResetEventInfo, m_EventMethod,
                 threadVars, unborn, freed, m_WorkPackID, id, m_isExitThread,
                 due, alive>>

PeriodElapses ==
  /\ Timed /\ ~due /\ at \notin {"start", "done"}
  /\ due' = TRUE
  /\ UNCHANGED <<clientVars, queueVars, eventVars, threadVars, unborn, freed,
                 m_WorkPackID, id, m_isExitThread, alive>>
-----------------------------------------------------------------------------
(***************************************************************************)
(* The thread: threadRoutine.                                              *)
(***************************************************************************)
\* What a step of the thread leaves alone unless it says otherwise.
ThreadOnly == UNCHANGED <<clientVars, m_WorkPackID, m_isExitThread, alive>>

\* Before the loop: start the period, ask for the event list to be built.
Start ==
  /\ ThreadGoto("start", "top")
  /\ due' = FALSE
  /\ m_ResetEventInfo' = TRUE
  /\ ThreadOnly
  /\ UNCHANGED <<queueVars, m_EventMethod, signalled, listVars, Result,
                 pWorkDone, callVars, unborn, freed, id>>

\* Build hEventList again: one pass over all slots, ...
RebuildEvents ==
  /\ ThreadGoto("top", "rebuild")
  /\ m_ResetEventInfo
  /\ hEventList' = <<>>
  /\ scanned' = 0
  /\ ThreadOnly
  /\ UNCHANGED <<queueVars, eventVars, Result, pWorkDone, callVars,
                 unborn, freed, id, due>>

\* Mutant: the list does not follow the order of the slots.
ScanSlot_Front ==
  /\ ThreadGoto("rebuild", "rebuild")
  /\ scanned < MaxEvents
  /\ scanned' = scanned + 1
  /\ hEventList' = IF htheEvent[scanned'] = NULL THEN hEventList
                                                 ELSE <<htheEvent[scanned']>> \o hEventList
  /\ ThreadOnly
  /\ UNCHANGED <<queueVars, eventVars, Result, pWorkDone, callVars,
                 unborn, freed, id, due>>

\* ... a slot without a handle being skipped, ...
ScanSlot ==
  /\ ThreadGoto("rebuild", "rebuild")
  /\ scanned < MaxEvents
  /\ scanned' = scanned + 1
  /\ hEventList' = IF htheEvent[scanned'] = NULL THEN hEventList
                                                 ELSE Append(hEventList, htheEvent[scanned'])
  /\ ThreadOnly
  /\ UNCHANGED <<queueVars, eventVars, Result, pWorkDone, callVars,
                 unborn, freed, id, due>>

\* ... and only then drop the request for it.
RebuildDone ==
  /\ ThreadGoto("rebuild", "check")
  /\ scanned = MaxEvents
  /\ m_ResetEventInfo' = FALSE
  /\ ThreadOnly
  /\ UNCHANGED <<queueVars, m_EventMethod, signalled, listVars, Result,
                 pWorkDone, callVars, unborn, freed, id, due>>

NoRebuild ==
  /\ ThreadGoto("top", "check")
  /\ ~m_ResetEventInfo
  /\ ThreadOnly
  /\ UNCHANGED <<queueVars, eventVars, listVars, Result, pWorkDone, callVars,
                 unborn, freed, id, due>>

\* The exit flag is looked at before the wait and before each branch; once
\* it is set nothing more happens in this turn and the loop ends.
CheckExit ==
  /\ IF m_isExitThread THEN ThreadGoto("check", "done")
                       ELSE ThreadGoto("check", "wait")
  /\ ThreadOnly
  /\ UNCHANGED <<queueVars, eventVars, listVars, Result, pWorkDone, callVars,
                 unborn, freed, id, due>>

\* WaitForMultipleObjectsEx returns the lowest index that is signalled: the
\* work queue is index 0, hEventList[k] is index k.
WaitWork ==
  /\ ThreadGoto("wait", "result")
  /\ Acquire("work")
  /\ Result' = 0
  /\ ThreadOnly
  /\ UNCHANGED <<queue, eventVars, listVars, pWorkDone, callVars,
                 unborn, freed, id, due>>

\* Mutant: the last event is not waited on (the count is one short).
SignalledIndexes_Short ==
  {k \in DOMAIN hEventList : k < Len(hEventList) /\ hEventList[k] \in signalled}

SignalledIndexes == {k \in DOMAIN hEventList : hEventList[k] \in signalled}

WaitEvent ==
  /\ ThreadGoto("wait", "result")
  /\ sem["work"] = 0
  /\ \E k \in SignalledIndexes :
        /\ \A j \in SignalledIndexes : k <= j
        /\ Result' = k
        /\ signalled' = signalled \ {hEventList[k]}
  /\ ThreadOnly
  /\ UNCHANGED <<queueVars, m_ResetEventInfo, m_EventMethod, listVars,
                 pWorkDone, callVars, unborn, freed, id, due>>

\* The time out, or an APC (the wait is alertable).
WaitOther ==
  /\ ThreadGoto("wait", "result")
  /\ sem["work"] = 0 /\ SignalledIndexes = {}
  /\ Result' = NoWait
  /\ ThreadOnly
  /\ UNCHANGED <<queueVars, eventVars, listVars, pWorkDone, callVars,
                 unborn, freed, id, due>>

ResultExit ==
  /\ m_isExitThread
  /\ ThreadGoto("result", "done")
  /\ ThreadOnly
  /\ UNCHANGED <<queueVars, eventVars, listVars, Result, pWorkDone, callVars,
                 unborn, freed, id, due>>

\* getItemNoDec, and the choice of the method.  The list may be empty: the
\* count of stopThread, or of an item that was taken with an earlier count.
TakeWork ==
  /\ ~m_isExitThread /\ Result = 0
  /\ at = "result"
  /\ IF queue["work"] = <<>>
     THEN at' = "period" /\ UNCHANGED <<queue, pWorkDone, WorkId, isPeriodic>>
     ELSE LET p == Head(queue["work"]) IN
          /\ queue' = [queue EXCEPT !["work"] = Tail(@)]
          /\ pWorkDone' = p
          /\ WorkId' = Contents(p).instruction
          /\ isPeriodic' = FALSE
          /\ at' = IF Contents(p).instruction \in Methods THEN "work" ELSE "respond"
  /\ ThreadOnly
  /\ UNCHANGED <<sem, eventVars, listVars, Result, isNotify, m_theCallback,
                 answered, unborn, freed, id, due>>

\* A worker method answers with the pack it got, with a new one (a copy of
\* the old, which it deletes) or with none.
WorkerMethod ==
  /\ ThreadGoto("work", "respond")
  /\ \E r \in {pWorkDone, NULL} \cup unborn :
        /\ pWorkDone' = r
        /\ freed' = IF r = pWorkDone THEN freed ELSE freed \cup {pWorkDone}
        /\ unborn' = unborn \ {r}
        /\ id' = IF r \in unborn THEN [id EXCEPT ![r] = id[pWorkDone]] ELSE id
  /\ ThreadOnly
  /\ UNCHANGED <<queueVars, eventVars, listVars, Result, callVars, due>>

\* The first three statements of setEventMethod, by the thread itself.
AddEvent(e) ==
  /\ \A d \in Clients : pc[d] \notin {"handle", "count", "flag"}
  /\ m_theEventMethodCount < MaxEvents
  /\ theEventHandler' = [theEventHandler EXCEPT ![m_theEventMethodCount + 1] = e]
  /\ htheEvent' = [htheEvent EXCEPT ![m_theEventMethodCount + 1] = e]
  /\ m_theEventMethodCount' = m_theEventMethodCount + 1

\* Mutant: no request to build the list again.
WorkerSetsEvent_NoReset(e) ==
  /\ ThreadGoto("work", "work")
  /\ AddEvent(e)
  /\ ThreadOnly
  /\ UNCHANGED <<queueVars, m_ResetEventInfo, signalled, listVars, Result,
                 pWorkDone, callVars, unborn, freed, id, due>>

\* A worker method calls setEventMethod, "by the associated thread".
WorkerSetsEvent(e) ==
  /\ ThreadGoto("work", "work")
  /\ AddEvent(e)
  /\ m_ResetEventInfo' = TRUE
  /\ ThreadOnly
  /\ UNCHANGED <<queueVars, signalled, listVars, Result, pWorkDone, callVars,
                 unborn, freed, id, due>>

\* The handler m_EventMethod[Result - 1]; it answers with a new pack or none.
EventMethod ==
  /\ ~m_isExitThread /\ Result > 0
  /\ ThreadGoto("result", "respond")
  /\ WorkId' = Result
  /\ isPeriodic' = FALSE
  /\ \E r \in {NULL} \cup unborn :
        /\ pWorkDone' = r
        /\ unborn' = unborn \ {r}
  /\ ThreadOnly
  /\ UNCHANGED <<queueVars, eventVars, listVars, Result, isNotify, m_theCallback,
                 answered, freed, id, due>>

NothingSignalled ==
  /\ ~m_isExitThread /\ Result = NoWait
  /\ ThreadGoto("result", "period")
  /\ ThreadOnly
  /\ UNCHANGED <<queueVars, eventVars, listVars, Result, pWorkDone, callVars,
                 unborn, freed, id, due>>

\* The periodic branch runs in every turn of the loop, whatever ended the
\* wait.  A method that returns no pack is not answered.
PeriodicMethod ==
  /\ ~m_isExitThread /\ Periodic /\ due
  /\ at = "period"
  /\ WorkId' = 0
  /\ isPeriodic' = TRUE
  /\ \E r \in {NULL} \cup unborn :
        /\ pWorkDone' = r
        /\ unborn' = unborn \ {r}
        /\ at' = IF r = NULL THEN "restart" ELSE "respond"
  /\ ThreadOnly
  /\ UNCHANGED <<queueVars, eventVars, listVars, Result, isNotify, m_theCallback,
                 answered, freed, id, due>>

NoPeriodicMethod ==
  /\ m_isExitThread \/ ~Periodic \/ ~due
  /\ IF m_isExitThread THEN ThreadGoto("period", "done")
                       ELSE ThreadGoto("period", "top")
  /\ due' = (due /\ Periodic)
  /\ ThreadOnly
  /\ UNCHANGED <<queueVars, eventVars, listVars, Result, pWorkDone, callVars,
                 unborn, freed, id>>

RestartPeriod ==
  /\ IF m_isExitThread THEN ThreadGoto("restart", "done")
                       ELSE ThreadGoto("restart", "top")
  /\ due' = FALSE
  /\ ThreadOnly
  /\ UNCHANGED <<queueVars, eventVars, listVars, Result, pWorkDone, callVars,
                 unborn, freed, id>>
-----------------------------------------------------------------------------
(***************************************************************************)
(* The thread: sendResponse.                                               *)
(***************************************************************************)
\* Mutant: the periodic branch runs only when nothing else happened.
AfterResponse_NextTurn == IF isPeriodic THEN "restart" ELSE "top"

\* Where threadRoutine goes on after sendResponse.
AfterResponse == IF isPeriodic THEN "restart" ELSE "period"

\* What an observer is told.  A periodic answer has the instruction 0.  The
\* data item of the callback is replaced only if this pack passes one.
Callback(p) ==
  [instruction |-> IF isPeriodic THEN 0 ELSE Contents(p).instruction,
   workId |-> WorkId,
   isPeriodic |-> isPeriodic,
   dataItem |-> IF Contents(p).isObjectInCallback THEN p ELSE m_theCallback.dataItem]

\* Copy what the callback will need while the pack is still ours.
RespondCopy ==
  /\ at = "respond"
  /\ IF pWorkDone = NULL
     THEN at' = AfterResponse /\ UNCHANGED <<isNotify, m_theCallback, answered>>
     ELSE /\ at' = "deliver"
          /\ answered' = pWorkDone
          /\ isNotify' = Contents(pWorkDone).isNotifyWithCallback
          /\ m_theCallback' = IF isNotify' THEN Callback(pWorkDone) ELSE m_theCallback
  /\ ThreadOnly
  /\ UNCHANGED <<queueVars, eventVars, listVars, Result, pWorkDone, WorkId,
                 isPeriodic, unborn, freed, id, due>>

\* Mutant: the semaphore of the done queue is not released.
RespondDeliver_NoRelease ==
  LET p == pWorkDone IN
  /\ at = "deliver"
  /\ at' = "notify"
  /\ IF Kind[p].isSendResult
     THEN /\ UNCHANGED <<freed, pWorkDone>>
          /\ IF Kind[p].doneQ = "null" THEN UNCHANGED queue ELSE Push(Kind[p].doneQ, p)
     ELSE freed' = freed \cup {p} /\ pWorkDone' = NULL /\ UNCHANGED queue
  /\ ThreadOnly
  /\ UNCHANGED <<sem, eventVars, listVars, Result, callVars, unborn, id, due>>

\* Mutant: the pack is deleted although it was delivered.
RespondDeliver_Frees ==
  LET p == pWorkDone IN
  /\ at = "deliver"
  /\ at' = IF Kind[p].isSendResult /\ Kind[p].doneQ # "null" THEN "signal" ELSE "notify"
  /\ IF at' = "signal" THEN Push(Kind[p].doneQ, p) ELSE UNCHANGED queue
  /\ freed' = freed \cup {p}
  /\ ThreadOnly
  /\ UNCHANGED <<sem, eventVars, listVars, Result, pWorkDone, callVars, unborn, id, due>>

\* insertItem into the queue the pack names, or delete.  A pack that wants
\* a result and names no queue gets a status, and nobody keeps the pointer.
RespondDeliver ==
  LET p == pWorkDone IN
  /\ at = "deliver"
  /\ IF Contents(p).isSendResult
     THEN IF Contents(p).doneQ = "null"
          THEN at' = "notify" /\ UNCHANGED <<queue, freed, pWorkDone>>
          ELSE at' = "signal" /\ Push(Contents(p).doneQ, p) /\ UNCHANGED <<freed, pWorkDone>>
     ELSE at' = "notify" /\ freed' = freed \cup {p} /\ pWorkDone' = NULL /\ UNCHANGED queue
  /\ ThreadOnly
  /\ UNCHANGED <<sem, eventVars, listVars, Result, callVars, unborn, id, due>>

RespondSignal ==
  /\ ThreadGoto("signal", "notify")
  /\ Release(Kind[pWorkDone].doneQ)
  /\ ThreadOnly
  /\ UNCHANGED <<queue, eventVars, listVars, Result, pWorkDone, callVars,
                 unborn, freed, id, due>>

\* Mutant: the callback is set up after the pack was delivered.
RespondNotify_LateSetup ==
  /\ ThreadGoto("notify", AfterResponse)
  /\ m_theCallback' = IF isNotify /\ pWorkDone # NULL THEN Callback(pWorkDone) ELSE m_theCallback
  /\ answered' = NULL
  /\ ThreadOnly
  /\ UNCHANGED <<queueVars, eventVars, listVars, Result, pWorkDone, WorkId,
                 isPeriodic, isNotify, unborn, freed, id, due>>

\* notifyOnChange, if the copied flag says so; observers see m_theCallback.
RespondNotify ==
  /\ ThreadGoto("notify", AfterResponse)
  /\ answered' = NULL
  /\ ThreadOnly
  /\ UNCHANGED <<queueVars, eventVars, listVars, Result, pWorkDone, WorkId,
                 isPeriodic, isNotify, m_theCallback, unborn, freed, id, due>>

SendResponse == RespondCopy \/ RespondDeliver \/ RespondSignal \/ RespondNotify
-----------------------------------------------------------------------------
ClientProgress(c) ==
  \/ StartWorkInsert(c) \/ StartWorkRelease(c)
  \/ GetWorkSignalled(c) \/ GetWorkTimeout(c) \/ GetWorkPop(c)
  \/ SetEventHandle(c) \/ SetEventCount(c) \/ SetEventMethodFlag(c)
  \/ StopThreadRelease(c)
  \/ WaitForThreadToStop(c) \/ Destroy(c)

\* The thread runs on unless it waits; a wait ends by itself only when the
\* period has elapsed.
ThreadProgress ==
  \/ Start \/ RebuildEvents \/ ScanSlot \/ RebuildDone \/ NoRebuild \/ CheckExit
  \/ WaitWork \/ WaitEvent \/ (due /\ WaitOther)
  \/ ResultExit \/ TakeWork \/ WorkerMethod \/ EventMethod \/ NothingSignalled
  \/ PeriodicMethod \/ NoPeriodicMethod \/ RestartPeriod
  \/ SendResponse

Next ==
  \/ \E c \in Clients :
        \/ \E p \in Packs : StartWork(c, p) \/ DeletePack(c, p)
        \/ \E q \in {"done", "own"} : GetWork(c, q)
        \/ \E e \in Events : SetEventMethod(c, e)
        \/ StopThread(c)
        \/ ClientProgress(c)
  \/ \E e \in Events : SetEvent(e) \/ WorkerSetsEvent(e)
  \/ PeriodElapses
  \/ ThreadProgress
  \/ WaitOther

Spec == Init /\ [][Next]_vars

FairSpec == Spec /\ WF_vars(ThreadProgress)
                 /\ \A c \in Clients : WF_vars(ClientProgress(c))
-----------------------------------------------------------------------------
(***************************************************************************)
(* Properties.  The first two definitions are words for them: the packs    *)
(* the thread may use, and the pack a call of startWork carries.           *)
(***************************************************************************)
\* The packs the thread may use: it took or made them and has not yet
\* passed them on.
InHand == IF at \in {"work", "respond", "deliver"} THEN {pWorkDone} \ {NULL} ELSE {}

OnItsWay(c) == IF pc[c] = "insert" THEN {cur[c]} ELSE {}

\* Type correctness of the variables of the instance, its clients and its thread.
TypeOK ==
  /\ queue \in [Queues -> Seq(Packs)]
  /\ sem \in [Queues -> Nat]
  /\ held \in [Clients -> SUBSET Packs]
  /\ unborn \subseteq Packs /\ freed \subseteq Packs
  /\ pc \in [Clients -> {"idle", "insert", "release", "wait", "woken", "handle", "count",
                         "flag", "stopping", "stopped", "joined"}]
  /\ cur \in [Clients -> Packs \cup Queues \cup Events \cup {NULL}]
  /\ m_WorkPackID \in 0 .. MaxID
  /\ id \in [Packs -> (0 .. MaxID) \cup {NULL}]
  /\ {m_isExitThread, m_ResetEventInfo, due, isPeriodic, isNotify, alive} \subseteq BOOLEAN
  /\ theEventHandler \in [Slots -> Events \cup {NULL}]
  /\ htheEvent \in [Slots -> Events \cup {NULL}]
  /\ m_theEventMethodCount \in 0 .. MaxEvents
  /\ hEventList \in Seq(Events) /\ scanned \in 0 .. MaxEvents
  /\ signalled \subseteq Events
  /\ at \in {"start", "top", "rebuild", "check", "wait", "result", "work", "respond",
             "deliver", "signal", "notify", "period", "restart", "done"}
  /\ Result \in {NoWait} \cup 0 .. MaxEvents
  /\ {pWorkDone, answered} \subseteq Packs \cup {NULL}
  /\ WorkId \in Nat
  /\ m_theCallback \in [instruction : Nat, workId : Nat, isPeriodic : BOOLEAN,
                         dataItem : Packs \cup {NULL}]

\* Where pack p is.  The comments of startWork and getWork pass the ownership
\* of a pack from the client to the instance and back.
Places(p) ==
  {<<"held", c>> : c \in {d \in Clients : p \in held[d]}} \cup
  {<<"starting", c>> : c \in {d \in Clients : p \in OnItsWay(d)}} \cup
  (UNION {{<<q, k>> : k \in {j \in DOMAIN queue[q] : queue[q][j] = p}} : q \in Queues}) \cup
  {w \in {<<"hand">>} : p \in InHand} \cup
  {w \in {<<"freed">>} : p \in freed} \cup
  {w \in {<<"unborn">>} : p \in unborn}

\* A pack has one owner at a time: it is never freed while somebody holds it,
\* never in two queues, never with a client and the thread at once.  Only a
\* pack that wants a result and names no queue is dropped (sendResponse).
OneOwner ==
  \A p \in Packs :
     /\ Cardinality(Places(p)) <= 1
     /\ Places(p) = {} => Kind[p].isSendResult /\ Kind[p].doneQ = "null"

\* Observers are told what the answered pack said and asked for, although its
\* receiver may have deleted it before they are called (threadit.cpp:570-575).
ToldAsAnswered ==
  [][(at = "notify" /\ at' # "notify") =>
        LET asked == Kind[answered] IN
        /\ isNotify' = asked.isNotifyWithCallback
        /\ isNotify' =>
             /\ m_theCallback'.instruction = (IF isPeriodic THEN 0 ELSE asked.instruction)
             /\ m_theCallback'.workId = WorkId
             /\ m_theCallback'.isPeriodic = isPeriodic
             /\ asked.isObjectInCallback => m_theCallback'.dataItem = answered]_vars

\* When the callback runs, each result in a done queue can be taken at once:
\* it has its signal, or a client that was woken for it (threadit.cpp:576-577).
ResultReady ==
  at = "notify" =>
    \A q \in {"done", "own"} :
       Len(queue[q]) = sem[q] + Cardinality({c \in Clients : pc[c] = "woken" /\ cur[c] = q})

\* An index that a wait returned names the method registered for that event,
\* if the thread alone registers events (threadit.cpp:695).
RightMethod ==
  (at = "result" /\ Result > 0) =>
     /\ Result <= m_theEventMethodCount
     /\ theEventHandler[Result] = hEventList[Result]

\* When the thread waits with no rebuild requested, it waits on every event
\* that has a method, if the thread alone registers events.
RegisteredIsHeard ==
  (at = "wait" /\ ~m_ResetEventInfo) =>
     \A k \in 1 .. m_theEventMethodCount : htheEvent[k] \in ToSet(hEventList)

\* The refinement: what a user sees of the thread is what it has to do,
\* whether it is at it, whether it has ended and whether the instance is gone.
Abstract == INSTANCE ActiveObject WITH
  Requests <- Packs,
  todo <- queue["work"],
  busy <- at \in {"work", "respond", "deliver", "signal", "notify"},
  ended <- at = "done",
  gone <- ~alive

\* The thread takes packs one at a time, in the order they were queued; it
\* takes none after it has ended, and the instance goes only after that.
ImplementsActiveObject == Abstract!Spec

\* stopThread ends the thread, even one that waits without a time out.
StopEndsThread == m_isExitThread ~> at = "done"

\* A pack that was sent is taken, unless the thread is stopped first.
WorkTaken ==
  \A p \in Packs : (p \in ToSet(queue["work"])) ~>
                    (p \notin ToSet(queue["work"]) \/ m_isExitThread)

\* The periodic method runs however much work arrives.
PeriodKept == (due /\ Periodic) ~> (~due \/ m_isExitThread)

\* An event that is set and waited on is handled, unless the thread is stopped
\* or again and again work or an event registered earlier is signalled: the
\* wait returns the lowest index, so a busy queue starves the events.
EventHeard ==
  \A e \in Events :
     <>[](e \in signalled /\ e \in ToSet(hEventList) /\ ~m_isExitThread) =>
        []<>(\/ sem["work"] > 0
             \/ \E j \in SignalledIndexes :
                   \A k \in DOMAIN hEventList : hEventList[k] = e => j < k)
=============================================================================
