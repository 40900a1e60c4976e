---------------------------- MODULE TestThreadIt ----------------------------
(***************************************************************************)
(* A whole program on the library: the tests of TestThreadIt.cpp, with an   *)
(* instance that has worker, event and periodic methods, an observer that   *)
(* is told of every result, and a thread that sends work packs, signals     *)
(* events and collects what comes back.  Here packs are values with the     *)
(* fields that sendResponse and the copies look at; ThreadIt has the same   *)
(* code with their identities and the steps inside the queues.              *)
(*                                                                          *)
(* The sleeps and time outs of the tests are taken to be longer than what   *)
(* they wait for: they end when the instance has nothing left to do.        *)
(*                                                                          *)
(* The tests register their events from outside, while the instance's thread*)
(* goes through the slots of m_EventMethod to list what it waits for.  Of   *)
(* setEventMethod's writes only two meet the thread, the handle in its slot *)
(* and m_ResetEventInfo: the handler is written before the handle that it is*)
(* looked up by, and the test alone reads the count.                        *)
(***************************************************************************)
EXTENDS Naturals, Sequences, SequencesExt

CONSTANTS
  MAX_WORK_METHODS, MAX_EVENT_METHODS,
  Plans,          \* what the test does, see PlanAssumption
  MaxPeriods      \* times the periodic method is due

None == "none"
Instructions == 0..MAX_WORK_METHODS   \* the last one is out of range

\* "packs" are settings of packs to be sent, which have the fields of NewPack
\* and no number yet, and whose results go to m_DoneQ as in the tests;
\* "events" is the number of calls of setEventMethod, each event is signalled
\* "signals" times, "periodic" says that the test sets a periodic method.
PackFields ==
  {"instruction", "id", "status", "send", "notify", "useDefaultQ", "inCallback", "object", "item"}

PackSetting(p) ==
  /\ DOMAIN p = PackFields /\ p = [f \in PackFields |-> p[f]]
  /\ p.instruction \in Instructions /\ p.id = 0 /\ p.status = "ok" /\ p.useDefaultQ = TRUE
  /\ p.send \in BOOLEAN /\ p.notify \in BOOLEAN /\ p.inCallback \in BOOLEAN

ASSUME PlanAssumption ==
  /\ MAX_WORK_METHODS \in Nat /\ MAX_EVENT_METHODS \in Nat /\ MaxPeriods \in Nat
  /\ \A p \in Plans :
       /\ p.periodic \in BOOLEAN /\ p.events \in Nat /\ p.signals \in Nat
       /\ p.packs \in Seq(ToSet(p.packs))
       /\ \A i \in DOMAIN p.packs : PackSetting(p.packs[i])

VARIABLES
  plan,
  workQ, doneQ, eventQ,   \* m_WorkQ, m_DoneQ and the test's m_theEventQueue
  itemQ,                  \* CCallback::m_ptheDataItemQ
  changeCount,            \* CCallback::m_theChangeCount
  callback,               \* CThreadIt::m_theCallback
  eventMethods,           \* m_theEventMethodCount
  listed,                 \* the events in hEventList
  reset,                  \* m_ResetEventInfo
  scan,                   \* the slot of m_EventMethod that threadRoutine looks at next
  signals,                \* event -> its semaphore's count
  due,                    \* how often the period has ended
  instance, pWorkDone,    \* where threadRoutine is, and its variable
  tester,                 \* where the test is
  sent, ids,              \* packs sent, and their numbers
  answers, items          \* what the test has collected

queueVarsT == <<workQ, doneQ, eventQ, itemQ>>
eventVars == <<listed, scan>>
instanceVars == <<callback, changeCount, eventVars, instance, pWorkDone>>
testerVars == <<plan, tester, sent, ids, answers, items>>
testVars == <<queueVarsT, instanceVars, eventMethods, reset, signals, due, testerVars>>

---------------------------------------------------------------------------
(* CWorkPackIt.                                                             *)

\* initialise, which sets neither source nor reply instruction
NewPack ==
  [instruction |-> 0, id |-> 0, status |-> "ok", send |-> FALSE, notify |-> FALSE,
   useDefaultQ |-> TRUE, inCallback |-> FALSE, object |-> None, item |-> None]

\* Mutant: m_isNotifyWithCallback is left as initialise has set it.
Copy_Silent(p) ==
  [NewPack EXCEPT
    !.instruction = p.instruction, !.id = p.id, !.status = p.status, !.send = p.send,
    !.useDefaultQ = p.useDefaultQ, !.inCallback = p.inCallback,
    !.object = p.object, !.item = p.item]

\* The copy constructor and operator =.
Copy(p) ==
  [NewPack EXCEPT
    !.instruction = p.instruction, !.id = p.id, !.status = p.status, !.send = p.send,
    !.notify = p.notify, !.useDefaultQ = p.useDefaultQ, !.inCallback = p.inCallback,
    !.object = p.object, !.item = p.item]

\* checkParams with an object: what is wrong, and the pack for the result.
ParamStatus(p) == IF p.object = None THEN "object null" ELSE "ok"
CheckParams(p, isCopy) ==
  [IF isCopy THEN Copy(p) ELSE NewPack EXCEPT !.status = ParamStatus(p)]

\* setWorkerMethod takes instructions below MAX_WORK_METHODS; these are those
\* of CTestIt, and one with checkParams as ComponentAImpl has.
THREADIT_TEST_METHOD == 3
FUNCTION_A == 4
m_WorkerMethod ==
  [i \in 0..MAX_WORK_METHODS - 1 |->
     CASE i = THREADIT_TEST_METHOD -> "setup" [] i = FUNCTION_A -> "check" [] OTHER -> None]

\* The result of a pack: an instruction without a method gives back the pack.
Performed(p) ==
  IF p.instruction \notin DOMAIN m_WorkerMethod THEN [p EXCEPT !.status = "invalid instruction"]
  ELSE CASE m_WorkerMethod[p.instruction] = None -> [p EXCEPT !.status = "no method"]
         [] m_WorkerMethod[p.instruction] = "setup" -> [Copy(p) EXCEPT !.status = "ok"]
         [] OTHER -> CheckParams(p, TRUE)

---------------------------------------------------------------------------
TestInit ==
  /\ plan \in Plans
  /\ workQ = <<>> /\ doneQ = <<>> /\ eventQ = <<>> /\ itemQ = <<>>
  /\ changeCount = 0 /\ callback = [instruction |-> 0, item |-> None]
  /\ eventMethods = 0 /\ listed = {} /\ reset = TRUE /\ scan = 1
  /\ signals = [e \in 1..MAX_EVENT_METHODS |-> 0] /\ due = 0
  /\ instance = "turn" /\ pWorkDone = NewPack
  /\ tester = "events"
  /\ sent = 0 /\ ids = <<>> /\ answers = <<>> /\ items = <<>>

---------------------------------------------------------------------------
(* The instance's thread: threadRoutine and sendResponse.                   *)

\* A turn of the loop: the events are listed anew if that was asked for.
BeginTurn ==
  /\ instance = "turn"
  /\ IF reset THEN instance' = "scan" /\ listed' = {} /\ scan' = 1
     ELSE instance' = "wait" /\ UNCHANGED eventVars
  /\ UNCHANGED <<queueVarsT, callback, changeCount, pWorkDone, eventMethods, reset, signals, due, testerVars>>

ScanSlot ==
  /\ instance = "scan" /\ scan <= MAX_EVENT_METHODS
  /\ listed' = IF scan <= eventMethods THEN listed \cup {scan} ELSE listed
  /\ scan' = scan + 1
  /\ UNCHANGED <<queueVarsT, callback, changeCount, instance, pWorkDone, eventMethods, reset, signals, due, testerVars>>

EndScan ==
  /\ instance = "scan" /\ scan > MAX_EVENT_METHODS
  /\ reset' = FALSE /\ instance' = "wait"
  /\ UNCHANGED <<queueVarsT, callback, changeCount, eventVars, pWorkDone, eventMethods, signals, due, testerVars>>

Ready == {e \in listed : signals[e] > 0}
FirstReady == CHOOSE e \in Ready : \A f \in Ready : e <= f

TakeAndPerform ==
  /\ instance = "wait" /\ workQ # <<>>
  /\ workQ' = Tail(workQ)
  /\ pWorkDone' = Performed(Head(workQ))
  /\ instance' = "prepare"
  /\ UNCHANGED <<doneQ, eventQ, itemQ, callback, changeCount, eventVars, eventMethods, reset, signals, due, testerVars>>

\* CTestIt::eventMethod, for the lowest event that is signalled
PerformEvent ==
  /\ instance = "wait" /\ workQ = <<>> /\ Ready # {}
  /\ signals' = [signals EXCEPT ![FirstReady] = @ - 1]
  /\ pWorkDone' = [Copy(NewPack) EXCEPT !.send = TRUE, !.notify = TRUE, !.useDefaultQ = FALSE]
  /\ instance' = "prepare"
  /\ UNCHANGED <<queueVarsT, callback, changeCount, eventVars, eventMethods, reset, due, testerVars>>

\* The wait times out with the period: there may be a periodic method, and if
\* there is none the next turn of the loop matters if it lists the events.
PeriodEnds ==
  /\ instance = "wait" /\ workQ = <<>> /\ Ready = {}
  /\ IF plan.periodic /\ tester \notin {"events", "flag"} /\ due < MaxPeriods
     THEN /\ due' = due + 1
          /\ pWorkDone' = [Copy(NewPack) EXCEPT !.send = TRUE, !.notify = TRUE]
          /\ instance' = "prepare"
     ELSE reset /\ instance' = "turn" /\ UNCHANGED <<due, pWorkDone>>
  /\ UNCHANGED <<queueVarsT, callback, changeCount, eventVars, eventMethods, reset, signals, testerVars>>

\* Mutant: the callback keeps the first data item it was given.
PrepareCallback_Once ==
  /\ instance = "prepare"
  /\ callback' = IF ~pWorkDone.notify THEN callback
                 ELSE [instruction |-> pWorkDone.instruction,
                       item |-> IF pWorkDone.inCallback /\ callback.item = None
                                THEN pWorkDone.item ELSE callback.item]
  /\ instance' = "deliver"
  /\ UNCHANGED <<queueVarsT, changeCount, eventVars, pWorkDone, eventMethods, reset, signals, due, testerVars>>

\* The callback is filled in before the pack is given away; the data item of
\* the last pack that had one stays.
PrepareCallback ==
  /\ instance = "prepare"
  /\ callback' = IF ~pWorkDone.notify THEN callback
                 ELSE [instruction |-> pWorkDone.instruction,
                       item |-> IF pWorkDone.inCallback THEN pWorkDone.item ELSE callback.item]
  /\ instance' = "deliver"
  /\ UNCHANGED <<queueVarsT, changeCount, eventVars, pWorkDone, eventMethods, reset, signals, due, testerVars>>

Deliver ==
  /\ instance = "deliver"
  /\ doneQ' = IF pWorkDone.send /\ pWorkDone.useDefaultQ THEN Append(doneQ, pWorkDone) ELSE doneQ
  /\ eventQ' = IF pWorkDone.send /\ ~pWorkDone.useDefaultQ THEN Append(eventQ, pWorkDone) ELSE eventQ
  /\ instance' = IF pWorkDone.notify THEN "change" ELSE "turn"
  /\ UNCHANGED <<workQ, itemQ, callback, changeCount, eventVars, pWorkDone, eventMethods, reset, signals, due, testerVars>>

\* CCallback::onChange counts, and then queues the data item.
OnChange ==
  /\ instance = "change"
  /\ changeCount' = changeCount + 1
  /\ instance' = "queue item"
  /\ UNCHANGED <<queueVarsT, callback, eventVars, pWorkDone, eventMethods, reset, signals, due, testerVars>>

OnChangeQueue ==
  /\ instance = "queue item"
  /\ itemQ' = Append(itemQ, callback.item)
  /\ instance' = "turn"
  /\ UNCHANGED <<workQ, doneQ, eventQ, callback, changeCount, eventVars, pWorkDone, eventMethods, reset, signals, due, testerVars>>

---------------------------------------------------------------------------
(* The test.                                                                *)

\* Nothing is left to do: what the test's sleeps and time outs wait for.
Quiet ==
  /\ instance = "wait" /\ workQ = <<>> /\ Ready = {} /\ ~reset
  /\ plan.periodic => due = MaxPeriods

\* setEventMethod, whose calls above the limit are refused: the slot is
\* filled, and after that the thread is asked to list the events anew.
RegisterEvent ==
  /\ tester = "events" /\ eventMethods < plan.events /\ eventMethods < MAX_EVENT_METHODS
  /\ eventMethods' = eventMethods + 1
  /\ tester' = "flag"
  /\ UNCHANGED <<queueVarsT, instanceVars, reset, signals, due, plan, sent, ids, answers, items>>

AskForScan ==
  /\ tester = "flag"
  /\ reset' = TRUE
  /\ tester' = "events"
  /\ UNCHANGED <<queueVarsT, instanceVars, eventMethods, signals, due, plan, sent, ids, answers, items>>

AllRegistered ==
  /\ tester = "events" /\ ~(eventMethods < plan.events /\ eventMethods < MAX_EVENT_METHODS)
  /\ tester' = "signal"
  /\ UNCHANGED <<queueVarsT, instanceVars, eventMethods, reset, signals, due, plan, sent, ids, answers, items>>

\* The test sleeps before it signals the events it has registered.
SignalEvents ==
  /\ tester = "signal"
  /\ plan.events > 0 => Quiet
  /\ signals' = [e \in DOMAIN signals |-> IF e <= eventMethods THEN plan.signals ELSE 0]
  /\ tester' = "send"
  /\ UNCHANGED <<queueVarsT, instanceVars, eventMethods, reset, due, plan, sent, ids, answers, items>>

\* startWork gives the pack its number.
SendPack ==
  /\ tester = "send" /\ sent < Len(plan.packs)
  /\ sent' = sent + 1
  /\ ids' = Append(ids, sent')
  /\ workQ' = Append(workQ, [plan.packs[sent'] EXCEPT !.id = sent'])
  /\ UNCHANGED <<doneQ, eventQ, itemQ, instanceVars, eventMethods, reset, signals, due, plan, tester, answers, items>>

\* The test goes on to collect when it likes, with a sleep before it if
\* events or the period are to do their work.
StartCollecting ==
  /\ tester = "send" /\ sent = Len(plan.packs)
  /\ plan.packs = <<>> => Quiet
  /\ tester' = "collect"
  /\ UNCHANGED <<queueVarsT, instanceVars, eventMethods, reset, signals, due, plan, sent, ids, answers, items>>

\* getWork, or waitItem of the queue of the events
CollectAnswer ==
  /\ tester = "collect"
  /\ \/ doneQ # <<>> /\ answers' = Append(answers, Head(doneQ)) /\ doneQ' = Tail(doneQ) /\ UNCHANGED eventQ
     \/ eventQ # <<>> /\ answers' = Append(answers, Head(eventQ)) /\ eventQ' = Tail(eventQ) /\ UNCHANGED doneQ
  /\ tester' = IF answers'[Len(answers')].notify THEN "item" ELSE "collect"
  /\ UNCHANGED <<workQ, itemQ, instanceVars, eventMethods, reset, signals, due, plan, sent, ids, items>>

\* getDataItem waits for the observer.
CollectItem ==
  /\ tester = "item" /\ itemQ # <<>>
  /\ items' = Append(items, Head(itemQ)) /\ itemQ' = Tail(itemQ)
  /\ tester' = "collect"
  /\ UNCHANGED <<workQ, doneQ, eventQ, instanceVars, eventMethods, reset, signals, due, plan, sent, ids, answers>>

\* A result that nobody sends: getWork times out, and the test asks for the
\* data items of the packs that only asked for a callback.
CollectNothing ==
  /\ tester \in {"collect", "item"} /\ Quiet
  /\ tester = "collect" => doneQ = <<>> /\ eventQ = <<>>
  /\ tester = "item" => itemQ = <<>>
  /\ IF itemQ # <<>> THEN tester' = "item" ELSE tester' = IF tester = "item" THEN "collect" ELSE "over"
  /\ UNCHANGED <<queueVarsT, instanceVars, eventMethods, reset, signals, due, plan, sent, ids, answers, items>>

InstanceStep ==
  \/ BeginTurn \/ ScanSlot \/ EndScan \/ TakeAndPerform \/ PerformEvent \/ PeriodEnds \/ PrepareCallback
  \/ Deliver \/ OnChange \/ OnChangeQueue

TestStep ==
  \/ RegisterEvent \/ AskForScan \/ AllRegistered \/ SignalEvents \/ SendPack \/ StartCollecting
  \/ CollectAnswer \/ CollectItem \/ CollectNothing

TestNext == InstanceStep \/ TestStep

TestSpec == TestInit /\ [][TestNext]_testVars

---------------------------------------------------------------------------
\* The CHECKs at the end of the tests: every pack that asked for a result has
\* one with its instruction and its number, in the order they were sent; each
\* period has one, and each signal of an event that the thread listens to; and
\* the observer was told of each, and of every pack that asked for it, exactly
\* once, whatever the instance's thread had done when the test took the result
\* (TestThreadIt.cpp:337-338, 376, 414-417, 461-462).
ChecksHold ==
  tester = "over" =>
    LET asked == {i \in DOMAIN plan.packs : plan.packs[i].send}
        told == {i \in DOMAIN plan.packs : plan.packs[i].notify}
        others == Cardinality(listed) * plan.signals + due
    IN  /\ \A k \in DOMAIN answers : answers[k].id # 0 =>
             \E i \in asked : answers[k].id = ids[i] /\ answers[k].instruction = plan.packs[i].instruction
        /\ \A i \in asked : \E k \in DOMAIN answers : answers[k].id = ids[i]
        /\ \A i, j \in asked : \A k, l \in DOMAIN answers :
             answers[k].id = ids[i] /\ answers[l].id = ids[j] => (i < j <=> k < l)
        /\ Len(answers) = Cardinality(asked) + others
        /\ changeCount = Cardinality(told) + others

\* The CHECKs of the tests with events: each signal of each registered event
\* has its result (TestThreadIt.cpp:511, 575).
EventsAnswered ==
  tester = "over" =>
    Len(answers) = Cardinality({i \in DOMAIN plan.packs : plan.packs[i].send})
                   + eventMethods * plan.signals + due

\* A pack that wants its data item in the callback is announced with its own,
\* although the instance has one callback for all of them: the observer has
\* one data item for each pack announced, in the order they were sent
\* (threadit.cpp:588-591).
OwnItem ==
  (tester = "over" /\ plan.events = 0 /\ ~plan.periodic) =>
    LET announced == {i \in DOMAIN plan.packs : plan.packs[i].notify}
    IN  /\ Len(items) = Cardinality(announced)
        /\ \A i \in announced :
             plan.packs[i].inCallback => items[Cardinality(announced \cap 1..i)] = plan.packs[i].item
=============================================================================
