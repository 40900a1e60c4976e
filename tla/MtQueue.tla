------------------------------ MODULE MtQueue -------------------------------
(***************************************************************************)
(* CMtQueue<T> (mtqueue.h): a std::list of values guarded by a critical    *)
(* section, and a manual-reset event.  Whoever empties the list resets the *)
(* event inside the critical section; insertItem sets it after it has left *)
(* the critical section.  A step is one critical section or one call of    *)
(* the event.  A signalled event releases every waiting thread, so a wait  *)
(* that was satisfied may find the list empty.                             *)
(***************************************************************************)
EXTENDS SequencesExt

CONSTANTS Threads,  \* the threads that call the queue's methods
          Items     \* the values that travel through it

VARIABLES m_theQueue,  \* the list
          m_theEvent,  \* the event is signalled
          pc,          \* pc[t]: where thread t is in its current call
          held,        \* held[t]: the values thread t has
          freed        \* the values dropped by clear

vars == <<m_theQueue, m_theEvent, pc, held, freed>>

(* "set"      insertItem, between LeaveCriticalSection and SetEvent        *)
(* "wait"     waitItem with a finite time out (getItem: 0), in the wait    *)
(* "forever"  waitItem with INFINITE, in the wait                          *)
(* "woken"    the wait was satisfied, before EnterCriticalSection          *)
Label == {"idle", "set", "wait", "forever", "woken"}

\* The constructor: the event is created with bInitialState FALSE.
Init == /\ m_theQueue = <<>>
        /\ m_theEvent = FALSE
        /\ pc = [t \in Threads |-> "idle"]
        /\ \E owner \in [Items -> Threads] :
              held = [t \in Threads |-> {i \in Items : owner[i] = t}]
        /\ freed = {}

Goto(t, from, to) == pc[t] = from /\ pc' = [pc EXCEPT ![t] = to]
-----------------------------------------------------------------------------
\* The critical section of insertItem.
InsertPush(t, i) ==
  /\ Goto(t, "idle", "set")
  /\ i \in held[t]
  /\ m_theQueue' = Append(m_theQueue, i)
  /\ held' = [held EXCEPT ![t] = @ \ {i}]
  /\ UNCHANGED <<m_theEvent, freed>>

\* Mutant: the event is set only if an item is still there.
InsertSet_Skipped(t) ==
  /\ Goto(t, "set", "idle")
  /\ m_theEvent' = (m_theEvent \/ Len(m_theQueue) > 1)
  /\ UNCHANGED <<m_theQueue, held, freed>>

InsertSet(t) ==
  /\ Goto(t, "set", "idle")
  /\ m_theEvent' = TRUE
  /\ UNCHANGED <<m_theQueue, held, freed>>

WaitCall(t) ==
  /\ Goto(t, "idle", "wait") \/ Goto(t, "idle", "forever")
  /\ UNCHANGED <<m_theQueue, m_theEvent, held, freed>>

\* A satisfied wait leaves a manual-reset event signalled.
WaitSignalled(t) ==
  /\ Goto(t, "wait", "woken") \/ Goto(t, "forever", "woken")
  /\ m_theEvent
  /\ UNCHANGED <<m_theQueue, m_theEvent, held, freed>>

WaitTimeout(t) ==
  /\ Goto(t, "wait", "idle")
  /\ ~m_theEvent
  /\ UNCHANGED <<m_theQueue, m_theEvent, held, freed>>

\* Mutant: the event is reset after every item.
PopFront_AlwaysReset(t) ==
  /\ m_theEvent' = FALSE
  /\ IF m_theQueue = <<>>
     THEN UNCHANGED <<m_theQueue, held>>
     ELSE /\ m_theQueue' = Tail(m_theQueue)
          /\ held' = [held EXCEPT ![t] = @ \cup {Head(m_theQueue)}]

\* Mutant: pop_back.
PopFront_Back(t) ==
  /\ m_theEvent' = (m_theEvent /\ Len(m_theQueue) > 1)
  /\ IF m_theQueue = <<>>
     THEN UNCHANGED <<m_theQueue, held>>
     ELSE /\ m_theQueue' = Front(m_theQueue)
          /\ held' = [held EXCEPT ![t] = @ \cup {Last(m_theQueue)}]

\* The critical section that waitItem, getItem and getItemNoDec share: take
\* the first item, if any, and reset the event if none is left.
PopFront(t) ==
  /\ m_theEvent' = (m_theEvent /\ Len(m_theQueue) > 1)
  /\ IF m_theQueue = <<>>
     THEN UNCHANGED <<m_theQueue, held>>
     ELSE /\ m_theQueue' = Tail(m_theQueue)
          /\ held' = [held EXCEPT ![t] = @ \cup {Head(m_theQueue)}]

WaitPop(t) ==
  /\ Goto(t, "woken", "idle")
  /\ PopFront(t)
  /\ UNCHANGED freed

GetItemNoDec(t) ==
  /\ Goto(t, "idle", "idle")
  /\ PopFront(t)
  /\ UNCHANGED freed

\* clear empties the list and resets the event in one critical section.
Clear(t) ==
  /\ Goto(t, "idle", "idle")
  /\ freed' = freed \cup ToSet(m_theQueue)
  /\ m_theQueue' = <<>>
  /\ m_theEvent' = FALSE
  /\ UNCHANGED held
-----------------------------------------------------------------------------
\* The steps of a call that has been made.
Progress(t) == InsertSet(t) \/ WaitSignalled(t) \/ WaitTimeout(t) \/ WaitPop(t)

Next == \E t \in Threads :
          \/ \E i \in Items : InsertPush(t, i)
          \/ InsertSet(t)
          \/ WaitCall(t) \/ WaitSignalled(t) \/ WaitTimeout(t) \/ WaitPop(t)
          \/ GetItemNoDec(t) \/ Clear(t)

Spec == Init /\ [][Next]_vars

FairSpec == Spec /\ \A t \in Threads : WF_vars(Progress(t))
-----------------------------------------------------------------------------
\* Type correctness of the queue and of the threads that use it.
TypeOK == /\ m_theQueue \in Seq(Items)
          /\ m_theEvent \in BOOLEAN
          /\ pc \in [Threads -> Label]
          /\ held \in [Threads -> SUBSET Items]
          /\ freed \subseteq Items

\* A value is in one place: once in the list, with one thread, or dropped by
\* clear; although a signalled event lets several threads go for one item.
ExactlyOnce ==
  /\ IsInjective(m_theQueue)
  /\ \A t \in Threads : held[t] \cap (ToSet(m_theQueue) \cup freed) = {}
  /\ \A t, u \in Threads : t # u => held[t] \cap held[u] = {}
  /\ ToSet(m_theQueue) \cap freed = {}
  /\ \A i \in Items : \/ i \in ToSet(m_theQueue) \cup freed
                      \/ \E t \in Threads : i \in held[t]

\* The event is signalled while the list has an item, except while a thread
\* that put one has yet to set it: ResetEvent by a thread that emptied the
\* list never undoes the SetEvent of a later item.
EventCovers ==
  m_theQueue # <<>> => m_theEvent \/ \E t \in Threads : pc[t] = "set"

\* The refinement: a thread is committed from the moment it waits with
\* INFINITE or its wait was satisfied.
Abstract == INSTANCE Fifo WITH
              queue <- m_theQueue,
              waiting <- {t \in Threads : pc[t] \in {"forever", "woken"}}

\* Each critical section is a step of the abstract queue: first in, first out,
\* one receiver per item, and an empty-handed return only from an empty list.
ImplementsFifo == Abstract!Spec

\* No wake-up is lost: an item at the head is taken while a thread waits.
WaitersServed == Abstract!Served
=============================================================================
