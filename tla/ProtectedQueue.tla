--------------------------- MODULE ProtectedQueue ---------------------------
(***************************************************************************)
(* CProtectedQueue<T> (ProtectedQueue.h): a std::list of pointers guarded  *)
(* by a critical section, and a counting semaphore "that is signalled when *)
(* an item is received".  The list and the semaphore are not updated       *)
(* together: insertItem releases the semaphore after it has left the       *)
(* critical section, waitItem waits on the semaphore before it enters it,  *)
(* and clear drains the semaphore after it has left it.  A step below is   *)
(* one critical section or one call of the semaphore, so every             *)
(* interleaving of the two is a behaviour.                                 *)
(*                                                                         *)
(* getQSemaphore hands the semaphore out: CThreadIt::threadRoutine waits   *)
(* on it itself and then calls getItemNoDec, and CThreadIt::stopThread     *)
(* releases it with no item (threadit.cpp).  Both are actions here.        *)
(***************************************************************************)
EXTENDS SequencesExt, Integers

CONSTANTS Threads,         \* the threads that call the queue's methods
          Items,           \* the item pointers
          MaxCount,        \* LONG_MAX, the maximum count of the semaphore
          Signallers,      \* the threads that use getQSemaphore, getItemNoDec
          Clearers,        \* the threads that call clear
          ClearExclusive   \* TRUE: nobody inserts while a clear is running

ASSUME ThreadsAssumption == /\ IsFiniteSet(Threads)
                            /\ Signallers \subseteq Threads
                            /\ Clearers \subseteq Threads
ASSUME ItemsAssumption == /\ IsFiniteSet(Items)
                          /\ MaxCount \in Nat
                          /\ Cardinality(Items) <= MaxCount
ASSUME ClearAssumption == ClearExclusive \in BOOLEAN

VARIABLES m_theQueue,      \* the list
          m_theSignal,     \* the count of the semaphore
          pc,              \* pc[t]: where thread t is in its current call
          held,            \* held[t]: the items thread t owns
          freed            \* the items clear has deleted

vars == <<m_theQueue, m_theSignal, pc, held, freed>>

(* "idle"     in no call                                                   *)
(* "release"  insertItem, between LeaveCriticalSection and the release     *)
(* "wait"     waitItem with a finite time out (getItem: 0), in the wait    *)
(* "forever"  waitItem with INFINITE, in the wait                          *)
(* "woken"    waitItem, the wait was satisfied, before the critical section*)
(* "token"    the caller's own wait on the semaphore was satisfied         *)
(* "drain"    clear, between LeaveCriticalSection and the end of the drain *)
Label == {"idle", "release", "wait", "forever", "woken", "token", "drain"}

Init == /\ m_theQueue = <<>>
        /\ m_theSignal = 0
        /\ pc = [t \in Threads |-> "idle"]
        /\ \E owner \in [Items -> Threads] :
              held = [t \in Threads |-> {i \in Items : owner[i] = t}]
        /\ freed = {}

Goto(t, from, to) == /\ pc[t] = from
                     /\ pc' = [pc EXCEPT ![t] = to]

\* Mutant: an event in place of the semaphore.
Released_Binary(n) == 1

\* ReleaseSemaphore fails, and the code ignores it, at the maximum count.
Released(n) == IF n < MaxCount THEN n + 1 ELSE n

ClearRunning == \E t \in Threads : pc[t] = "drain"
-----------------------------------------------------------------------------
\* Mutant: push_front.
InsertPush_Front(t, i) ==
  /\ Goto(t, "idle", "release")
  /\ i \in held[t]
  /\ ClearExclusive => ~ClearRunning
  /\ m_theQueue' = <<i>> \o m_theQueue
  /\ held' = [held EXCEPT ![t] = @ \ {i}]
  /\ UNCHANGED <<m_theSignal, freed>>

\* The critical section of insertItem: the caller gives the item away.
InsertPush(t, i) ==
  /\ Goto(t, "idle", "release")
  /\ i \in held[t]
  /\ ClearExclusive => ~ClearRunning
  /\ m_theQueue' = Append(m_theQueue, i)
  /\ held' = [held EXCEPT ![t] = @ \ {i}]
  /\ UNCHANGED <<m_theSignal, freed>>

InsertRelease(t) ==
  /\ Goto(t, "release", "idle")
  /\ m_theSignal' = Released(m_theSignal)
  /\ UNCHANGED <<m_theQueue, held, freed>>

\* waitItem (theWaitTime), and getItem, which is waitItem (0).
WaitCall(t) ==
  /\ Goto(t, "idle", "wait") \/ Goto(t, "idle", "forever")
  /\ UNCHANGED <<m_theQueue, m_theSignal, held, freed>>

\* WaitForSingleObject consumes one count of the semaphore.
WaitSignalled(t) ==
  /\ Goto(t, "wait", "woken") \/ Goto(t, "forever", "woken")
  /\ m_theSignal > 0
  /\ m_theSignal' = m_theSignal - 1
  /\ UNCHANGED <<m_theQueue, held, freed>>

\* It times out only on a semaphore that is not signalled.
WaitTimeout(t) ==
  /\ Goto(t, "wait", "idle")
  /\ m_theSignal = 0
  /\ UNCHANGED <<m_theQueue, m_theSignal, held, freed>>

\* front and pop_front, or NULL for an empty list; the caller owns the item.
PopFront(t) ==
  IF m_theQueue = <<>>
  THEN UNCHANGED <<m_theQueue, held>>
  ELSE /\ m_theQueue' = Tail(m_theQueue)
       /\ held' = [held EXCEPT ![t] = @ \cup {Head(m_theQueue)}]

\* The critical section of waitItem.
WaitPop(t) ==
  /\ Goto(t, "woken", "idle")
  /\ PopFront(t)
  /\ UNCHANGED <<m_theSignal, freed>>

\* A holder of getQSemaphore waits on it without the queue's help.
TakeToken(t) ==
  /\ t \in Signallers
  /\ Goto(t, "idle", "token")
  /\ m_theSignal > 0
  /\ m_theSignal' = m_theSignal - 1
  /\ UNCHANGED <<m_theQueue, held, freed>>

GetItemNoDec(t) ==
  /\ t \in Signallers
  /\ Goto(t, "token", "idle") \/ Goto(t, "idle", "idle")
  /\ PopFront(t)
  /\ UNCHANGED <<m_theSignal, freed>>

\* A holder of getQSemaphore releases it with no item (stopThread).
StrayRelease(t) ==
  /\ t \in Signallers
  /\ m_theSignal' = Released(m_theSignal)
  /\ UNCHANGED <<m_theQueue, pc, held, freed>>

\* The critical section of clear pops and deletes every item.
ClearItems(t) ==
  /\ t \in Clearers
  /\ Goto(t, "idle", "drain")
  /\ freed' = freed \cup ToSet(m_theQueue)
  /\ m_theQueue' = <<>>
  /\ UNCHANGED <<m_theSignal, held>>

\* One satisfied wait, then the failing wait that ends the loop.
ClearDrain(t) ==
  /\ pc[t] = "drain"
  /\ m_theSignal > 0
  /\ m_theSignal' = m_theSignal - 1
  /\ UNCHANGED <<m_theQueue, pc, held, freed>>

ClearDone(t) ==
  /\ Goto(t, "drain", "idle")
  /\ m_theSignal = 0
  /\ UNCHANGED <<m_theQueue, m_theSignal, held, freed>>
-----------------------------------------------------------------------------
\* The steps of a call that has been made: the scheduler owes them.
Progress(t) == \/ InsertRelease(t)
               \/ WaitSignalled(t) \/ WaitTimeout(t) \/ WaitPop(t)
               \/ pc[t] = "token" /\ GetItemNoDec(t)
               \/ ClearDrain(t) \/ ClearDone(t)

Next == \E t \in Threads :
          \/ \E i \in Items : InsertPush(t, i)
          \/ InsertRelease(t)
          \/ WaitCall(t) \/ WaitSignalled(t) \/ WaitTimeout(t) \/ WaitPop(t)
          \/ TakeToken(t) \/ GetItemNoDec(t) \/ StrayRelease(t)
          \/ ClearItems(t) \/ ClearDrain(t) \/ ClearDone(t)

Spec == Init /\ [][Next]_vars

FairSpec == Spec /\ \A t \in Threads : WF_vars(Progress(t))
-----------------------------------------------------------------------------
\* Type correctness of the queue and of the threads that use it.
TypeOK == /\ m_theQueue \in Seq(Items)
          /\ m_theSignal \in 0..MaxCount
          /\ pc \in [Threads -> Label]
          /\ held \in [Threads -> SUBSET Items]
          /\ freed \subseteq Items

\* A pointer is in one place only: once in the list, with one thread, or
\* deleted.  So no item is handed to two callers, none is deleted by clear
\* while a caller uses it, and none is lost.
ExactlyOnce ==
  /\ IsInjective(m_theQueue)
  /\ \A t \in Threads : held[t] \cap (ToSet(m_theQueue) \cup freed) = {}
  /\ \A t, u \in Threads : t # u => held[t] \cap held[u] = {}
  /\ ToSet(m_theQueue) \cap freed = {}
  /\ \A i \in Items : \/ i \in ToSet(m_theQueue) \cup freed
                      \/ \E t \in Threads : i \in held[t]

\* The threads that are about to signal an item, or to come and take one.
InTransit == {t \in Threads : pc[t] \in {"release", "woken", "token"}}

\* Every queued item is covered by a count of the semaphore, by an
\* insertItem that will still release it, or by a thread on its way to the
\* list: no item can stay behind with every consumer asleep.
NoLostSignal == Len(m_theQueue) <= m_theSignal + Cardinality(InTransit)

\* The threads whose wait has been satisfied.
Woken == {t \in Threads : pc[t] \in {"woken", "token"}}

\* When nobody touches the semaphore or clears the queue, a satisfied wait
\* always finds an item: waitItem does not return NULL after WAIT_OBJECT_0.
\* (Proved in ProtectedQueueProofs; no run has such threads only.)
NoSpuriousWakeup == Cardinality(Woken) <= Len(m_theQueue)

\* The refinement: a thread is committed from the moment it waits with
\* INFINITE or a wait of its call has been satisfied.
Abstract == INSTANCE Fifo WITH
               queue <- m_theQueue,
               waiting <- {t \in Threads : pc[t] \in {"forever", "woken"}}

\* Each critical section is a step of the abstract queue, the semaphore's
\* steps change nothing its users can see.
ImplementsFifo == Abstract!Spec

\* No wake-up is lost: an item at the head is taken while a thread waits.
WaitersServed == Abstract!Served
=============================================================================
