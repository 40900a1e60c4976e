------------------------------ MODULE Subject -------------------------------
(***************************************************************************)
(* CSubject (Subject.cpp) as CThreadIt uses it: clients attach and detach  *)
(* observers while the thread of the instance notifies them.  Every method *)
(* holds m_theSection, and notifyOnChange and notifyOnUpdate hold it       *)
(* through the calls of all observers.  CThreadIt::sendResponse catches    *)
(* what an observer throws; the critical section is then never left.       *)
(* A critical section may be entered again by the thread that holds it.    *)
(***************************************************************************)
EXTENDS SequencesExt, Integers

CONSTANTS Clients,    \* the threads that attach and detach observers
          Notifiers,  \* the threads that notify (sendResponse)
          Observers,
          ClientOf,   \* ClientOf[o]: the client that made observer o
          Throws,     \* TRUE: an observer may throw
          MaxDepth,   \* a bound on the entries of one thread
          NULL

ASSUME SubjectAssumption == /\ ClientOf \in [Observers -> Clients]
                            /\ Clients \cap Notifiers = {}
                            /\ NULL \notin Clients \cup Notifiers \cup Observers
                            /\ Throws \in BOOLEAN /\ MaxDepth \in Nat

VARIABLES m_theObserverList,
          holder, depth,  \* who is in m_theSection, and how often
          pc, arg,        \* where each thread is, and the observer it passes
          theIterator,    \* theIterator[t]: the position t's loop has reached
          calling,        \* calling[t]: the observer t is calling
          told,           \* told[t]: the observers called since t's last entry
          deleted         \* the observers their clients have deleted

vars == <<m_theObserverList, holder, depth, pc, arg, theIterator, calling, told, deleted>>
loopVars == <<theIterator, calling, told>>

Threads == Clients \cup Notifiers

Init ==
  /\ m_theObserverList = <<>>
  /\ holder = NULL
  /\ depth = 0
  /\ pc = [t \in Threads |-> "idle"]
  /\ arg = [t \in Threads |-> NULL]
  /\ theIterator = [t \in Notifiers |-> 0]
  /\ calling = [t \in Notifiers |-> NULL]
  /\ told = [t \in Notifiers |-> <<>>]
  /\ deleted = {}

Goto(t, from, to) == pc[t] = from /\ pc' = [pc EXCEPT ![t] = to]
MayEnter(t) == holder \in {NULL, t}
Enter(t) == MayEnter(t) /\ depth < MaxDepth /\ holder' = t /\ depth' = depth + 1

Leave == depth' = depth - 1 /\ holder' = IF depth' = 0 THEN NULL ELSE holder
-----------------------------------------------------------------------------
\* A client calls attach (CThreadIt::addObserver) ...
AttachCall(t, o) ==
  /\ ClientOf[o] = t /\ o \notin deleted
  /\ Goto(t, "idle", "attach")
  /\ arg' = [arg EXCEPT ![t] = o]
  /\ UNCHANGED <<m_theObserverList, holder, depth, loopVars, deleted>>

\* Mutant: no search for the observer.
Attach_Always(t) ==
  /\ Goto(t, "attach", "idle")
  /\ MayEnter(t)
  /\ m_theObserverList' = Append(m_theObserverList, arg[t])
  /\ UNCHANGED <<holder, depth, arg, loopVars, deleted>>

\* ... whose critical section appends the observer unless it is there.
Attach(t) ==
  /\ Goto(t, "attach", "idle")
  /\ MayEnter(t)
  /\ m_theObserverList' = IF arg[t] \in ToSet(m_theObserverList) THEN m_theObserverList
                          ELSE Append(m_theObserverList, arg[t])
  /\ UNCHANGED <<holder, depth, arg, loopVars, deleted>>

DetachCall(t, o) ==
  /\ ClientOf[o] = t /\ o \notin deleted
  /\ Goto(t, "idle", "detach")
  /\ arg' = [arg EXCEPT ![t] = o]
  /\ UNCHANGED <<m_theObserverList, holder, depth, loopVars, deleted>>

\* list::remove.  attach leaves an observer in the list once at most, so that
\* there is one to take.
Without(list, o) ==
  IF o \in ToSet(list) THEN RemoveAt(list, CHOOSE i \in DOMAIN list : list[i] = o) ELSE list

\* Mutant: no critical section.
Detach_Unlocked(t) ==
  /\ Goto(t, "detach", "detached")
  /\ m_theObserverList' = Without(m_theObserverList, arg[t])
  /\ UNCHANGED <<holder, depth, arg, loopVars, deleted>>

Detach(t) ==
  /\ Goto(t, "detach", "detached")
  /\ MayEnter(t)
  /\ m_theObserverList' = Without(m_theObserverList, arg[t])
  /\ UNCHANGED <<holder, depth, arg, loopVars, deleted>>

\* clearObservers.
RemoveObservers(t) ==
  /\ Goto(t, "idle", "idle")
  /\ MayEnter(t)
  /\ m_theObserverList' = <<>>
  /\ UNCHANGED <<holder, depth, arg, loopVars, deleted>>

\* detach has returned: the client may delete its observer.
DetachReturns(t) ==
  /\ Goto(t, "detached", "idle")
  /\ deleted' \in {deleted, deleted \cup {arg[t]}}
  /\ UNCHANGED <<m_theObserverList, holder, depth, arg, loopVars>>
-----------------------------------------------------------------------------
\* notifyOnChange enters the critical section ...
NotifyEnter(t) ==
  /\ Goto(t, "idle", "loop")
  /\ Enter(t)
  /\ theIterator' = [theIterator EXCEPT ![t] = 1]
  /\ told' = [told EXCEPT ![t] = <<>>]
  /\ UNCHANGED <<m_theObserverList, arg, calling, deleted>>

\* ... and calls each observer ...
NotifyCall(t) ==
  /\ theIterator[t] \in DOMAIN m_theObserverList
  /\ Goto(t, "loop", "calling")
  /\ calling' = [calling EXCEPT ![t] = m_theObserverList[theIterator[t]]]
  /\ UNCHANGED <<m_theObserverList, holder, depth, arg, theIterator, told, deleted>>

NotifyReturn(t) ==
  /\ Goto(t, "calling", "loop")
  /\ told' = [told EXCEPT ![t] = Append(@, calling[t])]
  /\ calling' = [calling EXCEPT ![t] = NULL]
  /\ theIterator' = [theIterator EXCEPT ![t] = @ + 1]
  /\ UNCHANGED <<m_theObserverList, holder, depth, arg, deleted>>

\* ... before it leaves the critical section.
NotifyLeave(t) ==
  /\ Goto(t, "loop", "idle")
  /\ theIterator[t] > Len(m_theObserverList)
  /\ Leave
  /\ UNCHANGED <<m_theObserverList, arg, loopVars, deleted>>

\* An exception leaves notifyOnChange and is caught by sendResponse.
NotifyThrow(t) ==
  /\ Throws
  /\ Goto(t, "calling", "idle")
  /\ calling' = [calling EXCEPT ![t] = NULL]
  /\ UNCHANGED <<m_theObserverList, holder, depth, arg, theIterator, told, deleted>>
-----------------------------------------------------------------------------
Next ==
  \/ \E t \in Clients : \/ \E o \in Observers : AttachCall(t, o) \/ DetachCall(t, o)
                        \/ Attach(t) \/ Detach(t) \/ DetachReturns(t)
                        \/ RemoveObservers(t)
  \/ \E t \in Notifiers : \/ NotifyEnter(t) \/ NotifyCall(t) \/ NotifyReturn(t)
                          \/ NotifyLeave(t) \/ NotifyThrow(t)

Spec == Init /\ [][Next]_vars
-----------------------------------------------------------------------------
\* Type correctness of the list, the critical section and the threads.
TypeOK ==
  /\ m_theObserverList \in Seq(Observers)
  /\ holder \in Threads \cup {NULL}
  /\ depth \in 0 .. MaxDepth /\ (holder = NULL <=> depth = 0)
  /\ pc \in [Threads -> {"idle", "attach", "detach", "detached", "loop", "calling"}]
  /\ arg \in [Threads -> Observers \cup {NULL}]
  /\ theIterator \in [Notifiers -> Nat]
  /\ calling \in [Notifiers -> Observers \cup {NULL}]
  /\ told \in [Notifiers -> Seq(Observers)]
  /\ deleted \subseteq Observers

\* A client may delete an observer as soon as detach has returned: no thread
\* is in a call of it, and none will call it.
DeletedIsQuiet ==
  /\ \A t \in Notifiers : calling[t] \notin deleted
  /\ ToSet(m_theObserverList) \cap deleted = {}

\* A notification that ends has called every observer attached at that time
\* exactly once, in the order of attachment.
ToldOnce ==
  \A t \in Notifiers :
     (pc[t] = "loop" /\ theIterator[t] > Len(m_theObserverList)) =>
        told[t] = m_theObserverList /\ IsInjective(told[t])

\* The critical section is free while no notification is running: attach and
\* detach never wait for a thread that is doing something else.
SectionFree ==
  (\A t \in Notifiers : pc[t] = "idle") => holder = NULL
=============================================================================
