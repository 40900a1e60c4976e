------------------------------ MODULE MCQueues ------------------------------
(***************************************************************************)
(* The two queues, one of them in each behaviour, between the same threads *)
(* and with the same items: the list with a semaphore (ProtectedQueue) and *)
(* the list with a manual-reset event (MtQueue).  They share the variables *)
(* that they name alike and the refinement mapping, so ImplementsFifo and  *)
(* WaitersServed are asked of both.                                        *)
(***************************************************************************)
EXTENDS ProtectedQueue

VARIABLES m_theEvent,  \* the event of CMtQueue
          kind         \* the queue of this behaviour

Mt == INSTANCE MtQueue

MCVars == <<vars, m_theEvent, kind>>

\* A queue has no use for the signal of the other one, which stays up.
MCInit == \/ kind = "semaphore" /\ Init /\ m_theEvent = TRUE
          \/ kind = "event" /\ Mt!Init /\ m_theSignal = MaxCount

MCNext == \/ kind = "semaphore" /\ Next /\ UNCHANGED <<m_theEvent, kind>>
          \/ kind = "event" /\ Mt!Next /\ UNCHANGED <<m_theSignal, kind>>

MCSpec ==
  /\ MCInit /\ [][MCNext]_MCVars
  /\ \A t \in Threads : /\ WF_vars(kind = "semaphore" /\ Progress(t))
                        /\ WF_(Mt!vars)(kind = "event" /\ Mt!Progress(t))

\* MtQueue's EventCovers: a list with an item has its event set, or a thread
\* about to set it (mtqueue.h, insertItem and the resets of the takers).
EventCovers == Mt!EventCovers
=============================================================================
