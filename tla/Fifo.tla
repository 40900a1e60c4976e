-------------------------------- MODULE Fifo --------------------------------
(***************************************************************************)
(* What a queue of the library promises its users, with no lock and no     *)
(* semaphore or event: items are handed over in the order in which they    *)
(* were put, each to one thread; a clear deletes everything that is        *)
(* queued; and a thread that has committed itself to taking an item does   *)
(* not stay behind while there is one.                                     *)
(*                                                                         *)
(* CProtectedQueue (semaphore) and CMtQueue (manual-reset event) are both  *)
(* shown to implement this module.                                         *)
(***************************************************************************)
EXTENDS SequencesExt

CONSTANTS Threads,   \* the threads that share the queue
          Items      \* the items (pointers) that travel through it

VARIABLES queue,     \* the items in the queue, oldest first
          held,      \* held[t]: the items thread t owns
          freed,     \* the items deleted by a clear
          waiting    \* the threads committed to taking an item

vars == <<queue, held, freed, waiting>>

Init == /\ queue = <<>>
        /\ \E owner \in [Items -> Threads] :
              held = [t \in Threads |-> {i \in Items : owner[i] = t}]
        /\ freed = {}
        /\ waiting = {}

\* The owner of an item gives it to the queue.
Put(t, i) == /\ i \in held[t]
             /\ queue' = Append(queue, i)
             /\ held' = [held EXCEPT ![t] = @ \ {i}]
             /\ UNCHANGED <<freed, waiting>>

\* A thread receives, and from then on owns, the oldest item.
Take(t) == /\ queue # <<>>
           /\ queue' = Tail(queue)
           /\ held' = [held EXCEPT ![t] = @ \cup {Head(queue)}]
           /\ waiting' = waiting \ {t}
           /\ UNCHANGED freed

\* Everything queued is deleted.
Discard == /\ queue' = <<>>
           /\ freed' = freed \cup ToSet(queue)
           /\ UNCHANGED <<held, waiting>>

Commit(t) == /\ waiting' = waiting \cup {t}
             /\ UNCHANGED <<queue, held, freed>>

\* A committed thread may leave with nothing only when there is nothing.
Leave(t) == /\ queue = <<>>
            /\ waiting' = waiting \ {t}
            /\ UNCHANGED <<queue, held, freed>>

Next == \/ Discard
        \/ \E t \in Threads : \/ Take(t) \/ Commit(t) \/ Leave(t)
                              \/ \E i \in Items : Put(t, i)

Spec == Init /\ [][Next]_vars

\* No item stays at the head of the queue while a thread is committed to
\* taking one: the wake-up for it is never lost.
Served == \A i \in Items :
             (waiting # {} /\ queue # <<>> /\ Head(queue) = i)
                ~> ~(waiting # {} /\ queue # <<>> /\ Head(queue) = i)
=============================================================================
