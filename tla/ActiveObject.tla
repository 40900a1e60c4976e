---------------------------- MODULE ActiveObject ----------------------------
(***************************************************************************)
(* What an active object promises: requests are taken one at a time, in    *)
(* the order they were handed over, by a single thread that also acts on   *)
(* its own initiative; nothing is taken once the thread has ended, and the *)
(* object is only destroyed after that.                                    *)
(***************************************************************************)
EXTENDS Sequences

CONSTANT Requests

VARIABLES todo,  \* the requests handed over and not taken yet, in order
          busy,  \* the thread is occupied with a request or an action of its own
          ended, \* the thread has ended
          gone   \* the object has been destroyed

vars == <<todo, busy, ended, gone>>

Init == todo = <<>> /\ busy = FALSE /\ ended = FALSE /\ gone = FALSE

Submit(r) ==
  /\ ~gone
  /\ todo' = Append(todo, r)
  /\ UNCHANGED <<busy, ended, gone>>

Take ==
  /\ ~busy /\ ~ended /\ todo # <<>>
  /\ todo' = Tail(todo)
  /\ busy' = TRUE
  /\ UNCHANGED <<ended, gone>>

ActAlone ==
  /\ ~busy /\ ~ended
  /\ busy' = TRUE
  /\ UNCHANGED <<todo, ended, gone>>

Finish ==
  /\ busy
  /\ busy' = FALSE
  /\ UNCHANGED <<todo, ended, gone>>

End ==
  /\ ~busy /\ ~ended
  /\ ended' = TRUE
  /\ UNCHANGED <<todo, busy, gone>>

Destroy ==
  /\ ended /\ ~gone
  /\ gone' = TRUE
  /\ todo' = <<>>
  /\ UNCHANGED <<busy, ended>>

Next == (\E r \in Requests : Submit(r)) \/ Take \/ ActAlone \/ Finish \/ End \/ Destroy

Spec == Init /\ [][Next]_vars
=============================================================================
