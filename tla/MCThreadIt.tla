----------------------------- MODULE MCThreadIt -----------------------------
(***************************************************************************)
(* Small instances of ThreadIt for TLC.                                    *)
(***************************************************************************)
EXTENDS ThreadIt

CONSTANTS c1, c2,  \* the clients
          p1, p2,  \* the clients' packs
          n1,      \* a pack a method allocates
          e1, e2   \* the events

Setting(instruction, isSend, isCallback, isObject, q) ==
  [instruction |-> instruction, isSendResult |-> isSend,
   isNotifyWithCallback |-> isCallback, isObjectInCallback |-> isObject, doneQ |-> q]

\* p1: answered by the method, to m_DoneQ, with a callback; p2: no method for
\* it, to the client's own queue, with a callback; n1: no answer, but a callback.
MCKind == [p \in Packs |->
             CASE p = p1 -> Setting(1, TRUE, TRUE, TRUE, "done")
               [] p = p2 -> Setting(9, TRUE, TRUE, FALSE, "own")
               [] p = n1 -> Setting(1, FALSE, TRUE, TRUE, "done")]

\* n1 asks for an answer, but names no queue for it.
MCKindNoQueue == [p \in Packs |->
             IF p = p1 THEN Setting(1, TRUE, TRUE, TRUE, "done")
                       ELSE Setting(2, TRUE, FALSE, FALSE, "null")]

\* Freed memory that reads as zeros.
MCGarbage == Setting(0, FALSE, FALSE, FALSE, "null")
=============================================================================
