----------------------------- MODULE MCSubject ------------------------------
(***************************************************************************)
(* Instances of Subject for TLC.                                           *)
(***************************************************************************)
EXTENDS Subject

CONSTANTS c1, c2,     \* the clients
          a1, a2, b1  \* their observers

\* c1 made a1 and a2, c2 made b1.
MCClientOf == [o \in Observers |-> IF o = b1 THEN c2 ELSE c1]
=============================================================================
