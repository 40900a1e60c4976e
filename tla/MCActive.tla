------------------------------ MODULE MCActive ------------------------------
(***************************************************************************)
(* Instances of Active for TLC.                                            *)
(***************************************************************************)
EXTENDS Active, TLC

CONSTANTS o1, o2, o3, \* the objects
          u, v        \* the owners

\* u has two objects, v the rest.
MCOwnerOf == [o \in Objects |-> IF o \in {o1, o2} THEN u ELSE v]

\* The two objects of u, and the handles, are interchangeable.
Symmetry == Permutations({o1, o2}) \cup Permutations(Handles)
=============================================================================
