-------------------------- MODULE MCSafeInterface ---------------------------
(***************************************************************************)
(* Instances of SafeInterface for TLC.                                     *)
(***************************************************************************)
EXTENDS SafeInterface

CONSTANTS a, b, c   \* the instances

\* b answers the requests that name a.
MCRequests == {<<a, b, "sendTo">>}

\* Some of them come without their source, which b does not survive.
MCLosing == {<<a, b, call>> : call \in Calls}

\* b may notify c, without saying from whom.
MCAnonymous == [i \in Instances |-> IF i = b THEN {[target |-> c, source |-> NULL]} ELSE {}]

\* b may notify c, which replies to b.
MCSourced == [i \in Instances |-> IF i = b THEN {[target |-> c, source |-> b]} ELSE {}]
=============================================================================
