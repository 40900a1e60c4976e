---------------------------- MODULE MCTestThreadIt ----------------------------
(***************************************************************************)
(* Plans for TestThreadIt.  Those with one pack, with the period and with   *)
(* events are what the tests of TestThreadIt.cpp do; the one with five packs*)
(* mixes what a pack can ask for and registers no event.                    *)
(***************************************************************************)
EXTENDS TestThreadIt

Pack(i, send, notify, item, object) ==
  [NewPack EXCEPT !.instruction = i, !.send = send, !.notify = notify,
                  !.inCallback = item # None, !.item = item, !.object = object]
Plan(packs, registered, signalled, periodic) ==
  [packs |-> packs, events |-> registered, signals |-> signalled, periodic |-> periodic]
MCPlans ==
  {Plan(<<Pack(3, TRUE, FALSE, None, None)>>, 0, 0, FALSE),
   Plan(<<Pack(3, TRUE, TRUE, None, None)>>, 0, 0, FALSE),
   Plan(<<Pack(3, FALSE, TRUE, "d1", None)>>, 0, 0, FALSE),
   Plan(<<Pack(3, TRUE, TRUE, "d1", None), Pack(4, FALSE, TRUE, None, "o"), Pack(5, TRUE, TRUE, "d2", None),
          Pack(2, TRUE, FALSE, "d1", None), Pack(4, TRUE, TRUE, "d1", "o")>>, 0, 0, FALSE),
   Plan(<<>>, 0, 0, TRUE), Plan(<<>>, 1, 2, FALSE), Plan(<<>>, 3, 2, FALSE)}
=============================================================================
