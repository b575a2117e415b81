--------------------------- MODULE MCClipboardLink ---------------------------
(***************************************************************************)
(* TLC instances of ClipboardLink.  The switch of an end starts at 1: a     *)
(* bound of 3 turns sharing off and on again.                               *)
(***************************************************************************)
EXTENDS ClipboardLink

PerEnd(h, c) == [e \in Ends |-> IF e = Host THEN h ELSE c]

\* Both users copy at once.
Cross == [copies |-> PerEnd(1, 1), chunks |-> 0, switch |-> PerEnd(1, 1), faults |-> {}]

\* A second copy overtakes the first while deadlines pass.
Supersede ==
    [copies |-> PerEnd(2, 0), chunks |-> 1, switch |-> PerEnd(1, 1),
     faults |-> {"item", "permit", "busy"}]

\* The receiver turns sharing off and on under an item.
Switch == [copies |-> PerEnd(1, 0), chunks |-> 1, switch |-> PerEnd(1, 3), faults |-> {"pause"}]

\* Everything ends an item early.
Erase ==
    [copies |-> PerEnd(1, 0), chunks |-> 0, switch |-> PerEnd(1, 1),
     faults |-> {"item", "incoming", "handoff", "pause", "stop"}]

SafetyPlans == {Cross, Supersede, Switch}
ErasePlans == {Erase}
=============================================================================
