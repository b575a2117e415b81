---------------------------- MODULE FileDelivery ----------------------------
(***************************************************************************)
(* What a file lane promises, whatever fails between the two machines: the  *)
(* files of a selection are published in order, each at most once and never *)
(* over somebody else's file, the next only after the one before it is      *)
(* known to be durable; and the one receipt of a file is true when it is    *)
(* given and stays true.                                                    *)
(***************************************************************************)
EXTENDS Integers

CONSTANTS None, Files, Names

VARIABLES
    placed,             \* where each file is: "no", "placed", "durable" or "lost"
    local,              \* the names held by other programs
    told                \* the outcome each file's sender was given

Init ==
    /\ placed = [f \in Files |-> "no"]
    /\ local = {}
    /\ told = [f \in Files |-> None]

\* Nothing of a file happens before all earlier ones are known to be durable.
Turn(f) == \A g \in Files : g < f => told[g] = "Durable"

\* The file appears.  Its sender may have given up on it, but not with an answer that
\* says it is not there.
Place(f) ==
    /\ Turn(f) /\ placed[f] = "no"
    /\ told[f] \in {None, "Unknown"}
    /\ placed' = [placed EXCEPT ![f] = "placed"]
    /\ UNCHANGED <<local, told>>

\* What is in the directory becomes durable.
Sync ==
    /\ \E f \in Files : placed[f] = "placed"
    /\ placed' = [f \in Files |-> IF placed[f] = "placed" THEN "durable" ELSE placed[f]]
    /\ UNCHANGED <<local, told>>

\* A power failure takes what was not durable.
Lose(lost) ==
    /\ lost # {} /\ \A f \in lost : placed[f] = "placed"
    /\ placed' = [f \in Files |-> IF f \in lost THEN "lost" ELSE placed[f]]
    /\ UNCHANGED <<local, told>>

\* Another program takes a name, and nobody takes it from there.
Occupy ==
    /\ \E n \in local' \ local : n \in Names /\ local' = local \cup {n}
    /\ UNCHANGED <<placed, told>>

Outcomes(f) ==
    {"Unknown"}
        \cup (IF placed[f] = "durable" THEN {"Durable"} ELSE {})
        \cup (IF placed[f] = "no" THEN {"Refused", "Interrupted"} ELSE {"DurabilityUnknown"})

\* The sender is told, once.
Tell(f) ==
    /\ Turn(f) /\ told[f] = None
    /\ told'[f] \in Outcomes(f) /\ told' = [told EXCEPT ![f] = told'[f]]
    /\ UNCHANGED <<placed, local>>

Next ==
    \/ \E f \in Files : Place(f) \/ Tell(f)
    \/ Sync
    \/ Occupy
    \/ \E lost \in SUBSET Files : Lose(lost)

Spec == Init /\ [][Next]_<<placed, local, told>>

=============================================================================
