----------------------------- MODULE ExclusiveSeat -----------------------------
(***************************************************************************)
(* What the seat of an OS share promises to everyone outside it            *)
(* (crates/frd/src/input_agent/seat.rs and the owners it admits), without  *)
(* locks, epochs, threads or mailboxes: at most one owner has anything in  *)
(* the machine, and under a barrier that has been raised nobody may send   *)
(* input and nobody new comes in.                                          *)
(***************************************************************************)
CONSTANTS Owners, Guards

VARIABLES
    holder,   \* owners with a reservation, a thread, or anything left behind
    live,     \* owners whose lease is not stopped
    barriers  \* barriers whose inhibit has returned

vars == <<holder, live, barriers>>

Init == holder = {} /\ live = {} /\ barriers = {}

Take(o) ==
    /\ holder = {} /\ barriers = {}
    /\ holder' = {o}
    /\ UNCHANGED <<live, barriers>>

GoLive(o) ==
    /\ holder = {o} /\ barriers = {}
    /\ live' = {o}
    /\ UNCHANGED <<holder, barriers>>

Stop ==
    /\ live' = {}
    /\ UNCHANGED <<holder, barriers>>

\* Only a stopped owner leaves.
Leave ==
    /\ live = {}
    /\ holder' = {}
    /\ UNCHANGED <<live, barriers>>

\* A barrier is up only when whoever was live is stopped.
Raise(g) ==
    /\ barriers' = barriers \cup {g}
    /\ live' = {}
    /\ UNCHANGED holder

Lower(g) ==
    /\ barriers' = barriers \ {g}
    /\ UNCHANGED <<holder, live>>

Next ==
    \/ Stop \/ Leave
    \/ \E o \in Owners : Take(o) \/ GoLive(o)
    \/ \E g \in Guards : Raise(g) \/ Lower(g)

Spec == Init /\ [][Next]_vars

=============================================================================
