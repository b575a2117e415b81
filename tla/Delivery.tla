------------------------------ MODULE Delivery ------------------------------
(***************************************************************************)
(* What both ends of video delivery share (fr-media/src/delivery/mod.rs):   *)
(* checked deadlines, and the shape of a fallible method.  A method is an   *)
(* operator on the record it borrows; it returns the record it leaves       *)
(* behind together with its outcome, "Ok" or the name of the error.         *)
(*                                                                         *)
(* Payload bytes are abstracted: every picture has the same number of parts,*)
(* datagram fragments or chunks of the reliable recovery picture.           *)
(***************************************************************************)
EXTENDS Integers, FiniteSets, FiniteSetsExt, Functions, TLC

CONSTANTS
    None,           \* the absent Option
    MaxInstant,     \* the last instant of the monotonic clock (u64::MAX)
    Fragments       \* parts of every picture

ASSUME FragmentsAssumption == Fragments \in Nat \ {0}

Parts == 0 .. Fragments - 1

\* deadline: a checked addition on the clock.
Deadline(t, span) == IF t + span <= MaxInstant THEN t + span ELSE None

Result(state, outcome) == [state |-> state, outcome |-> outcome]

\* Rust's `?`: go on with the state of a successful step, or return its error.
\* (The set comprehension has one element; it makes TLC evaluate `result` once.)
Then(result, Next(_)) ==
    CHOOSE r \in {IF x.outcome = "Ok" THEN Next(x.state) ELSE x : x \in {result}} : TRUE

Earliest(times) == IF times \ {None} = {} THEN None ELSE Min(times \ {None})
============================================================================
