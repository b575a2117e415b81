---------------------------------- MODULE Seat ----------------------------------
(***************************************************************************)
(* The one seat of an OS share (crates/frd/src/input_agent/seat.rs): who   *)
(* may own native input, and the local barriers that keep everyone out     *)
(* while a consent surface is up.  One operator per method, on a record    *)
(* with the fields of `State` and `Admission`; each method runs under the  *)
(* seat's lock.                                                            *)
(***************************************************************************)
EXTENDS Integers

CONSTANTS
    Owners,          \* successive native owners, each with one reservation
    MaxInhibitions,  \* MAX_INHIBITIONS
    MaxEpoch,        \* u64::MAX of the admission epoch
    None

ASSUME SeatAssumption ==
    /\ None \notin Owners
    /\ MaxInhibitions \in Nat \ {0}
    /\ MaxEpoch \in Nat

Epochs == 0..MaxEpoch

SeatType ==
    [occupied : BOOLEAN, epoch : Epochs, inhibitors : 0..MaxInhibitions,
     active : Owners \cup {None}]

NewSeat == [occupied |-> FALSE, epoch |-> 0, inhibitors |-> 0, active |-> None]

\* Seat::inhibit: refused at the limit of barriers and at the last epoch.
MayInhibit(s) == s.inhibitors # MaxInhibitions /\ s.epoch # MaxEpoch

Inhibited(s) == [s EXCEPT !.epoch = @ + 1, !.inhibitors = @ + 1]

\* Drop for Inhibition
Uninhibited(s) == [s EXCEPT !.inhibitors = @ - 1]

\* Seat::reserve
MayReserve(s) == s.inhibitors = 0 /\ ~ s.occupied

Reserved(s) == [s EXCEPT !.occupied = TRUE]

\* A bug that only looks for a barrier that is still up.
MayInstallStale(s, epoch) == s.inhibitors = 0

\* Seat::install: no barrier is up and none has been since the reservation.
MayInstall(s, epoch) == s.inhibitors = 0 /\ s.epoch = epoch

\* A bug that installs a handle nobody can find.
InstalledNowhere(s, o) == s

Installed(s, o) == [s EXCEPT !.active = o]

\* Seat::release
Released(s) == [s EXCEPT !.active = None, !.occupied = FALSE]

=============================================================================
