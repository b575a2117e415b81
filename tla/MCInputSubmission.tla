-------------------------- MODULE MCInputSubmission --------------------------
(***************************************************************************)
(* InputSubmission with one lease, two tickets, one recovery and a host    *)
(* clock of a few instants.                                                *)
(***************************************************************************)
EXTENDS InputSubmission

=============================================================================
