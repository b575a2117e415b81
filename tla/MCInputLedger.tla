----------------------------- MODULE MCInputLedger -----------------------------
(***************************************************************************)
(* TLC instance: five sequence numbers, so that receipts are evicted twice *)
(* over and the last number is consumed, and one foreign lease.            *)
(***************************************************************************)
EXTENDS InputLedger

=============================================================================
