-------------------------- MODULE MCSessionAuthority --------------------------
(* Instance of SessionAuthority for TLC.                                   *)
EXTENDS SessionAuthority, TLC

\* Nonces, lease ids and owners are only compared for equality.
Identities ==
    Permutations(Nonces) \cup Permutations(LeaseIds) \cup Permutations(Owners)

=============================================================================
