----------------------------- MODULE MCInputAgent -----------------------------
(***************************************************************************)
(* TLC instance of InputAgent: the constants are given in the .cfg files.  *)
(* Owners and guards are interchangeable: only equality is asked of them.  *)
(***************************************************************************)
EXTENDS InputAgent, TLC

Symmetry == Permutations(Owners) \cup Permutations(Guards)

=============================================================================
