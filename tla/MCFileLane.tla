----------------------------- MODULE MCFileLane -----------------------------
(* A selection of one empty file, and one of that file and another.          *)
EXTENDS FileLane

MCSize == <<0, 1>>

MCFaults == <<2, 1>>

=============================================================================
