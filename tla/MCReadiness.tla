------------------------------ MODULE MCReadiness ------------------------------
(* An instance of Readiness for TLC. *)
EXTENDS Readiness, TLC

CONSTANTS ra, rb, ka, kb, da, db

Symmetry == Permutations(Requests) \cup Permutations(Keys) \cup Permutations(Devices)
=============================================================================
