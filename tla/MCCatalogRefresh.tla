--------------------------- MODULE MCCatalogRefresh ---------------------------
(* An instance of CatalogRefresh for TLC. *)
EXTENDS CatalogRefresh, TLC

CONSTANTS ta, tb, la, lb

Symmetry == Permutations(Threads) \cup Permutations(Lists)
=============================================================================
