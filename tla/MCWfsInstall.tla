---------------------------- MODULE MCWfsInstall ----------------------------
(* Instances of WfsInstall for TLC. *)
EXTENDS WfsInstall, TLC

CONSTANTS ja, jb, ta, da, db, f1, f2, r1, a1, a2

SameTitle == [j \in Jobs |-> ta]

NoDisk == {None}
MaybeDisk == {None, da}

\* Safety only: files, disks and threads are interchangeable.
Symmetry == Permutations(Files) \cup Permutations(Attaches)
=============================================================================
