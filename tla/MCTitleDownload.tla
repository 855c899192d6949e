-------------------------- MODULE MCTitleDownload --------------------------
(* Instances of TitleDownload for TLC. *)
EXTENDS TitleDownload, TLC

CONSTANTS ja, jb, c1

OneContent == <<c1>>
Sizes == [f \in Files |-> IF f = c1 THEN 2 ELSE 1]
TicketSizes == [f \in Files |-> IF f = "cetk" THEN 2 ELSE 1]
\* The record of the content is short of what the server has.
RecordSizes == [f \in Files |-> IF f = c1 THEN 1 ELSE 0]
Minimum == [f \in {"tmd", "cetk"} |-> 1]

\* Safety only.
Symmetry == Permutations(Jobs)
=============================================================================
