--------------------------- MODULE MCDownloadFile ---------------------------
(* Instances of DownloadFile for TLC. *)
EXTENDS DownloadFile, TLC

\* The first version is longer than the caller expects, the second is not.
TwoFiles == <<4, 3>>
=============================================================================
