------------------------------- MODULE TmdParser -------------------------------
(***************************************************************************)
(* parse_tmd of core/nus/tmd.py, called by download_title for one title     *)
(* after the other, with the TMDs the server has for them.  How it reads    *)
(* the records is in TmdRecords.                                            *)
(***************************************************************************)
EXTENDS TmdRecords

CONSTANTS
  Files,   \* the TMD files on the server, as TmdRecords has them
  None     \* not parsed yet, or TmdError

VARIABLES
  file,    \* the TMD that was downloaded last
  info,    \* the TmdInfo made of it, or None
  failed   \* TmdError was raised for it

vars == <<file, info, failed>>

Init ==
  /\ file \in Files
  /\ info = None
  /\ failed = FALSE

\* _parse returns what it has found, with the length it settled for.
Parse ==
  /\ info = None /\ ~failed
  /\ Parses(file)
  /\ info' = [content_count |-> file.count,
              record_size |-> Layout(file),
              contents |-> Chosen(file)]
  /\ UNCHANGED <<file, failed>>

\* The file is too short for the records it counts.
Reject ==
  /\ info = None /\ ~failed
  /\ ~Parses(file)
  /\ failed' = TRUE
  /\ UNCHANGED <<file, info>>

NextTitle ==
  /\ info # None \/ failed
  /\ file' \in Files
  /\ info' = None
  /\ failed' = FALSE

Next == Parse \/ Reject \/ NextTitle

Spec == Init /\ [][Next]_vars

-----------------------------------------------------------------------------
(* Properties.                                                              *)

\* What CHECK.md says of the parser: that every record is treated as exactly
\* 36 bytes long.
RecordsAre36 == info # None => info.record_size = 36
=============================================================================
