------------------------------ MODULE FileFetch ------------------------------
(***************************************************************************)
(* What a download of one file promises its callers, whatever the server,   *)
(* the network and the process do: the file on disk is at every moment the  *)
(* first "have" bytes of the file that is served, it only grows by the byte *)
(* that comes next or is started over, it does not change between calls,    *)
(* and a call that succeeds leaves all of it, or just as much as the caller *)
(* said it expects: until the server replaces the file by another one.      *)
(***************************************************************************)
EXTENDS Integers

CONSTANTS
  Total,     \* the size of the file
  Accepted   \* the sizes the caller takes for all of it

VARIABLES have, state

vars == <<have, state>>

Init == have = 0 /\ state = "none"

Call == state \in {"none", "ok", "error"} /\ state' = "busy" /\ UNCHANGED have

Grow == state = "busy" /\ have < Total /\ have' = have + 1 /\ UNCHANGED state

StartOver == state = "busy" /\ have' = 0 /\ UNCHANGED state

Succeed == state = "busy" /\ have \in Accepted /\ state' = "ok" /\ UNCHANGED have

\* The call raises, or the process ends.
Fail == state = "busy" /\ state' \in {"error", "none"} /\ UNCHANGED have

\* Nothing is promised from here on.
Replace == state # "replaced" /\ state' = "replaced" /\ have' = 0

Next == Call \/ Grow \/ StartOver \/ Succeed \/ Fail \/ Replace

Spec == Init /\ [][Next]_vars
=============================================================================
