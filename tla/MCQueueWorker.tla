--------------------------- MODULE MCQueueWorker ---------------------------
(* Instances of QueueWorker for TLC. *)
EXTENDS QueueWorker, TLC

CONSTANTS i1, i2, j1, j2, j3, j4, l1, l2, r1, r2, s1, s2

Forced == {i2}
Unforced == {}

\* Jobs, threads and starters are interchangeable, and neither the order of
\* the items nor any formula names one: sound for safety only.
Symmetry ==
  Permutations(JobIds) \cup Permutations(Loops) \cup Permutations(Requests)
    \cup Permutations(Starters)
=============================================================================
