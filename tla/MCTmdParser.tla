----------------------------- MODULE MCTmdParser -----------------------------
(* An instance of TmdParser for TLC: TMDs of one to three contents, with      *)
(* records of either length, alone or with certificates behind them, and one *)
(* that was cut off.                                                         *)
EXTENDS TmdParser

\* Hashes no part of which could be an index.
Digest(layout) == [k \in 1..HashWords(layout) |-> 2147483647]

Record(layout, i) ==
  [id |-> i, index |-> i - 1, high |-> 0, low |-> 64 * i, hash |-> Digest(layout)]

Certificates == [k \in 1..9 |-> 0]

FileOf(layout, count, trailer) ==
  Encode([i \in 1..count |-> Record(layout, i)], layout, trailer)

CutOff == [FileOf(36, 2, <<>>) EXCEPT !.length = @ - 1]

TmdFiles ==
  {FileOf(layout, count, trailer) :
     layout \in Layouts, count \in 1..3, trailer \in {<<>>, Certificates}} \cup {CutOff}
=============================================================================
