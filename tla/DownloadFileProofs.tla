------------------------- MODULE DownloadFileProofs -------------------------
(***************************************************************************)
(* Proofs about DownloadFile, for files of any size, any number of range    *)
(* workers and retries, and any number of failures.                         *)
(***************************************************************************)
EXTENDS DownloadFile, WellFoundedInduction, TLAPS

-----------------------------------------------------------------------------
(* _split_ranges.                                                           *)

\* There are at least two workers.
LEMMA WorkersType == Workers \in Nat \ {0}
BY SettingAssumption DEF Workers, Larger, Smaller

\* Division with remainder.
LEMMA Division ==
  ASSUME NEW a \in Nat, NEW b \in Nat \ {0}
  PROVE  /\ a \div b \in Nat /\ a % b \in Nat /\ a % b < b
         /\ a = b * (a \div b) + (a % b)
OBVIOUS

\* The ranges start at 0, each one where the one before it ends, and the last
\* one ends with the file: for any size and any number of parts.
LEMMA SplitCovers ==
  ASSUME NEW total \in Nat, NEW count \in Nat \ {0}
  PROVE  /\ RangeCount(total, count) \in Nat
         /\ Start(total, count, 0) = 0
         /\ \A i \in 0..(RangeCount(total, count) - 1) :
              /\ Start(total, count, i) \in Nat
              /\ Span(total, count, i) \in Nat \ {0}
              /\ Start(total, count, i + 1) = Start(total, count, i) + Span(total, count, i)
         /\ Start(total, count, RangeCount(total, count)) = total
<1> DEFINE q == total \div count
           r == total % count
<1>1. q \in Nat /\ r \in Nat /\ r < count /\ total = count * q + r /\ count * q = total - r
  <2>1. q \in Nat /\ r \in Nat /\ r < count /\ total = count * q + r
    BY Division
  <2>2. count * q \in Int
    BY <2>1
  <2> HIDE DEF q, r
  <2> QED
    BY <2>1, <2>2
<1>2. total < count => q = 0 /\ r = total
  OBVIOUS
<1>3. total >= count => q >= 1
  OBVIOUS
<1>4. \A i \in Nat : Start(total, count, i) = i * q + Smaller(i, r)
                     /\ Span(total, count, i) = q + (IF i < r THEN 1 ELSE 0)
  BY DEF Start, Span
<1>5. RangeCount(total, count) = IF total < count THEN total ELSE count
  BY DEF RangeCount
<1> HIDE DEF q, r
<1>6. Start(total, count, 0) = 0
  BY <1>1, <1>4 DEF Smaller
<1>7. ASSUME NEW i \in 0..(RangeCount(total, count) - 1)
      PROVE  /\ Start(total, count, i) \in Nat
             /\ Span(total, count, i) \in Nat \ {0}
             /\ Start(total, count, i + 1) = Start(total, count, i) + Span(total, count, i)
  <2>1. i \in Nat /\ i + 1 \in Nat /\ i < RangeCount(total, count)
    BY <1>5, <1>7
  <2>2. (i + 1) * q = i * q + q /\ i * q \in Nat
    BY <1>1, <2>1
  <2>3. Span(total, count, i) \in Nat \ {0}
    <3>1. q = 0 => i < r
      <4>1. CASE total < count
        BY <1>2, <1>5, <2>1, <4>1
      <4>2. CASE total >= count
        BY <1>1, <1>3, <4>2
      <4> QED
        BY <4>1, <4>2
    <3> QED
      BY <1>1, <1>4, <2>1, <3>1
  <2> DEFINE p == i * q
             p1 == (i + 1) * q
  <2>4. /\ Start(total, count, i) = p + Smaller(i, r)
        /\ Start(total, count, i + 1) = p1 + Smaller(i + 1, r)
        /\ Span(total, count, i) = q + (IF i < r THEN 1 ELSE 0)
        /\ p1 = p + q /\ p \in Nat
    BY <1>4, <2>1, <2>2
  <2> HIDE DEF p, p1
  <2> QED
    BY <1>1, <2>1, <2>3, <2>4 DEF Smaller
<1>8. Start(total, count, RangeCount(total, count)) = total
  <2>1. CASE total < count
    <3>1. total * q = 0
      BY <1>2, <2>1
    <3> QED
      BY <1>2, <1>4, <1>5, <2>1, <3>1 DEF Smaller
  <2>2. CASE total >= count
    <3>1. Smaller(count, r) = r
      BY <1>1 DEF Smaller
    <3>2. Start(total, count, count) = count * q + r
      BY <1>4, <3>1
    <3> QED
      BY <1>1, <1>5, <2>2, <3>2
  <2> QED
    BY <2>1, <2>2
<1> QED
  BY <1>5, <1>6, <1>7, <1>8

\* Induction over the natural numbers, for a set in place of a predicate:
\* otherwise there were a least number outside of the set.
LEMMA NatSetInduction ==
  ASSUME NEW S, 0 \in S, \A k \in Nat : k \in S => k + 1 \in S
  PROVE  Nat \subseteq S
<1> DEFINE less == OpToRel(<, Nat)
           T == Nat \ S
<1>1. \A j, k \in Nat : j < k => <<j, k>> \in less
  BY DEF OpToRel
<1>2. IsWellFoundedOn(less, Nat)
  BY NatLessThanWellFounded
<1> HIDE DEF less
<1>3. ASSUME T # {} PROVE FALSE
  <2>1. PICK k \in T : \A j \in T : ~(<<j, k>> \in less)
    BY <1>2, <1>3, WFMin
  <2>2. k \in Nat \ {0} /\ k - 1 \in Nat /\ k - 1 < k /\ (k - 1) + 1 = k
    BY <2>1
  <2>3. k - 1 \in T
    BY <2>1, <2>2
  <2> QED
    BY <1>1, <2>1, <2>2, <2>3
<1> QED
  BY <1>3

\* What the loop has before its k-th round: the ranges of the rounds before,
\* without the empty ones, which are the last ones.
LEMMA SplitClosedForm ==
  ASSUME NEW total \in Nat, NEW count \in Nat \ {0}, NEW k \in 0..count
  PROVE  SplitRounds(total, count)[k] =
           [ranges |-> [i \in 1..Smaller(k, RangeCount(total, count)) |->
                          <<Start(total, count, i - 1),
                            Start(total, count, i - 1) + Span(total, count, i - 1) - 1>>],
            offset |-> Start(total, count, Smaller(k, RangeCount(total, count)))]
<1> DEFINE n == RangeCount(total, count)
           start(i) == Start(total, count, i)
           span(i) == Span(total, count, i)
           range(i) == <<start(i - 1), start(i - 1) + span(i - 1) - 1>>
           upto(j) == [i \in 1..j |-> range(i)]
           closed == [j \in 0..count |-> [ranges |-> upto(Smaller(j, n)),
                                          offset |-> start(Smaller(j, n))]]
           round(j, done) == SplitRound(total, count, j, done)
           before == SplitRounds(total, count)
<1>1. /\ n \in Nat /\ n <= count
      /\ start(0) = 0
      /\ \A i \in 0..(n - 1) : /\ start(i) \in Nat /\ span(i) \in Nat \ {0}
                               /\ start(i + 1) = start(i) + span(i)
  BY SplitCovers DEF RangeCount
<1>2. \A i \in Nat : n <= i /\ i < count => span(i) = 0
  BY DEF RangeCount, Span
<1>3. ASSUME NEW j \in Nat, j < count
      PROVE  round(j, closed[j]) = closed[j + 1]
  <2>0. j \in 0..count /\ j + 1 \in 0..count
    BY <1>3
  <2>1. CASE j < n
    <3>1. j \in 0..(n - 1) /\ Smaller(j, n) = j /\ Smaller(j + 1, n) = j + 1
      BY <1>1, <2>1 DEF Smaller
    <3>2. start(j) \in Nat /\ span(j) \in Nat \ {0} /\ start(j + 1) = start(j) + span(j)
      BY <1>1, <3>1
    <3>3. closed[j] = [ranges |-> upto(j), offset |-> start(j)]
          /\ closed[j + 1] = [ranges |-> upto(j + 1), offset |-> start(j + 1)]
      BY <2>0, <3>1
    <3>4. upto(j + 1) = Append(upto(j), range(j + 1))
      OBVIOUS
    <3>5. range(j + 1) = <<start(j), start(j) + span(j) - 1>>
      OBVIOUS
    <3>6. span(j) = total \div count + (IF j < total % count THEN 1 ELSE 0) /\ ~(span(j) <= 0)
      BY <3>2 DEF Span
    <3> HIDE DEF start, span, upto, closed, range
    <3>7. round(j, [ranges |-> upto(j), offset |-> start(j)])
            = [ranges |-> Append(upto(j), <<start(j), start(j) + span(j) - 1>>),
               offset |-> start(j) + span(j)]
      BY <3>6 DEF SplitRound
    <3> QED
      BY <3>2, <3>3, <3>4, <3>5, <3>7
  <2>2. CASE ~(j < n)
    <3>1. Smaller(j, n) = n /\ Smaller(j + 1, n) = n /\ span(j) = 0
      BY <1>1, <1>2, <1>3, <2>2 DEF Smaller
    <3>2. closed[j] = closed[j + 1]
      BY <2>0, <3>1
    <3>3. total \div count + (IF j < total % count THEN 1 ELSE 0) <= 0
      BY <3>1 DEF Span
    <3> HIDE DEF closed
    <3>4. round(j, closed[j]) = closed[j]
      BY <3>3 DEF SplitRound
    <3> QED
      BY <3>2, <3>4
  <2> QED
    BY <2>1, <2>2
<1>4. closed[0] = [ranges |-> <<>>, offset |-> 0]
  <2>1. Smaller(0, n) = 0 /\ 0 \in 0..count
    BY <1>1 DEF Smaller
  <2>2. upto(0) = <<>>
    OBVIOUS
  <2> QED
    BY <1>1, <2>1, <2>2
<1>5. DOMAIN closed = 0..count /\ closed = [j \in 0..count |-> closed[j]]
  OBVIOUS
<1>6. closed[k] = [ranges |-> upto(Smaller(k, n)), offset |-> start(Smaller(k, n))]
  OBVIOUS
<1> HIDE DEF closed
\* The equation has a solution, so the loop is one.
<1>7. closed = [j \in 0..count |-> IF j = 0 THEN [ranges |-> <<>>, offset |-> 0]
                                          ELSE round(j - 1, closed[j - 1])]
  <2>1. ASSUME NEW j \in 0..count, j # 0 PROVE closed[j] = round(j - 1, closed[j - 1])
    <3>1. j - 1 \in Nat /\ j - 1 < count /\ (j - 1) + 1 = j
      BY <2>1
    <3> QED
      BY <1>3, <3>1
  <2> HIDE DEF round
  <2> QED
    BY <1>4, <1>5, <2>1
<1>8. before = [j \in 0..count |-> IF j = 0 THEN [ranges |-> <<>>, offset |-> 0]
                                          ELSE round(j - 1, before[j - 1])]
  <2>1. \E f : f = [j \in 0..count |-> IF j = 0 THEN [ranges |-> <<>>, offset |-> 0]
                                               ELSE round(j - 1, f[j - 1])]
    BY <1>7
  <2> QED
    BY <2>1 DEF SplitRounds
<1> HIDE DEF before, round
\* There is only one.
<1> DEFINE S == {j \in Nat : j <= count => before[j] = closed[j]}
<1>9. 0 \in S
  BY <1>4, <1>8
<1>10. ASSUME NEW j \in Nat, j \in S PROVE j + 1 \in S
  <2> SUFFICES ASSUME j + 1 <= count PROVE before[j + 1] = closed[j + 1]
    OBVIOUS
  <2>1. before[j] = closed[j] /\ j < count /\ j + 1 \in 0..count /\ j + 1 # 0 /\ (j + 1) - 1 = j
    BY <1>10
  <2>2. before[j + 1] = round(j, before[j])
    BY <1>8, <2>1
  <2> QED
    BY <1>3, <2>1, <2>2
<1>11. Nat \subseteq S
  <2> HIDE DEF S
  <2> QED
    BY <1>9, <1>10, NatSetInduction
<1>12. before[k] = closed[k]
  BY <1>11
<1> QED
  BY <1>6, <1>12 DEF before

\* The loop of _split_ranges finds the ranges of the model, for any size and
\* any number of parts.
LEMMA SplitsAll ==
  ASSUME NEW total \in Nat, NEW count \in Nat \ {0}
  PROVE  Splits(total, count)
<1> DEFINE n == RangeCount(total, count)
           start(i) == Start(total, count, i)
           span(i) == Span(total, count, i)
           ranges == [i \in 1..n |-> <<start(i - 1), start(i - 1) + span(i - 1) - 1>>]
<1>1. /\ n \in Nat /\ n <= count
      /\ start(0) = 0
      /\ \A i \in 0..(n - 1) : /\ start(i) \in Nat /\ span(i) \in Nat \ {0}
                               /\ start(i + 1) = start(i) + span(i)
      /\ start(n) = total
  BY SplitCovers DEF RangeCount
<1>2. SplitLoop(total, count) = ranges
  <2>1. CASE total = 0
    <3>1. n = 0 /\ ranges = <<>>
      BY <2>1 DEF RangeCount
    <3> QED
      BY <2>1, <3>1 DEF SplitLoop
  <2>2. CASE total # 0
    <3>1. count \in 0..count /\ Smaller(count, n) = n
      BY <1>1 DEF Smaller
    <3>2. SplitRounds(total, count)[count] = [ranges |-> ranges, offset |-> start(n)]
      BY <3>1, SplitClosedForm
    <3>3. ~(total <= 0)
      BY <2>2
    <3> HIDE DEF ranges, start
    <3> QED
      BY <3>2, <3>3 DEF SplitLoop
  <2> QED
    BY <2>1, <2>2
<1>3. ASSUME NEW i \in 1..n
      PROVE  ranges[i][1] = (IF i = 1 THEN 0 ELSE ranges[i - 1][2] + 1)
  <2>1. CASE i = 1
    BY <1>1, <2>1
  <2>2. CASE i # 1
    <3>1. i - 1 \in 1..n /\ i - 2 \in 0..(n - 1) /\ (i - 2) + 1 = i - 1 /\ (i - 1) - 1 = i - 2
      BY <1>1, <2>2
    <3>2. start(i - 1) = start(i - 2) + span(i - 2) /\ start(i - 2) \in Nat /\ span(i - 2) \in Nat
      BY <1>1, <3>1
    <3>3. ranges[i][1] = start(i - 1)
          /\ ranges[i - 1][2] = start(i - 2) + span(i - 2) - 1
      BY <3>1
    <3> HIDE DEF ranges, start, span
    <3> QED
      BY <2>2, <3>2, <3>3
  <2> QED
    BY <2>1, <2>2
<1>4. n > 0 => ranges[n][2] = total - 1
  <2> SUFFICES ASSUME n > 0 PROVE ranges[n][2] = total - 1
    OBVIOUS
  <2>1. n - 1 \in 0..(n - 1) /\ (n - 1) + 1 = n /\ n \in 1..n
    BY <1>1
  <2>2. start(n - 1) + span(n - 1) = total
    BY <1>1, <2>1
  <2>3. ranges[n][2] = start(n - 1) + span(n - 1) - 1
    BY <2>1
  <2>4. start(n - 1) \in Nat /\ span(n - 1) \in Nat
    BY <1>1, <2>1
  <2> HIDE DEF ranges, start, span
  <2> QED
    BY <2>2, <2>3, <2>4
<1> QED
  BY <1>2, <1>3, <1>4 DEF Splits

\* The same of the ranges of this download.
LEMMA RangesCover ==
  /\ RangeCount(Expected, Workers) \in Nat
  /\ Ranges = 0..(RangeCount(Expected, Workers) - 1)
  /\ \A i \in Ranges : Offset(i) \in Nat /\ Length(i) \in Nat \ {0}
  /\ \A i \in Ranges : i + 1 \in Ranges => Offset(i + 1) = Offset(i) + Length(i)
  /\ \A i \in Ranges : i + 1 \notin Ranges => Offset(i) + Length(i) = Expected
  /\ 0 \in Ranges => Offset(0) = 0
  /\ 0 \notin Ranges => Expected = 0
<1>1. Expected \in Nat /\ Workers \in Nat \ {0}
  BY WorkersType, SettingAssumption
<1>2. /\ RangeCount(Expected, Workers) \in Nat
      /\ Start(Expected, Workers, 0) = 0
      /\ \A i \in 0..(RangeCount(Expected, Workers) - 1) :
           /\ Start(Expected, Workers, i) \in Nat
           /\ Span(Expected, Workers, i) \in Nat \ {0}
           /\ Start(Expected, Workers, i + 1) = Start(Expected, Workers, i) + Span(Expected, Workers, i)
      /\ Start(Expected, Workers, RangeCount(Expected, Workers)) = Expected
  BY <1>1, SplitCovers
<1>3. \A i \in Ranges : i + 1 \notin Ranges => i + 1 = RangeCount(Expected, Workers)
  BY <1>2 DEF Ranges
<1>4. 0 \notin Ranges => RangeCount(Expected, Workers) = 0
  BY <1>2 DEF Ranges
<1> QED
  BY <1>2, <1>3, <1>4 DEF Ranges, Offset, Length
-----------------------------------------------------------------------------
(* The invariant.                                                           *)

\* The initial states satisfy it.
LEMMA InitInvariant == Init => IInv
<1> SUFFICES ASSUME Init PROVE IInv
  OBVIOUS
<1>1. TypeOK
  <2>1. 1 \in Versions /\ 1 \in 1..Retries
    BY VersionAssumption, SettingAssumption DEF Versions
  <2>2. wpc \in [Ranges -> WorkerPcs] /\ attempt \in [Ranges -> 1..Retries]
    BY <2>1 DEF Init, WorkerPcs
  <2>3. parts \in [Ranges -> Seq(Bytes) \cup {None}]
    BY DEF Init
  <2>4. version \in Versions /\ dest \in Seq(Bytes) \cup {None} /\ pc \in Pcs
    BY <2>1 DEF Init, Pcs
  <2>5. existing \in Nat /\ cat \in Nat /\ off \in Nat /\ next \in Nat \ {0}
    BY DEF Init
  <2>6. joined \in BOOLEAN /\ result \in {"none", "ok", "error"}
    BY DEF Init
  <2> QED
    BY <2>2, <2>3, <2>4, <2>5, <2>6 DEF TypeOK
<1>2. WorkersDone /\ PartsRight
  BY DEF Init, WorkersDone, PartsRight
<1>3. Joining /\ Resuming /\ PrefixKept
  BY DEF Init, Joining, Resuming, PrefixKept, Size
<1>4. ParallelAllowed
  BY DEF Init, ParallelAllowed
<1> QED
  BY <1>1, <1>2, <1>3, <1>4 DEF IInv

\* A byte more.
LEMMA AppendType ==
  ASSUME NEW S, NEW s \in Seq(S), NEW e \in S
  PROVE  /\ Append(s, e) \in Seq(S) /\ Len(Append(s, e)) = Len(s) + 1
         /\ Append(s, e)[Len(s) + 1] = e
         /\ \A k \in 1..Len(s) : Append(s, e)[k] = s[k]
OBVIOUS

\* A worker's failed attempt is followed by another one, or by none.
LEMMA RetryType ==
  ASSUME wpc \in [Ranges -> WorkerPcs], attempt \in [Ranges -> 1..Retries],
         NEW i \in Ranges, Retry(i)
  PROVE  /\ wpc' \in [Ranges -> WorkerPcs] /\ attempt' \in [Ranges -> 1..Retries]
         /\ wpc'[i] \in {"start", "failed"}
         /\ \A k \in Ranges \ {i} : wpc'[k] = wpc[k]
<1>1. attempt[i] \in 1..Retries /\ Retries \in Nat
  BY SettingAssumption
<1>2. CASE attempt[i] < Retries
  <2>1. attempt[i] + 1 \in 1..Retries
    BY <1>1, <1>2
  <2> QED
    BY <1>2, <2>1 DEF Retry, WorkerPcs
<1>3. CASE ~(attempt[i] < Retries)
  BY <1>3 DEF Retry, WorkerPcs
<1> QED
  BY <1>2, <1>3

\* A chunk of a range comes from the place the part has reached.
LEMMA WorkerChunkType ==
  ASSUME IInv, NEW i \in Ranges, WorkerChunk(i)
  PROVE  /\ parts[i] \in Seq(Bytes) /\ parts[i] # None
         /\ Len(parts[i]) \in Nat
         /\ WorkerPosition(i) = Offset(i) + Len(parts[i]) + 1
         /\ <<version, WorkerPosition(i)>> \in Bytes
         /\ parts'[i] = Append(parts[i], <<version, WorkerPosition(i)>>)
         /\ parts'[i] \in Seq(Bytes) /\ parts'[i] # None
         /\ \A k \in Ranges \ {i} : parts'[k] = parts[k]
         /\ parts' \in [Ranges -> Seq(Bytes) \cup {None}]
         /\ Len(parts[i]) < Length(i) /\ WorkerPosition(i) <= SizeOf[version]
<1>1. TypeOK /\ WorkersDone
  BY DEF IInv
<1>2. parts[i] \in Seq(Bytes) /\ parts[i] # None
  BY <1>1 DEF TypeOK, WorkersDone, WorkerChunk
<1>3. Len(parts[i]) \in Nat /\ Offset(i) \in Nat /\ version \in Versions
  BY <1>1, <1>2, RangesCover DEF TypeOK
<1>4. <<version, WorkerPosition(i)>> \in Bytes
  BY <1>3 DEF WorkerPosition, Bytes
<1>5. parts'[i] = Append(parts[i], <<version, WorkerPosition(i)>>)
      /\ parts' = [parts EXCEPT ![i] = Append(parts[i], <<version, WorkerPosition(i)>>)]
  BY <1>1 DEF TypeOK, WorkerChunk
<1>6. parts'[i] \in Seq(Bytes)
  BY <1>2, <1>4, <1>5
<1>7. parts'[i] # None
  BY <1>6, NoneAssumption
<1> QED
  BY <1>1, <1>2, <1>3, <1>4, <1>5, <1>6, <1>7 DEF TypeOK, WorkerChunk, WorkerPosition, WorkerHasMore

\* While the parts are joined, the byte that is copied next is the one of its
\* place in the file.
LEMMA ConcatType ==
  ASSUME IInv, pc = "concat", cat \in Ranges, off < Len(parts[cat])
  PROVE  /\ dest \in Seq(Bytes) /\ Len(dest) = Offset(cat) + off /\ Len(dest) \in Nat
         /\ off \in Nat /\ off + 1 \in 1..Len(parts[cat])
         /\ parts[cat] \in Seq(Bytes) /\ Len(parts[cat]) = Length(cat)
         /\ parts[cat][off + 1] \in Bytes
         /\ version = 1 => /\ parts[cat][off + 1] = <<1, Len(dest) + 1>>
                           /\ Len(dest) < SizeOf[1]
<1>1. TypeOK /\ WorkersDone /\ Joining /\ PartsRight
  BY DEF IInv
<1>2. dest \in Seq(Bytes) /\ Len(dest) = Offset(cat) + off /\ off \in Nat
  BY <1>1 DEF TypeOK, Joining
<1>3. parts[cat] \in Seq(Bytes) /\ parts[cat] # None /\ Len(parts[cat]) = Length(cat)
  BY <1>1 DEF TypeOK, WorkersDone
<1>4. off + 1 \in 1..Len(parts[cat]) /\ Offset(cat) \in Nat /\ Length(cat) \in Nat
  BY <1>2, <1>3, RangesCover
<1>5. parts[cat][off + 1] \in Bytes
  BY <1>3, <1>4
<1>6. ASSUME version = 1
      PROVE  parts[cat][off + 1] = <<1, Len(dest) + 1>> /\ Len(dest) < SizeOf[1]
  <2>1. /\ Offset(cat) + Len(parts[cat]) <= SizeOf[1]
        /\ parts[cat][off + 1] = <<1, Offset(cat) + (off + 1)>>
    BY <1>1, <1>3, <1>4, <1>6 DEF PartsRight
  <2>2. SizeOf[1] \in Nat
    BY VersionAssumption
  <2> QED
    BY <1>2, <1>3, <1>4, <2>1, <2>2
<1> QED
  BY <1>2, <1>3, <1>4, <1>5, <1>6

\* What is left of the parts is what was there.
LEMMA UnlinkType ==
  ASSUME parts \in [Ranges -> Seq(Bytes) \cup {None}], UnlinkParts
  PROVE  /\ parts' \in [Ranges -> Seq(Bytes) \cup {None}]
         /\ \A k \in Ranges : parts'[k] \in {parts[k], None}
BY DEF UnlinkParts

\* Every variable keeps to its type.
LEMMA TypeStep == IInv /\ [Next]_vars => TypeOK'
<1> SUFFICES ASSUME IInv, [Next]_vars PROVE TypeOK'
  OBVIOUS
<1> USE DEF vars, server, workerVars, joinVars, Return, Pcs, WorkerPcs
<1>0. TypeOK /\ <<>> \in Seq(Bytes) /\ 1 \in 1..Retries
  BY SettingAssumption DEF IInv
<1>1. CASE Call
  <2>1. Size(dest) \in Nat
    BY <1>0 DEF TypeOK, Size
  <2> QED
    BY <1>0, <1>1, <2>1 DEF TypeOK, Call
<1>2. CASE ClearParts
  <2>1. parts' \in [Ranges -> Seq(Bytes) \cup {None}]
    BY <1>0, <1>2, UnlinkType DEF TypeOK, ClearParts
  <2> QED
    BY <1>0, <1>2, <2>1 DEF TypeOK, ClearParts
<1>3. ASSUME NEW i \in Ranges, WorkerRequest(i) PROVE TypeOK'
  <2>1. /\ wpc \in [Ranges -> WorkerPcs] /\ attempt \in [Ranges -> 1..Retries]
        /\ parts \in [Ranges -> Seq(Bytes) \cup {None}]
    BY <1>0 DEF TypeOK
  <2>2. attempt' \in [Ranges -> 1..Retries] /\ wpc' \in [Ranges -> WorkerPcs]
    BY <1>3, <2>1, RetryType DEF WorkerRequest
  <2>3. parts' \in [Ranges -> Seq(Bytes) \cup {None}]
    BY <1>0, <1>3, <2>1 DEF WorkerRequest
  <2> QED
    BY <1>0, <1>3, <2>2, <2>3 DEF TypeOK, WorkerRequest
<1>4. ASSUME NEW i \in Ranges, WorkerChunk(i) PROVE TypeOK'
  <2>1. parts' \in [Ranges -> Seq(Bytes) \cup {None}]
    BY <1>4, WorkerChunkType
  <2> QED
    BY <1>0, <1>4, <2>1 DEF TypeOK, WorkerChunk
<1>5. ASSUME NEW i \in Ranges, WorkerEnd(i) PROVE TypeOK'
  <2>1. wpc \in [Ranges -> WorkerPcs] /\ attempt \in [Ranges -> 1..Retries]
    BY <1>0 DEF TypeOK
  <2>2. attempt' \in [Ranges -> 1..Retries] /\ wpc' \in [Ranges -> WorkerPcs]
    BY <1>5, <2>1, RetryType DEF WorkerEnd
  <2> QED
    BY <1>0, <1>5, <2>2 DEF TypeOK, WorkerEnd
<1>6. CASE Join
  BY <1>0, <1>6 DEF TypeOK, Join
<1>7. CASE Concat
  <2>1. dest' \in Seq(Bytes) \cup {None}
    <3>1. CASE cat \in Ranges /\ off < Len(parts[cat])
      <4>1. dest \in Seq(Bytes) /\ parts[cat][off + 1] \in Bytes
        BY <1>7, <3>1, ConcatType DEF Concat
      <4>2. Append(dest, parts[cat][off + 1]) \in Seq(Bytes)
        BY <4>1, AppendType
      <4> QED
        BY <1>7, <3>1, <4>2 DEF Concat
    <3>2. CASE ~(cat \in Ranges /\ off < Len(parts[cat]))
      BY <1>0, <1>7, <3>2 DEF TypeOK, Concat
    <3> QED
      BY <3>1, <3>2
  <2>2. cat' \in Nat /\ off' \in Nat /\ joined' \in BOOLEAN /\ pc' \in Pcs
    <3>1. cat \in Nat /\ off \in Nat /\ joined \in BOOLEAN /\ pc \in Pcs
      BY <1>0 DEF TypeOK
    <3>2. CASE cat \in Ranges /\ off < Len(parts[cat])
      BY <1>7, <3>1, <3>2 DEF Concat
    <3>3. CASE cat \in Ranges /\ ~(off < Len(parts[cat]))
      BY <1>7, <3>1, <3>3 DEF Concat
    <3>4. CASE cat \notin Ranges
      BY <1>7, <3>1, <3>4 DEF Concat
    <3> QED
      BY <3>2, <3>3, <3>4
  <2> QED
    BY <1>0, <1>7, <2>1, <2>2 DEF TypeOK, Concat
<1>8. CASE ParallelError
  BY <1>0, <1>8 DEF TypeOK, ParallelError
<1>14. CASE Cleanup
  <2>1. parts' \in [Ranges -> Seq(Bytes) \cup {None}]
    BY <1>0, <1>14, UnlinkType DEF TypeOK, Cleanup
  <2> QED
    BY <1>0, <1>14, <2>1 DEF TypeOK, Cleanup
<1>15. CASE Discard
  BY <1>0, <1>15 DEF TypeOK, Discard
<1>9. CASE RequestBeyond \/ RequestRest
  BY <1>0, <1>9 DEF TypeOK, RequestBeyond, RequestRest
<1>16. CASE RequestAll
  BY <1>0, <1>16 DEF TypeOK, RequestAll
<1>10. CASE Chunk
  <2>1. dest # None /\ dest \in Seq(Bytes) /\ <<version, next>> \in Bytes
    BY <1>0, <1>10 DEF IInv, TypeOK, Resuming, Chunk, Bytes
  <2>2. Append(dest, <<version, next>>) \in Seq(Bytes)
    BY <2>1, AppendType
  <2> QED
    BY <1>0, <1>10, <2>2 DEF TypeOK, Chunk
<1>11. CASE StreamEnd \/ StreamError \/ Exit
  BY <1>0, <1>11 DEF TypeOK, StreamEnd, StreamError, Exit
<1>12. CASE Update
  BY <1>0, <1>12, VersionAssumption DEF TypeOK, Update, Versions
<1>13. CASE UNCHANGED vars
  BY <1>0, <1>13 DEF TypeOK
<1> QED
  BY <1>1, <1>2, <1>3, <1>4, <1>5, <1>6, <1>7, <1>8, <1>9, <1>10, <1>11, <1>12, <1>13,
     <1>14, <1>15, <1>16
     DEF Next, Worker, Parallel, Single
\* Workers run only while the call waits for them, and leave whole parts.
LEMMA WorkersStep == IInv /\ [Next]_vars => WorkersDone'
<1> SUFFICES ASSUME IInv, [Next]_vars PROVE WorkersDone'
  OBVIOUS
<1> USE DEF vars, server, workerVars, joinVars, Return
<1>0. WorkersDone /\ wpc \in [Ranges -> WorkerPcs] /\ attempt \in [Ranges -> 1..Retries]
      /\ parts \in [Ranges -> Seq(Bytes) \cup {None}]
  BY DEF IInv, TypeOK
<1>1. CASE ClearParts \/ Cleanup
  BY <1>1 DEF WorkersDone, ClearParts, Cleanup
<1>2. ASSUME NEW i \in Ranges, WorkerRequest(i) PROVE WorkersDone'
  <2>1. pc = "workers" /\ pc' = "workers"
    BY <1>0, <1>2 DEF WorkersDone, WorkerRequest
  <2>2. /\ wpc'[i] \in {"start", "stream", "failed"}
        /\ wpc'[i] = "stream" => parts'[i] = <<>>
        /\ \A k \in Ranges \ {i} : wpc'[k] = wpc[k]
    <3>1. CASE Retry(i)
      BY <1>0, <3>1, RetryType
    <3>2. CASE ~Retry(i)
      <4>1. /\ wpc' = [wpc EXCEPT ![i] = "stream"] /\ parts' = [parts EXCEPT ![i] = <<>>]
        BY <1>2, <3>2 DEF WorkerRequest
      <4> QED
        BY <1>0, <4>1
    <3> QED
      BY <3>1, <3>2
  <2>3. \A k \in Ranges \ {i} : parts'[k] = parts[k]
    BY <1>0, <1>2 DEF WorkerRequest
  <2>4. <<>> # None
    <3>1. <<>> \in Seq(Bytes)
      OBVIOUS
    <3> QED
      BY <3>1, NoneAssumption
  <2> QED
    BY <1>0, <2>1, <2>2, <2>3, <2>4 DEF WorkersDone
<1>3. ASSUME NEW i \in Ranges, WorkerChunk(i) PROVE WorkersDone'
  <2>1. /\ pc = "workers" /\ pc' = "workers" /\ wpc[i] = "stream" /\ wpc' = wpc
    BY <1>0, <1>3 DEF WorkersDone, WorkerChunk
  <2>2. parts'[i] # None /\ \A k \in Ranges \ {i} : parts'[k] = parts[k]
    BY <1>3, WorkerChunkType
  <2> QED
    BY <1>0, <2>1, <2>2 DEF WorkersDone
<1>4. ASSUME NEW i \in Ranges, WorkerEnd(i) PROVE WorkersDone'
  <2>1. pc = "workers" /\ pc' = "workers" /\ wpc[i] = "stream" /\ parts' = parts
    BY <1>0, <1>4 DEF WorkersDone, WorkerEnd
  <2>2. /\ wpc'[i] \in {"start", "ok", "failed"}
        /\ wpc'[i] = "ok" => Len(parts[i]) = Length(i)
        /\ \A k \in Ranges \ {i} : wpc'[k] = wpc[k]
    <3>1. CASE Retry(i)
      BY <1>0, <3>1, RetryType
    <3>2. CASE ~Retry(i)
      BY <1>0, <1>4, <3>2 DEF WorkerEnd
    <3> QED
      BY <3>1, <3>2
  <2> QED
    BY <1>0, <2>1, <2>2 DEF WorkersDone
<1>5. CASE Join
  BY <1>0, <1>5 DEF WorkersDone, Join
<1>6. CASE Concat \/ ParallelError \/ Discard
  BY <1>0, <1>6 DEF WorkersDone, Concat, ParallelError, Discard
<1>7. CASE Call \/ Single
  BY <1>0, <1>7 DEF WorkersDone, Call, Single, RequestBeyond, RequestRest, RequestAll,
                    Chunk, StreamEnd, StreamError
<1>8. CASE Exit
  BY <1>0, <1>8 DEF WorkersDone, Exit
<1>9. CASE Update \/ UNCHANGED vars
  BY <1>0, <1>9 DEF WorkersDone, Update
<1> QED
  BY <1>1, <1>2, <1>3, <1>4, <1>5, <1>6, <1>7, <1>8, <1>9 DEF Next, Worker, Parallel

\* The server's file is the first one only as long as it was before.
LEMMA FirstVersion == IInv /\ [Next]_vars /\ version' = 1 => version = 1
<1> SUFFICES ASSUME IInv, [Next]_vars, version' = 1 PROVE version = 1
  OBVIOUS
<1>1. version \in Nat \ {0}
  BY VersionAssumption DEF IInv, TypeOK, Versions
<1>2. version' = version \/ version' = version + 1
  BY DEF vars, server, Next, Call, Worker, WorkerRequest, WorkerChunk, WorkerEnd, Parallel,
         ClearParts, Join, Concat, ParallelError, Cleanup, Discard, Single, RequestBeyond,
         RequestRest, RequestAll, Chunk, StreamEnd, StreamError, Exit, Update
<1> QED
  BY <1>1, <1>2

\* A part has bytes of its place only.
LEMMA PartsStep == IInv /\ [Next]_vars => PartsRight'
<1> SUFFICES ASSUME IInv, [Next]_vars, version' = 1, NEW k \in Ranges, parts'[k] # None
             PROVE  /\ Offset(k) + Len(parts'[k]) <= SizeOf[1]
                    /\ \A b \in 1..Len(parts'[k]) : parts'[k][b] = <<1, Offset(k) + b>>
  BY DEF PartsRight
<1> USE DEF vars, server, workerVars, joinVars, Return
<1>0. PartsRight /\ version = 1 /\ parts \in [Ranges -> Seq(Bytes) \cup {None}]
  BY FirstVersion DEF IInv, TypeOK
<1>1. CASE ClearParts \/ Cleanup
  <2>1. parts'[k] = parts[k]
    BY <1>0, <1>1, UnlinkType DEF ClearParts, Cleanup
  <2> QED
    BY <1>0, <2>1 DEF PartsRight
<1>2. ASSUME NEW i \in Ranges, WorkerRequest(i)
      PROVE  /\ Offset(k) + Len(parts'[k]) <= SizeOf[1]
             /\ \A b \in 1..Len(parts'[k]) : parts'[k][b] = <<1, Offset(k) + b>>
  <2>1. CASE k = i /\ parts'[k] # parts[k]
    <3>1. parts'[i] = <<>> /\ Offset(i) < SizeOf[1]
      BY <1>0, <1>2, <2>1 DEF WorkerRequest
    <3>2. Offset(i) \in Nat /\ SizeOf[1] \in Nat
      BY RangesCover, VersionAssumption
    <3> QED
      BY <2>1, <3>1, <3>2
  <2>2. CASE parts'[k] = parts[k]
    BY <1>0, <2>2 DEF PartsRight
  <2>3. k # i => parts'[k] = parts[k]
    BY <1>0, <1>2 DEF WorkerRequest
  <2> QED
    BY <2>1, <2>2, <2>3
<1>3. ASSUME NEW i \in Ranges, WorkerChunk(i)
      PROVE  /\ Offset(k) + Len(parts'[k]) <= SizeOf[1]
             /\ \A b \in 1..Len(parts'[k]) : parts'[k][b] = <<1, Offset(k) + b>>
  <2>1. CASE k = i
    <3> DEFINE s == parts[i]
               e == <<version, WorkerPosition(i)>>
    <3>1. /\ s \in Seq(Bytes) /\ e \in Bytes /\ parts'[i] = Append(s, e)
          /\ WorkerPosition(i) = Offset(i) + Len(s) + 1 /\ WorkerPosition(i) <= SizeOf[1]
          /\ Offset(i) \in Nat /\ Len(s) \in Nat
      BY <1>0, <1>3, WorkerChunkType, RangesCover
    <3>2. \A b \in 1..Len(s) : s[b] = <<1, Offset(i) + b>>
      BY <1>0, <1>3, WorkerChunkType DEF PartsRight
    <3>3. e = <<1, Offset(i) + (Len(s) + 1)>>
      BY <1>0, <3>1
    <3> HIDE DEF s, e
    <3>4. /\ Len(parts'[i]) = Len(s) + 1 /\ parts'[i][Len(s) + 1] = e
          /\ \A b \in 1..Len(s) : parts'[i][b] = s[b]
      BY <3>1, AppendType
    <3>5. SizeOf[1] \in Nat
      BY VersionAssumption
    <3>6. \A b \in 1..Len(parts'[i]) : parts'[i][b] = <<1, Offset(i) + b>>
      BY <3>1, <3>2, <3>3, <3>4
    <3>7. Offset(i) + Len(parts'[i]) <= SizeOf[1]
      BY <3>1, <3>4, <3>5
    <3> QED
      BY <2>1, <3>6, <3>7
  <2>2. CASE k # i
    <3>1. parts'[k] = parts[k]
      BY <1>3, <2>2, WorkerChunkType
    <3> QED
      BY <1>0, <3>1 DEF PartsRight
  <2> QED
    BY <2>1, <2>2
<1>4. CASE parts' = parts
  BY <1>0, <1>4 DEF PartsRight
<1>5. ClearParts \/ Cleanup \/ (\E i \in Ranges : WorkerRequest(i) \/ WorkerChunk(i)) \/ parts' = parts
  BY DEF Next, Call, Worker, WorkerEnd, Parallel, Join, Concat, ParallelError, Discard, Single,
         RequestBeyond, RequestRest, RequestAll, Chunk, StreamEnd, StreamError, Exit, Update
<1> QED
  BY <1>1, <1>2, <1>3, <1>4, <1>5
\* The parts are joined in their order, without a gap.
LEMMA JoiningStep == IInv /\ [Next]_vars => Joining'
<1> SUFFICES ASSUME IInv, [Next]_vars PROVE Joining'
  OBVIOUS
<1> USE DEF vars, server, workerVars, joinVars, Return
<1>0. /\ Joining /\ WorkersDone /\ existing \in Nat /\ cat \in Nat /\ off \in Nat
      /\ pc \in Pcs /\ dest \in Seq(Bytes) \cup {None} /\ <<>> # None
  <2>1. <<>> \in Seq(Bytes)
    OBVIOUS
  <2> QED
    BY <2>1, NoneAssumption DEF IInv, TypeOK
<1>1. CASE Call
  BY <1>0, <1>1 DEF Joining, Call
<1>2. CASE ClearParts
  <2>1. pc' = "workers" /\ existing' = 0 /\ Size(dest)' = 0 /\ joined' = FALSE
    BY <1>0, <1>2 DEF Joining, ClearParts, Size
  <2> QED
    BY <2>1 DEF Joining
<1>3. CASE Join
  <2>1. pc = "workers" /\ existing' = 0 /\ ~joined'
    BY <1>0, <1>3 DEF Joining, Join
  <2>2. CASE pc' = "concat"
    <3>1. dest' = <<>> /\ cat' = 0 /\ off' = 0
      BY <1>3, <2>2 DEF Join
    <3>2. Len(dest') = IF cat' \in Ranges THEN Offset(cat') + off' ELSE Expected
      BY <3>1, RangesCover
    <3>3. cat' \in 0..RangeCount(Expected, Workers) /\ (cat' \in Ranges => off' <= Length(cat'))
      BY <3>1, RangesCover
    <3> QED
      BY <1>0, <2>1, <2>2, <3>1, <3>2, <3>3 DEF Joining
  <2>3. CASE pc' = "cleanup"
    BY <2>1, <2>3 DEF Joining
  <2> QED
    BY <1>3, <2>2, <2>3 DEF Join
<1>4. CASE Concat
  <2>1. pc = "concat" /\ existing' = 0
    BY <1>0, <1>4 DEF Joining, Concat
  <2>2. dest # None /\ dest \in Seq(Bytes) /\ ~joined
        /\ Len(dest) = (IF cat \in Ranges THEN Offset(cat) + off ELSE Expected)
        /\ cat \in 0..RangeCount(Expected, Workers) /\ (cat \in Ranges => off <= Length(cat))
    BY <1>0, <2>1 DEF Joining
  <2>3. CASE cat \in Ranges /\ off < Len(parts[cat])
    <3>1. /\ parts[cat][off + 1] \in Bytes /\ Len(parts[cat]) = Length(cat)
          /\ Len(dest) = Offset(cat) + off
      BY <2>1, <2>3, ConcatType
    <3>2. dest' = Append(dest, parts[cat][off + 1]) /\ off' = off + 1 /\ cat' = cat
          /\ pc' = "concat" /\ joined' = joined
      BY <1>4, <2>1, <2>3 DEF Concat
    <3>3. dest' \in Seq(Bytes) /\ Len(dest') = Len(dest) + 1
      BY <2>2, <3>1, <3>2, AppendType
    <3>4. dest' # None
      BY <3>3, NoneAssumption
    <3>5. off' <= Length(cat') /\ Len(dest') = Offset(cat') + off'
      BY <1>0, <2>3, <3>1, <3>2, <3>3, RangesCover
    <3> QED
      BY <2>1, <2>2, <2>3, <3>2, <3>4, <3>5 DEF Joining
  <2>4. CASE cat \in Ranges /\ ~(off < Len(parts[cat]))
    <3>1. dest' = dest /\ off' = 0 /\ cat' = cat + 1 /\ pc' = "concat" /\ joined' = joined
      BY <1>4, <2>1, <2>4 DEF Concat
    <3>2. Len(parts[cat]) = Length(cat) /\ Length(cat) \in Nat \ {0} /\ Offset(cat) \in Nat
      BY <1>0, <2>1, <2>4, RangesCover DEF WorkersDone
    <3>3. off = Length(cat) /\ Len(dest) = Offset(cat) + Length(cat)
      BY <1>0, <2>2, <2>4, <3>2
    <3>4. Len(dest') = IF cat' \in Ranges THEN Offset(cat') + off' ELSE Expected
      <4>1. CASE cat + 1 \in Ranges
        <5>1. Offset(cat + 1) = Offset(cat) + Length(cat) /\ Offset(cat + 1) \in Nat
          BY <2>4, <4>1, RangesCover
        <5> QED
          BY <3>1, <3>3, <4>1, <5>1
      <4>2. CASE cat + 1 \notin Ranges
        BY <2>4, <3>1, <3>3, <4>2, RangesCover
      <4> QED
        BY <4>1, <4>2
    <3>5. cat' \in 0..RangeCount(Expected, Workers) /\ (cat' \in Ranges => off' <= Length(cat'))
      BY <1>0, <2>4, <3>1, RangesCover
    <3> QED
      BY <2>1, <2>2, <3>1, <3>4, <3>5 DEF Joining
  <2>5. CASE cat \notin Ranges
    BY <1>4, <2>1, <2>2, <2>5 DEF Joining, Concat
  <2> QED
    BY <2>3, <2>4, <2>5
<1>5. CASE ParallelError
  BY <1>0, <1>5 DEF Joining, ParallelError
<1>6. CASE Cleanup
  <2>1. pc' \in {"idle", "request", "discard"} /\ existing' = 0
    BY <1>0, <1>6 DEF Joining, Cleanup
  <2> QED
    BY <2>1 DEF Joining
<1>7. CASE Discard \/ Single \/ Exit
  <2>1. pc' \in {"idle", "request", "stream"}
    BY <1>7 DEF Discard, Single, RequestBeyond, RequestRest, RequestAll, Chunk, StreamEnd,
                StreamError, Exit
  <2> QED
    BY <2>1 DEF Joining
<1>8. CASE UNCHANGED <<dest, pc, existing, joinVars>>
  BY <1>0, <1>8 DEF Joining, Size
<1>9. \/ Call \/ ClearParts \/ Join \/ Concat \/ ParallelError \/ Cleanup \/ Discard \/ Single \/ Exit
      \/ UNCHANGED <<dest, pc, existing, joinVars>>
  BY DEF Next, Worker, WorkerRequest, WorkerChunk, WorkerEnd, Parallel, Update
<1> QED
  BY <1>1, <1>2, <1>3, <1>4, <1>5, <1>6, <1>7, <1>8, <1>9

\* Only Call begins a parallel download.
LEMMA AllowedStep == IInv /\ [Next]_vars => ParallelAllowed'
<1> SUFFICES ASSUME IInv, [Next]_vars, pc' \in {"clear", "workers", "concat", "cleanup"}
             PROVE  CanParallel
  BY DEF ParallelAllowed, CanParallel
<1>1. Call \/ pc \in {"clear", "workers", "concat", "cleanup"}
  BY DEF vars, Return, Next, Worker, WorkerRequest, WorkerChunk, WorkerEnd, Parallel, ClearParts,
         Join, Concat, ParallelError, Cleanup, Discard, Single, RequestBeyond, RequestRest,
         RequestAll, Chunk, StreamEnd, StreamError, Exit, Update
<1>2. Call => CanParallel
  BY DEF Call
<1> QED
  BY <1>1, <1>2 DEF IInv, ParallelAllowed

\* A response goes on where the file ends.
LEMMA ResumingStep == IInv /\ [Next]_vars => Resuming'
<1> SUFFICES ASSUME IInv, [Next]_vars PROVE Resuming'
  OBVIOUS
<1> USE DEF vars, server, workerVars, joinVars, Return
<1>0. /\ Resuming /\ Joining /\ existing \in Nat /\ next \in Nat \ {0}
      /\ pc \in Pcs /\ dest \in Seq(Bytes) \cup {None} /\ <<>> # None
  <2>1. <<>> \in Seq(Bytes)
    OBVIOUS
  <2> QED
    BY <2>1, NoneAssumption DEF IInv, TypeOK
<1>1. CASE Call
  <2>1. pc' # "stream" /\ existing' = Size(dest) /\ dest' = dest
    BY <1>1 DEF Call
  <2> QED
    BY <2>1 DEF Resuming, Size
<1>2. CASE Cleanup \/ Discard
  BY <1>0, <1>2 DEF Resuming, Joining, Cleanup, Discard
<1>3. CASE RequestRest
  <2>1. pc' = "stream" /\ dest' = dest /\ next' = existing + 1 /\ dest # None /\ Len(dest) = existing
    BY <1>0, <1>3 DEF Resuming, RequestRest
  <2> QED
    BY <1>0, <2>1 DEF Resuming
<1>4. CASE RequestAll
  <2>1. pc' = "stream" /\ dest' = <<>> /\ next' = 1
    BY <1>4 DEF RequestAll
  <2> QED
    BY <1>0, <2>1 DEF Resuming
<1>5. CASE Chunk
  <2>1. /\ pc' = "stream" /\ next' = next + 1 /\ dest' = Append(dest, <<version, next>>)
        /\ dest # None /\ Len(dest) = next - 1
    BY <1>0, <1>5 DEF Resuming, Chunk
  <2>2. dest \in Seq(Bytes) /\ <<version, next>> \in Bytes
    BY <1>0, <2>1 DEF IInv, TypeOK, Bytes
  <2>3. dest' \in Seq(Bytes) /\ Len(dest') = Len(dest) + 1
    BY <2>1, <2>2, AppendType
  <2>4. dest' # None
    BY <2>3, NoneAssumption
  <2> QED
    BY <1>0, <2>1, <2>3, <2>4 DEF Resuming
<1>6. CASE ClearParts \/ Join \/ Concat \/ ParallelError \/ RequestBeyond \/ StreamEnd \/ StreamError \/ Exit
  <2>1. pc' \notin {"request", "stream"}
    BY <1>6 DEF ClearParts, Join, Concat, ParallelError, RequestBeyond, StreamEnd, StreamError, Exit
  <2> QED
    BY <2>1 DEF Resuming
<1>7. CASE UNCHANGED <<dest, pc, existing, next>>
  BY <1>0, <1>7 DEF Resuming
<1>8. \/ Call \/ Cleanup \/ Discard \/ RequestRest \/ RequestAll \/ Chunk
      \/ ClearParts \/ Join \/ Concat \/ ParallelError \/ RequestBeyond \/ StreamEnd \/ StreamError \/ Exit
      \/ UNCHANGED <<dest, pc, existing, next>>
  BY DEF Next, Worker, WorkerRequest, WorkerChunk, WorkerEnd, Parallel, Single, Update
<1> QED
  BY <1>1, <1>2, <1>3, <1>4, <1>5, <1>6, <1>7, <1>8

\* The byte that comes next makes a longer prefix.
LEMMA PrefixGrows ==
  ASSUME NEW s \in Seq(Bytes), IsPrefix(s), Len(s) < SizeOf[1], NEW e \in Bytes, e = <<1, Len(s) + 1>>
  PROVE  IsPrefix(Append(s, e))
<1>1. /\ Len(Append(s, e)) = Len(s) + 1 /\ Append(s, e)[Len(s) + 1] = e
      /\ \A k \in 1..Len(s) : Append(s, e)[k] = s[k]
  BY AppendType
<1>2. Len(s) \in Nat /\ SizeOf[1] \in Nat
  BY VersionAssumption
<1>3. \A k \in 1..Len(Append(s, e)) : Append(s, e)[k] = <<1, k>>
  BY <1>1, <1>2 DEF IsPrefix
<1> QED
  BY <1>1, <1>2, <1>3 DEF IsPrefix

\* What is written to the file goes on where it ends.
LEMMA PrefixStep == IInv /\ [Next]_vars => PrefixKept'
<1> SUFFICES ASSUME IInv, [Next]_vars, version' = 1, dest' # None PROVE IsPrefix(dest')
  BY DEF PrefixKept, IsPrefix
<1> USE DEF vars, server, workerVars, joinVars, Return
<1>0. /\ PrefixKept /\ Resuming /\ Joining /\ next \in Nat \ {0}
      /\ dest \in Seq(Bytes) \cup {None} /\ version = 1
  BY FirstVersion DEF IInv, TypeOK
<1>1. IsPrefix(<<>>)
  BY VersionAssumption DEF IsPrefix
<1>2. CASE Concat /\ cat \in Ranges /\ off < Len(parts[cat])
  <2>1. /\ dest \in Seq(Bytes) /\ parts[cat][off + 1] \in Bytes
        /\ parts[cat][off + 1] = <<1, Len(dest) + 1>> /\ Len(dest) < SizeOf[1]
        /\ dest' = Append(dest, parts[cat][off + 1])
    BY <1>0, <1>2, ConcatType DEF Concat
  <2>2. dest # None /\ IsPrefix(dest)
    BY <1>0, <2>1, NoneAssumption DEF PrefixKept
  <2> QED
    BY <2>1, <2>2, PrefixGrows
<1>3. CASE Chunk
  <2>1. /\ dest # None /\ Len(dest) = next - 1 /\ next <= SizeOf[1]
        /\ dest' = Append(dest, <<version, next>>)
    BY <1>0, <1>3 DEF Resuming, Chunk
  <2>2. dest \in Seq(Bytes) /\ <<version, next>> \in Bytes /\ IsPrefix(dest)
    BY <1>0, <2>1 DEF PrefixKept, IInv, TypeOK, Bytes
  <2>3. <<version, next>> = <<1, Len(dest) + 1>> /\ Len(dest) < SizeOf[1]
    BY <1>0, <2>1, <2>2, VersionAssumption
  <2> QED
    BY <2>1, <2>2, <2>3, PrefixGrows
<1>4. CASE dest' \in {dest, <<>>, None}
  BY <1>0, <1>1, <1>4 DEF PrefixKept
<1>5. (Concat /\ cat \in Ranges /\ off < Len(parts[cat])) \/ Chunk \/ dest' \in {dest, <<>>, None}
  BY DEF Next, Call, Worker, WorkerRequest, WorkerChunk, WorkerEnd, Parallel, ClearParts, Join, Concat,
         ParallelError, Cleanup, Discard, Single, RequestBeyond, RequestRest, RequestAll, Chunk,
         StreamEnd, StreamError, Exit, Update
<1> QED
  BY <1>2, <1>3, <1>4, <1>5
\* The invariant is inductive, from the named step of each of its parts.
LEMMA InductiveStep == IInv /\ [Next]_vars => IInv'
<1>1. IInv /\ [Next]_vars => TypeOK' /\ WorkersDone' /\ PartsRight'
  BY TypeStep, WorkersStep, PartsStep
<1>2. IInv /\ [Next]_vars => Joining' /\ ParallelAllowed' /\ Resuming' /\ PrefixKept'
  BY JoiningStep, AllowedStep, ResumingStep, PrefixStep
<1> QED
  BY <1>1, <1>2 DEF IInv

-----------------------------------------------------------------------------
(* What it gives.                                                           *)

\* IInv holds in every reachable state, whatever the sizes, the settings, the
\* number of calls, of failures and of ends of the process.
THEOREM Invariance == Spec => []IInv
BY InitInvariant, InductiveStep, PTL DEF Spec

\* Every variable keeps to its type.
THEOREM TypeCorrect == Spec => []TypeOK
<1>1. IInv => TypeOK
  BY DEF IInv
<1> QED
  BY Invariance, <1>1, PTL

\* The file is a prefix of the server's first version at every moment.
THEOREM PrefixAlways == Spec => []PrefixKept
<1>1. IInv => PrefixKept
  BY DEF IInv
<1> QED
  BY Invariance, <1>1, PTL

\* A prefix as long as the file is the file.
LEMMA PrefixWhole ==
  ASSUME dest \in Seq(Bytes), IsPrefix(dest), Len(dest) >= SizeOf[1]
  PROVE  dest = Served(1) /\ Len(dest) = SizeOf[1]
<1>1. Len(dest) \in Nat /\ SizeOf[1] \in Nat
  BY VersionAssumption
<1>2. Len(dest) = SizeOf[1] /\ \A k \in 1..SizeOf[1] : dest[k] = <<1, k>>
  BY <1>1 DEF IsPrefix
<1>3. dest = [k \in 1..SizeOf[1] |-> dest[k]]
  BY <1>2
<1> QED
  BY <1>2, <1>3 DEF Served

\* A prefix of the expected size is the start of the file, up to there.
LEMMA PrefixCut ==
  ASSUME dest \in Seq(Bytes), IsPrefix(dest), Len(dest) = Expected
  PROVE  dest = SubSeq(Served(1), 1, Expected)
<1>1. Expected \in Nat /\ SizeOf[1] \in Nat /\ Expected <= SizeOf[1]
  BY VersionAssumption, SettingAssumption DEF IsPrefix
<1>2. Len(Served(1)) = SizeOf[1] /\ \A k \in 1..SizeOf[1] : Served(1)[k] = <<1, k>>
  BY <1>1 DEF Served
<1>3. SubSeq(Served(1), 1, Expected) = [k \in 1..Expected |-> Served(1)[k]]
  BY <1>1
<1>4. \A k \in 1..Expected : k \in 1..SizeOf[1]
  BY <1>1
<1>5. \A k \in 1..Expected : Served(1)[k] = dest[k]
  BY <1>2, <1>4 DEF IsPrefix
<1>6. dest = [k \in 1..Expected |-> dest[k]]
  OBVIOUS
<1> QED
  BY <1>3, <1>5, <1>6

\* Where a call returns without an error, the file is complete, or of the size
\* the caller expected.
LEMMA ReturnStep ==
  ASSUME IInv, Next, version = 1, pc # "idle", pc' = "idle", result' = "ok"
  PROVE  /\ dest' = dest /\ dest # None
         /\ pc # "cleanup" => dest = Served(1) /\ Len(dest) = SizeOf[1]
         /\ pc = "cleanup" => /\ CanParallel /\ Len(dest) = Expected
                              /\ dest = SubSeq(Served(1), 1, Expected)
<1> USE DEF vars, server, workerVars, joinVars, Return
<1>0. /\ Joining /\ Resuming /\ PrefixKept /\ dest \in Seq(Bytes) \cup {None}
      /\ next \in Nat /\ existing \in Nat /\ SizeOf[1] \in Nat
  BY VersionAssumption DEF IInv, TypeOK
<1>1. /\ dest' = dest /\ dest # None
      /\ pc # "cleanup" => Len(dest) >= SizeOf[1]
      /\ pc = "cleanup" => Len(dest) = Expected
  <2>1. CASE Cleanup
    <3>1. pc = "cleanup" /\ joined /\ dest' = dest
      BY <2>1 DEF Cleanup
    <3> QED
      BY <1>0, <3>1 DEF Joining
  <2>2. CASE RequestBeyond
    BY <1>0, <2>2 DEF RequestBeyond, Resuming
  <2>3. CASE StreamEnd
    BY <1>0, <2>3 DEF StreamEnd, Resuming
  <2>4. Cleanup \/ RequestBeyond \/ StreamEnd
    BY DEF Next, Call, Worker, WorkerRequest, WorkerChunk, WorkerEnd, Parallel, ClearParts, Join,
           Concat, ParallelError, Discard, Single, RequestRest, RequestAll, Chunk, StreamError,
           Exit, Update
  <2> QED
    BY <2>1, <2>2, <2>3, <2>4
<1>2. IsPrefix(dest) /\ dest \in Seq(Bytes)
  BY <1>0, <1>1 DEF PrefixKept
<1>3. pc # "cleanup" => dest = Served(1) /\ Len(dest) = SizeOf[1]
  BY <1>1, <1>2, PrefixWhole
<1>4. pc = "cleanup" => CanParallel /\ dest = SubSeq(Served(1), 1, Expected)
  BY <1>1, <1>2, PrefixCut DEF IInv, ParallelAllowed
<1> QED
  BY <1>1, <1>3, <1>4

\* The ranges are those of the loop, whatever the bounds of the property are.
THEOREM SplitAlways == Spec => []SplitIsLoop
<1>1. SplitIsLoop
  <2>1. ASSUME NEW total \in 0..MaxTotal, NEW count \in 1..MaxParts PROVE Splits(total, count)
    <3>1. total \in Nat /\ count \in Nat \ {0}
      BY BoundAssumption
    <3> QED
      BY <3>1, SplitsAll
  <2> QED
    BY <2>1 DEF SplitIsLoop
<1> QED
  BY <1>1, PTL

\* A call that returns without an error leaves the whole first version, or, from
\* parallel ranges, the start of it up to the expected size.
THEOREM WholeWhenReturned == Spec => ReturnedIsWhole
<1> DEFINE whole == IF pc = "cleanup" THEN SubSeq(Served(1), 1, Expected) ELSE Served(1)
           A == version = 1 /\ result # "ok" /\ result' = "ok" => dest' = whole
<1>1. IInv /\ [Next]_vars => [A]_vars
  <2> SUFFICES ASSUME IInv, Next, version = 1, result # "ok", result' = "ok"
               PROVE  dest' = whole
    OBVIOUS
  <2>1. pc # "idle" /\ pc' = "idle"
    BY DEF vars, server, Return, Next, Call, Worker, WorkerRequest, WorkerChunk, WorkerEnd, Parallel,
           ClearParts, Join, Concat, ParallelError, Cleanup, Discard, Single, RequestBeyond,
           RequestRest, RequestAll, Chunk, StreamEnd, StreamError, Exit, Update
  <2> QED
    BY <2>1, ReturnStep
<1> QED
  BY Invariance, <1>1, PTL DEF Spec, ReturnedIsWhole
-----------------------------------------------------------------------------
(* Every step of a call brings it closer to its end.                        *)

\* A response is read into a part as long as the part is short of its range.
LEMMA FitStep == IInv /\ PartsFit /\ [Next]_vars => PartsFit'
<1> SUFFICES ASSUME IInv, PartsFit, [Next]_vars, NEW i \in Ranges, wpc'[i] = "stream"
             PROVE  Len(parts'[i]) <= Length(i)
  BY DEF PartsFit
<1> USE DEF vars, server, workerVars, joinVars, Return
<1>0. /\ wpc \in [Ranges -> WorkerPcs] /\ attempt \in [Ranges -> 1..Retries]
      /\ parts \in [Ranges -> Seq(Bytes) \cup {None}] /\ WorkersDone /\ Length(i) \in Nat
  BY RangesCover DEF IInv, TypeOK
<1>1. ASSUME NEW k \in Ranges, WorkerRequest(k) PROVE Len(parts'[i]) <= Length(i)
  <2>1. CASE k = i
    <3>1. ~Retry(i)
      BY <1>0, <2>1, RetryType
    <3>2. parts'[i] = <<>>
      BY <1>0, <1>1, <2>1, <3>1 DEF WorkerRequest
    <3> QED
      BY <1>0, <3>2
  <2>2. CASE k # i
    <3>1. wpc'[i] = wpc[i]
      BY <1>0, <1>1, <2>2, RetryType DEF WorkerRequest
    <3>2. parts'[i] = parts[i]
      BY <1>0, <1>1, <2>2 DEF WorkerRequest
    <3> QED
      BY <3>1, <3>2 DEF PartsFit
  <2> QED
    BY <2>1, <2>2
<1>2. ASSUME NEW k \in Ranges, WorkerChunk(k) PROVE Len(parts'[i]) <= Length(i)
  <2>0. wpc' = wpc
    BY <1>2 DEF WorkerChunk
  <2>1. CASE k = i
    <3>1. /\ parts[i] \in Seq(Bytes) /\ <<version, WorkerPosition(i)>> \in Bytes
          /\ parts'[i] = Append(parts[i], <<version, WorkerPosition(i)>>)
          /\ Len(parts[i]) < Length(i) /\ Len(parts[i]) \in Nat
      BY <1>2, <2>1, WorkerChunkType
    <3>2. Len(parts'[i]) = Len(parts[i]) + 1
      BY <3>1, AppendType
    <3> QED
      BY <1>0, <3>1, <3>2
  <2>2. CASE k # i
    <3>1. parts'[i] = parts[i]
      BY <1>2, <2>2, WorkerChunkType
    <3> QED
      BY <2>0, <3>1 DEF PartsFit
  <2> QED
    BY <2>1, <2>2
<1>3. ASSUME NEW k \in Ranges, WorkerEnd(k) PROVE Len(parts'[i]) <= Length(i)
  <2>1. wpc'[i] = wpc[i]
    BY <1>0, <1>3, RetryType DEF WorkerEnd
  <2>2. parts' = parts
    BY <1>3 DEF WorkerEnd
  <2> QED
    BY <2>1, <2>2 DEF PartsFit
<1>4. CASE ClearParts \/ Cleanup \/ Exit
  BY <1>4 DEF ClearParts, Cleanup, Exit
<1>5. CASE UNCHANGED <<wpc, parts>>
  BY <1>5 DEF PartsFit
<1>6. \/ \E k \in Ranges : Worker(k)
      \/ ClearParts \/ Cleanup \/ Exit \/ UNCHANGED <<wpc, parts>>
  BY DEF Next, Call, Parallel, Join, Concat, ParallelError, Discard, Single, RequestBeyond,
         RequestRest, RequestAll, Chunk, StreamEnd, StreamError, Update
<1> QED
  BY <1>1, <1>2, <1>3, <1>4, <1>5, <1>6 DEF Worker

\* One attempt is one round of work.
LEMMA Rounds ==
  ASSUME NEW a \in Nat, NEW b \in Nat
  PROVE  a * b \in Nat /\ (a + 1) * b = a * b + b
OBVIOUS

\* A byte more that is there is one less to do.
LEMMA OneLess ==
  ASSUME NEW w \in Nat, NEW l \in Nat, NEW p \in Nat, p < l,
         NEW q, q = p + 1, NEW x, x = w + l - p + 1, NEW y, y = w + l - q + 1
  PROVE  y \in Nat /\ y < x
OBVIOUS

\* What a worker has left is a natural number, and more than nothing before
\* it is through; a failed attempt takes a round of it.
LEMMA WorkLeftType ==
  ASSUME IInv, NEW i \in Ranges, NEW a, a = Retries - attempt[i],
         NEW b, b = Length(i) + 2, NEW w, w = a * b
  PROVE  /\ a \in Nat /\ b \in Nat /\ b >= 2 /\ w \in Nat
         /\ wpc[i] = "start" => WorkLeft(i) = w + b
         /\ wpc[i] = "stream" => WorkLeft(i) = w + Length(i) - Len(parts[i]) + 1
         /\ wpc[i] \in {"ok", "failed", "off"} => WorkLeft(i) = 0
<1>1. a \in Nat /\ b \in Nat /\ b >= 2
  <2>1. attempt[i] \in 1..Retries /\ Retries \in Nat
    BY SettingAssumption DEF IInv, TypeOK
  <2>2. Length(i) \in Nat
    BY RangesCover
  <2> QED
    BY <2>1, <2>2
<1>2. w \in Nat /\ (a + 1) * b = w + b
  BY <1>1, Rounds
<1> QED
  BY <1>1, <1>2 DEF WorkLeft

\* After a failed attempt there is a round less to do.
LEMMA RetryLeft ==
  ASSUME IInv, NEW i \in Ranges, Retry(i), NEW w, w = (Retries - attempt[i]) * (Length(i) + 2)
  PROVE  WorkLeft(i)' \in Nat /\ WorkLeft(i)' <= w
<1> DEFINE a == Retries - attempt[i]
           b == Length(i) + 2
<1>1. /\ wpc \in [Ranges -> WorkerPcs] /\ attempt \in [Ranges -> 1..Retries] /\ Retries \in Nat
      /\ Length(i) \in Nat
  BY SettingAssumption, RangesCover DEF IInv, TypeOK
<1>2. a \in Nat /\ b \in Nat
  BY <1>1
<1>3. CASE attempt[i] < Retries
  <2>1. wpc'[i] = "start" /\ attempt'[i] = attempt[i] + 1
    BY <1>1, <1>3 DEF Retry
  <2>2. WorkLeft(i)' = ((Retries - attempt'[i]) + 1) * (Length(i) + 2)
    BY <2>1 DEF WorkLeft, Length
  <2>3. (Retries - attempt'[i]) + 1 = a
    BY <1>1, <2>1
  <2>4. WorkLeft(i)' = w
    BY <2>2, <2>3
  <2> HIDE DEF a, b
  <2>5. w \in Nat
    BY <1>2, Rounds DEF a, b
  <2> QED
    BY <2>4, <2>5
<1>4. CASE ~(attempt[i] < Retries)
  <2>1. wpc'[i] = "failed"
    BY <1>1, <1>4 DEF Retry
  <2>2. WorkLeft(i)' = 0
    BY <2>1 DEF WorkLeft
  <2> HIDE DEF a, b
  <2>3. w \in Nat
    BY <1>2, Rounds DEF a, b
  <2> QED
    BY <2>2, <2>3
<1> QED
  BY <1>3, <1>4

\* A step of a worker leaves less for it to do.
LEMMA WorkerSinks ==
  ASSUME IInv, PartsFit, NEW i \in Ranges, Worker(i)
  PROVE  Sinks(WorkLeft(i), WorkLeft(i)')
<1> DEFINE a == Retries - attempt[i]
           b == Length(i) + 2
           w == a * b
<1>0. /\ wpc \in [Ranges -> WorkerPcs] /\ attempt \in [Ranges -> 1..Retries]
      /\ parts \in [Ranges -> Seq(Bytes) \cup {None}] /\ Length(i) \in Nat /\ WorkersDone
  BY RangesCover DEF IInv, TypeOK
<1>1. /\ a \in Nat /\ b \in Nat /\ b >= 2 /\ w \in Nat
      /\ wpc[i] = "start" => WorkLeft(i) = w + b
      /\ wpc[i] = "stream" => WorkLeft(i) = w + Length(i) - Len(parts[i]) + 1
  <2> HIDE DEF a, b, w
  <2> QED
    BY WorkLeftType DEF a, b, w
<1>2. Retry(i) => WorkLeft(i)' \in Nat /\ WorkLeft(i)' <= w
  BY RetryLeft
<1>3. wpc[i] = "stream" => Len(parts[i]) \in Nat /\ Len(parts[i]) <= Length(i)
  BY <1>0 DEF PartsFit, WorkersDone
<1>4. ASSUME wpc'[i] = "stream", attempt'[i] = attempt[i]
      PROVE  WorkLeft(i)' = w + Length(i) - Len(parts'[i]) + 1
  BY <1>4 DEF WorkLeft, Length
<1>5. wpc'[i] = "ok" => WorkLeft(i)' = 0
  BY DEF WorkLeft
<1> HIDE DEF a, b, w
<1>6. CASE WorkerRequest(i)
  <2>1. wpc[i] = "start"
    BY <1>6 DEF WorkerRequest
  <2>2. CASE Retry(i)
    BY <1>1, <1>2, <2>1, <2>2 DEF Sinks
  <2>3. CASE ~Retry(i)
    <3>1. wpc'[i] = "stream" /\ attempt'[i] = attempt[i] /\ parts'[i] = <<>>
      BY <1>0, <1>6, <2>3 DEF WorkerRequest
    <3>2. WorkLeft(i)' = w + Length(i) - 0 + 1
      BY <1>4, <3>1
    <3>3. b = Length(i) + 2
      BY DEF b
    <3>4. WorkLeft(i) = w + b /\ w \in Nat /\ Length(i) \in Nat
      BY <1>0, <1>1, <2>1
    <3>5. WorkLeft(i)' \in Nat /\ WorkLeft(i)' < WorkLeft(i)
      BY <3>2, <3>3, <3>4
    <3> QED
      BY <3>5 DEF Sinks
  <2> QED
    BY <2>2, <2>3
<1>7. CASE WorkerChunk(i)
  <2>1. wpc[i] = "stream" /\ wpc'[i] = "stream" /\ attempt'[i] = attempt[i]
    BY <1>7 DEF WorkerChunk, workerVars
  <2>2. /\ parts[i] \in Seq(Bytes) /\ <<version, WorkerPosition(i)>> \in Bytes
        /\ parts'[i] = Append(parts[i], <<version, WorkerPosition(i)>>)
        /\ Len(parts[i]) < Length(i)
    BY <1>7, WorkerChunkType
  <2>3. Len(parts'[i]) = Len(parts[i]) + 1
    BY <2>2, AppendType
  <2>4. WorkLeft(i)' = w + Length(i) - Len(parts'[i]) + 1
    BY <1>4, <2>1
  <2>5. /\ WorkLeft(i) = w + Length(i) - Len(parts[i]) + 1
        /\ w \in Nat /\ Length(i) \in Nat /\ Len(parts[i]) \in Nat
    BY <1>0, <1>1, <1>3, <2>1
  <2>6. WorkLeft(i)' \in Nat /\ WorkLeft(i)' < WorkLeft(i)
    <3>1. Len(parts[i]) < Length(i)
      BY <2>2
    <3> QED
      BY <2>3, <2>4, <2>5, <3>1, OneLess
  <2> QED
    BY <2>6 DEF Sinks
<1>8. CASE WorkerEnd(i)
  <2>1. wpc[i] = "stream"
    BY <1>8 DEF WorkerEnd
  <2>2. CASE Retry(i)
    BY <1>0, <1>1, <1>2, <1>3, <2>1, <2>2 DEF Sinks
  <2>3. CASE ~Retry(i)
    <3>1. wpc'[i] = "ok"
      BY <1>0, <1>8, <2>3 DEF WorkerEnd
    <3> QED
      BY <1>0, <1>1, <1>3, <1>5, <2>1, <3>1 DEF Sinks
  <2> QED
    BY <2>2, <2>3
<1> QED
  BY <1>6, <1>7, <1>8 DEF Worker

\* The other workers are not concerned.
LEMMA WorkerAlone ==
  ASSUME IInv, NEW i \in Ranges, Worker(i), NEW k \in Ranges \ {i}
  PROVE  WorkLeft(k)' = WorkLeft(k)
<1>0. /\ wpc \in [Ranges -> WorkerPcs] /\ attempt \in [Ranges -> 1..Retries]
      /\ parts \in [Ranges -> Seq(Bytes) \cup {None}]
  BY DEF IInv, TypeOK
<1>1. Retry(i) => wpc'[k] = wpc[k] /\ attempt'[k] = attempt[k]
  BY <1>0 DEF Retry
<1>2. wpc'[k] = wpc[k] /\ attempt'[k] = attempt[k] /\ parts'[k] = parts[k]
  BY <1>0, <1>1 DEF Worker, WorkerRequest, WorkerChunk, WorkerEnd, workerVars
<1> QED
  BY <1>2 DEF WorkLeft, Length

\* While the parts are joined, a part or a byte less is left.
LEMMA JoinSinks ==
  ASSUME IInv, Concat, pc' = "concat"
  PROVE  \/ Sinks(PartsLeft, PartsLeft')
         \/ cat' = cat /\ Sinks(Length(cat) - off, Length(cat) - off')
<1>1. /\ pc = "concat" /\ WorkersDone /\ parts \in [Ranges -> Seq(Bytes) \cup {None}]
      /\ cat \in Nat /\ off \in Nat
  BY DEF Concat, IInv, TypeOK
<1>2. cat \in Ranges
  BY <1>1 DEF Concat
<1>3. Len(parts[cat]) = Length(cat) /\ Length(cat) \in Nat
      /\ RangeCount(Expected, Workers) \in Nat /\ cat < RangeCount(Expected, Workers)
  BY <1>1, <1>2, RangesCover DEF WorkersDone
<1>4. CASE off < Len(parts[cat])
  <2>1. cat' = cat /\ off' = off + 1
    BY <1>2, <1>4 DEF Concat
  <2> QED
    BY <1>1, <1>3, <1>4, <2>1 DEF Sinks
<1>5. CASE ~(off < Len(parts[cat]))
  <2>1. cat' = cat + 1
    BY <1>2, <1>5 DEF Concat
  <2>2. PartsLeft' = RangeCount(Expected, Workers) - cat'
    BY DEF PartsLeft
  <2> QED
    BY <1>1, <1>3, <2>1, <2>2 DEF Sinks, PartsLeft
<1> QED
  BY <1>4, <1>5

\* While a response is read, a byte less is left.
LEMMA StreamSinks ==
  ASSUME IInv, Chunk
  PROVE  pc = "stream" /\ pc' = "stream" /\ Sinks(StreamLeft, StreamLeft')
<1>1. /\ pc = "stream" /\ pc' = "stream" /\ version' = version
      /\ next <= SizeOf[version] /\ next' = next + 1
  BY DEF Chunk, server
<1>2. next \in Nat /\ SizeOf[version] \in Nat
  BY VersionAssumption DEF IInv, TypeOK, Versions
<1>3. StreamLeft' = SizeOf[version] - next' + 1
  BY <1>1 DEF StreamLeft
<1> QED
  BY <1>1, <1>2, <1>3 DEF Sinks, StreamLeft

\* Every other step of a call takes it to a later stage.
LEMMA StageSinks ==
  ASSUME IInv, Parallel \/ Single \/ Exit, pc' # pc
  PROVE  Sinks(Stage, Stage')
<1> USE DEF Return
<1>1. \/ pc = "clear" /\ pc' \in {"workers", "cleanup"}
      \/ pc = "workers" /\ pc' \in {"concat", "cleanup"}
      \/ pc = "concat" /\ pc' = "cleanup"
      \/ pc = "cleanup" /\ pc' \in {"discard", "request", "idle"}
      \/ pc = "discard" /\ pc' = "request"
      \/ pc = "request" /\ pc' \in {"stream", "idle"}
      \/ pc = "stream" /\ pc' = "idle"
      \/ pc \in Pcs \ {"idle"} /\ pc' = "idle"
  BY DEF IInv, TypeOK, Parallel, ClearParts, Join, Concat, ParallelError, Cleanup, Discard, Single,
         RequestBeyond, RequestRest, RequestAll, Chunk, StreamEnd, StreamError, Exit
<1> QED
  BY <1>1 DEF Stage, Sinks, Pcs

\* Workers only run while the call waits for them.
LEMMA WorkersStage ==
  ASSUME IInv, NEW i \in Ranges, Worker(i)
  PROVE  pc = "workers" /\ pc' = "workers"
<1>1. wpc[i] \in {"start", "stream"} /\ pc' = pc
  BY DEF Worker, WorkerRequest, WorkerChunk, WorkerEnd
<1> QED
  BY <1>1 DEF IInv, WorkersDone

\* Every step of a call brings it closer to its end.
LEMMA CloserStep ==
  ASSUME IInv, PartsFit, Next, pc # "idle"
  PROVE  Closer \/ Update
<1>1. ASSUME NEW i \in Ranges, Worker(i) PROVE Closer
  BY <1>1, WorkerSinks, WorkerAlone, WorkersStage DEF Closer
<1>2. CASE Concat /\ pc' = "concat"
  <2>1. pc = "concat"
    BY <1>2 DEF Concat
  <2> QED
    BY <1>2, <2>1, JoinSinks DEF Closer
<1>3. CASE Chunk
  BY <1>3, StreamSinks DEF Closer
<1>4. ASSUME Parallel \/ Single \/ Exit, ~(Concat /\ pc' = "concat"), ~Chunk PROVE Closer
  <2>1. pc' # pc
    BY <1>4 DEF Return, Parallel, ClearParts, Join, Concat, ParallelError, Cleanup, Discard, Single,
                RequestBeyond, RequestRest, RequestAll, StreamEnd, StreamError, Exit
  <2> QED
    BY <1>4, <2>1, StageSinks DEF Closer
<1>5. ~Call
  BY DEF Call
<1> QED
  BY <1>1, <1>2, <1>3, <1>4, <1>5 DEF Next

\* Whatever fails, a call has no way to go on for ever: each of its steps
\* leaves less to do, for files of any size and any number of retries.
THEOREM CallAlwaysEnds == Spec => CallEnds
<1> DEFINE A == pc # "idle" => Closer \/ Update
<1>1. Init => PartsFit
  BY DEF Init, PartsFit
<1>2. IInv /\ PartsFit /\ [Next]_vars => PartsFit'
  BY FitStep
<1>3. IInv /\ PartsFit /\ [Next]_vars => [A]_vars
  <2> SUFFICES ASSUME IInv, PartsFit, Next, pc # "idle" PROVE Closer \/ Update
    OBVIOUS
  <2> QED
    BY CloserStep
<1> QED
  BY Invariance, <1>1, <1>2, <1>3, PTL DEF Spec, CallEnds
-----------------------------------------------------------------------------
(* The refinement of FileFetch.                                             *)

\* What FileFetch sees of the file while it is of the first version.
LEMMA Seen ==
  ASSUME IInv, version = 1
  PROVE  /\ dest = None => Have = 0
         /\ dest # None => /\ dest \in Seq(Bytes) /\ IsPrefix(dest)
                           /\ Have = Len(dest) /\ Have \in 0..SizeOf[1]
<1>1. dest # None => dest \in Seq(Bytes) /\ IsPrefix(dest)
  BY DEF IInv, TypeOK, PrefixKept
<1>2. dest # None => Len(dest) \in 0..SizeOf[1]
  BY <1>1, VersionAssumption DEF IsPrefix
<1> QED
  BY <1>1, <1>2 DEF Have

\* Every step is a step of FileFetch, or changes nothing it sees.
LEMMA FetchStep ==
  ASSUME IInv, [Next]_vars
  PROVE  [Fetch!Next]_(Fetch!vars)
<1> USE DEF vars, server, workerVars, joinVars, Return
<1> DEFINE busy == IF version # 1 THEN "replaced" ELSE IF pc = "idle" THEN result ELSE "busy"
<1>0. /\ result \in {"none", "ok", "error"} /\ dest \in Seq(Bytes) \cup {None} /\ SizeOf[1] \in Nat
  BY VersionAssumption DEF IInv, TypeOK
<1>1. Have' = IF version' # 1 \/ dest' = None THEN 0 ELSE IF IsPrefix(dest') THEN Len(dest') ELSE -1
  BY DEF Have, IsPrefix
<1>2. CASE version = 1 /\ version' # 1
  <2>1. Have' = 0 /\ busy # "replaced" /\ busy' = "replaced"
    BY <1>0, <1>1, <1>2
  <2> QED
    BY <2>1 DEF Fetch!Next, Fetch!Replace
<1>3. CASE version # 1
  <2>1. version' # 1
    BY <1>3, FirstVersion
  <2>2. Have = 0 /\ Have' = 0 /\ busy = "replaced" /\ busy' = "replaced"
    BY <1>1, <1>3, <2>1 DEF Have
  <2> QED
    BY <2>2 DEF Fetch!vars
<1>4. CASE version = 1 /\ version' = 1
  <2>1. dest' = dest => Have' = Have
    BY <1>1, <1>4 DEF Have
  <2>2. dest' = <<>> \/ dest' = None => Have' = 0
    <3>1. IsPrefix(<<>>) /\ Len(<<>>) = 0
      BY <1>0 DEF IsPrefix
    <3> QED
      BY <1>1, <1>4, <3>1
  <2>3. ASSUME NEW e, dest' = Append(dest, e), e \in Bytes, e = <<1, Len(dest) + 1>>,
               Len(dest) < SizeOf[1], dest # None
        PROVE  Have < SizeOf[1] /\ Have' = Have + 1
    <3>1. dest \in Seq(Bytes) /\ IsPrefix(dest) /\ Have = Len(dest)
      BY <1>4, <2>3, Seen
    <3>2. IsPrefix(dest') /\ Len(dest') = Len(dest) + 1 /\ dest' \in Seq(Bytes)
      BY <2>3, <3>1, PrefixGrows, AppendType
    <3>3. dest' # None
      BY <3>2, NoneAssumption
    <3> QED
      BY <1>1, <1>4, <2>3, <3>1, <3>2, <3>3
  <2>4. CASE Call
    <3>1. busy \in {"none", "ok", "error"} /\ busy' = "busy" /\ Have' = Have
      BY <1>0, <1>4, <2>1, <2>4 DEF Call
    <3> QED
      BY <3>1 DEF Fetch!Next, Fetch!Call
  <2>5. CASE busy = "busy" /\ busy' = "busy" /\ (dest' = <<>> \/ dest' = None)
    BY <2>2, <2>5 DEF Fetch!Next, Fetch!StartOver
  <2>6. CASE Concat /\ cat \in Ranges /\ off < Len(parts[cat])
    <3>1. /\ dest' = Append(dest, parts[cat][off + 1]) /\ parts[cat][off + 1] \in Bytes
          /\ parts[cat][off + 1] = <<1, Len(dest) + 1>> /\ Len(dest) < SizeOf[1] /\ dest # None
          /\ busy = "busy" /\ busy' = "busy"
      BY <1>4, <2>6, ConcatType, NoneAssumption DEF Concat
    <3>2. Have < SizeOf[1] /\ Have' = Have + 1
      BY <2>3, <3>1
    <3> QED
      BY <3>1, <3>2 DEF Fetch!Next, Fetch!Grow
  <2>7. CASE Chunk
    <3>1. /\ dest' = Append(dest, <<version, next>>) /\ dest # None /\ Len(dest) = next - 1
          /\ next <= SizeOf[1] /\ next \in Nat \ {0} /\ busy = "busy" /\ busy' = "busy"
      BY <1>4, <2>7 DEF IInv, TypeOK, Resuming, Chunk
    <3>2. <<version, next>> \in Bytes
      BY <1>4, <3>1 DEF IInv, TypeOK, Bytes
    <3>3. Len(dest) \in Nat
      BY <1>0, <3>1
    <3>4. <<version, next>> = <<1, Len(dest) + 1>> /\ Len(dest) < SizeOf[1]
      BY <1>0, <1>4, <3>1, <3>3
    <3>5. Have < SizeOf[1] /\ Have' = Have + 1
      BY <2>3, <3>1, <3>2, <3>4
    <3> QED
      BY <3>1, <3>5 DEF Fetch!Next, Fetch!Grow
  <2>8. CASE pc # "idle" /\ pc' = "idle" /\ result' = "ok"
    <3>1. Next
      BY <2>8
    <3>2. /\ dest' = dest /\ dest # None
          /\ Len(dest) = SizeOf[1] \/ (CanParallel /\ Len(dest) = Expected)
      BY <1>4, <2>8, <3>1, ReturnStep
    <3>3. Have = Len(dest) /\ Have' = Have /\ busy = "busy" /\ busy' = "ok"
      BY <1>4, <2>1, <2>8, <3>2, Seen
    <3>4. Have \in {SizeOf[1]} \cup (IF CanParallel THEN {Expected} ELSE {})
      BY <3>2, <3>3
    <3> QED
      BY <3>3, <3>4 DEF Fetch!Next, Fetch!Succeed
  <2>9. CASE pc # "idle" /\ pc' = "idle" /\ result' \in {"error", "none"} /\ dest' = dest
    BY <1>4, <2>1, <2>9 DEF Fetch!Next, Fetch!Fail
  <2>10. CASE dest' = dest /\ busy' = busy
    BY <2>1, <2>10 DEF Fetch!vars
  <2>11. \/ Call
         \/ busy = "busy" /\ busy' = "busy" /\ (dest' = <<>> \/ dest' = None)
         \/ Concat /\ cat \in Ranges /\ off < Len(parts[cat])
         \/ Chunk
         \/ pc # "idle" /\ pc' = "idle" /\ result' = "ok"
         \/ pc # "idle" /\ pc' = "idle" /\ result' \in {"error", "none"} /\ dest' = dest
         \/ dest' = dest /\ busy' = busy
    <3>1. CASE UNCHANGED vars
      BY <3>1
    <3>2. CASE Parallel
      BY <1>4, <3>2 DEF Parallel, ClearParts, Join, Concat, ParallelError, Cleanup, Discard
    <3>3. CASE Single
      BY <1>4, <3>3 DEF Single, RequestBeyond, RequestRest, RequestAll, Chunk, StreamEnd, StreamError
    <3>4. CASE Exit
      BY <3>4 DEF Exit
    <3>5. CASE Update \/ \E i \in Ranges : Worker(i)
      BY <1>4, <3>5 DEF Update, Worker, WorkerRequest, WorkerChunk, WorkerEnd
    <3> QED
      BY <3>1, <3>2, <3>3, <3>4, <3>5 DEF Next
  <2> QED
    BY <2>4, <2>5, <2>6, <2>7, <2>8, <2>9, <2>10, <2>11
<1> QED
  BY <1>2, <1>3, <1>4

\* A download keeps the promises of FileFetch, for files and expected sizes of
\* any size, any number of workers, retries, calls and failures, until the file is replaced.
THEOREM Refinement == Spec => ImplementsFetch
<1>1. Init => Fetch!Init
  BY DEF Init, Fetch!Init, Have
<1>2. IInv /\ [Next]_vars => [Fetch!Next]_(Fetch!vars)
  BY FetchStep
<1> QED
  BY Invariance, <1>1, <1>2, PTL DEF Spec, ImplementsFetch, Fetch!Spec
=============================================================================
