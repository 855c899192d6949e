--------------------------- MODULE TmdRecordsProofs ---------------------------
(***************************************************************************)
(* Proofs about TmdRecords: how the parser reads the records of every       *)
(* well-formed TMD, with any number of contents.                            *)
(***************************************************************************)
EXTENDS TmdRecords, SequenceTheorems, WellFoundedInduction, TLAPS

-----------------------------------------------------------------------------
(* Sums.                                                                    *)

\* Induction over the natural numbers, for a set in place of a predicate:
\* otherwise there were a least number outside of the set.
LEMMA NatSetInduction ==
  ASSUME NEW S, 0 \in S, \A k \in Nat : k \in S => k + 1 \in S
  PROVE  Nat \subseteq S
<1> DEFINE less == OpToRel(<, Nat)
           T == Nat \ S
<1>1. \A j, k \in Nat : j < k => <<j, k>> \in less
  BY DEF OpToRel
<1>2. IsWellFoundedOn(less, Nat)
  BY NatLessThanWellFounded
<1> HIDE DEF less
<1>3. ASSUME T # {} PROVE FALSE
  <2>1. PICK k \in T : \A j \in T : ~(<<j, k>> \in less)
    BY <1>2, <1>3, WFMin
  <2>2. k \in Nat \ {0} /\ k - 1 \in Nat /\ k - 1 < k /\ (k - 1) + 1 = k
    BY <2>1
  <2>3. k - 1 \in T
    BY <2>1, <2>2
  <2> QED
    BY <1>1, <2>1, <2>2, <2>3
<1> QED
  BY <1>3

\* These are the partial sums of f.
Sums(s, n, f) ==
  /\ s \in [0..n -> Int]
  /\ s[0] = 0
  /\ \A k \in 1..n : s[k] = s[k - 1] + f[k]

\* There are partial sums.
LEMMA SumsExist ==
  ASSUME NEW n \in Nat, NEW f \in [1..n -> Int]
  PROVE  \E s : Sums(s, n, f)
<1> DEFINE S == {m \in Nat : m <= n => \E s : Sums(s, m, f)}
<1>1. 0 \in S
  <2>1. Sums([k \in 0..0 |-> 0], 0, f)
    BY DEF Sums
  <2> QED
    BY <2>1
<1>2. ASSUME NEW m \in Nat, m \in S PROVE m + 1 \in S
  <2> SUFFICES ASSUME m + 1 <= n PROVE \E s : Sums(s, m + 1, f)
    OBVIOUS
  <2>1. PICK s : Sums(s, m, f)
    BY <1>2
  <2> DEFINE t == [k \in 0..(m + 1) |-> IF k = m + 1 THEN s[m] + f[m + 1] ELSE s[k]]
  <2>2. f[m + 1] \in Int /\ s \in [0..m -> Int]
    BY <2>1 DEF Sums
  <2>3. t \in [0..(m + 1) -> Int]
    BY <2>2
  <2>4. t[0] = 0
    BY <2>1 DEF Sums
  <2>5. ASSUME NEW k \in 1..(m + 1) PROVE t[k] = t[k - 1] + f[k]
    <3>1. CASE k = m + 1
      <4>1. t[m + 1] = s[m] + f[m + 1] /\ t[m] = s[m]
        OBVIOUS
      <4> QED
        BY <3>1, <4>1
    <3>2. CASE k # m + 1
      <4>1. k \in 1..m /\ k - 1 \in 0..m /\ k - 1 # m + 1
        BY <3>2
      <4>2. t[k] = s[k] /\ t[k - 1] = s[k - 1]
        BY <3>2, <4>1
      <4> QED
        BY <2>1, <4>1, <4>2 DEF Sums
    <3> QED
      BY <3>1, <3>2
  <2>6. Sums(t, m + 1, f)
    <3> HIDE DEF t
    <3> QED
      BY <2>3, <2>4, <2>5 DEF Sums
  <2> QED
    BY <2>6
<1>3. Nat \subseteq S
  <2> HIDE DEF S
  <2> QED
    BY <1>1, <1>2, NatSetInduction
<1> QED
  BY <1>3

\* The sum is the last one of them.
LEMMA SumIsLast ==
  ASSUME NEW n \in Nat, NEW f \in [1..n -> Int]
  PROVE  \E s : Sums(s, n, f) /\ SumTo(n, f) = s[n]
<1> DEFINE t == CHOOSE t : t = [k \in 0..n |-> IF k = 0 THEN 0 ELSE t[k - 1] + f[k]]
<1>1. t = [k \in 0..n |-> IF k = 0 THEN 0 ELSE t[k - 1] + f[k]]
  <2>1. PICK s : Sums(s, n, f)
    BY SumsExist
  <2>2. s = [k \in 0..n |-> IF k = 0 THEN 0 ELSE s[k - 1] + f[k]]
    BY <2>1 DEF Sums
  <2> QED
    BY <2>2
<1>2. SumTo(n, f) = t[n]
  BY DEF SumTo
<1> HIDE DEF t
<1> DEFINE S == {k \in Nat : k <= n => t[k] \in Int}
<1>3. 0 \in S
  BY <1>1
<1>4. ASSUME NEW k \in Nat, k \in S PROVE k + 1 \in S
  <2> SUFFICES ASSUME k + 1 <= n PROVE t[k + 1] \in Int
    OBVIOUS
  <2>1. t[k] \in Int /\ f[k + 1] \in Int
    BY <1>4
  <2>2. t[k + 1] = t[k] + f[k + 1]
    BY <1>1
  <2> QED
    BY <2>1, <2>2
<1>5. Nat \subseteq S
  <2> HIDE DEF S
  <2> QED
    BY <1>3, <1>4, NatSetInduction
<1>6. \A k \in 0..n : t[k] \in Int
  BY <1>5
<1>7. Sums(t, n, f)
  <2>1. t \in [0..n -> Int]
    BY <1>1, <1>6
  <2>2. t[0] = 0 /\ \A k \in 1..n : t[k] = t[k - 1] + f[k]
    BY <1>1
  <2> QED
    BY <2>1, <2>2 DEF Sums
<1> QED
  BY <1>2, <1>7

\* How much larger one sum is than the other, from what every term adds to
\* the difference.
LEMMA SumGap ==
  ASSUME NEW n \in Nat, NEW f \in [1..n -> Int], NEW g \in [1..n -> Int],
         NEW d \in [0..n -> Int], d[0] = 0,
         \A k \in 1..n : f[k] - g[k] <= d[k] - d[k - 1]
  PROVE  /\ SumTo(n, f) \in Int /\ SumTo(n, g) \in Int
         /\ SumTo(n, f) - SumTo(n, g) <= d[n]
<1>1. PICK s : Sums(s, n, f) /\ SumTo(n, f) = s[n]
  BY SumIsLast
<1>2. PICK t : Sums(t, n, g) /\ SumTo(n, g) = t[n]
  BY SumIsLast
<1> DEFINE S == {k \in Nat : k <= n => s[k] - t[k] <= d[k]}
<1>3. 0 \in S
  BY <1>1, <1>2 DEF Sums
<1>4. ASSUME NEW k \in Nat, k \in S PROVE k + 1 \in S
  <2> SUFFICES ASSUME k + 1 <= n PROVE s[k + 1] - t[k + 1] <= d[k + 1]
    OBVIOUS
  <2>1. k + 1 \in 1..n /\ k \in 0..n /\ k + 1 \in 0..n /\ (k + 1) - 1 = k
    OBVIOUS
  <2>2. /\ s[k + 1] = s[k] + f[k + 1] /\ t[k + 1] = t[k] + g[k + 1]
        /\ s[k] \in Int /\ t[k] \in Int
    BY <1>1, <1>2, <2>1 DEF Sums
  <2>3. s[k] - t[k] <= d[k] /\ f[k + 1] - g[k + 1] <= d[k + 1] - d[k]
    BY <1>4, <2>1
  <2>4. f[k + 1] \in Int /\ g[k + 1] \in Int /\ d[k] \in Int /\ d[k + 1] \in Int
    BY <2>1
  <2> HIDE DEF S
  <2>5. \A a, b, c, e, u, v \in Int :
          a - b <= c /\ u - v <= e - c => (a + u) - (b + v) <= e
    OBVIOUS
  <2> QED
    BY <2>2, <2>3, <2>4, <2>5
<1>5. Nat \subseteq S
  <2> HIDE DEF S
  <2> QED
    BY <1>3, <1>4, NatSetInduction
<1> QED
  BY <1>1, <1>2, <1>5 DEF Sums
-----------------------------------------------------------------------------
(* What a record looks like in the file.                                    *)

\* The two lengths, in words.
LEMMA Strides ==
  /\ Stride(36) = 9 /\ HashWords(36) = 5
  /\ Stride(48) = 12 /\ HashWords(48) = 8
BY DEF Stride, HashWords

\* The first half of a word that has an index there.
LEMMA FirstHalf ==
  /\ Half \in Nat \ {0}
  /\ \A index \in Int : index * Half \in Int /\ (index * Half) \div Half = index
BY SMT DEF Half

LEMMA LayoutType ==
  ASSUME NEW layout \in Layouts
  PROVE  /\ Stride(layout) \in {9, 12} /\ Stride(layout) \in Int
         /\ HashWords(layout) = Stride(layout) - 4 /\ HashWords(layout) \in Nat
BY Strides DEF Layouts

\* The records of a well-formed TMD.
LEMMA RecordType ==
  ASSUME NEW tmd, WellFormed(tmd), NEW i \in 1..Len(tmd.records), NEW r, r = tmd.records[i]
  PROVE  /\ r.id \in Int /\ r.id <= MaxId /\ r.index \in Int /\ r.index = i - 1
         /\ r.high \in Nat /\ r.low \in Nat
         /\ r.hash \in [1..HashWords(tmd.layout) -> Nat]
         /\ Reasonable(r)
<1>1. MaxId \in Nat /\ MaxCount \in Nat
  BY SMT DEF MaxId, MaxCount
<1> DEFINE n == HashWords(tmd.layout)
           R == [id : 0..MaxId, index : 0..MaxCount, high : Nat, low : Nat, hash : Words(n)]
<1>2. tmd.records \in Seq(R) /\ r.index = i - 1 /\ Reasonable(r)
  BY DEF WellFormed
<1>3. r \in R
  <2> HIDE DEF R
  <2> QED
    BY <1>2
<1> HIDE DEF n
<1>4. r.id \in 0..MaxId /\ r.index \in 0..MaxCount /\ r.high \in Nat /\ r.low \in Nat
  BY <1>3
<1>5. r.hash \in [1..n -> Nat]
  BY <1>3 DEF Words
<1>6. r.id \in Int /\ r.id <= MaxId /\ r.index \in Int
  BY <1>1, <1>4
<1> QED
  BY <1>2, <1>4, <1>5, <1>6 DEF n

\* The words of a record.
LEMMA WordsType ==
  ASSUME NEW tmd, WellFormed(tmd), NEW i \in 1..Len(tmd.records), NEW r, r = tmd.records[i]
  PROVE  /\ WordsOf(r)[1] = r.id /\ WordsOf(r)[2] = r.index * Half
         /\ WordsOf(r)[3] = r.high /\ WordsOf(r)[4] = r.low
         /\ \A k \in 1..HashWords(tmd.layout) : WordsOf(r)[4 + k] = r.hash[k]
<1> DEFINE n == HashWords(tmd.layout)
           w == r.index * Half
<1>1. /\ r.id \in Int /\ r.index \in Int /\ r.high \in Int /\ r.low \in Int
      /\ r.hash \in [1..n -> Nat]
  BY RecordType
<1>2. n \in Nat
  BY LayoutType DEF WellFormed
<1>3. w \in Int
  BY <1>1, FirstHalf
<1> DEFINE front == <<r.id, w, r.high, r.low>>
<1>4. WordsOf(r) = front \o r.hash
  BY DEF WordsOf
<1> HIDE DEF n, w
<1>5. r.hash \in Seq(Int) /\ Len(r.hash) = n
  <2>1. r.hash \in [1..n -> Int]
    BY <1>1
  <2> QED
    BY <1>2, <2>1
<1>6. front \in Seq(Int) /\ Len(front) = 4
      /\ front[1] = r.id /\ front[2] = w /\ front[3] = r.high /\ front[4] = r.low
  BY <1>1, <1>3
<1> HIDE DEF front
<1>7. \A k \in 1..(4 + n) : WordsOf(r)[k] = IF k <= 4 THEN front[k] ELSE r.hash[k - 4]
  <2>1. \A k \in 1..(Len(front) + Len(r.hash)) :
          (front \o r.hash)[k] = IF k <= Len(front) THEN front[k] ELSE r.hash[k - Len(front)]
    BY <1>5, <1>6, ConcatProperties
  <2> QED
    BY <1>4, <1>5, <1>6, <2>1
<1>8. ASSUME NEW k \in 1..n PROVE WordsOf(r)[4 + k] = r.hash[k]
  <2>1. 4 + k \in 1..(4 + n) /\ ~(4 + k <= 4) /\ (4 + k) - 4 = k
    BY <1>2
  <2> QED
    BY <1>7, <2>1
<1>9. \A k \in {1, 2, 3, 4} : WordsOf(r)[k] = front[k]
  BY <1>2, <1>7
<1> QED
  BY <1>6, <1>8, <1>9 DEF n, w

\* The file.
Encoded(tmd) == Encode(tmd.records, tmd.layout, tmd.trailer)

\* Where word o + 1 of record i is in the file.
LEMMA WordAt ==
  ASSUME NEW tmd, WellFormed(tmd), NEW i \in 1..Len(tmd.records),
         NEW o \in 0..(Stride(tmd.layout) - 1)
  PROVE  Encoded(tmd).words[(i - 1) * Stride(tmd.layout) + o] = WordsOf(tmd.records[i])[o + 1]
<1> DEFINE n == Len(tmd.records)
           t == Len(tmd.trailer)
           S == Stride(tmd.layout)
           k == (i - 1) * S + o
<1>1. n \in Nat /\ t \in Nat /\ i \in 1..n
  BY DEF WellFormed
<1>2. S \in {9, 12}
  BY LayoutType DEF WellFormed
<1>3. k \in 0..(n * S + t - 1) /\ k < n * S /\ (k \div S) + 1 = i /\ k % S = o
  <2> HIDE DEF n, t, S
  <2>1. CASE S = 9
    BY <1>1, <2>1 DEF S
  <2>2. CASE S = 12
    BY <1>1, <2>2 DEF S
  <2> QED
    BY <1>2, <2>1, <2>2
<1>4. Encoded(tmd).words = [j \in 0..(n * S + t - 1) |->
                           IF j < n * S THEN WordsOf(tmd.records[(j \div S) + 1])[(j % S) + 1]
                                        ELSE tmd.trailer[j - n * S + 1]]
  BY DEF Encoded, Encode
<1> HIDE DEF n, t, S, k
<1>5. Encoded(tmd).words[k] = WordsOf(tmd.records[i])[o + 1]
  BY <1>3, <1>4
<1> QED
  BY <1>5 DEF k, S

\* Read in its own layout, a record is the one that was written.
LEMMA ReadBack ==
  ASSUME NEW tmd, WellFormed(tmd), NEW i \in 1..Len(tmd.records), NEW r, r = tmd.records[i],
         NEW read, read = RecordAt(Encoded(tmd).words, i, tmd.layout)
  PROVE  /\ read.id = r.id /\ read.index = r.index /\ read.high = r.high /\ read.low = r.low
         /\ read.hash = r.hash
<1> DEFINE S == Stride(tmd.layout)
           n == HashWords(tmd.layout)
           words == Encoded(tmd).words
           base == (i - 1) * S
<1>1. S \in {9, 12} /\ S \in Int /\ n = S - 4 /\ i \in Int
  <2>1. tmd.layout \in Layouts /\ Len(tmd.records) \in Nat
    BY DEF WellFormed
  <2> QED
    BY <2>1, LayoutType
<1>2. \A o \in 0..(S - 1) : words[base + o] = WordsOf(r)[o + 1]
  BY WordAt
<1>3. base \in Int
  <2>1. i - 1 \in Int /\ S \in Int
    BY <1>1
  <2> QED
    BY <2>1
<1>4. /\ read.id = words[base] /\ read.index = words[base + 1] \div Half
      /\ read.high = words[base + 2] /\ read.low = words[base + 3]
      /\ read.hash = [k \in 1..n |-> words[base + 3 + k]]
  BY DEF RecordAt
<1>5. /\ WordsOf(r)[1] = r.id /\ WordsOf(r)[2] = r.index * Half
      /\ WordsOf(r)[3] = r.high /\ WordsOf(r)[4] = r.low
      /\ \A k \in 1..n : WordsOf(r)[4 + k] = r.hash[k]
  BY WordsType
<1>6. r.index \in Int /\ r.hash \in [1..n -> Nat]
  BY RecordType
<1> HIDE DEF S, n, words, base
<1>7. /\ words[base] = r.id /\ words[base + 1] = r.index * Half
      /\ words[base + 2] = r.high /\ words[base + 3] = r.low
  <2>1. base + 0 = base /\ {0, 1, 2, 3} \subseteq 0..(S - 1)
    BY <1>1, <1>3
  <2>2. /\ words[base + 0] = WordsOf(r)[0 + 1] /\ words[base + 1] = WordsOf(r)[1 + 1]
        /\ words[base + 2] = WordsOf(r)[2 + 1] /\ words[base + 3] = WordsOf(r)[3 + 1]
    BY <1>2, <2>1
  <2> QED
    BY <1>5, <2>1, <2>2
<1>8. read.index = r.index
  <2>1. (r.index * Half) \div Half = r.index
    BY <1>6, FirstHalf
  <2> QED
    BY <1>4, <1>7, <2>1
<1>9. ASSUME NEW k \in 1..n PROVE words[base + 3 + k] = r.hash[k]
  <2>1. 3 + k \in 0..(S - 1) /\ base + (3 + k) = base + 3 + k /\ (3 + k) + 1 = 4 + k
    BY <1>1, <1>3
  <2> QED
    BY <1>2, <1>5, <2>1
<1>10. read.hash = r.hash
  BY <1>4, <1>6, <1>9
<1> QED
  BY <1>4, <1>7, <1>8, <1>10
-----------------------------------------------------------------------------
(* The scores.                                                              *)

\* A record gets at most 7 points, and few without the right index.
LEMMA ScoreBounds ==
  ASSUME NEW r, NEW i, NEW n
  PROVE  /\ ScoreOf(r, i, n) \in Int /\ ScoreOf(r, i, n) <= 7
         /\ r.index # i - 1 => ScoreOf(r, i, n) <= 4
         /\ r.index # i - 1 /\ ~(r.index < n + 16) => ScoreOf(r, i, n) <= 0
BY DEF ScoreOf

\* A well-formed one gets them all, or 6 when it is empty.
LEMMA WrittenScore ==
  ASSUME NEW r, NEW i, NEW n, r.index = i - 1, Reasonable(r), r.id <= MaxId
  PROVE  /\ ScoreOf(r, i, n) >= 6
         /\ ~(r.high = 0 /\ r.low = 0) => ScoreOf(r, i, n) >= 7
BY DEF ScoreOf

\* The records of a reading and their scores.
LEMMA ReadingType ==
  ASSUME NEW tmd, WellFormed(tmd), NEW layout \in Layouts,
         NEW n, n = Len(tmd.records),
         NEW read, read = ParseRecords(Encoded(tmd), layout)
  PROVE  /\ n \in Nat /\ Len(read) = n
         /\ \A i \in 1..n : read[i] = RecordAt(Encoded(tmd).words, i, layout)
         /\ Sample(n) \in Nat /\ Sample(n) <= n /\ Sample(n) <= 12 /\ (n > 12 => Sample(n) = 12)
         /\ (n <= 12 => Sample(n) = n)
         /\ Scores(read) \in [1..Sample(n) -> Int]
         /\ \A i \in 1..Sample(n) : Scores(read)[i] = ScoreOf(read[i], i, n)
         /\ Score(read) = SumTo(Sample(n), Scores(read))
<1>1. n \in Nat
  BY DEF WellFormed
<1>2. read = [i \in 1..n |-> RecordAt(Encoded(tmd).words, i, layout)]
  BY DEF ParseRecords, Encoded, Encode
<1>3. Len(read) = n
  BY <1>1, <1>2
<1>4. Sample(n) \in Nat /\ Sample(n) <= n /\ Sample(n) <= 12 /\ (n > 12 => Sample(n) = 12)
      /\ (n <= 12 => Sample(n) = n)
  BY <1>1 DEF Sample
<1>5. Scores(read) = [i \in 1..Sample(n) |-> ScoreOf(read[i], i, n)]
  BY <1>3 DEF Scores
<1>6. Scores(read) \in [1..Sample(n) -> Int]
  BY <1>5, ScoreBounds
<1>7. Score(read) = SumTo(Sample(n), Scores(read))
  BY <1>3 DEF Score
<1> QED
  BY <1>1, <1>2, <1>3, <1>4, <1>5, <1>6, <1>7

\* How the choice goes.
LEMMA Choice ==
  ASSUME NEW tmd, WellFormed(tmd), NEW s, s = Score(ParseRecords(Encoded(tmd), 36)),
         NEW t, t = Score(ParseRecords(Encoded(tmd), 48)), s \in Int, t \in Int
  PROVE  /\ tmd.layout \in Candidates(Encoded(tmd)) /\ Parses(Encoded(tmd))
         /\ Layout(Encoded(tmd)) \in Candidates(Encoded(tmd)) /\ Layout(Encoded(tmd)) \in {36, 48}
         /\ tmd.layout = 48 /\ t >= s => Layout(Encoded(tmd)) = 48
         /\ tmd.layout = 36 /\ s > t => Layout(Encoded(tmd)) = 36
<1> DEFINE C == Candidates(Encoded(tmd))
           best == CHOOSE a \in C : \A b \in C : Prefers(Encoded(tmd), a, b)
<1>1. tmd.layout \in C
  <2> DEFINE n == Len(tmd.records)
             S == Stride(tmd.layout)
             k == Len(tmd.trailer)
             p == n * S
  <2>1. tmd.layout \in Layouts /\ n \in Nat /\ k \in Nat /\ S \in Int
    BY LayoutType DEF WellFormed
  <2>2. p \in Int
    BY <2>1
  <2>3. Encoded(tmd).length = p + k /\ Encoded(tmd).count = n
    BY DEF Encoded, Encode
  <2> HIDE DEF k, p
  <2>4. Encoded(tmd).length >= p
    BY <2>1, <2>2, <2>3
  <2> HIDE DEF n
  <2> QED
    BY <2>1, <2>3, <2>4 DEF Candidates, p
<1>2. C \subseteq {36, 48}
  BY DEF Candidates, Layouts
<1>3. /\ Prefers(Encoded(tmd), 36, 36) /\ Prefers(Encoded(tmd), 48, 48)
      /\ Prefers(Encoded(tmd), 36, 48) <=> s > t
      /\ Prefers(Encoded(tmd), 48, 36) <=> t >= s
  BY DEF Prefers
<1>4. \E a \in C : \A b \in C : Prefers(Encoded(tmd), a, b)
  <2> HIDE DEF C
  <2>1. CASE 36 \in C /\ s > t
    BY <1>2, <1>3, <2>1
  <2>2. CASE 48 \in C /\ t >= s
    BY <1>2, <1>3, <2>2
  <2>3. CASE C = {36} \/ C = {48}
    BY <1>3, <2>3
  <2>4. C = {36} \/ C = {48} \/ (36 \in C /\ 48 \in C)
    <3>1. ASSUME 36 \notin C PROVE C = {48}
      BY <1>1, <1>2, <3>1
    <3>2. ASSUME 48 \notin C PROVE C = {36}
      BY <1>1, <1>2, <3>2
    <3> QED
      BY <3>1, <3>2
  <2>5. s > t \/ t >= s
    OBVIOUS
  <2> QED
    BY <2>1, <2>2, <2>3, <2>4, <2>5
<1>5. best \in C /\ \A b \in C : Prefers(Encoded(tmd), best, b)
  <2> HIDE DEF C
  <2> QED
    BY <1>4
<1>6. Layout(Encoded(tmd)) = best
  BY DEF Layout
<1> HIDE DEF best, C
<1>7. best \in {36, 48}
  BY <1>2, <1>5
<1>8. tmd.layout = 48 /\ t >= s => best = 48
  <2> SUFFICES ASSUME 48 \in C, t >= s, best = 36 PROVE FALSE
    BY <1>1, <1>7
  <2> QED
    BY <1>3, <1>5
<1>9. tmd.layout = 36 /\ s > t => best = 36
  <2> SUFFICES ASSUME 36 \in C, s > t, best = 48 PROVE FALSE
    BY <1>1, <1>7
  <2> QED
    BY <1>3, <1>5
<1>10. Parses(Encoded(tmd))
  BY <1>1 DEF Parses, C
<1> QED
  BY <1>1, <1>5, <1>6, <1>7, <1>8, <1>9, <1>10 DEF C
-----------------------------------------------------------------------------
(* The wrong readings.                                                      *)

\* The index a reading takes for that of record i, when it lies in record j.
LEMMA IndexAt ==
  ASSUME NEW tmd, WellFormed(tmd), NEW layout \in Layouts, NEW i \in 1..Len(tmd.records),
         NEW j \in 1..Len(tmd.records), NEW o \in 0..(Stride(tmd.layout) - 1),
         (i - 1) * Stride(layout) + 1 = (j - 1) * Stride(tmd.layout) + o,
         NEW read, read = RecordAt(Encoded(tmd).words, i, layout)
  PROVE  /\ o = 1 => read.index = j - 1
         /\ o >= 4 => read.index = tmd.records[j].hash[o - 3] \div Half
<1> DEFINE r == tmd.records[j]
<1>1. read.index = Encoded(tmd).words[(i - 1) * Stride(layout) + 1] \div Half
  BY DEF RecordAt
<1>2. read.index = WordsOf(r)[o + 1] \div Half
  <2>1. Encoded(tmd).words[(j - 1) * Stride(tmd.layout) + o] = WordsOf(r)[o + 1]
    BY WordAt
  <2> QED
    BY <1>1, <2>1
<1>3. Stride(tmd.layout) \in Int /\ HashWords(tmd.layout) = Stride(tmd.layout) - 4
  BY LayoutType DEF WellFormed
<1>4. /\ WordsOf(r)[2] = r.index * Half
      /\ \A k \in 1..HashWords(tmd.layout) : WordsOf(r)[4 + k] = r.hash[k]
  BY WordsType
<1>5. r.index \in Int /\ r.index = j - 1
  BY RecordType
<1> HIDE DEF r
<1>6. ASSUME o = 1 PROVE read.index = j - 1
  <2>1. (r.index * Half) \div Half = r.index
    BY <1>5, FirstHalf
  <2>2. o + 1 = 2
    BY <1>6
  <2> QED
    BY <1>2, <1>4, <1>5, <2>1, <2>2
<1>7. ASSUME o >= 4 PROVE read.index = r.hash[o - 3] \div Half
  <2>1. o - 3 \in 1..HashWords(tmd.layout) /\ 4 + (o - 3) = o + 1
    BY <1>3, <1>7
  <2> QED
    BY <1>2, <1>4, <2>1
<1> QED
  BY <1>6, <1>7 DEF r

\* The first record is the same in both readings.
LEMMA FirstRecord ==
  ASSUME NEW tmd, WellFormed(tmd), Len(tmd.records) >= 1,
         NEW layout \in Layouts, NEW read, read = RecordAt(Encoded(tmd).words, 1, layout),
         NEW r, r = tmd.records[1]
  PROVE  read.id = r.id /\ read.index = r.index /\ read.high = r.high /\ read.low = r.low
<1>1. 1 \in 1..Len(tmd.records)
  BY DEF WellFormed
<1> DEFINE right == RecordAt(Encoded(tmd).words, 1, tmd.layout)
<1>2. right.id = r.id /\ right.index = r.index /\ right.high = r.high /\ right.low = r.low
  BY <1>1, ReadBack
<1>3. (1 - 1) * Stride(tmd.layout) = 0 /\ (1 - 1) * Stride(layout) = 0
  <2>1. Stride(tmd.layout) \in Int /\ Stride(layout) \in Int
    BY LayoutType DEF WellFormed
  <2> QED
    BY <2>1
<1>4. /\ read.id = right.id /\ read.index = right.index
      /\ read.high = right.high /\ read.low = right.low
  BY <1>3 DEF RecordAt
<1> HIDE DEF right
<1> QED
  BY <1>2, <1>4

\* Short records read as long ones score less, if there are two or more.
LEMMA ShortRight ==
  ASSUME NEW tmd, WellFormed(tmd), tmd.layout = 36, ~LooksLong(tmd.records),
         NEW n, n = Len(tmd.records),
         NEW s, s = Score(ParseRecords(Encoded(tmd), 36)),
         NEW t, t = Score(ParseRecords(Encoded(tmd), 48))
  PROVE  s \in Int /\ t \in Int /\ (n >= 2 => s > t)
<1> DEFINE a == ParseRecords(Encoded(tmd), 36)
           b == ParseRecords(Encoded(tmd), 48)
           m == Sample(n)
           f == Scores(b)
           g == Scores(a)
           d == [k \in 0..m |-> IF k = 0 THEN 0 ELSE IF k = 1 THEN 1
                                ELSE IF k = 2 THEN -5 ELSE k - 14]
<1>0. 36 \in Layouts /\ 48 \in Layouts
  BY DEF Layouts
<1>1. /\ n \in Nat
      /\ m \in Nat /\ m <= n /\ m <= 12 /\ (n <= 12 => m = n) /\ (n > 12 => m = 12)
      /\ f \in [1..m -> Int] /\ g \in [1..m -> Int]
      /\ \A i \in 1..n : /\ a[i] = RecordAt(Encoded(tmd).words, i, 36)
                         /\ b[i] = RecordAt(Encoded(tmd).words, i, 48)
      /\ \A i \in 1..m : f[i] = ScoreOf(b[i], i, n) /\ g[i] = ScoreOf(a[i], i, n)
      /\ s = SumTo(m, g) /\ t = SumTo(m, f)
  <2> HIDE DEF d
  <2>1. /\ n \in Nat /\ m \in Nat /\ m <= n /\ m <= 12 /\ (n <= 12 => m = n) /\ (n > 12 => m = 12)
        /\ g \in [1..m -> Int]
        /\ \A i \in 1..n : a[i] = RecordAt(Encoded(tmd).words, i, 36)
        /\ \A i \in 1..m : g[i] = ScoreOf(a[i], i, n)
        /\ s = SumTo(m, g)
    BY <1>0, ReadingType
  <2>2. /\ f \in [1..m -> Int]
        /\ \A i \in 1..n : b[i] = RecordAt(Encoded(tmd).words, i, 48)
        /\ \A i \in 1..m : f[i] = ScoreOf(b[i], i, n)
        /\ t = SumTo(m, f)
    BY <1>0, ReadingType
  <2> HIDE DEF a, b, m, f, g
  <2> QED
    BY <2>1, <2>2
<1>2. ASSUME NEW i \in 1..m PROVE f[i] <= 7 /\ g[i] >= 6
  <2>1. i \in 1..n
    BY <1>1
  <2>2. /\ a[i].id = tmd.records[i].id /\ a[i].index = tmd.records[i].index
        /\ a[i].high = tmd.records[i].high /\ a[i].low = tmd.records[i].low
    BY <1>1, <2>1, ReadBack
  <2>3. a[i].id <= MaxId /\ a[i].index = i - 1 /\ Reasonable(a[i])
    <3> DEFINE r == tmd.records[i]
    <3>1. r.id <= MaxId /\ r.index = i - 1 /\ Reasonable(r)
      <4>1. i \in 1..Len(tmd.records)
        BY <2>1
      <4> HIDE DEF r
      <4> QED
        BY <4>1, RecordType DEF r
    <3>2. Reasonable(a[i]) = Reasonable(r)
      BY <2>2 DEF Reasonable
    <3> QED
      BY <3>1, <3>2, <2>2
  <2>4. g[i] >= 6
    BY <1>1, <2>3, WrittenScore
  <2>5. f[i] <= 7
    BY <1>1, ScoreBounds
  <2> QED
    BY <2>4, <2>5
\* The second and the third one have no index there.
<1>3. ASSUME NEW i \in {2, 3}, i \in 1..m PROVE f[i] <= 0
  <2>1. i \in 1..n /\ n >= i
    BY <1>1, <1>3
  <2>2. Stride(36) = 9 /\ Stride(48) = 12
    BY Strides
  <2>3. b[i].index = tmd.records[i].hash[IF i = 2 THEN 1 ELSE 4] \div Half
    <3> DEFINE o == IF i = 2 THEN 4 ELSE 7
    <3>1. o \in 0..(Stride(tmd.layout) - 1) /\ o >= 4 /\ o - 3 = IF i = 2 THEN 1 ELSE 4
      BY <2>2
    <3>2. (i - 1) * Stride(48) + 1 = (i - 1) * Stride(tmd.layout) + o
      BY <2>2, <1>3
    <3> HIDE DEF o
    <3>3. b[i].index = tmd.records[i].hash[o - 3] \div Half
      BY <1>0, <1>1, <2>1, <3>1, <3>2, IndexAt
    <3> QED
      BY <3>1, <3>3
  <2>4. ~(b[i].index < n + 16)
    BY <1>3, <2>1, <2>3 DEF LooksLong
  <2>5. b[i].index \in Int
    <3>1. tmd.records[i].hash \in [1..5 -> Nat]
      BY <2>1, RecordType, Strides
    <3>2. tmd.records[i].hash[IF i = 2 THEN 1 ELSE 4] \in Nat
      BY <3>1
    <3> QED
      BY <2>3, <3>2, FirstHalf
  <2>6. b[i].index # i - 1
    BY <1>1, <2>1, <2>4, <2>5
  <2>7. ScoreOf(b[i], i, n) <= 0
    BY <2>4, <2>6, ScoreBounds
  <2> QED
    BY <1>1, <1>3, <2>7
<1>4. d \in [0..m -> Int] /\ d[0] = 0
  BY <1>1
<1>5. ASSUME NEW k \in 1..m PROVE f[k] - g[k] <= d[k] - d[k - 1]
  <2>1. f[k] \in Int /\ g[k] \in Int /\ f[k] <= 7 /\ g[k] >= 6
    BY <1>1, <1>2
  <2>2. k \in {2, 3} => f[k] <= 0
    BY <1>3
  <2>3. d[k] - d[k - 1] = IF k \in {2, 3} THEN -6 ELSE 1
    BY <1>1
  <2> HIDE DEF d, f, g
  <2>4. CASE k \in {2, 3}
    BY <2>1, <2>2, <2>3, <2>4
  <2>5. CASE k \notin {2, 3}
    BY <2>1, <2>3, <2>5
  <2> QED
    BY <2>4, <2>5
<1>6. n >= 2 => d[m] < 0
  BY <1>1
<1> HIDE DEF a, b, f, g, d, m
<1>7. s \in Int /\ t \in Int /\ t - s <= d[m]
  <2>1. m \in Nat /\ f \in [1..m -> Int] /\ g \in [1..m -> Int]
    BY <1>1
  <2>2. /\ SumTo(m, f) \in Int /\ SumTo(m, g) \in Int
        /\ SumTo(m, f) - SumTo(m, g) <= d[m]
    BY <1>4, <1>5, <2>1, SumGap
  <2> QED
    BY <1>1, <2>2
<1>8. d[m] \in Int
  BY <1>1, <1>4
<1> QED
  BY <1>6, <1>7, <1>8

\* A long record that is read as a short one has the right index only when the
\* hashes are misleading.
LEMMA ShortIndex ==
  ASSUME NEW tmd, WellFormed(tmd), tmd.layout = 48, ~LooksShort(tmd.records),
         NEW i \in 2..Len(tmd.records), tmd.records[i].high = 0, tmd.records[i].low = 0,
         NEW read, read = RecordAt(Encoded(tmd).words, i, 36)
  PROVE  read.index # i - 1
<1> DEFINE n == Len(tmd.records)
           p == 9 * (i - 1) + 1
           j == (p \div 12) + 1
           o == p % 12
<1>1. n \in Nat /\ i \in 1..n /\ i \in Int /\ i >= 2 /\ i <= n
  BY DEF WellFormed
<1>2. Stride(36) = 9 /\ Stride(48) = 12 /\ HashWords(48) = 8 /\ 36 \in Layouts
  BY Strides DEF Layouts
<1>3. /\ j \in 1..n /\ o \in {1, 4, 7, 10} /\ p = 12 * (j - 1) + o
      /\ o = 1 => j # i
  <2> HIDE DEF n
  <2>1. p \in Nat /\ p < 12 * n
    BY <1>1
  <2>2. j \in 1..n /\ o \in 0..11 /\ p = 12 * (j - 1) + o
    <3> HIDE DEF p
    <3> QED
      BY <1>1, <2>1
  <2>3. o \in {1, 4, 7, 10}
    BY <1>1
  <2>4. o = 1 => j # i
    <3> HIDE DEF j, o
    <3> QED
      BY <1>1, <2>2
  <2> QED
    BY <2>2, <2>3, <2>4
<1>4. (i - 1) * Stride(36) + 1 = (j - 1) * Stride(tmd.layout) + o
  <2> HIDE DEF j, o, n
  <2> QED
    BY <1>1, <1>2, <1>3
<1>5. o \in 0..(Stride(tmd.layout) - 1)
  <2> HIDE DEF o
  <2> QED
    BY <1>2, <1>3
<1> HIDE DEF p, j, o
<1>6. /\ o = 1 => read.index = j - 1
      /\ o >= 4 => read.index = tmd.records[j].hash[o - 3] \div Half
  <2>1. i \in 1..Len(tmd.records) /\ j \in 1..Len(tmd.records) /\ 36 \in Layouts
    BY <1>1, <1>2, <1>3
  <2> HIDE DEF n
  <2> QED
    BY <1>4, <1>5, <2>1, IndexAt
<1>7. CASE o = 1
  <2>1. j # i /\ j \in Int
    BY <1>1, <1>3, <1>7
  <2> QED
    BY <1>1, <1>6, <1>7, <2>1
<1>8. CASE o # 1
  <2>1. o - 3 \in {1, 4, 7} /\ o >= 4
    BY <1>3, <1>8
  <2>2. tmd.records[j].hash[o - 3] \div Half # i - 1
    BY <1>3, <2>1 DEF LooksShort
  <2> QED
    BY <1>6, <2>1, <2>2
<1> QED
  BY <1>7, <1>8

\* Long records read as short ones do not score more.
LEMMA LongRight ==
  ASSUME NEW tmd, WellFormed(tmd), tmd.layout = 48, ~LooksShort(tmd.records),
         NEW s, s = Score(ParseRecords(Encoded(tmd), 36)),
         NEW t, t = Score(ParseRecords(Encoded(tmd), 48))
  PROVE  s \in Int /\ t \in Int /\ t >= s
<1> SUFFICES ASSUME NEW n, n = Len(tmd.records) PROVE s \in Int /\ t \in Int /\ t >= s
  OBVIOUS
<1> DEFINE a == ParseRecords(Encoded(tmd), 36)
           b == ParseRecords(Encoded(tmd), 48)
           m == Sample(n)
           f == Scores(a)
           g == Scores(b)
           d == [k \in 0..m |-> 0]
<1>0. 36 \in Layouts /\ 48 \in Layouts
  BY DEF Layouts
<1>1. /\ n \in Nat
      /\ m \in Nat /\ m <= n
      /\ f \in [1..m -> Int] /\ g \in [1..m -> Int]
      /\ \A i \in 1..n : /\ a[i] = RecordAt(Encoded(tmd).words, i, 36)
                         /\ b[i] = RecordAt(Encoded(tmd).words, i, 48)
      /\ \A i \in 1..m : f[i] = ScoreOf(a[i], i, n) /\ g[i] = ScoreOf(b[i], i, n)
      /\ s = SumTo(m, f) /\ t = SumTo(m, g)
  <2> HIDE DEF d
  <2>1. /\ n \in Nat /\ m \in Nat /\ m <= n
        /\ f \in [1..m -> Int]
        /\ \A i \in 1..n : a[i] = RecordAt(Encoded(tmd).words, i, 36)
        /\ \A i \in 1..m : f[i] = ScoreOf(a[i], i, n)
        /\ s = SumTo(m, f)
    BY <1>0, ReadingType
  <2>2. /\ g \in [1..m -> Int]
        /\ \A i \in 1..n : b[i] = RecordAt(Encoded(tmd).words, i, 48)
        /\ \A i \in 1..m : g[i] = ScoreOf(b[i], i, n)
        /\ t = SumTo(m, g)
    BY <1>0, ReadingType
  <2> HIDE DEF a, b, m, f, g
  <2> QED
    BY <2>1, <2>2
<1>2. ASSUME NEW i \in 1..m PROVE f[i] <= g[i]
  <2>0. i \in 1..n /\ i \in Int /\ f[i] \in Int /\ g[i] \in Int
    BY <1>1
  <2>1. /\ b[i].id = tmd.records[i].id /\ b[i].index = tmd.records[i].index
        /\ b[i].high = tmd.records[i].high /\ b[i].low = tmd.records[i].low
    BY <1>1, <2>0, ReadBack
  <2>2. b[i].id <= MaxId /\ b[i].index = i - 1 /\ Reasonable(b[i])
    <3> DEFINE r == tmd.records[i]
    <3>1. r.id <= MaxId /\ r.index = i - 1 /\ Reasonable(r)
      <4>1. i \in 1..Len(tmd.records)
        BY <2>0
      <4> HIDE DEF r
      <4> QED
        BY <4>1, RecordType DEF r
    <3>2. Reasonable(b[i]) = Reasonable(r)
      BY <2>1 DEF Reasonable
    <3> QED
      BY <3>1, <3>2, <2>1
  <2>3. g[i] >= 6 /\ (~(b[i].high = 0 /\ b[i].low = 0) => g[i] >= 7)
    BY <1>1, <2>2, WrittenScore
  <2>4. f[i] <= 7 /\ (a[i].index # i - 1 => f[i] <= 4)
    BY <1>1, ScoreBounds
  <2>5. CASE i = 1
    <3>1. Len(tmd.records) >= 1 /\ 1 \in 1..n
      BY <1>1, <2>0, <2>5
    <3>2. /\ a[1].id = tmd.records[1].id /\ a[1].index = tmd.records[1].index
          /\ a[1].high = tmd.records[1].high /\ a[1].low = tmd.records[1].low
      <4>1. a[1] = RecordAt(Encoded(tmd).words, 1, 36)
        BY <1>1, <3>1
      <4> HIDE DEF a
      <4> QED
        BY <1>0, <3>1, <4>1, FirstRecord
    <3>3. /\ a[1].id = b[1].id /\ a[1].index = b[1].index
          /\ a[1].high = b[1].high /\ a[1].low = b[1].low
      BY <2>1, <2>5, <3>2
    <3>4. ScoreOf(a[1], 1, n) = ScoreOf(b[1], 1, n)
      BY <3>3 DEF ScoreOf, Reasonable
    <3> QED
      BY <1>1, <2>0, <2>5, <3>4
  <2>6. CASE i # 1 /\ b[i].high = 0 /\ b[i].low = 0
    <3>1. i \in 2..Len(tmd.records)
      BY <1>1, <2>0, <2>6
    <3>2. a[i].index # i - 1
      BY <1>1, <2>0, <2>1, <2>6, <3>1, ShortIndex
    <3> QED
      BY <2>0, <2>3, <2>4, <3>2
  <2>7. CASE ~(b[i].high = 0 /\ b[i].low = 0)
    BY <2>0, <2>3, <2>4, <2>7
  <2> QED
    BY <2>5, <2>6, <2>7
<1>3. /\ d \in [0..m -> Int] /\ d[0] = 0 /\ d[m] = 0
      /\ \A k \in 1..m : d[k] - d[k - 1] = 0
  BY <1>1
<1> HIDE DEF a, b, f, g, d, m
<1>4. \A k \in 1..m : f[k] - g[k] <= d[k] - d[k - 1]
  <2> SUFFICES ASSUME NEW k \in 1..m PROVE f[k] - g[k] <= d[k] - d[k - 1]
    OBVIOUS
  <2>1. f[k] \in Int /\ g[k] \in Int /\ f[k] <= g[k] /\ d[k] - d[k - 1] = 0
    BY <1>1, <1>2, <1>3
  <2> QED
    BY <2>1
<1>5. s \in Int /\ t \in Int /\ s - t <= 0
  <2>1. m \in Nat /\ f \in [1..m -> Int] /\ g \in [1..m -> Int]
    BY <1>1
  <2>2. /\ SumTo(m, f) \in Int /\ SumTo(m, g) \in Int
        /\ SumTo(m, f) - SumTo(m, g) <= d[m]
    BY <1>3, <1>4, <2>1, SumGap
  <2> QED
    BY <1>1, <1>3, <2>2
<1> QED
  BY <1>5
-----------------------------------------------------------------------------
(* The choice.                                                              *)

\* A hash of the same length is kept as it is, and so is one of which the
\* reading has a longer piece.
LEMMA HashPrefix ==
  ASSUME NEW read, NEW r, NEW m \in Nat, NEW n \in Nat, m <= n,
         read.hash \in [1..n -> Nat], r.hash = [k \in 1..m |-> read.hash[k]]
  PROVE  HashKept(read, r)
<1>1. Len(read.hash) = n /\ Len(r.hash) = m /\ read.hash \in Seq(Nat)
  OBVIOUS
<1>2. SubSeq(read.hash, 1, m) = [k \in 1..m |-> read.hash[k]]
  BY <1>1
<1>3. SubSeq(read.hash, 1, m) = r.hash
  BY <1>2
<1> QED
  BY <1>1, <1>3 DEF HashKept

\* A reading of the TMD in its own layout is what was written.
LEMMA OwnLayout ==
  ASSUME NEW tmd, WellFormed(tmd), NEW i \in 1..Len(tmd.records),
         Layout(Encoded(tmd)) = tmd.layout
  PROVE  /\ SameFields(Chosen(Encoded(tmd))[i], tmd.records[i])
         /\ HashKept(Chosen(Encoded(tmd))[i], tmd.records[i])
<1> DEFINE r == tmd.records[i]
           read == Chosen(Encoded(tmd))[i]
           m == HashWords(tmd.layout)
<1>1. read = RecordAt(Encoded(tmd).words, i, tmd.layout)
  <2>1. Chosen(Encoded(tmd)) = ParseRecords(Encoded(tmd), tmd.layout)
    BY DEF Chosen
  <2>2. ParseRecords(Encoded(tmd), tmd.layout)[i] = RecordAt(Encoded(tmd).words, i, tmd.layout)
    BY DEF ParseRecords, Encoded, Encode
  <2> QED
    BY <2>1, <2>2
<1>2. /\ read.id = r.id /\ read.index = r.index /\ read.high = r.high /\ read.low = r.low
      /\ read.hash = r.hash
  BY <1>1, ReadBack
<1>3. m \in Nat /\ r.hash \in [1..m -> Nat]
  BY LayoutType, RecordType DEF WellFormed
<1> HIDE DEF r, read, m
<1>4. read.hash \in [1..m -> Nat] /\ r.hash = [k \in 1..m |-> read.hash[k]]
  BY <1>2, <1>3
<1>6. HashKept(read, r)
  BY <1>3, <1>4, HashPrefix
<1>5. SameFields(read, r)
  BY <1>2 DEF SameFields
<1> QED
  BY <1>5, <1>6 DEF read, r


\* A single short record, read as a long one, has the same fields and a hash
\* that begins with its own.
LEMMA SingleShort ==
  ASSUME NEW tmd, WellFormed(tmd), tmd.layout = 36, Len(tmd.records) = 1,
         48 \in Candidates(Encoded(tmd)), Layout(Encoded(tmd)) = 48
  PROVE  /\ SameFields(Chosen(Encoded(tmd))[1], tmd.records[1])
         /\ HashKept(Chosen(Encoded(tmd))[1], tmd.records[1])
<1> DEFINE words == Encoded(tmd).words
           r == tmd.records[1]
           read == RecordAt(words, 1, 48)
           t == Len(tmd.trailer)
<1>0. Stride(36) = 9 /\ Stride(48) = 12 /\ HashWords(36) = 5 /\ HashWords(48) = 8
      /\ 48 \in Layouts /\ 1 \in 1..Len(tmd.records)
  BY Strides DEF Layouts
<1>1. Chosen(Encoded(tmd))[1] = read
  <2>1. Chosen(Encoded(tmd)) = ParseRecords(Encoded(tmd), 48)
    BY DEF Chosen
  <2>2. ParseRecords(Encoded(tmd), 48)[1] = RecordAt(Encoded(tmd).words, 1, 48)
    BY <1>0 DEF ParseRecords, Encoded, Encode
  <2> QED
    BY <2>1, <2>2
<1>2. read.id = r.id /\ read.index = r.index /\ read.high = r.high /\ read.low = r.low
  <2> HIDE DEF read, r
  <2>1. Len(tmd.records) >= 1
    OBVIOUS
  <2> QED
    BY <1>0, <2>1, FirstRecord DEF read, r
<1>3. r.hash \in [1..5 -> Nat]
  BY <1>0, RecordType
<1>4. ASSUME NEW k \in 1..5 PROVE words[3 + k] = r.hash[k]
  <2>1. 3 + k \in 0..(Stride(tmd.layout) - 1) /\ (3 + k) + 1 = 4 + k
        /\ (1 - 1) * Stride(tmd.layout) + (3 + k) = 3 + k
    BY <1>0
  <2>2. words[3 + k] = WordsOf(r)[4 + k]
    BY <1>0, <2>1, WordAt
  <2>3. WordsOf(r)[4 + k] = r.hash[k]
    BY <1>0, WordsType
  <2> QED
    BY <2>2, <2>3
<1>5. read.hash = [k \in 1..8 |-> words[3 + k]]
  <2>1. (1 - 1) * Stride(48) = 0 /\ \A k \in 1..8 : 0 + 3 + k = 3 + k
    BY <1>0
  <2> QED
    BY <1>0, <2>1 DEF RecordAt
\* The file is long enough, so that the other words are of what follows.
<1>6. \A k \in 6..8 : words[3 + k] \in Nat
  <2>1. t >= 3 /\ t \in Nat /\ tmd.trailer \in Seq(Nat)
    <3>1. t \in Nat /\ tmd.trailer \in Seq(Nat)
      BY DEF WellFormed
    <3>2. Encoded(tmd).length = 1 * 9 + t /\ Encoded(tmd).count = 1
      BY <1>0 DEF Encoded, Encode
    <3>3. Encoded(tmd).length >= 1 * 12
      BY <1>0, <3>2 DEF Candidates
    <3> QED
      BY <3>1, <3>2, <3>3
  <2>2. words = [k \in 0..(9 + t - 1) |->
                   IF k < 9 THEN WordsOf(tmd.records[(k \div 9) + 1])[(k % 9) + 1]
                            ELSE tmd.trailer[k - 9 + 1]]
    BY <1>0 DEF Encoded, Encode
  <2> SUFFICES ASSUME NEW k \in 6..8 PROVE words[3 + k] \in Nat
    OBVIOUS
  <2>3. 3 + k \in 0..(9 + t - 1) /\ ~(3 + k < 9) /\ (3 + k) - 9 + 1 \in 1..t
    BY <2>1
  <2> HIDE DEF words
  <2>4. words[3 + k] = tmd.trailer[(3 + k) - 9 + 1]
    BY <2>2, <2>3
  <2>5. \A q \in 1..t : tmd.trailer[q] \in Nat
    BY <2>1
  <2> QED
    BY <2>3, <2>4, <2>5
<1> HIDE DEF words, read, r
<1>7. read.hash \in [1..8 -> Nat] /\ \A k \in 1..5 : read.hash[k] = r.hash[k]
  BY <1>3, <1>4, <1>5, <1>6
<1>8. HashKept(read, r)
  <2> DEFINE m == 5
             n == 8
  <2>1. m \in Nat /\ n \in Nat /\ m <= n
    OBVIOUS
  <2>2. read.hash \in [1..n -> Nat] /\ r.hash = [k \in 1..m |-> read.hash[k]]
    BY <1>3, <1>7
  <2> HIDE DEF m, n
  <2> QED
    BY <2>1, <2>2, HashPrefix
<1>9. SameFields(read, r)
  BY <1>2 DEF SameFields
<1> QED
  BY <1>1, <1>8, <1>9 DEF r

\* For every well-formed TMD whose hashes are not misleading, with any number of
\* contents, the parser finds the contents that were written.
THEOREM RecordsAreUnderstood ==
  ASSUME NEW tmd, WellFormed(tmd), ~Misleading(tmd)
  PROVE  Understood(tmd)
<1> DEFINE n == Len(tmd.records)
           s == Score(ParseRecords(Encoded(tmd), 36))
           t == Score(ParseRecords(Encoded(tmd), 48))
<1>1. n \in Nat /\ tmd.layout \in {36, 48}
  BY DEF WellFormed, Layouts
<1>2. s \in Int /\ t \in Int /\ (tmd.layout = 48 => t >= s) /\ (tmd.layout = 36 /\ n >= 2 => s > t)
  <2>1. CASE tmd.layout = 36
    <3>1. ~LooksLong(tmd.records)
      BY <2>1 DEF Misleading
    <3> QED
      BY <2>1, <3>1, ShortRight
  <2>2. CASE tmd.layout = 48
    <3>1. ~LooksShort(tmd.records)
      BY <2>2 DEF Misleading
    <3> QED
      BY <2>2, <3>1, LongRight
  <2> QED
    BY <1>1, <2>1, <2>2
<1>3. /\ Parses(Encoded(tmd)) /\ Layout(Encoded(tmd)) \in {36, 48}
      /\ Layout(Encoded(tmd)) \in Candidates(Encoded(tmd))
      /\ tmd.layout = 48 /\ t >= s => Layout(Encoded(tmd)) = 48
      /\ tmd.layout = 36 /\ s > t => Layout(Encoded(tmd)) = 36
  BY <1>2, Choice
<1> HIDE DEF s, t
<1>4. ASSUME NEW i \in 1..n
      PROVE  /\ SameFields(Chosen(Encoded(tmd))[i], tmd.records[i])
             /\ HashKept(Chosen(Encoded(tmd))[i], tmd.records[i])
  <2>1. CASE Layout(Encoded(tmd)) = tmd.layout
    BY <2>1, OwnLayout
  <2>2. CASE Layout(Encoded(tmd)) # tmd.layout
    <3>1. tmd.layout = 36 /\ Layout(Encoded(tmd)) = 48
      BY <1>1, <1>2, <1>3, <2>2
    <3>2. ~(n >= 2)
      BY <1>2, <1>3, <3>1
    <3>3. n = 1 /\ i = 1
      <4> HIDE DEF n
      <4> QED
        BY <1>1, <3>2
    <3>4. 48 \in Candidates(Encoded(tmd))
      BY <1>3, <3>1
    <3> QED
      BY <3>1, <3>3, <3>4, SingleShort
  <2> QED
    BY <2>1, <2>2
<1> QED
  BY <1>2, <1>3, <1>4 DEF Understood, Encoded
=============================================================================
