------------------------------ MODULE TmdRecords ------------------------------
(***************************************************************************)
(* How core/nus/tmd.py reads the content records of a TMD.  The file does   *)
(* not say whether they are 0x24 bytes long, with a SHA-1 hash, or 0x30,    *)
(* with room for a SHA-256 one; the parser reads them both ways and keeps   *)
(* the reading that scores best.                                            *)
(*                                                                          *)
(* A file is the count of its header and the big-endian words of four bytes *)
(* from offset 0xB04 on, 0 being the first.                                 *)
(***************************************************************************)
EXTENDS Integers, Sequences

Half == 65536                \* an index is the first half of a word
MaxId == 16777215            \* 0x00FFFFFF
MaxCount == 65535            \* of two bytes

Layouts == {36, 48}          \* _RECORD_SIZE_CANDIDATES
Stride(layout) == layout \div 4
HashWords(layout) == Stride(layout) - 4

\* The i-th record, read as one of this length.
RecordAt(words, i, layout) ==
  LET base == (i - 1) * Stride(layout) IN
    [id    |-> words[base],
     index |-> words[base + 1] \div Half,
     high  |-> words[base + 2],
     low   |-> words[base + 3],
     hash  |-> [k \in 1..HashWords(layout) |-> words[base + 3 + k]]]

ParseRecords(file, layout) ==
  [i \in 1..file.count |-> RecordAt(file.words, i, layout)]

-----------------------------------------------------------------------------

Reasonable(record) == record.high < 64 \/ (record.high = 64 /\ record.low = 0)

ScoreOf(record, i, count) ==
  (IF record.index = i - 1 THEN 4 ELSE IF record.index < count + 16 THEN 1 ELSE -3)
  + (IF record.high = 0 /\ record.low = 0 THEN 1 ELSE IF Reasonable(record) THEN 2 ELSE -5)
  + (IF record.id <= MaxId THEN 1 ELSE -1)

SumTo(n, f) ==
  LET sum[k \in 0..n] == IF k = 0 THEN 0 ELSE sum[k - 1] + f[k]
  IN  sum[n]

\* At most twelve of the records are looked at.
Sample(count) == IF count < 12 THEN count ELSE 12

Scores(records) == [i \in 1..Sample(Len(records)) |-> ScoreOf(records[i], i, Len(records))]

Score(records) == SumTo(Sample(Len(records)), Scores(records))

Candidates(file) ==
  {layout \in Layouts : file.length >= file.count * Stride(layout)}

\* Of two readings that score alike the longer one comes first.
Prefers(file, a, b) ==
  LET s == Score(ParseRecords(file, a))  t == Score(ParseRecords(file, b))
  IN  s > t \/ (s = t /\ a >= b)

\* _parse, of a file that has a header: TmdError when the records do not fit.
Parses(file) == Candidates(file) # {}

Layout(file) ==
  CHOOSE a \in Candidates(file) : \A b \in Candidates(file) : Prefers(file, a, b)

Chosen(file) == ParseRecords(file, Layout(file))

-----------------------------------------------------------------------------
(* What it has to make of a well-formed TMD.                                *)

WordsOf(record) == <<record.id, record.index * Half, record.high, record.low>> \o record.hash

\* The file with these records in this layout, and what follows them.
Encode(records, layout, trailer) ==
  LET n == Len(records) * Stride(layout)
  IN  [count |-> Len(records),
       length |-> n + Len(trailer),
       words |-> [k \in 0..(n + Len(trailer) - 1) |->
                    IF k < n THEN WordsOf(records[(k \div Stride(layout)) + 1])[(k % Stride(layout)) + 1]
                             ELSE trailer[k - n + 1]]]

Words(n) == [1..n -> Nat]

\* A count is two bytes long, an index too; sizes and ids are what the parser
\* takes for reasonable.
WellFormed(tmd) ==
  /\ tmd.layout \in Layouts
  /\ tmd.trailer \in Seq(Nat)
  /\ Len(tmd.records) \in 0..MaxCount
  /\ tmd.records \in Seq([id : 0..MaxId, index : 0..MaxCount, high : Nat, low : Nat,
                           hash : Words(HashWords(tmd.layout))])
  /\ \A i \in 1..Len(tmd.records) :
       tmd.records[i].index = i - 1 /\ Reasonable(tmd.records[i])

\* Short records: where a long second and third one would have their index,
\* there is a part of a hash that could be one.
LooksLong(records) ==
  LET count == Len(records) IN
    \/ count >= 2 /\ records[2].hash[1] \div Half < count + 16
    \/ count >= 3 /\ records[3].hash[4] \div Half < count + 16

\* Long records: a content is empty, and a part of a hash is its index.
LooksShort(records) ==
  \E i \in 2..Len(records), j \in 1..Len(records), k \in {1, 4, 7} :
    /\ records[i].high = 0 /\ records[i].low = 0
    /\ records[j].hash[k] \div Half = i - 1

Misleading(tmd) == IF tmd.layout = 36 THEN LooksLong(tmd.records) ELSE LooksShort(tmd.records)

\* The fields that name and bound the downloads are the ones that were written.
SameFields(a, b) ==
  a.id = b.id /\ a.index = b.index /\ a.high = b.high /\ a.low = b.low

\* A SHA-1 read in the longer layout keeps its 20 bytes in front, where
\* _process_queue_item looks for them when the SHA-256 does not match.
HashKept(read, written) ==
  Len(read.hash) >= Len(written.hash) /\ SubSeq(read.hash, 1, Len(written.hash)) = written.hash

Understood(tmd) ==
  LET file == Encode(tmd.records, tmd.layout, tmd.trailer) IN
    /\ Parses(file)
    /\ tmd.layout = 48 => Layout(file) = 48
    /\ \A i \in 1..Len(tmd.records) :
         /\ SameFields(Chosen(file)[i], tmd.records[i])
         /\ HashKept(Chosen(file)[i], tmd.records[i])
=============================================================================
