-------------------------- MODULE TitleDownloadProofs --------------------------
(***************************************************************************)
(* Proofs about TitleDownload, for any number of installs of the title, any *)
(* contents, manifest and sizes, and any number of interrupted processes.   *)
(***************************************************************************)
EXTENDS TitleDownload, TLAPS

USE DEF request, ranging, found, history, RangePcs

-----------------------------------------------------------------------------
(* The inductive invariant.                                                 *)

\* The call for f is under way in j.
On(j, f) == pc[j] \in FetchPcs /\ Cur(j) = f

\* Where the file is open.
OpenPcs == {"join", "stream"}

USE DEF OpenPcs

\* Whoever works on a file has one, what is open exists unless unlinked, and
\* ranges are for files of a known size that were not there.
ShapeInv ==
  \A j \in Jobs :
    /\ pc[j] \in {"stat", "fetched", "failed"} \cup FetchPcs => todo[j] # <<>>
    /\ pc[j] \in OpenPcs /\ j \notin loose => files[Cur(j)] # None
    /\ pc[j] \notin OpenPcs => next[j] = 1 /\ j \notin loose
    /\ pc[j] \notin RangePcs => done[j] = {}
    /\ pc[j] \in RangePcs => Expected[Cur(j)] >= ParallelMin /\ existing[j] = 0
    /\ pc[j] = "join" => done[j] = RangesOf(Cur(j))

\* The ranges whose workers are through are in their parts.
InParts(j) == \A k \in done[j] : k \in parts[Cur(j)] /\ k <= SizeOf[Cur(j)]

\* One call at a time works on an unspoiled file, and knows how long it is.
CallInv ==
  \A j \in Jobs : pc[j] \in FetchPcs /\ Cur(j) \notin spoiled =>
    /\ j \notin loose
    /\ \A i \in Jobs : On(i, Cur(j)) => i = j
    /\ pc[j] = "request" /\ existing[j] > 0 => existing[j] = Len0(files[Cur(j)])
    /\ pc[j] \in OpenPcs => next[j] = Len(files[Cur(j)]) + 1
    /\ pc[j] \in RangePcs => InParts(j)

FileInv == TypeOK /\ ShapeInv /\ CallInv /\ UnspoiledIsPrefix

-----------------------------------------------------------------------------
(* Sequences and files.                                                     *)

LEMMA Heads ==
  ASSUME NEW S, NEW s \in Seq(S), s # <<>>
  PROVE  /\ Head(s) \in S /\ Head(s) = s[1] /\ Tail(s) \in Seq(S)
         /\ Len(s) \in Nat \ {0} /\ Len(Tail(s)) = Len(s) - 1
         /\ \A i \in 1..Len(Tail(s)) : Tail(s)[i] = s[i + 1]
  OBVIOUS

LEMMA ServedType ==
  ASSUME NEW f \in Files
  PROVE  /\ SizeOf[f] \in Nat \ {0}
         /\ Served(f) \in Seq(Data) /\ Len(Served(f)) = SizeOf[f]
         /\ \A k \in 1..SizeOf[f] : Served(f)[k] = k
  <1>1. SizeOf[f] \in Nat \ {0} BY SizeAssumption
  <1>2. \A k \in 1..SizeOf[f] : k \in Data BY <1>1 DEF Data
  <1> QED BY <1>1, <1>2 DEF Served

LEMMA FakeType == FakeTicket \in Seq(Data) /\ None \notin Seq(Data)
  <1>1. FakeSize \in Nat /\ Fake \in Data BY SizeAssumption DEF Fake, Data
  <1> QED BY <1>1, NoneAssumption DEF FakeTicket

LEMMA EmptyFile == <<>> \in Seq(Data) /\ <<>> # None /\ Len(<<>>) = 0
  <1>1. <<>> \in Seq(Data) /\ Len(<<>>) = 0 OBVIOUS
  <1> QED BY <1>1, NoneAssumption

LEMMA PutType ==
  ASSUME NEW file \in Seq(Data), NEW k \in Nat \ {0}, NEW block \in Data
  PROVE  Put(file, k, block) \in Seq(Data)
  <1> DEFINE n == IF k > Len(file) THEN k ELSE Len(file)
             At(i) == IF i = k THEN block ELSE IF i <= Len(file) THEN file[i] ELSE Hole
  <1>1. n \in Nat OBVIOUS
  <1>2. \A i \in 1..n : At(i) \in Data
    <2>1. Hole \in Data BY DEF Data
    <2>2. \A i \in 1..Len(file) : file[i] \in Data OBVIOUS
    <2> QED BY <1>1, <2>1, <2>2
  <1>3. Put(file, k, block) = [i \in 1..n |-> At(i)] BY DEF Put
  <1> HIDE DEF n, At
  <1> QED BY <1>1, <1>2, <1>3

\* The next block of a prefix makes a prefix.
LEMMA PutNext ==
  ASSUME NEW f \in Files, NEW file \in Seq(Data), IsPrefix(file, f), Len(file) < SizeOf[f]
  PROVE  LET longer == Put(file, Len(file) + 1, Len(file) + 1) IN
           IsPrefix(longer, f) /\ Len(longer) = Len(file) + 1
  <1> DEFINE longer == Put(file, Len(file) + 1, Len(file) + 1)
  <1>1. longer = [i \in 1..(Len(file) + 1) |->
                    IF i = Len(file) + 1 THEN Len(file) + 1
                    ELSE IF i <= Len(file) THEN file[i] ELSE Hole]
    BY DEF Put
  <1>2. Len(longer) = Len(file) + 1 BY <1>1
  <1>3. \A i \in 1..(Len(file) + 1) : longer[i] = i BY <1>1 DEF IsPrefix
  <1>4. SizeOf[f] \in Nat BY ServedType
  <1>5. IsPrefix(longer, f)
    <2> HIDE DEF longer
    <2> QED BY <1>2, <1>3, <1>4 DEF IsPrefix
  <1> QED BY <1>2, <1>5

LEMMA CurType ==
  ASSUME FileInv, NEW j \in Jobs, pc[j] \in {"stat", "fetched", "failed"} \cup FetchPcs
  PROVE  /\ Cur(j) \in Files /\ Rest(j) \in Seq(Files)
         /\ SizeOf[Cur(j)] \in Nat \ {0}
         /\ files[Cur(j)] \in Seq(Data) \cup {None}
         /\ todo[j] \in Seq(Files) /\ todo[j] # <<>>
  <1>1. todo[j] \in Seq(Files) /\ todo[j] # <<>> BY DEF FileInv, TypeOK, ShapeInv
  <1>2. Cur(j) \in Files /\ Rest(j) \in Seq(Files) BY <1>1, Heads DEF Cur, Rest
  <1> QED BY <1>1, <1>2, ServedType DEF FileInv, TypeOK

-----------------------------------------------------------------------------
(* What the steps of a call do.                                             *)

\* A caller may take the file for all of the server's.
Settled(file, f) == file # None /\ Len(file) \in MaySettleFor(f)

\* The call is over.  A file it says it has is settled, unless spoiled.
Ended(j) ==
  /\ pc[j] \in FetchPcs
  /\ UNCHANGED <<phase, info, ticket, fake, spoiled, alone>>
  /\ existing' = [existing EXCEPT ![j] = 0]
  /\ next' = [next EXCEPT ![j] = 1]
  /\ appending' = [appending EXCEPT ![j] = FALSE]
  /\ \E end \in {"ok", "error"} : call' = Marked(end, Cur(j), spoiled)
  /\ IF phase[j] = "metadata"
       THEN /\ todo' = [todo EXCEPT ![j] = Rest(j)]
            /\ pc' = [pc EXCEPT ![j] = IF Rest(j) = <<>> THEN "parse" ELSE "stat"]
            /\ \/ have' = have
               \/ /\ have' = [have EXCEPT ![j] = @ \cup {Cur(j)}]
                  /\ Cur(j) \notin spoiled => Settled(files'[Cur(j)], Cur(j))
       ELSE /\ UNCHANGED <<have, todo>>
            /\ \/ pc' = [pc EXCEPT ![j] = "failed"]
               \/ /\ pc' = [pc EXCEPT ![j] = "fetched"]
                  /\ Cur(j) \notin spoiled => Settled(files'[Cur(j)], Cur(j))

\* It goes on.
Works(j, l) ==
  /\ pc[j] \in {"stat"} \cup FetchPcs
  /\ pc' = [pc EXCEPT ![j] = l]
  /\ UNCHANGED <<phase, todo, found, alone>>

LEMMA EndStep ==
  ASSUME NEW j \in Jobs, pc[j] \in FetchPcs, NEW ok \in BOOLEAN, End(j, ok),
         ok /\ Cur(j) \notin spoiled => Settled(files'[Cur(j)], Cur(j))
  PROVE  Ended(j)
  BY DEF End, Ended, Advance, Goto, Forget

\* A call that finds the file long enough has all of it.
LEMMA FinishStep ==
  ASSUME NEW j \in Jobs, pc[j] \in FetchPcs, NEW size, Finish(j, size),
         Cur(j) \notin spoiled => Settled(files'[Cur(j)], Cur(j))
  PROVE  \/ Ended(j)
         \/ /\ Works(j, "small") /\ phase[j] = "metadata" /\ UNCHANGED <<call, spoiled>>
            /\ next' = [next EXCEPT ![j] = 1]
            /\ existing' = [existing EXCEPT ![j] = 0]
            /\ appending' = [appending EXCEPT ![j] = FALSE]
  <1>1. CASE TooSmall(j, size) BY <1>1 DEF Finish, TooSmall, Works, Forget, Goto
  <1>2. CASE ~TooSmall(j, size) BY <1>2, EndStep DEF Finish
  <1> QED BY <1>1, <1>2

\* The file is complete where a single stream succeeds.
LEMMA Complete ==
  ASSUME FileInv, NEW j \in Jobs, Cur(j) \notin spoiled,
         \/ pc[j] = "request" /\ existing[j] > 0 /\ existing[j] >= SizeOf[Cur(j)]
         \/ pc[j] = "stream" /\ next[j] > SizeOf[Cur(j)]
  PROVE  Len(files[Cur(j)]) = SizeOf[Cur(j)] /\ Settled(files[Cur(j)], Cur(j))
  <1>1. /\ Cur(j) \in Files /\ files[Cur(j)] \in Seq(Data) \cup {None}
        /\ SizeOf[Cur(j)] \in Nat \ {0}
    BY CurType DEF FetchPcs
  <1>2. files[Cur(j)] # None /\ Len(files[Cur(j)]) >= SizeOf[Cur(j)]
    <2>1. CASE pc[j] = "request" /\ existing[j] > 0 /\ existing[j] >= SizeOf[Cur(j)]
      <3>1. existing[j] = Len0(files[Cur(j)]) BY <2>1 DEF FileInv, CallInv, FetchPcs
      <3> QED BY <1>1, <2>1, <3>1 DEF Len0
    <2>2. CASE pc[j] = "stream" /\ next[j] > SizeOf[Cur(j)]
      <3>1. j \notin loose /\ next[j] = Len(files[Cur(j)]) + 1
        BY <2>2 DEF FileInv, CallInv, FetchPcs
      <3>2. files[Cur(j)] # None BY <2>2, <3>1 DEF FileInv, ShapeInv
      <3> QED BY <1>1, <2>2, <3>1, <3>2
    <2> QED BY <2>1, <2>2
  <1>3. IsPrefix(files[Cur(j)], Cur(j)) BY <1>1, <1>2 DEF FileInv, UnspoiledIsPrefix
  <1>4. Len(files[Cur(j)]) = SizeOf[Cur(j)] BY <1>1, <1>2, <1>3 DEF IsPrefix
  <1> QED BY <1>2, <1>4 DEF Settled, MaySettleFor

\* What is left of an unspoiled file is a prefix, and j knows how long it is.
OwnFile(j) ==
  Cur(j) \notin spoiled' =>
    /\ files'[Cur(j)] # None => IsPrefix(files'[Cur(j)], Cur(j))
    /\ j \notin loose'
    /\ pc'[j] = "request" /\ existing'[j] > 0 => existing'[j] = Len0(files'[Cur(j)])
    /\ pc'[j] \in OpenPcs => next'[j] = Len(files'[Cur(j)]) + 1
    /\ pc'[j] \in RangePcs =>
         \A k \in done'[j] : k \in parts'[Cur(j)] /\ k <= SizeOf[Cur(j)]

\* The ranges of j after it.
OwnRanges(j) ==
  /\ pc'[j] \notin RangePcs => done'[j] = {}
  /\ pc'[j] \in RangePcs => Expected[Cur(j)] >= ParallelMin /\ existing'[j] = 0
  /\ pc'[j] = "join" => done'[j] = RangesOf(Cur(j))

\* What the other jobs and the other files see of it.
Elsewhere(j) ==
  /\ \A f \in Files : f # Cur(j) => files'[f] = files[f] /\ parts'[f] = parts[f]
  /\ spoiled \subseteq spoiled' /\ spoiled' \subseteq spoiled \cup {Cur(j)}
  /\ \A i \in Jobs \ {j} :
       /\ existing'[i] = existing[i] /\ next'[i] = next[i] /\ done'[i] = done[i]
       /\ On(i, Cur(j)) /\ pc[j] = "stat" => Cur(j) \in spoiled'
       /\ i \in loose' => i \in loose \/ (pc[i] \in OpenPcs /\ Cur(i) = Cur(j))
       /\ pc[i] \in OpenPcs /\ i \notin loose' => files'[Cur(i)] # None

FileStep(j) ==
  /\ Elsewhere(j)
  /\ OwnFile(j) /\ OwnRanges(j)
  /\ pc'[j] \notin OpenPcs => next'[j] = 1 /\ j \notin loose'
  /\ pc'[j] \in OpenPcs /\ j \notin loose' => files'[Cur(j)] # None
  /\ (\E l \in FetchPcs : Works(j, l)) \/ Ended(j)

\* What is known before a step of a call.
LEMMA Before ==
  ASSUME FileInv, NEW j \in Jobs, pc[j] \in {"stat"} \cup FetchPcs
  PROVE  /\ Cur(j) \in Files /\ SizeOf[Cur(j)] \in Nat \ {0}
         /\ files[Cur(j)] \in Seq(Data) \cup {None}
         /\ \A i \in Jobs : pc[i] \in OpenPcs =>
              Cur(i) \in Files /\ (i \notin loose => files[Cur(i)] # None)
         /\ Cur(j) \notin spoiled /\ files[Cur(j)] # None => IsPrefix(files[Cur(j)], Cur(j))
         /\ Cur(j) \notin spoiled /\ pc[j] \in FetchPcs =>
              /\ j \notin loose
              /\ \A i \in Jobs \ {j} : ~On(i, Cur(j))
              /\ pc[j] = "request" /\ existing[j] > 0 => existing[j] = Len0(files[Cur(j)])
              /\ pc[j] \in OpenPcs => next[j] = Len(files[Cur(j)]) + 1
              /\ pc[j] \in RangePcs => InParts(j)
         /\ pc[j] \notin OpenPcs => next[j] = 1 /\ j \notin loose
         /\ pc[j] \notin RangePcs => done[j] = {}
         /\ pc[j] \in RangePcs => Expected[Cur(j)] >= ParallelMin /\ existing[j] = 0
         /\ pc[j] = "join" => done[j] = RangesOf(Cur(j))
         /\ Expected[Cur(j)] \in Nat /\ ParallelMin \in Nat \ {0}
  <1> TypeOK /\ ShapeInv /\ CallInv /\ UnspoiledIsPrefix BY DEF FileInv
  <1>1. /\ Cur(j) \in Files /\ SizeOf[Cur(j)] \in Nat \ {0}
        /\ files[Cur(j)] \in Seq(Data) \cup {None}
    BY CurType
  <1>2. \A i \in Jobs : pc[i] \in OpenPcs =>
          Cur(i) \in Files /\ (i \notin loose => files[Cur(i)] # None)
    BY CurType DEF ShapeInv, FetchPcs
  <1>3. Cur(j) \notin spoiled /\ files[Cur(j)] # None => IsPrefix(files[Cur(j)], Cur(j))
    BY <1>1 DEF UnspoiledIsPrefix
  <1>4. Cur(j) \notin spoiled /\ pc[j] \in FetchPcs =>
          /\ j \notin loose
          /\ \A i \in Jobs \ {j} : ~On(i, Cur(j))
          /\ pc[j] = "request" /\ existing[j] > 0 => existing[j] = Len0(files[Cur(j)])
          /\ pc[j] \in OpenPcs => next[j] = Len(files[Cur(j)]) + 1
          /\ pc[j] \in RangePcs => InParts(j)
    BY DEF CallInv
  <1>5. /\ pc[j] \notin OpenPcs => next[j] = 1 /\ j \notin loose
        /\ pc[j] \notin RangePcs => done[j] = {}
        /\ pc[j] \in RangePcs => Expected[Cur(j)] >= ParallelMin /\ existing[j] = 0
        /\ pc[j] = "join" => done[j] = RangesOf(Cur(j))
    BY DEF ShapeInv
  <1> QED BY <1>1, <1>2, <1>3, <1>4, <1>5, SizeAssumption

\* The parts of one file are removed, others are not.
LEMMA ClearStep ==
  ASSUME TypeOK, NEW f \in Files, ClearParts(f)
  PROVE  /\ parts' \in [Files -> SUBSET Nat]
         /\ \A g \in Files : g # f => parts'[g] = parts[g]
  BY DEF ClearParts, TypeOK

\* A write at the end of an unspoiled file.
LEMMA WriteStep ==
  ASSUME FileInv, NEW j \in Jobs, pc[j] \in OpenPcs, Cur(j) \notin spoiled,
         next[j] <= SizeOf[Cur(j)],
         files'[Cur(j)] = Put(files[Cur(j)], Len(files[Cur(j)]) + 1, next[j])
  PROVE  /\ files[Cur(j)] \in Seq(Data) /\ Len(files[Cur(j)]) < SizeOf[Cur(j)]
         /\ IsPrefix(files'[Cur(j)], Cur(j)) /\ Len(files'[Cur(j)]) = next[j]
  <1>1. pc[j] \in FetchPcs BY DEF FetchPcs
  <1>2. j \notin loose /\ next[j] = Len(files[Cur(j)]) + 1 BY <1>1, Before
  <1>3. files[Cur(j)] \in Seq(Data) /\ IsPrefix(files[Cur(j)], Cur(j))
    BY <1>1, <1>2, Before
  <1>4. Len(files[Cur(j)]) < SizeOf[Cur(j)] BY <1>1, <1>2, <1>3, Before
  <1> QED BY <1>1, <1>2, <1>3, <1>4, Before, PutNext

\* The steps of _download_parallel_ranges.
LEMMA RangeSteps ==
  ASSUME FileInv, NEW j \in Jobs, Ranging(j)
  PROVE  FileStep(j)
  <1> TypeOK BY DEF FileInv
  <1>1. pc[j] \in RangePcs /\ pc[j] \in FetchPcs
    BY DEF Ranging, JoinOpen, JoinPart, JoinEnd, RangesFail, FetchPcs
  <1>2. /\ Cur(j) \in Files /\ SizeOf[Cur(j)] \in Nat \ {0}
        /\ files[Cur(j)] \in Seq(Data) \cup {None}
        /\ \A i \in Jobs : pc[i] \in OpenPcs =>
             Cur(i) \in Files /\ (i \notin loose => files[Cur(i)] # None)
        /\ Cur(j) \notin spoiled /\ files[Cur(j)] # None => IsPrefix(files[Cur(j)], Cur(j))
        /\ Cur(j) \notin spoiled =>
             /\ j \notin loose
             /\ \A i \in Jobs \ {j} : ~On(i, Cur(j))
             /\ pc[j] \in OpenPcs => next[j] = Len(files[Cur(j)]) + 1
             /\ InParts(j)
        /\ pc[j] = "ranges" => next[j] = 1 /\ j \notin loose
        /\ Expected[Cur(j)] >= ParallelMin /\ existing[j] = 0
        /\ pc[j] = "join" => done[j] = RangesOf(Cur(j))
        /\ Expected[Cur(j)] \in Nat /\ ParallelMin \in Nat \ {0}
    BY <1>1, Before
  <1>3. pc[j] # "stat" BY <1>1
  <1> USE DEF FileStep, Elsewhere, OwnFile, OwnRanges
  <1>4. ASSUME NEW k \in RangesOf(Cur(j)), RangeTry(j, k) \/ RangeDone(j, k)
        PROVE  FileStep(j)
    <2>1. /\ pc[j] = "ranges" /\ pc'[j] = "ranges" /\ Works(j, "ranges") /\ k \notin done[j]
          /\ UNCHANGED <<files, existing, next, loose, spoiled>>
      BY <1>1, <1>4 DEF RangeTry, RangeDone, Works, TypeOK
    <2>2. \A f \in Files : f # Cur(j) => parts'[f] = parts[f]
      BY <1>4 DEF RangeTry, RangeDone, TypeOK
    <2>3. \A i \in Jobs \ {j} : done'[i] = done[i]
      BY <1>4 DEF RangeTry, RangeDone, TypeOK
    <2>4. Cur(j) \notin spoiled => \A m \in done'[j] : m \in parts'[Cur(j)] /\ m <= SizeOf[Cur(j)]
      <3>1. CASE RangeTry(j, k)
        <4>1. parts'[Cur(j)] = parts[Cur(j)] \ {k} /\ done' = done
          BY <1>2, <3>1 DEF RangeTry, TypeOK
        <4> QED BY <1>2, <2>1, <4>1 DEF InParts
      <3>2. CASE RangeDone(j, k)
        <4>1. /\ parts'[Cur(j)] = parts[Cur(j)] \cup {k} /\ done'[j] = done[j] \cup {k}
              /\ k <= SizeOf[Cur(j)]
          BY <1>2, <3>2 DEF RangeDone, TypeOK
        <4> QED BY <1>2, <4>1 DEF InParts
      <3> QED BY <1>4, <3>1, <3>2
    <2>5. \E l \in FetchPcs : Works(j, l) BY <2>1 DEF FetchPcs
    <2> QED BY <1>2, <1>3, <2>1, <2>2, <2>3, <2>4, <2>5
  <1>5. CASE JoinOpen(j)
    <2>1. /\ pc[j] = "ranges" /\ pc'[j] = "join" /\ Works(j, "join")
          /\ done[j] = RangesOf(Cur(j))
          /\ UNCHANGED <<parts, done, existing, next, loose, spoiled>>
      BY <1>1, <1>5 DEF JoinOpen, Works, Goto, TypeOK
    <2>2. files'[Cur(j)] = <<>> /\ \A f \in Files : f # Cur(j) => files'[f] = files[f]
      BY <1>2, <1>5 DEF JoinOpen, TypeOK
    <2>3. files'[Cur(j)] # None /\ IsPrefix(files'[Cur(j)], Cur(j))
      BY <1>2, <2>2, EmptyFile DEF IsPrefix
    <2>4. next'[j] = Len(files'[Cur(j)]) + 1 BY <1>2, <2>1, <2>2
    <2>5. \E l \in FetchPcs : Works(j, l) BY <2>1 DEF FetchPcs
    <2> QED BY <1>2, <1>3, <2>1, <2>2, <2>3, <2>4, <2>5 DEF InParts
  <1>6. CASE JoinPart(j)
    <2> DEFINE block == IF next[j] \in parts[Cur(j)] THEN next[j] ELSE Hole
               joined == Put(files[Cur(j)], next[j], block)
    <2>1. /\ pc[j] = "join" /\ pc'[j] = "join" /\ Works(j, "join")
          /\ next[j] \in RangesOf(Cur(j))
          /\ next' = [next EXCEPT ![j] = @ + 1]
          /\ UNCHANGED <<parts, done, existing, loose, spoiled>>
      BY <1>6 DEF JoinPart, Works, TypeOK, FetchPcs
    <2>2. /\ \A f \in Files : f # Cur(j) => files'[f] = files[f]
          /\ \/ j \in loose /\ files' = files
             \/ j \notin loose /\ files'[Cur(j)] = joined
      BY <1>2, <1>6 DEF JoinPart, TypeOK
    <2>3. j \notin loose => files'[Cur(j)] # None
      <3>1. next[j] \in Nat \ {0} /\ block \in Data BY DEF TypeOK, Data
      <3>2. j \notin loose => files[Cur(j)] \in Seq(Data) BY <1>2, <2>1
      <3> HIDE DEF block
      <3> QED BY <2>2, <3>1, <3>2, PutType, FakeType
    <2>4. Cur(j) \notin spoiled =>
            IsPrefix(files'[Cur(j)], Cur(j)) /\ next'[j] = Len(files'[Cur(j)]) + 1
      <3> SUFFICES ASSUME Cur(j) \notin spoiled
                   PROVE  IsPrefix(files'[Cur(j)], Cur(j)) /\ next'[j] = Len(files'[Cur(j)]) + 1
        OBVIOUS
      <3>1. j \notin loose /\ next[j] = Len(files[Cur(j)]) + 1 BY <1>2, <2>1
      <3>2. next[j] \in parts[Cur(j)] /\ next[j] <= SizeOf[Cur(j)]
        BY <1>2, <2>1 DEF InParts
      <3>3. files'[Cur(j)] = Put(files[Cur(j)], Len(files[Cur(j)]) + 1, next[j])
        BY <2>2, <3>1, <3>2
      <3>4. IsPrefix(files'[Cur(j)], Cur(j)) /\ Len(files'[Cur(j)]) = next[j]
        BY <2>1, <3>2, <3>3, WriteStep
      <3>5. next'[j] = next[j] + 1 BY <2>1 DEF TypeOK
      <3> QED BY <3>4, <3>5
    <2>5. \A i \in Jobs \ {j} : pc[i] \in OpenPcs /\ i \notin loose => files'[Cur(i)] # None
      BY <1>2, <2>2, <2>3
    <2>6. \E l \in FetchPcs : Works(j, l) BY <2>1 DEF FetchPcs
    <2>7. \A i \in Jobs \ {j} : next'[i] = next[i] BY <2>1 DEF TypeOK
    <2> HIDE DEF joined, block
    <2> QED BY <1>2, <1>3, <2>1, <2>2, <2>3, <2>4, <2>5, <2>6, <2>7 DEF InParts
  <1>7. CASE JoinEnd(j)
    <2>1. /\ pc[j] = "join" /\ files' = files /\ loose' = loose \ {j} /\ files[Cur(j)] # None
          /\ ClearParts(Cur(j)) /\ done' = [done EXCEPT ![j] = {}]
      BY <1>7 DEF JoinEnd, DropRanges
    <2>2. \A f \in Files : f # Cur(j) => parts'[f] = parts[f] BY <1>2, <2>1, ClearStep
    <2>3. \/ Ended(j)
          \/ /\ Works(j, "request") /\ next' = [next EXCEPT ![j] = 1]
             /\ UNCHANGED <<existing, spoiled>>
      <3>1. CASE Len(files[Cur(j)]) = Expected[Cur(j)]
        <4>1. Settled(files'[Cur(j)], Cur(j))
          BY <1>2, <2>1, <3>1 DEF Settled, MaySettleFor
        <4>2. End(j, TRUE) BY <1>7, <3>1 DEF JoinEnd
        <4> QED BY <1>1, <4>1, <4>2, EndStep
      <3>2. CASE Len(files[Cur(j)]) # Expected[Cur(j)]
        BY <1>1, <1>7, <3>2 DEF JoinEnd, Works, Goto
      <3> QED BY <3>1, <3>2
    <2>4. /\ pc'[j] \notin OpenPcs \cup RangePcs /\ next'[j] = 1 /\ spoiled' = spoiled
          /\ done'[j] = {} /\ existing'[j] = 0
          /\ \A i \in Jobs \ {j} :
               existing'[i] = existing[i] /\ next'[i] = next[i] /\ done'[i] = done[i]
      BY <1>2, <2>1, <2>3 DEF Ended, Works, TypeOK
    <2>5. (\E l \in FetchPcs : Works(j, l)) \/ Ended(j) BY <2>3 DEF FetchPcs
    <2> QED BY <1>2, <1>3, <2>1, <2>2, <2>4, <2>5
  <1>8. CASE RangesFail(j)
    <2>1. /\ Works(j, "request") /\ pc'[j] = "request"
          /\ ClearParts(Cur(j)) /\ done' = [done EXCEPT ![j] = {}]
          /\ next' = [next EXCEPT ![j] = 1] /\ UNCHANGED <<existing, spoiled>>
      BY <1>1, <1>8 DEF RangesFail, DropRanges, Works, Goto, TypeOK
    <2>2. \A f \in Files : f # Cur(j) => parts'[f] = parts[f] BY <1>2, <2>1, ClearStep
    <2>3. /\ \A f \in Files : f # Cur(j) => files'[f] = files[f]
          /\ j \notin loose'
          /\ \/ /\ files'[Cur(j)] = None
                /\ loose' = (loose \cup {i \in Jobs : pc[i] \in OpenPcs /\ Cur(i) = Cur(j)}) \ {j}
             \/ files' = files /\ loose' = loose \ {j}
      BY <1>2, <1>8 DEF RangesFail, HaveOpen, TypeOK
    <2>4. \A i \in Jobs \ {j} :
            /\ existing'[i] = existing[i] /\ next'[i] = next[i] /\ done'[i] = done[i]
            /\ i \in loose' => i \in loose \/ (pc[i] \in OpenPcs /\ Cur(i) = Cur(j))
            /\ pc[i] \in OpenPcs /\ i \notin loose' => files'[Cur(i)] # None
      BY <1>2, <2>1, <2>3 DEF TypeOK
    <2>5. next'[j] = 1 /\ done'[j] = {} /\ existing'[j] = 0 BY <1>2, <2>1 DEF TypeOK
    <2>6. \E l \in FetchPcs : Works(j, l) BY <2>1 DEF FetchPcs
    <2> QED BY <1>2, <1>3, <2>1, <2>2, <2>3, <2>4, <2>5, <2>6
  <1> QED BY <1>1, <1>4, <1>5, <1>6, <1>7, <1>8 DEF Ranging

\* Each of the actions is such a step.
LEMMA FileSteps ==
  ASSUME FileInv, NEW j \in Jobs, File(j)
  PROVE  FileStep(j)
  <1> TypeOK BY DEF FileInv
  <1>0. CASE Ranging(j) BY <1>0, RangeSteps
  <1> SUFFICES ASSUME ~Ranging(j) PROVE FileStep(j)
    BY <1>0
  <1>1. pc[j] \in {"stat"} \cup FetchPcs
    BY DEF File, Stat, RequestBeyond, RequestRest, RequestAll, Chunk, StreamEnd, StreamError,
           DropSmall, SmallFails, FetchPcs
  <1>2. /\ Cur(j) \in Files /\ SizeOf[Cur(j)] \in Nat \ {0}
        /\ files[Cur(j)] \in Seq(Data) \cup {None}
    BY <1>1, Before
  <1>3. \A i \in Jobs : pc[i] \in OpenPcs /\ i \notin loose => files[Cur(i)] # None
    BY <1>1, Before
  <1>4. \A i \in Jobs : pc[i] \in OpenPcs => Cur(i) \in Files
    BY <1>1, Before
  <1>5. Cur(j) \notin spoiled /\ files[Cur(j)] # None => IsPrefix(files[Cur(j)], Cur(j))
    BY <1>1, Before
  <1>6. Cur(j) \notin spoiled /\ pc[j] \in FetchPcs =>
          /\ j \notin loose
          /\ \A i \in Jobs \ {j} : ~On(i, Cur(j))
          /\ pc[j] = "request" /\ existing[j] > 0 => existing[j] = Len0(files[Cur(j)])
          /\ pc[j] \in OpenPcs => next[j] = Len(files[Cur(j)]) + 1
    BY <1>1, Before
  <1>7. /\ pc[j] \notin OpenPcs => next[j] = 1 /\ j \notin loose
        /\ pc[j] \notin RangePcs => done[j] = {}
    BY <1>1, Before
  <1> USE DEF FileStep, Elsewhere, OwnFile, OwnRanges
  <1>8. CASE Stat(j)
    <2>1. /\ pc[j] = "stat" /\ files' = files /\ loose' = loose
          /\ existing' = [existing EXCEPT ![j] = Len0(files[Cur(j)])]
          /\ next' = next /\ done' = done
      BY <1>8 DEF Stat
    <2>2. spoiled' = IF Shared(j, Cur(j)) THEN spoiled \cup {Cur(j)} ELSE spoiled
      BY <1>8 DEF Stat
    <2>3. Shared(j, Cur(j)) <=> \E i \in Jobs \ {j} : On(i, Cur(j)) BY DEF Shared, On
    <2>4. existing'[j] = Len0(files'[Cur(j)]) BY <2>1 DEF TypeOK
    <2>5. /\ \A f \in Files : f # Cur(j) => parts'[f] = parts[f]
          /\ \/ /\ Works(j, "ranges") /\ pc'[j] = "ranges" /\ Expected[Cur(j)] >= ParallelMin
                /\ existing'[j] = 0
             \/ Works(j, "request") /\ pc'[j] = "request"
      <3>1. CASE Len0(files[Cur(j)]) = 0 /\ CanParallel(j)
        <4>1. Goto(j, "ranges") /\ ClearParts(Cur(j)) BY <1>8, <3>1 DEF Stat
        <4>2. Works(j, "ranges") /\ pc'[j] = "ranges"
          BY <1>8, <4>1 DEF Stat, Works, Goto, TypeOK
        <4>3. Expected[Cur(j)] >= ParallelMin BY <3>1 DEF CanParallel
        <4> QED BY <1>2, <2>1, <2>4, <3>1, <4>1, <4>2, <4>3, ClearStep
      <3>2. CASE ~(Len0(files[Cur(j)]) = 0 /\ CanParallel(j))
        BY <1>8, <3>2 DEF Stat, Works, Goto, TypeOK
      <3> QED BY <3>1, <3>2
    <2>6. \E l \in FetchPcs : Works(j, l) BY <2>5 DEF FetchPcs
    <2>7. \A i \in Jobs \ {j} : existing'[i] = existing[i] BY <2>1 DEF TypeOK
    <2> QED BY <1>2, <1>3, <1>5, <1>7, <2>1, <2>2, <2>3, <2>4, <2>5, <2>6, <2>7
  <1>9. CASE RequestBeyond(j)
    <2>1. /\ pc[j] = "request" /\ UNCHANGED <<files, loose, parts, done>> /\ Finish(j, existing[j])
          /\ existing[j] > 0 /\ existing[j] >= SizeOf[Cur(j)]
      BY <1>9 DEF RequestBeyond
    <2>2. Cur(j) \notin spoiled => Settled(files'[Cur(j)], Cur(j)) BY <2>1, Complete
    <2>3. \/ Ended(j)
          \/ /\ Works(j, "small") /\ spoiled' = spoiled
             /\ next' = [next EXCEPT ![j] = 1] /\ existing' = [existing EXCEPT ![j] = 0]
      BY <2>1, <2>2, FinishStep DEF FetchPcs
    <2>4. /\ pc'[j] \notin {"request"} \cup OpenPcs \cup RangePcs /\ next'[j] = 1
          /\ spoiled' = spoiled
          /\ \A i \in Jobs \ {j} : existing'[i] = existing[i] /\ next'[i] = next[i]
      BY <2>3 DEF Ended, Works, TypeOK
    <2>5. (\E l \in FetchPcs : Works(j, l)) \/ Ended(j) BY <2>3 DEF FetchPcs
    <2> QED BY <1>2, <1>3, <1>5, <1>7, <2>1, <2>4, <2>5
  <1>10. CASE RequestRest(j)
    <2>1. /\ pc[j] = "request" /\ pc'[j] = "stream" /\ Works(j, "stream")
          /\ files' = [files EXCEPT ![Cur(j)] = IF @ = None THEN <<>> ELSE @]
          /\ existing' = existing /\ next' = [next EXCEPT ![j] = existing[j] + 1]
          /\ existing[j] > 0 /\ UNCHANGED <<loose, spoiled, parts, done>>
      BY <1>10 DEF RequestRest, Works, Goto, TypeOK, FetchPcs
    <2>2. /\ files'[Cur(j)] = IF files[Cur(j)] = None THEN <<>> ELSE files[Cur(j)]
          /\ \A f \in Files : f # Cur(j) => files'[f] = files[f]
      BY <1>2, <2>1 DEF TypeOK
    <2>3. files'[Cur(j)] # None BY <2>2, EmptyFile
    <2>4. Cur(j) \notin spoiled => files[Cur(j)] # None /\ existing[j] = Len(files[Cur(j)])
      BY <1>6, <2>1 DEF Len0, FetchPcs
    <2>5. \E l \in FetchPcs : Works(j, l) BY <2>1 DEF FetchPcs
    <2>6. \A i \in Jobs \ {j} : existing'[i] = existing[i] /\ next'[i] = next[i] BY <2>1 DEF TypeOK
    <2>7. next'[j] = existing[j] + 1 BY <2>1 DEF TypeOK
    <2> QED BY <1>3, <1>4, <1>5, <1>7, <2>1, <2>2, <2>3, <2>4, <2>5, <2>6, <2>7
  <1>11. CASE RequestAll(j)
    <2>1. /\ pc[j] = "request" /\ pc'[j] = "stream" /\ Works(j, "stream")
          /\ existing' = [existing EXCEPT ![j] = 0]
          /\ UNCHANGED <<next, loose, spoiled, parts, done>>
      BY <1>11 DEF RequestAll, Works, Goto, TypeOK, FetchPcs
    <2>2. files'[Cur(j)] = <<>> /\ \A f \in Files : f # Cur(j) => files'[f] = files[f]
      BY <1>2, <1>11 DEF RequestAll, TypeOK
    <2>3. files'[Cur(j)] # None /\ IsPrefix(files'[Cur(j)], Cur(j))
      BY <1>2, <2>2, EmptyFile DEF IsPrefix
    <2>4. next'[j] = Len(files'[Cur(j)]) + 1 BY <1>7, <2>1, <2>2
    <2>5. \E l \in FetchPcs : Works(j, l) BY <2>1 DEF FetchPcs
    <2>6. \A i \in Jobs \ {j} : existing'[i] = existing[i] BY <2>1 DEF TypeOK
    <2> QED BY <1>3, <1>4, <1>7, <2>1, <2>2, <2>3, <2>4, <2>5, <2>6
  <1>12. CASE Chunk(j)
    <2>1. /\ pc[j] = "stream" /\ pc'[j] = "stream" /\ Works(j, "stream")
          /\ next' = [next EXCEPT ![j] = @ + 1] /\ next[j] <= SizeOf[Cur(j)]
          /\ UNCHANGED <<existing, loose, spoiled, parts, done>>
      BY <1>12 DEF Chunk, Works, TypeOK, FetchPcs
    <2>2. \A f \in Files : f # Cur(j) => files'[f] = files[f] BY <1>12 DEF Chunk, TypeOK
    <2>3. \/ j \in loose /\ files' = files
          \/ j \notin loose /\ files'[Cur(j)] = Written(j)
      BY <1>2, <1>12 DEF Chunk, TypeOK
    <2>4. next[j] \in Nat \ {0} /\ next[j] \in Data BY DEF TypeOK, Data
    <2>5. j \notin loose =>
            /\ files[Cur(j)] \in Seq(Data)
            /\ Written(j) \in Seq(Data)
      <3> SUFFICES ASSUME j \notin loose
                   PROVE  files[Cur(j)] \in Seq(Data) /\ Written(j) \in Seq(Data)
        OBVIOUS
      <3>1. files[Cur(j)] \in Seq(Data) BY <1>2, <1>3, <2>1
      <3>2. Len(files[Cur(j)]) + 1 \in Nat \ {0} BY <3>1
      <3> QED BY <2>4, <3>1, <3>2, PutType DEF Written
    <2>6. j \notin loose => files'[Cur(j)] # None BY <2>3, <2>5, FakeType
    <2>7. Cur(j) \notin spoiled =>
            IsPrefix(files'[Cur(j)], Cur(j)) /\ next'[j] = Len(files'[Cur(j)]) + 1
      <3> SUFFICES ASSUME Cur(j) \notin spoiled
                   PROVE  IsPrefix(files'[Cur(j)], Cur(j)) /\ next'[j] = Len(files'[Cur(j)]) + 1
        OBVIOUS
      <3>1. j \notin loose /\ next[j] = Len(files[Cur(j)]) + 1 BY <1>6, <2>1 DEF FetchPcs
      <3>2. files'[Cur(j)] = Put(files[Cur(j)], Len(files[Cur(j)]) + 1, next[j])
        BY <2>3, <3>1 DEF Written
      <3>3. IsPrefix(files'[Cur(j)], Cur(j)) /\ Len(files'[Cur(j)]) = next[j]
        BY <2>1, <3>2, WriteStep
      <3>4. next'[j] = next[j] + 1 BY <2>1 DEF TypeOK
      <3> QED BY <3>3, <3>4
    <2>8. \A i \in Jobs \ {j} : pc[i] \in OpenPcs /\ i \notin loose => files'[Cur(i)] # None
      BY <1>3, <1>4, <2>2, <2>3, <2>6
    <2>9. \E l \in FetchPcs : Works(j, l) BY <2>1 DEF FetchPcs
    <2>10. \A i \in Jobs \ {j} : next'[i] = next[i] BY <2>1 DEF TypeOK
    <2> QED BY <1>6, <1>7, <2>1, <2>2, <2>6, <2>7, <2>8, <2>9, <2>10 DEF FetchPcs
  <1>13. CASE StreamEnd(j)
    <2>1. /\ pc[j] = "stream" /\ UNCHANGED <<files, parts, done>> /\ loose' = loose \ {j}
          /\ next[j] > SizeOf[Cur(j)]
          /\ IF files[Cur(j)] = None THEN End(j, FALSE) ELSE Finish(j, Len(files[Cur(j)]))
      BY <1>13 DEF StreamEnd
    <2>2. Cur(j) \notin spoiled => Settled(files'[Cur(j)], Cur(j)) BY <2>1, Complete
    <2>3. \/ Ended(j)
          \/ /\ Works(j, "small") /\ spoiled' = spoiled
             /\ next' = [next EXCEPT ![j] = 1] /\ existing' = [existing EXCEPT ![j] = 0]
      <3>1. CASE files[Cur(j)] = None BY <2>1, <3>1, EndStep DEF FetchPcs
      <3>2. CASE files[Cur(j)] # None BY <2>1, <2>2, <3>2, FinishStep DEF FetchPcs
      <3> QED BY <3>1, <3>2
    <2>4. /\ pc'[j] \notin {"request"} \cup OpenPcs \cup RangePcs /\ next'[j] = 1
          /\ spoiled' = spoiled
          /\ \A i \in Jobs \ {j} : existing'[i] = existing[i] /\ next'[i] = next[i]
      BY <2>3 DEF Ended, Works, TypeOK
    <2>5. (\E l \in FetchPcs : Works(j, l)) \/ Ended(j) BY <2>3 DEF FetchPcs
    <2> QED BY <1>2, <1>3, <1>5, <1>7, <2>1, <2>4, <2>5
  <1>14. CASE StreamError(j) \/ SmallFails(j)
    <2>1. /\ pc[j] \in FetchPcs \ RangePcs /\ UNCHANGED <<files, parts, done>>
          /\ loose' = loose \ {j} /\ End(j, FALSE)
      BY <1>7, <1>14 DEF StreamError, SmallFails, FetchPcs
    <2>2. Ended(j) BY <2>1, EndStep
    <2>3. /\ pc'[j] \notin {"request"} \cup OpenPcs \cup RangePcs /\ next'[j] = 1
          /\ spoiled' = spoiled
          /\ \A i \in Jobs \ {j} : existing'[i] = existing[i] /\ next'[i] = next[i]
      BY <2>2 DEF Ended, TypeOK
    <2>4. pc[j] # "stat" BY <2>1 DEF FetchPcs
    <2> QED BY <1>2, <1>3, <1>5, <1>7, <2>1, <2>2, <2>3, <2>4
  <1>15. CASE DropSmall(j)
    <2>1. /\ pc[j] = "small" /\ End(j, FALSE) /\ UNCHANGED <<parts, done>>
          /\ loose' = loose \cup {i \in Jobs : pc[i] \in OpenPcs /\ Cur(i) = Cur(j)}
      BY <1>15 DEF DropSmall, HaveOpen
    <2>2. files'[Cur(j)] = None /\ \A f \in Files : f # Cur(j) => files'[f] = files[f]
      BY <1>2, <1>15 DEF DropSmall, TypeOK
    <2>3. Ended(j) BY <2>1, EndStep DEF FetchPcs
    <2>4. /\ pc'[j] \notin {"request"} \cup OpenPcs \cup RangePcs /\ next'[j] = 1
          /\ spoiled' = spoiled
          /\ \A i \in Jobs \ {j} : existing'[i] = existing[i] /\ next'[i] = next[i]
      BY <2>3 DEF Ended, TypeOK
    <2>5. j \notin loose' BY <1>7, <2>1
    <2> QED BY <1>3, <1>4, <1>7, <2>1, <2>2, <2>3, <2>4, <2>5
  <1> QED BY <1>8, <1>9, <1>10, <1>11, <1>12, <1>13, <1>14, <1>15 DEF File

-----------------------------------------------------------------------------
(* Type correctness.                                                        *)

LEMMA MarkedType ==
  ASSUME TypeOK, NEW end \in {"none", "busy", "ok", "error"}, NEW f, NEW unsafe
  PROVE  Marked(end, f, unsafe) \in {"none", "busy", "ok", "error"}
  BY DEF Marked, TypeOK

LEMMA ForgetType ==
  ASSUME TypeOK, NEW j \in Jobs, Forget(j)
  PROVE  /\ existing' \in [Jobs -> Nat] /\ next' \in [Jobs -> Nat \ {0}]
         /\ appending' \in [Jobs -> BOOLEAN]
  BY DEF Forget, TypeOK

LEMMA FetchType ==
  ASSUME TypeOK, NEW j \in Jobs, NEW p \in {"manifest", "metadata", "content"},
         NEW list \in Seq(Files), Fetch(j, p, list)
  PROVE  /\ pc' \in [Jobs -> Pcs] /\ todo' \in [Jobs -> Seq(Files)]
         /\ phase' \in [Jobs -> {"manifest", "metadata", "content"}]
  <1>1. pc' \in [Jobs -> Pcs] BY DEF Fetch, Goto, TypeOK, Pcs
  <1>2. todo' \in [Jobs -> Seq(Files)] BY DEF Fetch, TypeOK
  <1> QED BY <1>1, <1>2 DEF Fetch, TypeOK

\* The part files, and which ranges are through.
LEMMA RangesType ==
  ASSUME FileInv, NEW j \in Jobs, File(j)
  PROVE  parts' \in [Files -> SUBSET Nat] /\ done' \in [Jobs -> SUBSET Nat]
  <1> TypeOK BY DEF FileInv
  <1>1. Cur(j) \in Files /\ Expected[Cur(j)] \in Nat
    <2>1. pc[j] \in {"stat"} \cup FetchPcs BY FileSteps DEF FileStep, Works, Ended
    <2> QED BY <2>1, Before
  <1>2. CASE UNCHANGED <<parts, done>> BY <1>2 DEF TypeOK
  <1>3. CASE Stat(j)
    <2>1. done' = done /\ (ClearParts(Cur(j)) \/ parts' = parts) BY <1>3 DEF Stat
    <2> QED BY <1>1, <2>1, ClearStep DEF TypeOK
  <1>4. CASE DropRanges(j)
    <2>1. done' \in [Jobs -> SUBSET Nat] BY <1>4 DEF DropRanges, TypeOK
    <2> QED BY <1>1, <1>4, <2>1, ClearStep DEF DropRanges
  <1>5. ASSUME NEW k \in RangesOf(Cur(j)), RangeTry(j, k) \/ RangeDone(j, k)
        PROVE  parts' \in [Files -> SUBSET Nat] /\ done' \in [Jobs -> SUBSET Nat]
    <2>1. k \in Nat /\ {k} \in SUBSET Nat BY <1>1 DEF RangesOf
    <2>2. /\ done' = done \/ done' = [done EXCEPT ![j] = @ \cup {k}]
          /\ \/ parts' = [parts EXCEPT ![Cur(j)] = @ \ {k}]
             \/ parts' = [parts EXCEPT ![Cur(j)] = @ \cup {k}]
      BY <1>5 DEF RangeTry, RangeDone
    <2>3. parts \in [Files -> SUBSET Nat] /\ done \in [Jobs -> SUBSET Nat] BY DEF TypeOK
    <2>4. done[j] \cup {k} \in SUBSET Nat /\ parts[Cur(j)] \cup {k} \in SUBSET Nat
          /\ parts[Cur(j)] \ {k} \in SUBSET Nat
      BY <1>1, <2>1, <2>3
    <2>5. done' \in [Jobs -> SUBSET Nat]
      <3>1. CASE done' = done BY <2>3, <3>1
      <3>2. CASE done' = [done EXCEPT ![j] = @ \cup {k}] BY <2>3, <2>4, <3>2
      <3> QED BY <2>2, <3>1, <3>2
    <2>6. parts' \in [Files -> SUBSET Nat]
      <3>1. CASE parts' = [parts EXCEPT ![Cur(j)] = @ \ {k}] BY <1>1, <2>3, <2>4, <3>1
      <3>2. CASE parts' = [parts EXCEPT ![Cur(j)] = @ \cup {k}] BY <1>1, <2>3, <2>4, <3>2
      <3> QED BY <2>2, <3>1, <3>2
    <2> QED BY <2>5, <2>6
  <1> QED
    BY <1>2, <1>3, <1>4, <1>5
    DEF File, Ranging, JoinOpen, JoinPart, JoinEnd, RangesFail, RequestBeyond, RequestRest, RequestAll,
        Chunk, StreamEnd, StreamError, DropSmall, SmallFails

LEMMA FileType ==
  ASSUME FileInv, NEW j \in Jobs, File(j)
  PROVE  TypeOK'
  <1> TypeOK BY DEF FileInv
  <1>1. /\ FileStep(j) /\ pc[j] \in {"stat"} \cup FetchPcs
    BY FileSteps DEF FileStep, Works, Ended
  <1>2. /\ Cur(j) \in Files /\ Rest(j) \in Seq(Files) /\ SizeOf[Cur(j)] \in Nat \ {0}
        /\ files[Cur(j)] \in Seq(Data) \cup {None}
    BY <1>1, CurType
  <1>3. /\ pc' \in [Jobs -> Pcs] /\ todo' \in [Jobs -> Seq(Files)]
        /\ have' \in [Jobs -> SUBSET Files] /\ spoiled' \subseteq Files
        /\ UNCHANGED <<phase, info, ticket, fake, alone>>
    <2>1. spoiled' \subseteq Files BY <1>1, <1>2 DEF FileStep, Elsewhere, TypeOK
    <2>2. CASE \E l \in FetchPcs : Works(j, l) BY <1>2, <2>1, <2>2 DEF Works, TypeOK, Pcs
    <2>3. CASE Ended(j)
      <3>1. pc' \in [Jobs -> Pcs]
        <4>1. \E l \in Pcs : pc' = [pc EXCEPT ![j] = l]
          <5>1. {"parse", "stat", "failed", "fetched"} \subseteq Pcs BY DEF Pcs
          <5>2. \E l \in {"parse", "stat", "failed", "fetched"} : pc' = [pc EXCEPT ![j] = l]
            BY <2>3 DEF Ended
          <5> QED BY <5>1, <5>2
        <4> QED BY <4>1 DEF TypeOK
      <3>2. todo' \in [Jobs -> Seq(Files)] BY <1>2, <2>3 DEF Ended, TypeOK
      <3>3. have' \in [Jobs -> SUBSET Files]
        <4>1. have' = have \/ have' = [have EXCEPT ![j] = @ \cup {Cur(j)}]
          BY <2>3 DEF Ended
        <4>2. have \in [Jobs -> SUBSET Files] /\ have[j] \cup {Cur(j)} \in SUBSET Files
          BY <1>2 DEF TypeOK
        <4> QED BY <4>1, <4>2
      <3>4. UNCHANGED <<phase, info, ticket, fake, alone>> BY <2>3 DEF Ended
      <3> QED BY <2>1, <3>1, <3>2, <3>3, <3>4
    <2> QED BY <1>1, <2>2, <2>3 DEF FileStep
  <1>4. /\ files' \in [Files -> Seq(Data) \cup {None}] /\ existing' \in [Jobs -> Nat]
        /\ next' \in [Jobs -> Nat \ {0}] /\ appending' \in [Jobs -> BOOLEAN]
        /\ loose' \subseteq Jobs
    <2> USE DEF TypeOK
    <2>1. CASE Stat(j)
      <3>1. Len0(files[Cur(j)]) \in Nat BY <1>2 DEF Len0
      <3> QED BY <2>1, <3>1 DEF Stat
    <2>2. CASE RequestBeyond(j) \/ StreamEnd(j)
      <3>1. \E size : Finish(j, size) \/ End(j, FALSE)
        BY <2>2 DEF RequestBeyond, StreamEnd
      <3>2. Forget(j) BY <3>1 DEF Finish, End
      <3>3. files' = files /\ loose' \subseteq loose BY <2>2 DEF RequestBeyond, StreamEnd
      <3> QED BY <3>2, <3>3, ForgetType
    <2>3. CASE RequestRest(j) BY <1>2, <2>3, EmptyFile DEF RequestRest
    <2>4. CASE RequestAll(j) BY <1>2, <2>4, EmptyFile DEF RequestAll
    <2>5. CASE Chunk(j)
      <3>1. next[j] \in Nat \ {0} /\ next[j] \in Data BY DEF Data
      <3>2. j \notin loose => Written(j) \in Seq(Data)
        <4>1. ASSUME j \notin loose PROVE files[Cur(j)] \in Seq(Data)
          BY <1>2, <2>5, <4>1 DEF Chunk, FileInv, ShapeInv
        <4>2. ASSUME j \notin loose PROVE Len(files[Cur(j)]) + 1 \in Nat \ {0}
          BY <4>1, <4>2
        <4> QED BY <3>1, <4>1, <4>2, PutType DEF Written
      <3>3. files' \in [Files -> Seq(Data) \cup {None}] BY <2>5, <3>2 DEF Chunk
      <3> QED BY <2>5, <3>3 DEF Chunk
    <2>6. CASE StreamError(j) \/ DropSmall(j) \/ SmallFails(j)
      <3>1. Forget(j) BY <2>6 DEF StreamError, DropSmall, SmallFails, End
      <3>2. files' \in [Files -> Seq(Data) \cup {None}] /\ loose' \subseteq Jobs
        <4>1. HaveOpen(Cur(j)) \subseteq Jobs BY DEF HaveOpen
        <4>2. files' = files \/ files' = [files EXCEPT ![Cur(j)] = None]
          BY <2>6 DEF StreamError, DropSmall, SmallFails
        <4>3. \/ loose' = loose \/ loose' = loose \ {j}
              \/ loose' = loose \cup HaveOpen(Cur(j))
              \/ loose' = (loose \cup HaveOpen(Cur(j))) \ {j}
          BY <2>6 DEF StreamError, DropSmall, SmallFails
        <4>4. loose' \subseteq Jobs BY <4>1, <4>3
        <4>5. files' \in [Files -> Seq(Data) \cup {None}] BY <1>2, <4>2
        <4> QED BY <4>4, <4>5
      <3> QED BY <3>1, <3>2, ForgetType
    <2>7. CASE Ranging(j)
      <3>1. CASE \E k \in RangesOf(Cur(j)) : RangeTry(j, k) \/ RangeDone(j, k)
        BY <3>1 DEF RangeTry, RangeDone
      <3>2. CASE JoinOpen(j) BY <1>2, <3>2, EmptyFile DEF JoinOpen
      <3>3. CASE JoinPart(j)
        <4> DEFINE block == IF next[j] \in parts[Cur(j)] THEN next[j] ELSE Hole
        <4>1. next[j] \in Nat \ {0} /\ block \in Data BY DEF Data
        <4>2. j \notin loose => files[Cur(j)] \in Seq(Data)
          BY <1>2, <3>3 DEF JoinPart, FileInv, ShapeInv
        <4>3. files' = IF j \in loose THEN files
                       ELSE [files EXCEPT ![Cur(j)] = Put(@, next[j], block)]
          BY <3>3 DEF JoinPart
        <4> HIDE DEF block
        <4>4. files' \in [Files -> Seq(Data) \cup {None}] BY <1>2, <4>1, <4>2, <4>3, PutType
        <4> QED BY <3>3, <4>4 DEF JoinPart
      <3>4. CASE JoinEnd(j)
        <4>1. CASE End(j, TRUE) BY <3>4, <4>1, ForgetType DEF JoinEnd, End
        <4>2. CASE /\ next' = [next EXCEPT ![j] = 1]
                   /\ UNCHANGED <<existing, appending>>
          BY <3>4, <4>2 DEF JoinEnd
        <4> QED BY <3>4, <4>1, <4>2 DEF JoinEnd
      <3>5. CASE RangesFail(j)
        <4>1. HaveOpen(Cur(j)) \subseteq Jobs BY DEF HaveOpen
        <4> QED BY <3>5, <4>1 DEF RangesFail
      <3> QED BY <2>7, <3>1, <3>2, <3>3, <3>4, <3>5 DEF Ranging
    <2> QED BY <2>1, <2>2, <2>3, <2>4, <2>5, <2>6, <2>7 DEF File
  <1>5. call' \in {"none", "busy", "ok", "error"}
    <2>1. CASE Ended(j) BY <2>1, MarkedType DEF Ended
    <2>2. CASE Stat(j) BY <2>2, MarkedType DEF Stat
    <2>3. CASE RequestRest(j) \/ RequestAll(j) \/ Chunk(j)
      BY <2>3 DEF RequestRest, RequestAll, Chunk, TypeOK
    <2>4. CASE RequestBeyond(j) \/ StreamEnd(j) \/ StreamError(j) \/ DropSmall(j) \/ SmallFails(j)
      <3>1. \E size, ok : Finish(j, size) \/ End(j, ok)
        BY <2>4 DEF RequestBeyond, StreamEnd, StreamError, DropSmall, SmallFails
      <3>2. \/ call' = call
            \/ \E ok : call' = Marked(IF ok THEN "ok" ELSE "error", Cur(j), spoiled)
        BY <3>1 DEF Finish, End
      <3> QED BY <3>2, MarkedType DEF TypeOK
    <2>5. CASE Ranging(j)
      <3>1. call' = call \/ End(j, TRUE)
        BY <2>5 DEF Ranging, RangeTry, RangeDone, JoinOpen, JoinPart, JoinEnd, RangesFail
      <3>2. call' = call \/ call' = Marked("ok", Cur(j), spoiled) BY <3>1 DEF End
      <3> QED BY <3>2, MarkedType DEF TypeOK
    <2> QED BY <2>2, <2>3, <2>4, <2>5 DEF File
  <1> QED BY <1>3, <1>4, <1>5, RangesType DEF TypeOK

\* The other steps, but for the end of the process.
Others(j) == Start(j) \/ Title(j)

LEMMA ReturnType ==
  ASSUME TypeOK, NEW j \in Jobs, Return(j)
  PROVE  /\ pc' \in [Jobs -> Pcs] /\ todo' \in [Jobs -> Seq(Files)]
         /\ phase' \in [Jobs -> {"manifest", "metadata", "content"}]
         /\ have' \in [Jobs -> SUBSET Files] /\ info' \in [Jobs -> BOOLEAN]
         /\ ticket' \in [Jobs -> Seq(Data) \cup {None}]
         /\ fake' \in [Jobs -> BOOLEAN] /\ alone' \in [Jobs -> BOOLEAN]
  BY DEF Return, Goto, TypeOK, Pcs

LEMMA ContentsType ==
  ASSUME TypeOK, NEW j \in Jobs, ToContents(j)
  PROVE  /\ pc' \in [Jobs -> Pcs] /\ todo' \in [Jobs -> Seq(Files)]
         /\ phase' \in [Jobs -> {"manifest", "metadata", "content"}]
  <1>1. Records \in Seq(Files) BY FilesAssumption DEF Files
  <1>2. CASE Fetch(j, "content", Records) BY <1>1, <1>2, FetchType
  <1>3. CASE Goto(j, "prepare") /\ UNCHANGED <<phase, todo>> BY <1>3 DEF Goto, TypeOK, Pcs
  <1> QED BY <1>2, <1>3 DEF ToContents

LEMMA OthersType ==
  ASSUME FileInv, NEW j \in Jobs, Others(j)
  PROVE  TypeOK'
  <1> TypeOK BY DEF FileInv
  <1>1. "tmd" \in Files /\ "cetk" \in Files BY DEF Files
  <1>2. CASE Start(j)
    <2>1. Listed \in Seq(Files) /\ <<"tmd", "cetk">> \in Seq(Files) BY <1>1, FilesAssumption
    <2>2. alone' \in [Jobs -> BOOLEAN] BY <1>2 DEF Start
    <2>3. Fetch(j, "manifest", Listed) \/ Fetch(j, "metadata", <<"tmd", "cetk">>)
      BY <1>2 DEF Start
    <2>4. /\ pc' \in [Jobs -> Pcs] /\ todo' \in [Jobs -> Seq(Files)]
          /\ phase' \in [Jobs -> {"manifest", "metadata", "content"}]
      BY <2>1, <2>3, FetchType
    <2> QED BY <1>2, <2>2, <2>4 DEF Start, TypeOK
  <1>3. CASE Take(j)
    <2>1. Cur(j) \in Files /\ Rest(j) \in Seq(Files) BY <1>3, CurType DEF Take
    <2> QED BY <1>3, <2>1 DEF Take, Advance, Goto, TypeOK, Pcs
  <1>4. CASE ParseTmd(j) BY <1>4 DEF ParseTmd, Goto, TypeOK, Pcs
  <1>5. CASE ReadTicket(j)
    <2>1. ticket' \in [Jobs -> Seq(Data) \cup {None}] BY <1>1, <1>5 DEF ReadTicket, TypeOK
    <2> QED BY <1>5, <2>1, ContentsType DEF ReadTicket, TypeOK
  <1>6. CASE MakeTicket(j)
    <2>1. /\ files' \in [Files -> Seq(Data) \cup {None}]
          /\ have' \in [Jobs -> SUBSET Files] /\ fake' \in [Jobs -> BOOLEAN]
      <3>1. CASE /\ files' = [files EXCEPT !["cetk"] = FakeTicket]
                 /\ have' = [have EXCEPT ![j] = @ \cup {"cetk"}]
                 /\ fake' = [fake EXCEPT ![j] = TRUE]
        BY <1>1, <3>1, FakeType DEF TypeOK
      <3>2. CASE files' = [files EXCEPT !["cetk"] = <<>>] /\ UNCHANGED <<have, fake>>
        BY <1>1, <3>2, EmptyFile DEF TypeOK
      <3> QED BY <1>6, <3>1, <3>2 DEF MakeTicket
    <2>2. ticket' \in [Jobs -> Seq(Data) \cup {None}] BY <1>6, FakeType DEF MakeTicket, TypeOK
    <2>3. call' \in {"none", "busy", "ok", "error"} /\ spoiled' \subseteq Files
      BY <1>1, <1>6, MarkedType DEF MakeTicket, TypeOK
    <2> QED BY <1>6, <2>1, <2>2, <2>3, ContentsType DEF MakeTicket, TypeOK
  <1>7. CASE NoTicket(j) BY <1>7, ContentsType DEF NoTicket, TypeOK
  <1>8. CASE Prepare(j) BY <1>8, ReturnType DEF Prepare, TypeOK
  <1>9. CASE Fail(j) BY <1>9, ReturnType DEF Fail, TypeOK
  <1> QED BY <1>2, <1>3, <1>4, <1>5, <1>6, <1>7, <1>8, <1>9 DEF Others, Title

LEMMA ExitType ==
  ASSUME TypeOK, Exit
  PROVE  TypeOK'
  <1>1. /\ pc' \in [Jobs -> Pcs] /\ todo' \in [Jobs -> Seq(Files)]
        /\ phase' \in [Jobs -> {"manifest", "metadata", "content"}]
        /\ ticket' \in [Jobs -> Seq(Data) \cup {None}]
    BY DEF Exit, Pcs
  <1>2. /\ existing' \in [Jobs -> Nat] /\ next' \in [Jobs -> Nat \ {0}]
        /\ have' \in [Jobs -> SUBSET Files]
    BY DEF Exit
  <1>3. /\ appending' \in [Jobs -> BOOLEAN] /\ info' \in [Jobs -> BOOLEAN]
        /\ fake' \in [Jobs -> BOOLEAN] /\ alone' \in [Jobs -> BOOLEAN]
    BY DEF Exit
  <1>4. /\ call' \in {"none", "busy", "ok", "error"}
        /\ parts' \in [Files -> SUBSET Nat] /\ done' \in [Jobs -> SUBSET Nat]
    BY DEF Exit, TypeOK
  <1> QED BY <1>1, <1>2, <1>3, <1>4 DEF Exit, TypeOK

-----------------------------------------------------------------------------
(* The files.                                                               *)

\* What a step of a call leaves of the other jobs, and of its own.
LEMMA FileFrame ==
  ASSUME FileInv, NEW j \in Jobs, File(j)
  PROVE  /\ pc[j] \in {"stat"} \cup FetchPcs
         /\ \A i \in Jobs \ {j} :
              /\ pc'[i] = pc[i] /\ todo'[i] = todo[i] /\ Cur(i)' = Cur(i)
              /\ \A f : On(i, f)' <=> On(i, f)
         /\ pc'[j] \in FetchPcs => todo'[j] = todo[j] /\ Cur(j)' = Cur(j)
         /\ pc'[j] \in {"stat", "fetched", "failed"} \cup FetchPcs => todo'[j] # <<>>
  <1> TypeOK /\ ShapeInv BY DEF FileInv
  <1>1. (\E l \in FetchPcs : Works(j, l)) \/ Ended(j) BY FileSteps DEF FileStep
  <1>2. pc[j] \in {"stat"} \cup FetchPcs BY <1>1 DEF Works, Ended
  <1>3. todo[j] # <<>> BY <1>2 DEF ShapeInv
  <1>4. \A i \in Jobs \ {j} : pc'[i] = pc[i] /\ todo'[i] = todo[i]
    BY <1>1 DEF Works, Ended, TypeOK
  <1>5. \A i \in Jobs \ {j} : Cur(i)' = Cur(i) BY <1>4 DEF Cur
  <1>6. /\ pc'[j] \in FetchPcs => todo'[j] = todo[j]
        /\ pc'[j] \in {"stat", "fetched", "failed"} \cup FetchPcs => todo'[j] # <<>>
    <2>1. CASE \E l \in FetchPcs : Works(j, l) BY <1>3, <2>1 DEF Works
    <2>2. CASE Ended(j) BY <1>3, <2>2 DEF Ended, TypeOK, FetchPcs
    <2> QED BY <1>1, <2>1, <2>2
  <1>7. pc'[j] \in FetchPcs => Cur(j)' = Cur(j) BY <1>6 DEF Cur
  <1> QED BY <1>2, <1>4, <1>5, <1>6, <1>7 DEF On

LEMMA FileKeeps ==
  ASSUME FileInv, NEW j \in Jobs, File(j)
  PROVE  ShapeInv' /\ CallInv' /\ UnspoiledIsPrefix'
  <1> TypeOK /\ ShapeInv /\ CallInv /\ UnspoiledIsPrefix BY DEF FileInv
  <1>1. /\ Elsewhere(j) /\ OwnFile(j) /\ OwnRanges(j)
        /\ pc'[j] \notin OpenPcs => next'[j] = 1 /\ j \notin loose'
        /\ pc'[j] \in OpenPcs /\ j \notin loose' => files'[Cur(j)] # None
    BY FileSteps DEF FileStep
  <1>2. /\ pc[j] \in {"stat"} \cup FetchPcs /\ Cur(j) \in Files
        /\ \A i \in Jobs \ {j} :
              /\ pc'[i] = pc[i] /\ todo'[i] = todo[i] /\ Cur(i)' = Cur(i)
              /\ \A f : On(i, f)' <=> On(i, f)
        /\ pc'[j] \in FetchPcs => todo'[j] = todo[j] /\ Cur(j)' = Cur(j)
        /\ pc'[j] \in {"stat", "fetched", "failed"} \cup FetchPcs => todo'[j] # <<>>
    BY FileFrame, CurType
  <1>3. ShapeInv'
    <2> SUFFICES ASSUME NEW i \in Jobs
                 PROVE  /\ pc'[i] \in {"stat", "fetched", "failed"} \cup FetchPcs => todo'[i] # <<>>
                        /\ pc'[i] \in OpenPcs /\ i \notin loose' => files'[Cur(i)'] # None
                        /\ pc'[i] \notin OpenPcs => next'[i] = 1 /\ i \notin loose'
                        /\ pc'[i] \notin RangePcs => done'[i] = {}
                        /\ pc'[i] \in RangePcs =>
                             Expected[Cur(i)'] >= ParallelMin /\ existing'[i] = 0
                        /\ pc'[i] = "join" => done'[i] = RangesOf(Cur(i)')
      BY DEF ShapeInv, RangesOf
    <2>1. CASE i = j BY <1>1, <1>2, <2>1 DEF FetchPcs, OwnRanges
    <2>2. CASE i # j
      <3>1. /\ pc'[i] = pc[i] /\ todo'[i] = todo[i] /\ Cur(i)' = Cur(i) /\ next'[i] = next[i]
            /\ existing'[i] = existing[i] /\ done'[i] = done[i]
            /\ i \in loose' => i \in loose \/ pc[i] \in OpenPcs
            /\ pc[i] \in OpenPcs /\ i \notin loose' => files'[Cur(i)] # None
        BY <1>1, <1>2, <2>2 DEF Elsewhere
      <3> QED BY <3>1 DEF ShapeInv
    <2> QED BY <2>1, <2>2
  <1>4. UnspoiledIsPrefix'
    <2> SUFFICES ASSUME NEW f \in Files \ spoiled', files'[f] # None
                 PROVE  IsPrefix(files'[f], f)
      BY DEF UnspoiledIsPrefix, IsPrefix
    <2>1. CASE f = Cur(j) BY <1>1, <2>1 DEF OwnFile
    <2>2. CASE f # Cur(j) BY <1>1, <2>2 DEF Elsewhere, UnspoiledIsPrefix
    <2> QED BY <2>1, <2>2
  <1>5. CallInv'
    <2> SUFFICES ASSUME NEW k \in Jobs, pc'[k] \in FetchPcs, Cur(k)' \notin spoiled'
                 PROVE  /\ k \notin loose'
                        /\ \A i \in Jobs : On(i, Cur(k))' => i = k
                        /\ pc'[k] = "request" /\ existing'[k] > 0 =>
                             existing'[k] = Len0(files'[Cur(k)'])
                        /\ pc'[k] \in OpenPcs => next'[k] = Len(files'[Cur(k)']) + 1
                        /\ pc'[k] \in RangePcs =>
                             \A n \in done'[k] :
                               n \in parts'[Cur(k)'] /\ n <= SizeOf[Cur(k)']
      BY DEF CallInv, Len0, InParts
    <2>1. CASE k = j
      <3>1. Cur(k)' = Cur(j) /\ Cur(j) \notin spoiled /\ Cur(j) \notin spoiled'
        BY <1>1, <1>2, <2>1 DEF Elsewhere
      <3>2. \A i \in Jobs \ {j} : ~On(i, Cur(j))
        BY <1>1, <1>2, <3>1 DEF Elsewhere, CallInv
      <3>3. \A i \in Jobs : On(i, Cur(k))' => i = k
        BY <1>2, <2>1, <3>1, <3>2 DEF On
      <3> QED BY <1>1, <2>1, <3>1, <3>3 DEF OwnFile
    <2>2. CASE k # j
      <3>1. /\ Cur(k)' = Cur(k) /\ pc[k] \in FetchPcs /\ Cur(k) \notin spoiled
            /\ Cur(k) \in Files
        BY <1>1, <1>2, <2>2, CurType DEF Elsewhere
      <3>2. Cur(k) # Cur(j)
        BY <1>1, <1>2, <2>2, <3>1 DEF Elsewhere, CallInv, On
      <3>3. /\ k \notin loose /\ k \notin loose' /\ files'[Cur(k)] = files[Cur(k)]
            /\ existing'[k] = existing[k] /\ next'[k] = next[k] /\ done'[k] = done[k]
            /\ parts'[Cur(k)] = parts[Cur(k)]
        BY <1>1, <2>2, <3>1, <3>2 DEF Elsewhere, CallInv
      <3>4. \A i \in Jobs : On(i, Cur(k))' => i = k
        BY <1>2, <3>1, <3>2 DEF On, CallInv
      <3>5. /\ pc[k] = "request" /\ existing[k] > 0 => existing[k] = Len0(files[Cur(k)])
            /\ pc[k] \in OpenPcs => next[k] = Len(files[Cur(k)]) + 1
            /\ pc[k] \in RangePcs => InParts(k)
        BY <3>1 DEF CallInv
      <3> QED BY <1>2, <2>2, <3>1, <3>3, <3>4, <3>5 DEF InParts
    <2> QED BY <2>1, <2>2
  <1> QED BY <1>3, <1>4, <1>5

\* A step between the calls leaves the files alone, but for the generated ticket.
LEMMA OthersKeep ==
  ASSUME FileInv, NEW j \in Jobs, Others(j)
  PROVE  ShapeInv' /\ CallInv' /\ UnspoiledIsPrefix'
  <1> TypeOK /\ ShapeInv /\ CallInv /\ UnspoiledIsPrefix BY DEF FileInv
  <1>1. /\ existing' = existing /\ next' = next /\ loose' = loose /\ parts' = parts /\ done' = done
        /\ pc[j] \notin {"stat"} \cup FetchPcs
    BY DEF Others, Title, Start, Take, ParseTmd, ReadTicket, MakeTicket, NoTicket, Prepare, Fail,
           Raises, FetchPcs
  <1>2. /\ \A f \in Files : f \notin spoiled' => files'[f] = files[f]
        /\ \A f \in Files : files[f] # None => files'[f] # None
        /\ spoiled \subseteq spoiled'
    BY FakeType, EmptyFile
    DEF Others, Title, Start, Take, ParseTmd, ReadTicket, MakeTicket, NoTicket, Prepare, Fail, TypeOK
  <1>3. /\ \A i \in Jobs \ {j} : pc'[i] = pc[i] /\ todo'[i] = todo[i]
        /\ pc'[j] \notin FetchPcs
        /\ pc'[j] \in {"stat", "fetched", "failed"} => todo'[j] # <<>>
    <2>1. CASE Start(j)
      <3>1. \E list : list # <<>> /\ \E p : Fetch(j, p, list)
        <4>1. <<"tmd", "cetk">> # <<>> OBVIOUS
        <4> QED BY <2>1, <4>1 DEF Start
      <3> QED BY <3>1 DEF Fetch, Goto, TypeOK, FetchPcs
    <2>2. CASE Take(j) BY <2>2 DEF Take, Advance, Goto, TypeOK, FetchPcs
    <2>3. CASE ParseTmd(j) BY <2>3 DEF ParseTmd, Goto, TypeOK, FetchPcs
    <2>4. CASE ToContents(j) BY <2>4 DEF ToContents, Fetch, Goto, TypeOK, FetchPcs
    <2>5. CASE Return(j) BY <2>5 DEF Return, Goto, TypeOK, FetchPcs
    <2> QED
      BY <2>1, <2>2, <2>3, <2>4, <2>5
      DEF Others, Title, ReadTicket, MakeTicket, NoTicket, Prepare, Fail
  <1>4. \A i \in Jobs \ {j} : Cur(i)' = Cur(i) /\ \A f : On(i, f)' <=> On(i, f)
    BY <1>3 DEF Cur, On
  <1>5. \A i \in Jobs : pc[i] \in FetchPcs => Cur(i) \in Files BY CurType
  <1>6. ShapeInv'
    <2> SUFFICES ASSUME NEW i \in Jobs
                 PROVE  /\ pc'[i] \in {"stat", "fetched", "failed"} \cup FetchPcs => todo'[i] # <<>>
                        /\ pc'[i] \in OpenPcs /\ i \notin loose' => files'[Cur(i)'] # None
                        /\ pc'[i] \notin OpenPcs => next'[i] = 1 /\ i \notin loose'
                        /\ pc'[i] \notin RangePcs => done'[i] = {}
                        /\ pc'[i] \in RangePcs =>
                             Expected[Cur(i)'] >= ParallelMin /\ existing'[i] = 0
                        /\ pc'[i] = "join" => done'[i] = RangesOf(Cur(i)')
      BY DEF ShapeInv, RangesOf
    <2>1. CASE i = j BY <1>1, <1>3, <2>1 DEF ShapeInv, FetchPcs
    <2>2. CASE i # j BY <1>1, <1>2, <1>3, <1>4, <1>5, <2>2 DEF ShapeInv, FetchPcs
    <2> QED BY <2>1, <2>2
  <1>7. UnspoiledIsPrefix'
    BY <1>2 DEF UnspoiledIsPrefix, IsPrefix
  <1>8. CallInv'
    <2> SUFFICES ASSUME NEW k \in Jobs, pc'[k] \in FetchPcs, Cur(k)' \notin spoiled'
                 PROVE  /\ k \notin loose'
                        /\ \A i \in Jobs : On(i, Cur(k))' => i = k
                        /\ pc'[k] = "request" /\ existing'[k] > 0 =>
                             existing'[k] = Len0(files'[Cur(k)'])
                        /\ pc'[k] \in OpenPcs => next'[k] = Len(files'[Cur(k)']) + 1
                        /\ pc'[k] \in RangePcs =>
                             \A n \in done'[k] :
                               n \in parts'[Cur(k)'] /\ n <= SizeOf[Cur(k)']
      BY DEF CallInv, Len0, InParts
    <2>1. /\ k # j /\ Cur(k)' = Cur(k) /\ pc[k] \in FetchPcs /\ Cur(k) \in Files
          /\ Cur(k) \notin spoiled /\ files'[Cur(k)] = files[Cur(k)] /\ pc'[k] = pc[k]
      BY <1>2, <1>3, <1>4, <1>5
    <2>2. \A i \in Jobs : On(i, Cur(k))' => i = k
      BY <1>3, <1>4, <2>1 DEF On, CallInv
    <2>3. /\ pc[k] = "request" /\ existing[k] > 0 => existing[k] = Len0(files[Cur(k)])
          /\ pc[k] \in OpenPcs => next[k] = Len(files[Cur(k)]) + 1
          /\ pc[k] \in RangePcs => InParts(k)
          /\ k \notin loose
      BY <2>1 DEF CallInv
    <2> QED BY <1>1, <2>1, <2>2, <2>3 DEF InParts
  <1> QED BY <1>6, <1>7, <1>8

LEMMA ExitKeeps ==
  ASSUME FileInv, Exit
  PROVE  ShapeInv' /\ CallInv' /\ UnspoiledIsPrefix'
  <1>1. /\ \A j \in Jobs : pc'[j] = "idle" /\ next'[j] = 1 /\ done'[j] = {}
        /\ loose' = {} /\ files' = files /\ spoiled' = spoiled
    BY DEF Exit
  <1>2. ShapeInv' BY <1>1 DEF ShapeInv, FetchPcs
  <1>3. CallInv' BY <1>1 DEF CallInv, FetchPcs
  <1>4. UnspoiledIsPrefix' BY <1>1 DEF FileInv, UnspoiledIsPrefix, IsPrefix
  <1> QED BY <1>2, <1>3, <1>4

LEMMA FileInit == Init => FileInv
  <1> SUFFICES ASSUME Init PROVE FileInv
    OBVIOUS
  <1>1. /\ \A j \in Jobs : pc[j] = "idle" /\ next[j] = 1 /\ done[j] = {}
        /\ loose = {} /\ \A f \in Files : files[f] = None
    BY DEF Init
  <1>2. TypeOK BY DEF Init, TypeOK, Pcs
  <1>3. ShapeInv BY <1>1 DEF ShapeInv, FetchPcs
  <1>4. CallInv BY <1>1 DEF CallInv, FetchPcs
  <1>5. UnspoiledIsPrefix BY <1>1 DEF UnspoiledIsPrefix
  <1> QED BY <1>2, <1>3, <1>4, <1>5 DEF FileInv

LEMMA FileNext == FileInv /\ [Next]_vars => FileInv'
  <1> SUFFICES ASSUME FileInv, [Next]_vars PROVE FileInv'
    OBVIOUS
  <1>1. ASSUME NEW j \in Jobs, File(j) PROVE FileInv'
    BY <1>1, FileType, FileKeeps DEF FileInv
  <1>2. ASSUME NEW j \in Jobs, Others(j) PROVE FileInv'
    BY <1>2, OthersType, OthersKeep DEF FileInv
  <1>3. CASE Exit BY <1>3, ExitType, ExitKeeps DEF FileInv
  <1>4. CASE UNCHANGED vars
    <2>1. UNCHANGED <<files, pc, todo, existing, next, loose, parts, done, spoiled>> /\ TypeOK'
      BY <1>4 DEF vars, FileInv, TypeOK
    <2>2. ShapeInv' BY <2>1 DEF FileInv, ShapeInv, Cur, RangesOf
    <2>3. CallInv' BY <2>1 DEF FileInv, CallInv, On, Cur, Len0, InParts
    <2>4. UnspoiledIsPrefix' BY <2>1 DEF FileInv, UnspoiledIsPrefix, IsPrefix
    <2> QED BY <2>1, <2>2, <2>3, <2>4 DEF FileInv
  <1> QED BY <1>1, <1>2, <1>3, <1>4 DEF Next, Others

\* What the calls for a file rest on holds in every reachable state.
THEOREM FileInvariance == Spec => []FileInv
  <1> QED BY FileInit, FileNext, PTL DEF Spec

\* Every variable keeps its type: what is on disk is always a sequence of blocks.
THEOREM TypeCorrect == Spec => []TypeOK
  <1>1. FileInv => TypeOK BY DEF FileInv
  <1> QED BY <1>1, FileInvariance, PTL

\* An unspoiled file is at every moment a prefix of the one that is served.
THEOREM PrefixAlways == Spec => []UnspoiledIsPrefix
  <1>1. FileInv => UnspoiledIsPrefix BY DEF FileInv
  <1> QED BY <1>1, FileInvariance, PTL

-----------------------------------------------------------------------------
(* The result of download_title.                                            *)

\* What the phases are for: the metadata files once each, then the contents of
\* the TMD, of which those not among the artifacts are still to do.
Phase(j) ==
  /\ pc[j] = "idle" => have[j] = {} /\ ~info[j] /\ ~alone[j]
  /\ phase[j] = "manifest" => ~info[j] /\ pc[j] \notin {"parse", "ticket"}
  /\ phase[j] = "content" => info[j] /\ pc[j] \notin {"idle", "parse", "ticket"}
  /\ phase[j] = "metadata" => pc[j] \notin {"fetched", "failed"}
  /\ phase[j] = "metadata" /\ pc[j] \in {"stat"} \cup FetchPcs =>
       /\ ~info[j]
       /\ \/ todo[j] = <<"tmd", "cetk">> /\ have[j] = {}
          \/ todo[j] = <<"cetk">> /\ have[j] \subseteq {"tmd"}
  /\ pc[j] = "parse" => ~info[j]
  /\ info[j] => "tmd" \in have[j]
  /\ info[j] /\ pc[j] \notin {"ticket", "prepare"} =>
       /\ phase[j] = "content"
       /\ \A i \in 1..Len(todo[j]) : todo[j][i] \in Contents
       /\ \A k \in 1..Len(Records) :
            Records[k] \in have[j] \/ \E i \in 1..Len(todo[j]) : todo[j][i] = Records[k]
  /\ info[j] /\ pc[j] = "prepare" => \A k \in 1..Len(Records) : Records[k] \in have[j]

\* The title key of the ticket is that of the server's.
Real(file) == file # None /\ Len(file) > 0 /\ file[1] = 1

\* The artifacts of an install that has run alone, but for one that it fetches
\* a second time, and the ticket it has read.
Alone(j) ==
  alone[j] =>
    /\ \A i \in Jobs \ {j} : pc[i] = "idle"
    /\ \A f \in have[j] \ spoiled :
         Settled(files[f], f) \/ (pc[j] \in FetchPcs \cup {"failed"} /\ Cur(j) = f)
    /\ pc[j] = "fetched" /\ Cur(j) \notin spoiled => Settled(files[Cur(j)], Cur(j))
    /\ info[j] /\ pc[j] # "ticket" /\ "cetk" \in have[j] /\ "cetk" \notin spoiled =>
         Real(ticket[j])

IInv ==
  /\ FileInv
  /\ \A j \in Jobs : Phase(j) /\ Alone(j)

\* A step of one job leaves the variables of the others alone; a start takes
\* from all of them that they have run alone.
LEMMA Frame ==
  ASSUME FileInv, NEW j \in Jobs, File(j) \/ Others(j), NEW i \in Jobs \ {j}
  PROVE  /\ pc'[i] = pc[i] /\ todo'[i] = todo[i] /\ phase'[i] = phase[i]
         /\ have'[i] = have[i] /\ info'[i] = info[i] /\ ticket'[i] = ticket[i]
         /\ alone'[i] => alone[i] /\ ~Start(j)
  <1> TypeOK BY DEF FileInv
  <1>1. CASE File(j)
    <2>1. (\E l \in FetchPcs : Works(j, l)) \/ Ended(j) BY <1>1, FileSteps DEF FileStep
    <2>2. ~Start(j)
      BY <2>1 DEF Works, Ended, Start, FetchPcs
    <2>3. have'[i] = have[i]
      <3>1. have' = have \/ have' = [have EXCEPT ![j] = @ \cup {Cur(j)}]
        BY <2>1 DEF Works, Ended
      <3> QED BY <3>1 DEF TypeOK
    <2>4. UNCHANGED <<phase, info, ticket, alone>> BY <2>1 DEF Works, Ended
    <2> QED BY <1>1, <2>2, <2>3, <2>4, FileFrame
  <1>2. CASE Start(j) BY <1>2 DEF Start, Fetch, Goto, TypeOK
  <1>3. CASE Title(j)
    <2>1. ~Start(j)
      BY <1>3 DEF Title, Start, Take, ParseTmd, ReadTicket, MakeTicket, NoTicket, Prepare, Fail,
                  Raises
    <2>2. CASE Take(j) BY <2>1, <2>2 DEF Take, Advance, Goto, TypeOK
    <2>3. CASE ParseTmd(j) BY <2>1, <2>3 DEF ParseTmd, Goto, TypeOK
    <2>4. CASE ReadTicket(j) BY <2>1, <2>4 DEF ReadTicket, ToContents, Fetch, Goto, TypeOK
    <2>5. CASE MakeTicket(j) BY <2>1, <2>5 DEF MakeTicket, ToContents, Fetch, Goto, TypeOK
    <2>6. CASE NoTicket(j) BY <2>1, <2>6 DEF NoTicket, ToContents, Fetch, Goto, TypeOK
    <2>7. CASE Prepare(j) \/ Fail(j) BY <2>1, <2>7 DEF Prepare, Fail, Return, Goto, TypeOK
    <2> QED BY <1>3, <2>2, <2>3, <2>4, <2>5, <2>6, <2>7 DEF Title
  <1> QED BY <1>1, <1>2, <1>3 DEF Others

\* The two metadata files.
LEMMA Metadata ==
  /\ Head(<<"tmd", "cetk">>) = "tmd" /\ Tail(<<"tmd", "cetk">>) = <<"cetk">>
  /\ Head(<<"cetk">>) = "cetk" /\ Tail(<<"cetk">>) = <<>>
  /\ <<"cetk">> # <<>> /\ "tmd" # "cetk"
  OBVIOUS

LEMMA FilePhase ==
  ASSUME FileInv, NEW j \in Jobs, Phase(j), File(j)
  PROVE  Phase(j)'
  <1> TypeOK BY DEF FileInv
  <1>1. pc[j] \in {"stat"} \cup FetchPcs BY FileFrame
  <1>2. CASE \E l \in FetchPcs : Works(j, l)
    <2>1. /\ pc'[j] \in FetchPcs
          /\ UNCHANGED <<phase, todo, have, info, alone>>
      BY <1>2 DEF Works, TypeOK
    <2> QED BY <1>1, <2>1 DEF Phase, FetchPcs
  <1>3. CASE Ended(j) /\ phase[j] = "metadata"
    <2>1. /\ UNCHANGED <<phase, info, alone>>
          /\ todo'[j] = Rest(j)
          /\ pc'[j] = IF Rest(j) = <<>> THEN "parse" ELSE "stat"
      BY <1>3 DEF Ended, TypeOK
    <2>2. have'[j] \subseteq have[j] \cup {Cur(j)}
      <3>1. have' = have \/ have' = [have EXCEPT ![j] = @ \cup {Cur(j)}] BY <1>3 DEF Ended
      <3> QED BY <3>1 DEF TypeOK
    <2>3. ~info[j] BY <1>1, <1>3 DEF Phase
    <2>4. CASE todo[j] = <<"tmd", "cetk">> /\ have[j] = {}
      <3>1. Rest(j) = <<"cetk">> /\ Cur(j) = "tmd" /\ Rest(j) # <<>>
        BY <2>4, Metadata DEF Rest, Cur
      <3> QED BY <1>3, <2>1, <2>2, <2>3, <2>4, <3>1 DEF Phase, FetchPcs
    <2>5. CASE todo[j] = <<"cetk">> /\ have[j] \subseteq {"tmd"}
      <3>1. Rest(j) = <<>> BY <2>5, Metadata DEF Rest
      <3> QED BY <1>3, <2>1, <2>2, <2>3, <3>1 DEF Phase, FetchPcs
    <2> QED BY <1>1, <1>3, <2>4, <2>5 DEF Phase
  <1>4. CASE Ended(j) /\ phase[j] # "metadata"
    <2>1. /\ UNCHANGED <<phase, todo, have, info, alone>>
          /\ pc'[j] \in {"failed", "fetched"}
      BY <1>4 DEF Ended, TypeOK
    <2> QED BY <1>1, <1>4, <2>1 DEF Phase, FetchPcs
  <1> QED BY <1>2, <1>3, <1>4, FileSteps DEF FileStep

\* With a parsed TMD its contents are next, all of them still to do.
LEMMA ContentsNext ==
  ASSUME TypeOK, NEW j \in Jobs, ToContents(j)
  PROVE  \/ /\ info[j] /\ phase'[j] = "content" /\ todo'[j] = Records /\ pc'[j] = "stat"
         \/ /\ phase'[j] = phase[j] /\ todo'[j] = todo[j] /\ pc'[j] = "prepare"
            /\ info[j] => Records = <<>>
  BY DEF ToContents, Fetch, Goto, TypeOK

LEMMA TakeContent ==
  ASSUME FileInv, NEW j \in Jobs, Phase(j), pc[j] = "fetched", info[j]
  PROVE  /\ Cur(j) \in Contents
         /\ \A i \in 1..Len(Rest(j)) : Rest(j)[i] \in Contents
         /\ \A k \in 1..Len(Records) :
              \/ Records[k] \in have[j] \cup {Cur(j)}
              \/ \E i \in 1..Len(Rest(j)) : Rest(j)[i] = Records[k]
  <1>1. /\ \A i \in 1..Len(todo[j]) : todo[j][i] \in Contents
        /\ \A k \in 1..Len(Records) :
             Records[k] \in have[j] \/ \E i \in 1..Len(todo[j]) : todo[j][i] = Records[k]
    BY DEF Phase
  <1>2. todo[j] \in Seq(Files) /\ todo[j] # <<>> BY CurType
  <1>3. /\ Cur(j) = todo[j][1] /\ Len(todo[j]) \in Nat \ {0}
        /\ Rest(j) \in Seq(Files) /\ Len(Rest(j)) = Len(todo[j]) - 1
        /\ \A i \in 1..Len(Rest(j)) : Rest(j)[i] = todo[j][i + 1]
    BY <1>2, Heads DEF Cur, Rest
  <1>4. Cur(j) \in Contents BY <1>1, <1>3
  <1>5. \A i \in 1..Len(Rest(j)) : Rest(j)[i] \in Contents
    <2> TAKE i \in 1..Len(Rest(j))
    <2>1. i + 1 \in 1..Len(todo[j]) BY <1>3
    <2> QED BY <1>1, <1>3, <2>1
  <1>6. ASSUME NEW k \in 1..Len(Records), Records[k] \notin have[j] \cup {Cur(j)}
        PROVE  \E i \in 1..Len(Rest(j)) : Rest(j)[i] = Records[k]
    <2>1. PICK i \in 1..Len(todo[j]) : todo[j][i] = Records[k] BY <1>1, <1>6
    <2>2. i # 1 BY <1>3, <1>6, <2>1
    <2>3. i - 1 \in 1..Len(Rest(j)) /\ (i - 1) + 1 = i BY <1>3, <2>2
    <2>4. Rest(j)[i - 1] = Records[k] BY <1>3, <2>1, <2>3
    <2> QED BY <2>3, <2>4
  <1> QED BY <1>4, <1>5, <1>6

LEMMA OthersPhase ==
  ASSUME FileInv, NEW j \in Jobs, Phase(j), Others(j)
  PROVE  Phase(j)'
  <1> TypeOK BY DEF FileInv
  <1>1. CASE Start(j)
    <2>1. /\ pc[j] = "idle" /\ pc'[j] = "stat" /\ have' = have /\ info' = info
          /\ \/ phase'[j] = "manifest"
             \/ phase'[j] = "metadata" /\ todo'[j] = <<"tmd", "cetk">>
      BY <1>1 DEF Start, Fetch, Goto, TypeOK
    <2> QED BY <2>1 DEF Phase
  <1>2. CASE Take(j)
    <2>1. /\ pc[j] = "fetched" /\ phase' = phase /\ info' = info /\ alone' = alone
          /\ todo'[j] = Rest(j) /\ have'[j] = have[j] \cup {Cur(j)}
          /\ pc'[j] = IF Rest(j) = <<>> THEN "prepare" ELSE "stat"
      BY <1>2 DEF Take, Advance, Goto, TypeOK
    <2>2. CASE ~info[j] BY <2>1, <2>2 DEF Phase
    <2>3. CASE info[j]
      <3>1. phase[j] = "content" /\ "tmd" \in have[j] BY <2>1, <2>3 DEF Phase
      <3>2. Rest(j) = <<>> => Len(Rest(j)) = 0 OBVIOUS
      <3>3. Rest(j) = <<>> => \A k \in 1..Len(Records) : Records[k] \in have'[j]
        BY <2>1, <2>3, <3>2, TakeContent
      <3> QED BY <2>1, <2>3, <3>1, <3>3, TakeContent DEF Phase
    <2> QED BY <2>2, <2>3
  <1>3. CASE ParseTmd(j)
    <2>1. /\ pc[j] = "parse" /\ pc'[j] = "ticket" /\ UNCHANGED <<phase, todo, have, alone>>
          /\ info'[j] => info[j] \/ "tmd" \in have[j]
      BY <1>3 DEF ParseTmd, Goto, TypeOK
    <2> QED BY <2>1 DEF Phase, FetchPcs
  <1>4. CASE ReadTicket(j) \/ MakeTicket(j) \/ NoTicket(j)
    <2>1. /\ pc[j] = "ticket" /\ ToContents(j) /\ info' = info /\ alone' = alone
      BY <1>4 DEF ReadTicket, MakeTicket, NoTicket
    <2>2. have[j] \subseteq have'[j]
      <3>1. CASE MakeTicket(j)
        <4>1. have' = have \/ have' = [have EXCEPT ![j] = @ \cup {"cetk"}]
          BY <3>1 DEF MakeTicket
        <4> QED BY <4>1 DEF TypeOK
      <3>2. CASE ReadTicket(j) \/ NoTicket(j) BY <3>2 DEF ReadTicket, NoTicket
      <3> QED BY <1>4, <3>1, <3>2
    <2>3. phase[j] = "metadata" BY <2>1 DEF Phase, TypeOK
    <2>4. Records \in Seq(Contents) /\ (Records = <<>> => Len(Records) = 0)
      BY FilesAssumption
    <2>5. \A i \in 1..Len(Records) : Records[i] \in Contents BY <2>4
    <2>6. info[j] => "tmd" \in have[j] BY DEF Phase
    <2>7. CASE /\ info[j] /\ phase'[j] = "content" /\ todo'[j] = Records /\ pc'[j] = "stat"
      BY <2>1, <2>2, <2>5, <2>6, <2>7 DEF Phase
    <2>8. CASE /\ phase'[j] = phase[j] /\ pc'[j] = "prepare"
               /\ info[j] => Records = <<>>
      BY <2>1, <2>2, <2>3, <2>4, <2>6, <2>8 DEF Phase, FetchPcs
    <2> QED BY <2>1, <2>7, <2>8, ContentsNext
  <1>5. CASE Prepare(j) \/ Fail(j)
    <2>1. /\ pc'[j] = "idle" /\ phase'[j] = "metadata" /\ have'[j] = {} /\ info'[j] = FALSE
          /\ alone'[j] = FALSE
      BY <1>5 DEF Prepare, Fail, Return, Goto, TypeOK
    <2> QED BY <2>1 DEF Phase, FetchPcs
  <1> QED BY <1>1, <1>2, <1>3, <1>4, <1>5 DEF Others, Title

LEMMA FileAlone ==
  ASSUME FileInv, NEW j \in Jobs, Phase(j), Alone(j), File(j), alone[j]
  PROVE  /\ \A f \in have'[j] \ spoiled' :
              Settled(files'[f], f) \/ (pc'[j] \in FetchPcs \cup {"failed"} /\ Cur(j)' = f)
         /\ pc'[j] = "fetched" /\ Cur(j)' \notin spoiled' => Settled(files'[Cur(j)'], Cur(j)')
         /\ info'[j] /\ pc'[j] # "ticket" /\ "cetk" \in have'[j] /\ "cetk" \notin spoiled' =>
              Real(ticket'[j])
  <1> TypeOK BY DEF FileInv
  <1>1. /\ pc[j] \in {"stat"} \cup FetchPcs /\ Cur(j) \in Files
        /\ Elsewhere(j) /\ have[j] \subseteq Files
    BY FileFrame, FileSteps, CurType DEF FileStep, TypeOK
  <1>2. \A f \in have[j] \ spoiled : Settled(files[f], f) \/ Cur(j) = f BY DEF Alone
  <1>3. info[j] /\ "cetk" \in have[j] /\ "cetk" \notin spoiled => Real(ticket[j])
    BY <1>1 DEF Alone, FetchPcs
  <1>4. ASSUME NEW f \in have[j], f \notin spoiled', f # Cur(j)
        PROVE  Settled(files'[f], f)
    BY <1>1, <1>2, <1>4 DEF Elsewhere
  <1>5. CASE \E l \in FetchPcs : Works(j, l)
    <2>1. pc'[j] \in FetchPcs /\ UNCHANGED <<have, info, ticket>> BY <1>5 DEF Works, TypeOK
    <2>2. Cur(j)' = Cur(j) BY <2>1, FileFrame
    <2>3. spoiled \subseteq spoiled' /\ pc'[j] # "fetched" BY <1>1, <2>1 DEF Elsewhere, FetchPcs
    <2> QED BY <1>3, <1>4, <2>1, <2>2, <2>3
  <1>6. CASE Ended(j) /\ phase[j] = "metadata"
    <2>1. /\ UNCHANGED <<info, spoiled>> /\ pc'[j] \in {"parse", "stat"}
          /\ \/ have' = have
             \/ /\ have' = [have EXCEPT ![j] = @ \cup {Cur(j)}]
                /\ Cur(j) \notin spoiled => Settled(files'[Cur(j)], Cur(j))
      BY <1>6 DEF Ended, TypeOK
    <2>2. ~info[j] /\ Cur(j) \notin have[j]
      BY <1>1, <1>6, Metadata DEF Phase, Cur
    <2>3. \A f \in have'[j] : f \in have[j] \/ f = Cur(j) BY <2>1 DEF TypeOK
    <2>4. Cur(j) \in have'[j] /\ Cur(j) \notin spoiled => Settled(files'[Cur(j)], Cur(j))
      BY <2>1, <2>2
    <2> QED BY <1>4, <2>1, <2>2, <2>3, <2>4
  <1>7. CASE Ended(j) /\ phase[j] # "metadata"
    <2>1. /\ UNCHANGED <<have, todo, info, ticket, spoiled>>
          /\ \/ pc'[j] = "failed"
             \/ /\ pc'[j] = "fetched"
                /\ Cur(j) \notin spoiled => Settled(files'[Cur(j)], Cur(j))
      BY <1>7 DEF Ended, TypeOK
    <2>2. Cur(j)' = Cur(j) BY <2>1 DEF Cur
    <2> QED BY <1>3, <1>4, <2>1, <2>2
  <1> QED BY <1>5, <1>6, <1>7, FileSteps DEF FileStep

\* The ticket among the artifacts, unless it is spoiled, is the server's.
LEMMA SettledIsReal ==
  ASSUME FileInv, "cetk" \notin spoiled, Settled(files["cetk"], "cetk")
  PROVE  Real(files["cetk"])
  <1>1. "cetk" \in Files BY DEF Files
  <1>2. files["cetk"] \in Seq(Data) /\ IsPrefix(files["cetk"], "cetk")
    BY <1>1 DEF Settled, FileInv, TypeOK, UnspoiledIsPrefix
  <1>3. SizeOf["cetk"] > 0 /\ (Expected["cetk"] >= ParallelMin => Expected["cetk"] > 0)
    BY <1>1, SizeAssumption
  <1>4. Len(files["cetk"]) > 0 BY <1>3 DEF Settled, MaySettleFor
  <1>5. files["cetk"][1] = 1
    <2>1. 1 \in 1..Len(files["cetk"]) BY <1>2, <1>4
    <2> QED BY <1>2, <2>1 DEF IsPrefix
  <1> QED BY <1>4, <1>5 DEF Settled, Real

LEMMA OthersAlone ==
  ASSUME FileInv, NEW j \in Jobs, Phase(j), Alone(j), Others(j), alone'[j]
  PROVE  /\ \A f \in have'[j] \ spoiled' :
              Settled(files'[f], f) \/ (pc'[j] \in FetchPcs \cup {"failed"} /\ Cur(j)' = f)
         /\ pc'[j] = "fetched" /\ Cur(j)' \notin spoiled' => Settled(files'[Cur(j)'], Cur(j)')
         /\ info'[j] /\ pc'[j] # "ticket" /\ "cetk" \in have'[j] /\ "cetk" \notin spoiled' =>
              Real(ticket'[j])
  <1> TypeOK BY DEF FileInv
  <1>1. CASE Start(j)
    <2>1. /\ pc[j] = "idle" /\ pc'[j] = "stat" /\ have' = have /\ info' = info
      BY <1>1 DEF Start, Fetch, Goto, TypeOK
    <2> QED BY <2>1 DEF Phase
  <1>2. CASE Take(j)
    <2>1. /\ pc[j] = "fetched" /\ pc'[j] \in {"prepare", "stat"}
          /\ UNCHANGED <<files, spoiled, info, ticket, alone>>
          /\ have'[j] = have[j] \cup {Cur(j)}
      BY <1>2 DEF Take, Advance, Goto, TypeOK
    <2>2. /\ \A f \in have[j] \ spoiled : Settled(files[f], f)
          /\ Cur(j) \notin spoiled => Settled(files[Cur(j)], Cur(j))
          /\ info[j] /\ "cetk" \in have[j] /\ "cetk" \notin spoiled => Real(ticket[j])
      BY <2>1 DEF Alone, FetchPcs
    <2>3. info[j] => Cur(j) # "cetk" BY <2>1, TakeContent, FilesAssumption
    <2> QED BY <2>1, <2>2, <2>3
  <1>3. CASE ParseTmd(j)
    <2>1. /\ pc[j] = "parse" /\ pc'[j] = "ticket" /\ UNCHANGED <<files, have, spoiled, alone>>
      BY <1>3 DEF ParseTmd, Goto, TypeOK
    <2> QED BY <2>1 DEF Alone, FetchPcs
  <1>4. CASE ReadTicket(j) \/ MakeTicket(j) \/ NoTicket(j)
    <2>1. /\ pc[j] = "ticket" /\ pc'[j] \in {"stat", "prepare"} /\ alone' = alone
      BY <1>4, ContentsNext DEF ReadTicket, MakeTicket, NoTicket
    <2>2. \A f \in have[j] \ spoiled : Settled(files[f], f) BY <2>1 DEF Alone, FetchPcs
    <2>3. CASE ReadTicket(j)
      <3>1. /\ "cetk" \in have[j] /\ ticket'[j] = files["cetk"]
            /\ UNCHANGED <<files, have, spoiled>>
        BY <2>3 DEF ReadTicket, TypeOK
      <3>2. "cetk" \notin spoiled => Real(files["cetk"]) BY <2>2, <3>1, SettledIsReal
      <3> QED BY <2>1, <2>2, <3>1, <3>2
    <2>4. CASE MakeTicket(j)
      <3>1. "cetk" \in spoiled' /\ spoiled \subseteq spoiled' BY <2>4 DEF MakeTicket
      <3>2. \A f \in Files : f # "cetk" => files'[f] = files[f] BY <2>4 DEF MakeTicket, TypeOK
      <3>3. have'[j] \subseteq have[j] \cup {"cetk"}
        <4>1. have' = have \/ have' = [have EXCEPT ![j] = @ \cup {"cetk"}]
          BY <2>4 DEF MakeTicket
        <4> QED BY <4>1 DEF TypeOK
      <3>4. have[j] \subseteq Files BY DEF TypeOK
      <3> QED BY <2>1, <2>2, <3>1, <3>2, <3>3, <3>4
    <2>5. CASE NoTicket(j)
      <3>1. "cetk" \notin have[j] /\ UNCHANGED <<files, have, spoiled>> BY <2>5 DEF NoTicket
      <3> QED BY <2>1, <2>2, <3>1
    <2> QED BY <1>4, <2>3, <2>4, <2>5
  <1>5. CASE Prepare(j) \/ Fail(j)
    <2>1. ~alone'[j] BY <1>5 DEF Prepare, Fail, Return, TypeOK
    <2> QED BY <2>1
  <1> QED BY <1>1, <1>2, <1>3, <1>4, <1>5 DEF Others, Title

\* Only a start makes an install one that has run alone, and only beside none.
LEMMA StartsAlone ==
  ASSUME FileInv, NEW j \in Jobs, Phase(j), File(j) \/ Others(j), alone'[j]
  PROVE  /\ Start(j) => \A i \in Jobs : pc[i] = "idle"
         /\ alone[j] \/ Start(j)
         /\ pc[j] # "idle" \/ Start(j)
  <1> TypeOK BY DEF FileInv
  <1>1. CASE File(j)
    <2>1. pc[j] \in {"stat"} \cup FetchPcs BY <1>1, FileFrame
    <2>2. alone' = alone BY <1>1, FileSteps DEF FileStep, Works, Ended
    <2> QED BY <2>1, <2>2 DEF Start, FetchPcs
  <1>2. CASE Start(j)
    <2>1. alone' = [k \in Jobs |-> k = j /\ \A i \in Jobs : ~Active(i)] BY <1>2 DEF Start
    <2>2. \A i \in Jobs : ~Active(i) BY <2>1, Zenon
    <2> QED BY <1>2, <2>2 DEF Active
  <1>3. CASE Title(j)
    <2>1. pc[j] # "idle"
      BY <1>3 DEF Title, Take, ParseTmd, ReadTicket, MakeTicket, NoTicket, Prepare, Fail, Raises
    <2>2. alone[j]
      BY <1>3 DEF Title, Take, ParseTmd, ReadTicket, MakeTicket, NoTicket, Prepare, Fail, Return,
                  TypeOK
    <2> QED BY <2>1, <2>2 DEF Start
  <1> QED BY <1>1, <1>2, <1>3 DEF Others

LEMMA JobNext ==
  ASSUME IInv, NEW j \in Jobs, File(j) \/ Others(j)
  PROVE  \A i \in Jobs : Phase(i)' /\ Alone(i)'
  <1> FileInv /\ \A i \in Jobs : Phase(i) /\ Alone(i) BY DEF IInv
  <1>1. Phase(j)' BY FilePhase, OthersPhase
  <1>2. ASSUME NEW i \in Jobs \ {j} PROVE Phase(i)'
    <2>1. alone'[i] => alone[i] BY Frame
    <2> QED BY <2>1, Frame DEF Phase
  <1>3. Alone(j)'
    <2> SUFFICES ASSUME alone'[j] PROVE Alone(j)'
      BY DEF Alone
    <2>1. \A i \in Jobs \ {j} : pc[i] = "idle" BY StartsAlone DEF Alone
    <2>2. \A i \in Jobs \ {j} : pc'[i] = "idle" BY <2>1, Frame
    <2>3. CASE File(j)
      <3>1. alone[j] BY <2>3, StartsAlone, FileFrame DEF Start, FetchPcs
      <3> QED BY <2>2, <2>3, <3>1, FileAlone DEF Alone
    <2>4. CASE Others(j) BY <2>2, <2>4, OthersAlone DEF Alone
    <2> QED BY <2>3, <2>4
  <1>4. ASSUME NEW i \in Jobs \ {j} PROVE Alone(i)'
    <2>1. ~alone'[i]
      <3>1. SUFFICES ASSUME alone'[i] PROVE FALSE
        OBVIOUS
      <3>2. alone[i] /\ ~Start(j) BY <3>1, Frame
      <3>3. pc[j] = "idle" BY <3>2 DEF Alone
      <3>4. CASE File(j) BY <3>3, <3>4, FileFrame DEF FetchPcs
      <3>5. CASE Title(j)
        BY <3>3, <3>5 DEF Title, Take, ParseTmd, ReadTicket, MakeTicket, NoTicket, Prepare, Fail,
                          Raises
      <3> QED BY <3>2, <3>4, <3>5 DEF Others
    <2> QED BY <2>1 DEF Alone
  <1> QED BY <1>1, <1>2, <1>3, <1>4

LEMMA IInvNext == IInv /\ [Next]_vars => IInv'
  <1> SUFFICES ASSUME IInv, [Next]_vars PROVE IInv'
    OBVIOUS
  <1>1. FileInv' BY FileNext DEF IInv
  <1>2. ASSUME NEW j \in Jobs, File(j) \/ Others(j) PROVE \A i \in Jobs : Phase(i)' /\ Alone(i)'
    BY <1>2, JobNext
  <1>3. CASE Exit
    <2>1. \A j \in Jobs : /\ pc'[j] = "idle" /\ phase'[j] = "metadata" /\ have'[j] = {}
                          /\ info'[j] = FALSE /\ alone'[j] = FALSE
      BY <1>3 DEF Exit
    <2>2. \A j \in Jobs : Phase(j)' BY <2>1 DEF Phase, FetchPcs
    <2>3. \A j \in Jobs : Alone(j)' BY <2>1 DEF Alone
    <2> QED BY <1>1, <2>2, <2>3 DEF IInv
  <1>4. CASE UNCHANGED vars
    <2>1. \A j \in Jobs : Phase(j)' BY <1>4 DEF vars, IInv, Phase
    <2>2. \A j \in Jobs : Alone(j)'
      <3>1. \A j \in Jobs : Cur(j)' = Cur(j) BY <1>4 DEF vars, Cur
      <3> QED BY <1>4, <3>1 DEF vars, IInv, Alone
    <2> QED BY <1>1, <2>1, <2>2 DEF IInv
  <1> QED BY <1>1, <1>2, <1>3, <1>4 DEF Next, Others, IInv

LEMMA IInvInit == Init => IInv
  <1> SUFFICES ASSUME Init PROVE IInv
    OBVIOUS
  <1>1. \A j \in Jobs : /\ pc[j] = "idle" /\ phase[j] = "metadata" /\ have[j] = {}
                        /\ info[j] = FALSE /\ alone[j] = FALSE
    BY DEF Init
  <1>2. \A j \in Jobs : Phase(j) /\ Alone(j) BY <1>1 DEF Phase, Alone, FetchPcs
  <1> QED BY <1>2, FileInit DEF IInv

\* IInv holds in every reachable state, whatever installs overlap or break off.
THEOREM Invariance == Spec => []IInv
  BY IInvInit, IInvNext, PTL DEF Spec

\* Every artifact of an install that has run alone is whole, or cut off exactly
\* where its record or its manifest entry ends it; spoiled files apart.
THEOREM ResultAlwaysWhole == Spec => []ResultIsWhole
  <1>1. IInv => ResultIsWhole
    <2> SUFFICES ASSUME IInv, NEW j \in Jobs, pc[j] = "prepare", alone[j],
                        NEW f \in have[j] \ spoiled
                 PROVE  /\ files[f] # None /\ Len(files[f]) \in MaySettleFor(f)
                        /\ Begins(files[f], Len(files[f]))
      BY DEF ResultIsWhole
    <2>1. Settled(files[f], f) BY DEF IInv, Alone, FetchPcs
    <2>2. f \in Files BY DEF IInv, FileInv, TypeOK
    <2>3. files[f] \in Seq(Data) /\ IsPrefix(files[f], f)
      BY <2>1, <2>2 DEF Settled, IInv, FileInv, TypeOK, UnspoiledIsPrefix
    <2>4. Len(files[f]) >= Len(files[f]) BY <2>3
    <2> QED BY <2>1, <2>3, <2>4 DEF Settled, Begins, IsPrefix
  <1> QED BY <1>1, Invariance, PTL

\* A direct install has all of its contents, decrypted with the real title key.
THEOREM DirectAlwaysDecrypted == Spec => []DirectIsDecrypted
  <1>1. IInv => DirectIsDecrypted
    <2> SUFFICES ASSUME IInv, NEW j \in Jobs, pc[j] = "prepare", alone[j],
                        have[j] \cap spoiled = {}, Direct(j)
                 PROVE  /\ {"tmd", "cetk"} \cup {Records[k] : k \in 1..Len(Records)} \subseteq have[j]
                        /\ Decrypted(j) = have[j] \cap Contents
                        /\ Mismatches(j) \subseteq {c \in Contents : Expected[c] > SizeOf[c]}
      BY DEF DirectIsDecrypted
    <2>1. "cetk" \in have[j] /\ info[j] /\ Phase(j) /\ Alone(j) BY DEF IInv, Direct
    <2>2. "tmd" \in have[j] /\ \A k \in 1..Len(Records) : Records[k] \in have[j]
      BY <2>1 DEF Phase
    <2>3. Real(ticket[j]) BY <2>1 DEF Alone
    <2>4. ticket[j] # None /\ ticket[j] # <<>> /\ RealKey(j)
      BY <2>3, EmptyFile DEF Real, RealKey
    <2>5. Decrypts(j) BY <2>1, <2>4 DEF Decrypts
    <2>6. ASSUME NEW c \in Mismatches(j) PROVE c \in Contents /\ Expected[c] > SizeOf[c]
      <3>1. c \in Contents /\ c \in have[j] /\ c \notin spoiled /\ ~Matches(j, c)
        BY <2>6 DEF Mismatches, Decrypted
      <3>2. c \in Files BY <3>1 DEF Files
      <3>3. Settled(files[c], c) BY <2>1, <3>1 DEF Alone, FetchPcs
      <3>4. files[c] \in Seq(Data) /\ IsPrefix(files[c], c)
        BY <3>1, <3>2, <3>3 DEF Settled, IInv, FileInv, TypeOK, UnspoiledIsPrefix
      <3>5. ~Begins(files[c], Expected[c]) BY <2>4, <3>1, <3>3 DEF Matches, Settled
      <3>6. Expected[c] \in Nat /\ SizeOf[c] \in Nat BY <3>2, SizeAssumption
      <3>7. ~(Expected[c] <= Len(files[c])) BY <3>4, <3>5, <3>6 DEF Begins, IsPrefix
      <3>8. Len(files[c]) \in {SizeOf[c], Expected[c]} BY <3>3 DEF Settled, MaySettleFor
      <3> QED BY <3>1, <3>4, <3>6, <3>7, <3>8
    <2> QED BY <2>1, <2>2, <2>5, <2>6 DEF Decrypted
  <1> QED BY <1>1, Invariance, PTL

-----------------------------------------------------------------------------
(* The refinement of FileFetch by the watched file, for a server whose      *)
(* metadata files are not below the minimum size.                           *)

\* A call is under way exactly where the history says so, and an unspoiled
\* file is never found too small.
WatchInv ==
  Watched \notin spoiled =>
    /\ call = "busy" <=> \E j \in Jobs : On(j, Watched)
    /\ \A j \in Jobs : On(j, Watched) => pc[j] # "small"

RInv == IInv /\ WatchInv

LargeEnough == Watched \in {"tmd", "cetk"} => SizeOf[Watched] >= MinSize[Watched]

Seen == IF Watched \in spoiled THEN "replaced" ELSE call

\* The ways of a call for the file, as FileFetch sees them.
Called(j) ==
  /\ pc[j] = "stat" /\ files' = files /\ call' = "busy" /\ pc'[j] \in {"request", "ranges"}
Truncated == files'[Watched] \in {None, <<>>} /\ call' = call
Grown ==
  /\ call' = call
  /\ files[Watched] \in Seq(Data) /\ Len(files[Watched]) < SizeOf[Watched]
  /\ files'[Watched] # None /\ Len(files'[Watched]) = Len(files[Watched]) + 1
Same == files'[Watched] = files[Watched] /\ call' = call
GoesOn(j) == pc'[j] \in FetchPcs \ {"small"} /\ (Truncated \/ Grown \/ Same)
Over(j) ==
  /\ files' = files /\ pc'[j] \notin FetchPcs
  /\ \/ call' = "error"
     \/ call' = "ok" /\ Settled(files[Watched], Watched)

\* What is fetched as metadata is.
LEMMA MetadataCur ==
  ASSUME NEW j \in Jobs, Phase(j), phase[j] = "metadata", pc[j] \in FetchPcs
  PROVE  Cur(j) \in {"tmd", "cetk"}
  BY Metadata DEF Phase, Cur

LEMMA WatchedFacts ==
  ASSUME TypeOK
  PROVE  /\ Watched \in Files /\ SizeOf[Watched] \in Nat \ {0}
         /\ files[Watched] \in Seq(Data) \cup {None}
         /\ call \in {"none", "busy", "ok", "error"}
  BY ServedType, FilesAssumption DEF TypeOK

\* Those of the ranges.
LEMMA WatchedRanges ==
  ASSUME RInv, NEW j \in Jobs, Ranging(j), Cur(j) = Watched, Watched \notin spoiled
  PROVE  GoesOn(j) \/ Over(j)
  <1> FileInv /\ TypeOK BY DEF RInv, IInv, FileInv
  <1>1. pc[j] \in RangePcs /\ pc[j] \in FetchPcs
    BY DEF Ranging, JoinOpen, JoinPart, JoinEnd, RangesFail, FetchPcs
  <1>2. CASE \E k \in RangesOf(Cur(j)) : RangeTry(j, k) \/ RangeDone(j, k)
    BY <1>1, <1>2 DEF RangeTry, RangeDone, GoesOn, Same, FetchPcs
  <1>3. CASE JoinOpen(j)
    <2>1. pc'[j] = "join" /\ call' = call /\ files'[Watched] = <<>>
      BY <1>3, WatchedFacts DEF JoinOpen, Goto, TypeOK
    <2> QED BY <2>1 DEF GoesOn, Truncated, FetchPcs
  <1>4. CASE JoinPart(j)
    <2>1. /\ pc' = pc /\ call' = call /\ pc[j] = "join" /\ next[j] \in RangesOf(Cur(j))
      BY <1>4 DEF JoinPart
    <2>2. /\ j \notin loose /\ next[j] = Len(files[Cur(j)]) + 1 /\ InParts(j)
          /\ done[j] = RangesOf(Cur(j))
      BY <1>1, <2>1, Before
    <2>3. next[j] \in parts[Cur(j)] /\ next[j] <= SizeOf[Cur(j)]
      BY <2>1, <2>2 DEF InParts
    <2>4. files'[Cur(j)] = Put(files[Cur(j)], Len(files[Cur(j)]) + 1, next[j])
      BY <1>4, <2>2, <2>3, WatchedFacts DEF JoinPart, TypeOK
    <2>5. /\ files[Cur(j)] \in Seq(Data) /\ Len(files[Cur(j)]) < SizeOf[Cur(j)]
          /\ Len(files'[Cur(j)]) = next[j]
      BY <2>1, <2>3, <2>4, WriteStep
    <2>6. files'[Cur(j)] # None
      <3>1. next[j] \in Data /\ Len(files[Cur(j)]) + 1 \in Nat \ {0}
        BY <2>5 DEF Data, TypeOK
      <3> QED BY <2>4, <2>5, <3>1, PutType, FakeType
    <2> QED BY <2>1, <2>2, <2>5, <2>6 DEF GoesOn, Grown, FetchPcs
  <1>5. CASE JoinEnd(j)
    <2>1. files' = files /\ files[Watched] # None BY <1>5 DEF JoinEnd
    <2>2. CASE Len(files[Cur(j)]) = Expected[Cur(j)]
      <3>1. Settled(files[Watched], Watched)
        BY <1>1, <2>1, <2>2, Before DEF Settled, MaySettleFor
      <3>2. End(j, TRUE) BY <1>5, <2>2 DEF JoinEnd
      <3>3. call' = "ok" /\ pc'[j] \notin FetchPcs
        BY <3>2 DEF End, Marked, Advance, Goto, TypeOK, FetchPcs
      <3> QED BY <2>1, <3>1, <3>3 DEF Over
    <2>3. CASE Len(files[Cur(j)]) # Expected[Cur(j)]
      <3>1. pc'[j] = "request" /\ call' = call BY <1>5, <2>3 DEF JoinEnd, Goto, TypeOK
      <3> QED BY <2>1, <3>1 DEF GoesOn, Same, FetchPcs
    <2> QED BY <2>2, <2>3
  <1>6. CASE RangesFail(j)
    <2>1. pc'[j] = "request" /\ call' = call BY <1>6 DEF RangesFail, Goto, TypeOK
    <2>2. files' = files \/ files'[Watched] = None
      BY <1>6, WatchedFacts DEF RangesFail, TypeOK
    <2> QED BY <2>1, <2>2 DEF GoesOn, Same, Truncated, FetchPcs
  <1> QED BY <1>2, <1>3, <1>4, <1>5, <1>6 DEF Ranging

\* Each step of a call for an unspoiled file is one of them.
LEMMA WatchedStep ==
  ASSUME LargeEnough, RInv, NEW j \in Jobs, File(j), Cur(j) = Watched, Watched \notin spoiled'
  PROVE  /\ Watched \notin spoiled
         /\ Called(j) \/ (On(j, Watched) /\ (GoesOn(j) \/ Over(j)))
  <1> FileInv /\ TypeOK BY DEF RInv, IInv, FileInv
  <1> DEFINE f == Watched
  <1>1. f \in Files /\ SizeOf[f] \in Nat \ {0} BY WatchedFacts
  <1>2. Elsewhere(j) /\ pc[j] \in {"stat"} \cup FetchPcs BY FileSteps, FileFrame DEF FileStep
  <1>3. f \notin spoiled BY <1>2 DEF Elsewhere
  <1>4. pc[j] \in FetchPcs => On(j, f) /\ pc[j] # "small"
    <2>1. pc[j] \in FetchPcs => On(j, f) BY DEF On
    <2> QED BY <1>3, <2>1 DEF RInv, WatchInv
  <1> USE DEF GoesOn
  <1>5. ASSUME pc[j] \in {"request", "stream"}, NEW size, size >= SizeOf[f], size \in Nat,
               Finish(j, size), files' = files, Settled(files[f], f)
        PROVE  On(j, f) /\ Over(j)
    <2>1. ~TooSmall(j, size)
      <3> SUFFICES ASSUME phase[j] = "metadata" PROVE ~(size < MinSize[f])
        BY DEF TooSmall
      <3>1. Phase(j) BY DEF RInv, IInv
      <3>2. f \in {"tmd", "cetk"} BY <1>5, <3>1, MetadataCur DEF FetchPcs
      <3>3. MinSize[f] \in Nat BY <3>2, SizeAssumption
      <3> QED BY <1>1, <1>5, <3>2, <3>3 DEF LargeEnough
    <2>2. End(j, TRUE) BY <1>5, <2>1 DEF Finish
    <2>3. call' = "ok" BY <1>3, <2>2 DEF End, Marked
    <2>4. pc'[j] \notin FetchPcs BY <2>2 DEF End, Advance, Goto, TypeOK, FetchPcs
    <2> QED BY <1>4, <1>5, <2>3, <2>4 DEF Over, FetchPcs
  <1>6. CASE Stat(j)
    <2>1. call' = "busy" BY <1>6 DEF Stat, Marked
    <2>2. pc'[j] \in {"request", "ranges"} BY <1>6 DEF Stat, Goto, TypeOK
    <2> QED BY <1>3, <1>6, <2>1, <2>2 DEF Stat, Called
  <1>7. CASE RequestBeyond(j)
    <2>1. /\ pc[j] = "request" /\ files' = files /\ Finish(j, existing[j])
          /\ existing[j] > 0 /\ existing[j] >= SizeOf[f]
      BY <1>7 DEF RequestBeyond
    <2>2. Settled(files[f], f) BY <1>3, <2>1, Complete
    <2>3. existing[j] \in Nat BY DEF TypeOK
    <2> QED BY <1>3, <1>5, <2>1, <2>2, <2>3
  <1>8. CASE RequestRest(j)
    <2>1. pc[j] = "request" /\ pc'[j] = "stream" /\ call' = call /\ existing[j] > 0
      BY <1>8 DEF RequestRest, Goto, TypeOK
    <2>2. files[f] # None BY <1>3, <2>1 DEF FileInv, CallInv, Len0, FetchPcs
    <2>3. files' = [files EXCEPT ![f] = files[f]] BY <1>8, <2>2 DEF RequestRest
    <2>4. files' = files BY <2>3 DEF TypeOK
    <2> QED BY <1>3, <1>4, <2>1, <2>4 DEF FetchPcs, Same
  <1>9. CASE RequestAll(j)
    <2>1. pc[j] = "request" /\ pc'[j] = "stream" /\ call' = call /\ files'[f] = <<>>
      BY <1>1, <1>9 DEF RequestAll, Goto, TypeOK
    <2> QED BY <1>3, <1>4, <2>1 DEF Truncated, FetchPcs
  <1>10. CASE Chunk(j)
    <2>1. pc[j] = "stream" /\ pc' = pc /\ call' = call /\ next[j] <= SizeOf[f]
      BY <1>10 DEF Chunk
    <2>2. j \notin loose /\ next[j] = Len(files[f]) + 1
      BY <1>3, <2>1 DEF FileInv, CallInv, FetchPcs
    <2>3. files'[f] = Written(j) BY <1>1, <1>10, <2>2 DEF Chunk, TypeOK
    <2>4. files'[f] = Put(files[f], Len(files[f]) + 1, next[j])
      BY <2>2, <2>3 DEF Written
    <2>5. /\ files[f] \in Seq(Data) /\ Len(files[f]) < SizeOf[f]
          /\ Len(files'[f]) = next[j]
      BY <1>3, <2>1, <2>4, WriteStep
    <2>6. files'[f] # None
      <3>1. next[j] \in Data /\ Len(files[f]) + 1 \in Nat \ {0}
        BY <2>5 DEF Data, TypeOK
      <3> QED BY <2>4, <2>5, <3>1, PutType, FakeType
    <2> QED BY <1>3, <1>4, <2>1, <2>2, <2>5, <2>6 DEF Grown, FetchPcs
  <1>11. CASE StreamEnd(j)
    <2>1. pc[j] = "stream" /\ files' = files /\ next[j] > SizeOf[f] BY <1>11 DEF StreamEnd
    <2>2. Settled(files[f], f) /\ Len(files[f]) = SizeOf[f] BY <1>3, <2>1, Complete
    <2>3. Finish(j, Len(files[f])) BY <1>11, <2>2 DEF StreamEnd, Settled
    <2> QED BY <1>1, <1>3, <1>5, <2>1, <2>2, <2>3
  <1>12. CASE StreamError(j)
    <2>1. pc[j] \in {"request", "stream"} /\ files' = files /\ End(j, FALSE)
      BY <1>12 DEF StreamError
    <2>2. call' = "error" BY <1>3, <2>1 DEF End, Marked
    <2>3. pc'[j] \notin FetchPcs BY <2>1 DEF End, Advance, Goto, TypeOK, FetchPcs
    <2> QED BY <1>3, <1>4, <2>1, <2>2, <2>3 DEF Over, FetchPcs
  <1>13. CASE DropSmall(j) \/ SmallFails(j) BY <1>4, <1>13 DEF DropSmall, SmallFails, FetchPcs
  <1>14. CASE Ranging(j)
    <2>1. pc[j] \in FetchPcs
      BY <1>14 DEF Ranging, JoinOpen, JoinPart, JoinEnd, RangesFail, FetchPcs
    <2> QED BY <1>3, <1>4, <1>14, <2>1, WatchedRanges
  <1> QED BY <1>6, <1>7, <1>8, <1>9, <1>10, <1>11, <1>12, <1>13, <1>14 DEF File

\* All other steps leave the file and its history alone, unless they spoil it
\* or the process ends.
LEMMA WatchedElsewhere ==
  ASSUME RInv, NEW j \in Jobs, Watched \notin spoiled',
         Others(j) \/ (File(j) /\ Cur(j) # Watched)
  PROVE  /\ Watched \notin spoiled /\ files'[Watched] = files[Watched] /\ call' = call
         /\ \A i \in Jobs : On(i, Watched)' <=> On(i, Watched)
         /\ \A i \in Jobs : On(i, Watched) => pc'[i] = pc[i]
  <1> FileInv /\ TypeOK BY DEF RInv, IInv, FileInv
  <1> DEFINE f == Watched
  <1>1. f \in Files BY FilesAssumption
  <1>2. CASE Others(j)
    <2>1. f \notin spoiled /\ files'[f] = files[f] /\ call' = call
      <3>1. CASE MakeTicket(j)
        <4>1. spoiled' = spoiled \cup {"cetk"} BY <3>1 DEF MakeTicket
        <4>2. f # "cetk" /\ f \notin spoiled BY <4>1
        <4>3. call' = call BY <3>1, <4>2 DEF MakeTicket, Marked
        <4> QED BY <1>1, <3>1, <4>2, <4>3 DEF MakeTicket, TypeOK
      <3>2. CASE ~MakeTicket(j)
        BY <1>2, <3>2 DEF Others, Title, Start, Take, ParseTmd, ReadTicket, NoTicket, Prepare, Fail
      <3> QED BY <3>1, <3>2
    <2>2. pc[j] \notin FetchPcs /\ pc'[j] \notin FetchPcs
      <3>1. CASE Start(j) BY <3>1 DEF Start, Fetch, Goto, TypeOK, FetchPcs
      <3>2. CASE Take(j) BY <3>2 DEF Take, Advance, Goto, TypeOK, FetchPcs
      <3>3. CASE ParseTmd(j) BY <3>3 DEF ParseTmd, Goto, TypeOK, FetchPcs
      <3>4. CASE ReadTicket(j) \/ MakeTicket(j) \/ NoTicket(j)
        BY <3>4, ContentsNext DEF ReadTicket, MakeTicket, NoTicket, FetchPcs
      <3>5. CASE Prepare(j) \/ Fail(j)
        BY <3>5 DEF Prepare, Fail, Raises, Return, Goto, TypeOK, FetchPcs
      <3> QED BY <1>2, <3>1, <3>2, <3>3, <3>4, <3>5 DEF Others, Title
    <2>3. \A i \in Jobs \ {j} : pc'[i] = pc[i] /\ Cur(i)' = Cur(i)
      BY <1>2, Frame DEF Cur
    <2> QED BY <2>1, <2>2, <2>3 DEF On
  <1>3. CASE File(j) /\ Cur(j) # f
    <2>1. Elsewhere(j) BY <1>3, FileSteps DEF FileStep
    <2>2. f \notin spoiled /\ files'[f] = files[f] BY <1>1, <1>3, <2>1 DEF Elsewhere
    <2>3. call' = call
      <3>1. \/ call' = call
            \/ \E end, unsafe : call' = Marked(end, Cur(j), unsafe) /\ unsafe \in {spoiled, spoiled'}
        <4>1. CASE Stat(j) BY <4>1 DEF Stat
        <4>2. CASE RequestRest(j) \/ RequestAll(j) \/ Chunk(j)
          BY <4>2 DEF RequestRest, RequestAll, Chunk
        <4>3. CASE \E size : Finish(j, size) BY <4>3 DEF Finish, End
        <4>4. CASE \E ok : End(j, ok) BY <4>4 DEF End
        <4>5. CASE Ranging(j)
          <5>1. call' = call \/ End(j, TRUE)
            BY <4>5 DEF Ranging, RangeTry, RangeDone, JoinOpen, JoinPart, JoinEnd, RangesFail
          <5> QED BY <4>4, <5>1
        <4> QED
          BY <1>3, <4>1, <4>2, <4>3, <4>4, <4>5
          DEF File, RequestBeyond, StreamEnd, StreamError, DropSmall, SmallFails
      <3> QED BY <1>1, <1>3, <2>2, <3>1 DEF Marked
    <2>4. ~On(j, f) /\ ~On(j, f)' BY <1>3, FileFrame DEF On
    <2>5. \A i \in Jobs \ {j} : pc'[i] = pc[i] /\ (On(i, f)' <=> On(i, f)) BY <1>3, FileFrame
    <2> QED BY <2>2, <2>3, <2>4, <2>5
  <1> QED BY <1>2, <1>3

LEMMA RInvNext ==
  ASSUME LargeEnough
  PROVE  RInv /\ [Next]_vars => RInv'
  <1> SUFFICES ASSUME RInv, [Next]_vars PROVE WatchInv'
    BY IInvNext DEF RInv
  <1> FileInv /\ WatchInv BY DEF RInv, IInv
  <1> DEFINE f == Watched
  <1> SUFFICES ASSUME f \notin spoiled'
               PROVE  /\ call' = "busy" <=> \E j \in Jobs : On(j, f)'
                      /\ \A j \in Jobs : On(j, f)' => pc'[j] # "small"
    BY DEF WatchInv
  <1>1. ASSUME NEW j \in Jobs, Others(j) \/ (File(j) /\ Cur(j) # f)
        PROVE  /\ call' = "busy" <=> \E i \in Jobs : On(i, f)'
               /\ \A i \in Jobs : On(i, f)' => pc'[i] # "small"
    BY <1>1, WatchedElsewhere DEF WatchInv
  <1>2. ASSUME NEW j \in Jobs, File(j), Cur(j) = f
        PROVE  /\ call' = "busy" <=> \E i \in Jobs : On(i, f)'
               /\ \A i \in Jobs : On(i, f)' => pc'[i] # "small"
    <2>1. /\ f \notin spoiled
          /\ Called(j) \/ (On(j, f) /\ (GoesOn(j) \/ Over(j)))
      BY <1>2, WatchedStep
    <2>2. \A i \in Jobs \ {j} : On(i, f)' <=> On(i, f) BY <1>2, FileFrame
    <2>3. \A i \in Jobs \ {j} : ~On(i, f)
      <3>1. CASE pc[j] = "stat"
        BY <1>2, <3>1, FileSteps DEF FileStep, Elsewhere
      <3>2. CASE pc[j] \in FetchPcs
        BY <1>2, <2>1, <3>2 DEF FileInv, CallInv
      <3> QED BY <1>2, <3>1, <3>2, FileFrame
    <2>4. pc'[j] \in FetchPcs => On(j, f)'
      BY <1>2, FileFrame DEF On
    <2>5. CASE Called(j) BY <2>2, <2>3, <2>4, <2>5 DEF Called, FetchPcs
    <2>6. CASE On(j, f) /\ GoesOn(j)
      <3>1. call' = "busy" /\ pc'[j] \in FetchPcs /\ pc'[j] # "small"
        BY <2>1, <2>6 DEF WatchInv, GoesOn, Truncated, Grown, Same
      <3> QED BY <2>2, <2>3, <2>4, <3>1
    <2>7. CASE On(j, f) /\ Over(j)
      <3>1. ~On(j, f)' BY <2>7 DEF Over, On
      <3> QED BY <2>2, <2>3, <2>7, <3>1 DEF Over
    <2> QED BY <2>1, <2>5, <2>6, <2>7
  <1>3. CASE Exit
    <2>1. call' # "busy" BY <1>3 DEF Exit
    <2>2. \A j \in Jobs : ~On(j, f)' BY <1>3 DEF Exit, On, FetchPcs
    <2> QED BY <2>1, <2>2
  <1>4. CASE UNCHANGED vars
    <2>1. \A j \in Jobs : On(j, f)' <=> On(j, f) BY <1>4 DEF vars, On, Cur
    <2> QED BY <1>4, <2>1 DEF vars, WatchInv
  <1> QED BY <1>1, <1>2, <1>3, <1>4 DEF Next, Others

LEMMA RInvariance ==
  ASSUME LargeEnough
  PROVE  Spec => []RInv
  <1>1. Init => RInv
    <2> SUFFICES ASSUME Init PROVE WatchInv
      BY IInvInit DEF RInv
    <2>1. call = "none" /\ \A j \in Jobs : ~On(j, Watched)
      BY DEF Init, On, FetchPcs
    <2> QED BY <2>1 DEF WatchInv
  <1> QED BY <1>1, RInvNext, PTL DEF Spec

\* How long FileFetch sees the file to be.
LEMMA Length ==
  ASSUME UnspoiledIsPrefix, Watched \notin spoiled
  PROVE  /\ files[Watched] = None => Have = 0
         /\ files[Watched] # None => Have = Len(files[Watched])
  BY FilesAssumption DEF UnspoiledIsPrefix, Have

\* Every step is a step of FileFetch, or changes nothing it sees.
LEMMA FetchStep ==
  ASSUME LargeEnough, RInv, RInv', [Next]_vars
  PROVE  [WatchedFile!Next]_(WatchedFile!vars)
  <1> FileInv /\ TypeOK /\ WatchInv BY DEF RInv, IInv, FileInv
  <1> DEFINE f == Watched
  <1>0. /\ f \in Files /\ SizeOf[f] \in Nat \ {0}
        /\ call \in {"none", "busy", "ok", "error"}
    BY WatchedFacts
  <1>1. spoiled \subseteq spoiled'
    <2>1. ASSUME NEW j \in Jobs, File(j) PROVE spoiled \subseteq spoiled'
      BY <2>1, FileSteps DEF FileStep, Elsewhere
    <2>2. ASSUME NEW j \in Jobs, Others(j) PROVE spoiled \subseteq spoiled'
      BY <2>2 DEF Others, Title, Start, Take, ParseTmd, ReadTicket, MakeTicket, NoTicket, Prepare, Fail
    <2>3. CASE Exit \/ UNCHANGED vars BY <2>3 DEF Exit, vars
    <2> QED BY <2>1, <2>2, <2>3 DEF Next, Others
  <1>2. Have' = IF f \in spoiled' \/ files'[f] = None THEN 0
                ELSE IF IsPrefix(files'[f], f) THEN Len(files'[f]) ELSE -1
    BY DEF Have, IsPrefix
  <1>3. CASE f \in spoiled
    <2>1. Have = 0 /\ Have' = 0 /\ Seen = "replaced" /\ Seen' = "replaced"
      BY <1>1, <1>2, <1>3 DEF Have, Seen
    <2> QED BY <2>1 DEF WatchedFile!vars, Seen
  <1>4. CASE f \notin spoiled /\ f \in spoiled'
    <2>1. Have' = 0 /\ Seen # "replaced" /\ Seen' = "replaced"
      BY <1>0, <1>2, <1>4 DEF Seen
    <2> QED BY <2>1 DEF WatchedFile!Next, WatchedFile!Replace, Seen
  <1>5. CASE f \notin spoiled'
    <2>1. f \notin spoiled BY <1>1, <1>5
    <2>2. Seen = call /\ Seen' = call' BY <1>5, <2>1 DEF Seen
    <2>3. files'[f] = files[f] => Have' = Have
      BY <1>2, <1>5, <2>1 DEF Have
    <2>4. \A j \in Jobs : On(j, f) => call = "busy" BY <2>1 DEF WatchInv
    <2>5. CASE files'[f] = files[f] /\ call' = call
      BY <2>2, <2>3, <2>5 DEF WatchedFile!vars, Seen
    <2>6. ASSUME NEW j \in Jobs, File(j), Cur(j) = f
          PROVE  [WatchedFile!Next]_(WatchedFile!vars)
      <3>1. CASE Called(j)
        <4>1. call # "busy"
          <5>1. \A i \in Jobs \ {j} : ~On(i, f)
            BY <1>5, <2>6, <3>1, FileSteps DEF FileStep, Elsewhere, Called
          <5>2. ~On(j, f) BY <3>1 DEF Called, On, FetchPcs
          <5> QED BY <2>1, <5>1, <5>2 DEF WatchInv
        <4>2. Have' = Have /\ Seen \in {"none", "ok", "error"} /\ Seen' = "busy"
          BY <1>0, <2>2, <2>3, <3>1, <4>1 DEF Called
        <4> QED BY <4>2 DEF WatchedFile!Next, WatchedFile!Call, Seen
      <3>2. CASE On(j, f) /\ Truncated
        <4>1. IsPrefix(<<>>, f) BY <1>0 DEF IsPrefix
        <4>2. Have' = 0 BY <1>2, <1>5, <3>2, <4>1, EmptyFile DEF Truncated
        <4>3. Seen = "busy" /\ Seen' = "busy" BY <2>2, <2>4, <3>2 DEF Truncated
        <4> QED BY <4>2, <4>3 DEF WatchedFile!Next, WatchedFile!StartOver, Seen
      <3>3. CASE On(j, f) /\ Grown
        <4>1. files[f] # None /\ files'[f] # None BY <3>3, FakeType DEF Grown
        <4>2. Have = Len(files[f]) BY <2>1, <4>1, Length DEF FileInv
        <4>3. IsPrefix(files'[f], f)
          BY <1>0, <1>5, <4>1 DEF RInv, IInv, FileInv, UnspoiledIsPrefix, IsPrefix
        <4>4. Have' = Len(files'[f]) BY <1>2, <1>5, <4>1, <4>3
        <4>5. /\ Have < SizeOf[f] /\ Have' = Have + 1
              /\ Seen = "busy" /\ Seen' = "busy"
          BY <2>2, <2>4, <3>3, <4>2, <4>4 DEF Grown
        <4> QED BY <4>5 DEF WatchedFile!Next, WatchedFile!Grow, Seen
      <3>4. CASE Same BY <2>5, <3>4 DEF Same
      <3>5. CASE On(j, f) /\ Over(j)
        <4>1. Have' = Have /\ Seen = "busy" BY <2>2, <2>3, <2>4, <3>5 DEF Over
        <4>2. CASE call' = "error"
          BY <2>2, <4>1, <4>2 DEF WatchedFile!Next, WatchedFile!Fail, Seen
        <4>3. CASE call' = "ok" /\ Settled(files[f], f)
          <5>1. Have = Len(files[f]) BY <2>1, <4>3, Length DEF FileInv, Settled
          <5>2. Have \in MaySettleFor(f) BY <4>3, <5>1 DEF Settled
          <5> QED BY <2>2, <4>1, <4>3, <5>2 DEF WatchedFile!Next, WatchedFile!Succeed, Seen
        <4> QED BY <3>5, <4>2, <4>3 DEF Over
      <3> QED BY <1>5, <2>6, <3>1, <3>2, <3>3, <3>4, <3>5, WatchedStep DEF GoesOn
    <2>7. ASSUME NEW j \in Jobs, Others(j) \/ (File(j) /\ Cur(j) # f)
          PROVE  files'[f] = files[f] /\ call' = call
      BY <1>5, <2>7, WatchedElsewhere
    <2>8. CASE Exit
      <3>1. /\ files' = files
            /\ call' = IF call = "busy" THEN "none" ELSE call
        BY <2>8 DEF Exit
      <3>2. CASE call = "busy"
        BY <2>2, <2>3, <3>1, <3>2 DEF WatchedFile!Next, WatchedFile!Fail, Seen
      <3> QED BY <2>5, <3>1, <3>2
    <2>9. CASE UNCHANGED vars BY <2>5, <2>9 DEF vars
    <2> QED BY <2>5, <2>6, <2>7, <2>8, <2>9 DEF Next, Others
  <1> QED BY <1>3, <1>4, <1>5

\* Whatever installs of the title, with or without a manifest, do to it and to
\* the parts of its ranges, any one file of the title keeps the promises of
\* FileFetch until it is spoiled: its metadata, if it is not below the minimum
\* size, and every content, for which the size in its record counts as all of it
\* if that is large enough for ranges.
THEOREM FileRefinement ==
  ASSUME LargeEnough
  PROVE  Spec => WatchedImplementsFetch
  <1>1. Init => WatchedFile!Init
    <2> SUFFICES ASSUME Init PROVE Have = 0 /\ Watched \notin spoiled /\ call = "none"
      BY DEF WatchedFile!Init
    <2> QED BY FilesAssumption DEF Init, Have
  <1>2. RInv /\ RInv' /\ [Next]_vars => [WatchedFile!Next]_(WatchedFile!vars)
    BY FetchStep
  <1> QED BY RInvariance, <1>1, <1>2, PTL DEF Spec, WatchedImplementsFetch, WatchedFile!Spec
=============================================================================
