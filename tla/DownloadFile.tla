---------------------------- MODULE DownloadFile ----------------------------
(***************************************************************************)
(* How one file of a title gets into the work directory:                    *)
(* _download_with_resume and _download_parallel_ranges of                   *)
(* core/services/download_service.py, called once by every install of the   *)
(* title, against an HTTP server that may refuse, ignore ranges, break off  *)
(* a response or get a new version of the file, in a process that may end   *)
(* at any step.  The file itself outlives the process.                      *)
(*                                                                          *)
(* A byte is the version it was served of and its position.  The client     *)
(* notices a response that ends early (Content-Length or chunked bodies).   *)
(***************************************************************************)
EXTENDS Integers, Sequences

CONSTANTS
  MaxVersion,    \* bound: how many versions of the file the server gets
  SizeOf,        \* 1..MaxVersion -> the size of the file it serves
  Expected,      \* expected_size, 0 for None
  ParallelMin,   \* download_parallel_min_bytes
  MaxThreads,    \* download_max_threads
  WorkerUnit,    \* 8 MiB
  Retries,       \* _PARALLEL_RANGE_RETRIES
  None,          \* no such file
  MaxTotal,      \* bounds: the sizes and numbers of parts
  MaxParts       \* SplitIsLoop looks at

ASSUME VersionAssumption == MaxVersion \in Nat \ {0} /\ SizeOf \in [1..MaxVersion -> Nat \ {0}]
ASSUME SettingAssumption ==
  /\ Expected \in Nat
  /\ ParallelMin \in Nat \ {0}
  /\ MaxThreads \in Nat
  /\ WorkerUnit \in Nat \ {0}
  /\ Retries \in Nat \ {0}
ASSUME BoundAssumption == MaxTotal \in Nat /\ MaxParts \in Nat

Versions == 1..MaxVersion
Bytes == Versions \X (Nat \ {0})
ASSUME NoneAssumption == None \notin Seq(Bytes)

Larger(a, b) == IF a >= b THEN a ELSE b
Smaller(a, b) == IF a <= b THEN a ELSE b

CanParallel == Expected >= ParallelMin /\ MaxThreads > 1

Workers == Larger(2, Smaller(MaxThreads, Larger(2, Expected \div WorkerUnit + 1)))

-----------------------------------------------------------------------------
(* _split_ranges(total_size, parts): range i starts after Start(..., i)      *)
(* bytes and has Span(..., i); empty ranges are left out.                    *)

\* Mutant: the remainder of the division is left out.
Span_NoExtra(total, parts, i) == total \div parts

Span(total, parts, i) == total \div parts + (IF i < total % parts THEN 1 ELSE 0)

Start(total, parts, i) == i * (total \div parts) + Smaller(i, total % parts)

\* Only the first total % parts ranges have bytes when there are more parts.
RangeCount(total, parts) == IF total < parts THEN total ELSE parts

\* The loop itself: a round of it, and what it has before round k.
SplitRound(total, count, k, done) ==
  LET span == total \div count + (IF k < total % count THEN 1 ELSE 0)
  IN  IF span <= 0
        THEN done
        ELSE [ranges |-> Append(done.ranges, <<done.offset, done.offset + span - 1>>),
              offset |-> done.offset + span]

SplitRounds(total, count) ==
  LET before[k \in 0..count] ==
        IF k = 0 THEN [ranges |-> <<>>, offset |-> 0]
                 ELSE SplitRound(total, count, k - 1, before[k - 1])
  IN  before

SplitLoop(total, count) ==
  IF total <= 0 THEN <<>> ELSE SplitRounds(total, count)[count].ranges

Ranges == 0..(RangeCount(Expected, Workers) - 1)
Length(i) == Span(Expected, Workers, i)
Offset(i) == Start(Expected, Workers, i)

-----------------------------------------------------------------------------

VARIABLES
  version,     \* what the server serves now
  dest,        \* the file, or None
  parts,       \* Ranges -> its .partNN file, or None
  pc,          \* where the call is
  existing,    \* existing_size
  wpc, attempt,\* Ranges -> where its worker is, the attempt it is in
  cat, off,    \* the part that is copied to dest, and how much of it is
  joined,      \* whether _download_parallel_ranges has returned
  next,        \* position of the next byte of the single response
  result       \* of the last call

server == version
workerVars == <<wpc, attempt>>
joinVars == <<cat, off, joined>>
vars == <<server, dest, parts, pc, existing, workerVars, joinVars, next, result>>

Pcs == {"idle", "clear", "workers", "concat", "cleanup", "discard", "request", "stream"}
WorkerPcs == {"off", "start", "stream", "ok", "failed"}

Size(file) == IF file = None THEN 0 ELSE Len(file)
Served(v) == [k \in 1..SizeOf[v] |-> <<v, k>>]

Init ==
  /\ version = 1
  /\ dest = None
  /\ parts = [i \in Ranges |-> None]
  /\ pc = "idle"
  /\ existing = 0
  /\ wpc = [i \in Ranges |-> "off"]
  /\ attempt = [i \in Ranges |-> 1]
  /\ cat = 0 /\ off = 0 /\ joined = FALSE
  /\ next = 1
  /\ result = "none"

Return(r) == pc' = "idle" /\ result' = r

Call ==
  /\ pc = "idle"
  /\ existing' = Size(dest)
  /\ pc' = IF Size(dest) = 0 /\ CanParallel THEN "clear" ELSE "request"
  /\ result' = "none"
  /\ UNCHANGED <<server, dest, parts, workerVars, joinVars, next>>

-----------------------------------------------------------------------------
(* _download_parallel_ranges.                                               *)

\* Every part is removed, if it can be: errors of unlink are ignored.
UnlinkParts ==
  \E kept \in SUBSET Ranges :
    parts' = [i \in Ranges |-> IF i \in kept THEN parts[i] ELSE None]

\* Parts a process left behind are removed, and one thread per range started.
ClearParts ==
  /\ pc = "clear"
  /\ UnlinkParts
  /\ wpc' = [i \in Ranges |-> "start"]
  /\ attempt' = [i \in Ranges |-> 1]
  /\ joined' = FALSE
  /\ pc' = "workers"
  /\ UNCHANGED <<server, dest, existing, cat, off, next, result>>

\* Mutant: attempts are not counted.
Retry_Forever(i) ==
  /\ wpc' = [wpc EXCEPT ![i] = IF attempt[i] < Retries THEN "start" ELSE "failed"]
  /\ UNCHANGED attempt

\* Mutant: one attempt too many.
Retry_OneMore(i) ==
  IF attempt[i] <= Retries
    THEN wpc' = [wpc EXCEPT ![i] = "start"] /\ attempt' = [attempt EXCEPT ![i] = @ + 1]
    ELSE wpc' = [wpc EXCEPT ![i] = "failed"] /\ UNCHANGED attempt

Retry(i) ==
  IF attempt[i] < Retries
    THEN wpc' = [wpc EXCEPT ![i] = "start"] /\ attempt' = [attempt EXCEPT ![i] = @ + 1]
    ELSE wpc' = [wpc EXCEPT ![i] = "failed"] /\ UNCHANGED attempt

\* The part of the attempt before is removed, or that fails the attempt; so
\* does any status but 206.
WorkerRequest(i) ==
  /\ wpc[i] = "start"
  /\ \/ /\ Offset(i) < SizeOf[version]
        /\ parts' = [parts EXCEPT ![i] = <<>>]
        /\ wpc' = [wpc EXCEPT ![i] = "stream"]
        /\ UNCHANGED attempt
     \/ /\ \E left \in {None, parts[i]} : parts' = [parts EXCEPT ![i] = left]
        /\ Retry(i)
  /\ UNCHANGED <<server, dest, pc, existing, joinVars, next, result>>

\* What is left of the response.
WorkerPosition(i) == Offset(i) + Len(parts[i]) + 1
WorkerHasMore(i) == Len(parts[i]) < Length(i) /\ WorkerPosition(i) <= SizeOf[version]

WorkerChunk(i) ==
  /\ wpc[i] = "stream"
  /\ WorkerHasMore(i)
  /\ parts' = [parts EXCEPT ![i] = Append(@, <<version, WorkerPosition(i)>>)]
  /\ UNCHANGED <<server, dest, pc, existing, workerVars, joinVars, next, result>>

\* Mutant: the size of a part is not compared with its range.
WorkerEnd_NoCheck(i) ==
  /\ wpc[i] = "stream"
  /\ wpc' = [wpc EXCEPT ![i] = "ok"]
  /\ UNCHANGED <<server, dest, parts, pc, existing, attempt, joinVars, next, result>>

\* The response ends, or breaks off; a part of the wrong size is an error too.
WorkerEnd(i) ==
  /\ wpc[i] = "stream"
  /\ \/ /\ ~WorkerHasMore(i)
        /\ Len(parts[i]) = Length(i)
        /\ wpc' = [wpc EXCEPT ![i] = "ok"]
        /\ UNCHANGED attempt
     \/ Retry(i)
  /\ UNCHANGED <<server, dest, parts, pc, existing, joinVars, next, result>>

\* The executor has waited for every worker.
Join ==
  /\ pc = "workers"
  /\ \A i \in Ranges : wpc[i] \in {"ok", "failed"}
  /\ IF \A i \in Ranges : wpc[i] = "ok"
       THEN pc' = "concat" /\ dest' = <<>>
       ELSE pc' = "cleanup" /\ UNCHANGED dest
  /\ cat' = 0 /\ off' = 0
  /\ UNCHANGED <<server, parts, existing, workerVars, joined, next, result>>

\* One byte is copied, a part is finished, or the last one is.
Concat ==
  /\ pc = "concat"
  /\ IF cat \in Ranges
       THEN IF off < Len(parts[cat])
              THEN /\ dest' = Append(dest, parts[cat][off + 1])
                   /\ off' = off + 1
                   /\ UNCHANGED <<cat, joined, pc>>
              ELSE /\ cat' = cat + 1 /\ off' = 0
                   /\ UNCHANGED <<dest, joined, pc>>
       ELSE /\ joined' = TRUE /\ pc' = "cleanup"
            /\ UNCHANGED <<dest, cat, off>>
  /\ UNCHANGED <<server, parts, existing, workerVars, next, result>>

\* A local error, such as a full disk, while no worker runs.
ParallelError ==
  /\ pc \in {"clear", "concat"}
  /\ pc' = "cleanup"
  /\ joined' = FALSE
  /\ UNCHANGED <<server, dest, parts, existing, workerVars, cat, off, next, result>>

\* The finally clause, and the size check of the caller.
Cleanup ==
  /\ pc = "cleanup"
  /\ UnlinkParts
  /\ wpc' = [i \in Ranges |-> "off"]
  /\ IF joined
       THEN IF Size(dest) = Expected THEN Return("ok") ELSE pc' = "request" /\ UNCHANGED result
       ELSE pc' = "discard" /\ UNCHANGED result
  /\ UNCHANGED <<server, dest, existing, attempt, joinVars, next>>

Discard ==
  /\ pc = "discard"
  /\ dest' \in {None, dest}
  /\ pc' = "request"
  /\ UNCHANGED <<server, parts, existing, workerVars, joinVars, next, result>>

-----------------------------------------------------------------------------
(* The single stream.                                                       *)

\* 416: there is nothing behind what dest has, which counts as complete.
RequestBeyond ==
  /\ pc = "request"
  /\ existing > 0 /\ existing >= SizeOf[version]
  /\ Return("ok")
  /\ UNCHANGED <<server, dest, parts, existing, workerVars, joinVars, next>>

\* Mutant: a resumed response truncates what was there.
RequestRest_Truncate ==
  /\ pc = "request"
  /\ existing > 0 /\ existing < SizeOf[version]
  /\ next' = existing + 1
  /\ dest' = <<>>
  /\ pc' = "stream"
  /\ UNCHANGED <<server, parts, existing, workerVars, joinVars, result>>

\* 206: the rest is appended.
RequestRest ==
  /\ pc = "request"
  /\ existing > 0 /\ existing < SizeOf[version]
  /\ next' = existing + 1
  /\ pc' = "stream"
  /\ UNCHANGED <<server, dest, parts, existing, workerVars, joinVars, result>>

\* 200, with or without a Range header: the file is written from the start.
RequestAll ==
  /\ pc = "request"
  /\ next' = 1
  /\ dest' = <<>>
  /\ existing' = 0
  /\ pc' = "stream"
  /\ UNCHANGED <<server, parts, workerVars, joinVars, result>>

Chunk ==
  /\ pc = "stream"
  /\ next <= SizeOf[version]
  /\ dest' = Append(dest, <<version, next>>)
  /\ next' = next + 1
  /\ UNCHANGED <<server, parts, pc, existing, workerVars, joinVars, result>>

\* Mutant: a response that breaks off counts as complete.
StreamEnd_Broken ==
  /\ pc = "stream"
  /\ Return("ok")
  /\ UNCHANGED <<server, dest, parts, existing, workerVars, joinVars, next>>

StreamEnd ==
  /\ pc = "stream"
  /\ next > SizeOf[version]
  /\ Return("ok")
  /\ UNCHANGED <<server, dest, parts, existing, workerVars, joinVars, next>>

\* Another status, or the response breaks off: what was written stays.
StreamError ==
  /\ pc \in {"request", "stream"}
  /\ Return("error")
  /\ UNCHANGED <<server, dest, parts, existing, workerVars, joinVars, next>>

-----------------------------------------------------------------------------

\* The process ends; dest and the parts stay as they are.
Exit ==
  /\ pc # "idle"
  /\ Return("none")
  /\ wpc' = [i \in Ranges |-> "off"]
  /\ UNCHANGED <<server, dest, parts, existing, attempt, joinVars, next>>

\* A title gets an update, between two responses.
Update ==
  /\ version < MaxVersion
  /\ pc # "stream" /\ \A i \in Ranges : wpc[i] # "stream"
  /\ version' = version + 1
  /\ UNCHANGED <<dest, parts, pc, existing, workerVars, joinVars, next, result>>

Worker(i) == WorkerRequest(i) \/ WorkerChunk(i) \/ WorkerEnd(i)

Parallel == ClearParts \/ Join \/ Concat \/ ParallelError \/ Cleanup \/ Discard

Single == RequestBeyond \/ RequestRest \/ RequestAll \/ Chunk \/ StreamEnd \/ StreamError

Next ==
  \/ Call
  \/ \E i \in Ranges : Worker(i)
  \/ Parallel
  \/ Single
  \/ Exit
  \/ Update

\* The threads of a call keep running; nothing makes a call, an update or an
\* end of the process happen.
Fairness == WF_vars(Parallel) /\ WF_vars(Single) /\ \A i \in Ranges : WF_vars(Worker(i))

Spec == Init /\ [][Next]_vars
FairSpec == Spec /\ Fairness
-----------------------------------------------------------------------------
(* Properties.                                                              *)

TypeOK ==
  /\ version \in Versions
  /\ dest \in Seq(Bytes) \cup {None}
  /\ parts \in [Ranges -> Seq(Bytes) \cup {None}]
  /\ pc \in Pcs
  /\ existing \in Nat
  /\ wpc \in [Ranges -> WorkerPcs]
  /\ attempt \in [Ranges -> 1..Retries]
  /\ cat \in Nat /\ off \in Nat
  /\ joined \in BOOLEAN
  /\ next \in Nat \ {0}
  /\ result \in {"none", "ok", "error"}

\* As long as the server's file is the first one, dest is at every moment a
\* prefix of it, so that a resume can never continue the wrong bytes: not
\* after a broken or a short response, a failed worker, a part left behind or
\* the end of the process in the middle of joining the parts.
IsPrefix(file) == Len(file) <= SizeOf[1] /\ \A k \in 1..Len(file) : file[k] = <<1, k>>

PrefixKept == version = 1 /\ dest # None => IsPrefix(dest)

\* A call that returns without an error leaves all of the server's file, as
\* long as that is the first one; if it got it in parallel ranges, exactly as
\* much of it as the caller's expected_size says, although the server may have
\* more.  A call that resumes or starts over completes what such a one has left.
ReturnedIsWhole ==
  [][version = 1 /\ result # "ok" /\ result' = "ok" =>
       dest' = IF pc = "cleanup" THEN SubSeq(Served(1), 1, Expected) ELSE Served(1)]_vars

\* A call returns, or dies with the process: the retries of a range end, and
\* the executor does not wait for a worker for ever.
CallReturns == pc # "idle" ~> pc = "idle"

\* How far a call is from its end: where it is, and there what is left to do.
Stage ==
  [idle |-> 0, stream |-> 1, request |-> 2, discard |-> 3, cleanup |-> 4, concat |-> 5,
   workers |-> 6, clear |-> 7][pc]

\* The attempts a worker has left, and the bytes of the one it is in.
WorkLeft(i) ==
  LET rounds == Retries - attempt[i]
      round == Length(i) + 2
  IN  CASE wpc[i] = "start" -> (rounds + 1) * round
        [] wpc[i] = "stream" -> rounds * round + Length(i) - Len(parts[i]) + 1
        [] OTHER -> 0

PartsLeft == RangeCount(Expected, Workers) - cat
StreamLeft == SizeOf[version] - next + 1

\* A natural number that gets less.
Sinks(before, after) == after \in Nat /\ after < before

\* Whatever fails, every step of a call brings it closer to its end: it gets to
\* a later stage, or, where it stays, a worker has less left and no other one
\* more, or there is less left to join or to read.  No sequence of errors,
\* retries and fallbacks can go on for ever.
Closer ==
  \/ Sinks(Stage, Stage')
  \/ /\ pc = "workers" /\ pc' = "workers"
     /\ \E i \in Ranges :
          /\ Sinks(WorkLeft(i), WorkLeft(i)')
          /\ \A k \in Ranges \ {i} : WorkLeft(k)' = WorkLeft(k)
  \/ /\ pc = "concat" /\ pc' = "concat"
     /\ \/ Sinks(PartsLeft, PartsLeft')
        \/ cat' = cat /\ Sinks(Length(cat) - off, Length(cat) - off')
  \/ pc = "stream" /\ pc' = "stream" /\ Sinks(StreamLeft, StreamLeft')

CallEnds == [][pc # "idle" => Closer \/ Update]_vars

\* How much of the first version is there, -1 if the file is not of it.
Have ==
  IF version # 1 \/ dest = None THEN 0 ELSE IF IsPrefix(dest) THEN Len(dest) ELSE -1

Fetch == INSTANCE FileFetch WITH
  Total <- SizeOf[1],
  Accepted <- {SizeOf[1]} \cup (IF CanParallel THEN {Expected} ELSE {}),
  have <- Have,
  state <- IF version # 1 THEN "replaced" ELSE IF pc = "idle" THEN result ELSE "busy"

\* A download keeps the promises of FileFetch as long as the server has the
\* first version: where ranges may be used, the expected_size counts as all of
\* the file.
ImplementsFetch == Fetch!Spec
-----------------------------------------------------------------------------
(* _split_ranges.                                                           *)

\* The ranges of the model are those of the code, they follow each other
\* without a gap or an overlap, and the last one ends with the file.
Splits(total, count) ==
  LET n == RangeCount(total, count)
      ranges == [i \in 1..n |-> <<Start(total, count, i - 1),
                                  Start(total, count, i - 1) + Span(total, count, i - 1) - 1>>]
  IN  /\ SplitLoop(total, count) = ranges
      /\ \A i \in 1..n : ranges[i][1] = (IF i = 1 THEN 0 ELSE ranges[i - 1][2] + 1)
      /\ n > 0 => ranges[n][2] = total - 1

SplitIsLoop == \A total \in 0..MaxTotal, count \in 1..MaxParts : Splits(total, count)
-----------------------------------------------------------------------------
(* The strengthening that makes PrefixKept and ReturnedIsWhole inductive.   *)

\* Workers run only while the call waits for them, and they leave a part of
\* the size of their range behind, or fail.
WorkersDone ==
  /\ pc # "workers" => \A i \in Ranges : wpc[i] \notin {"start", "stream"}
  /\ \A i \in Ranges : wpc[i] \in {"stream", "ok"} => parts[i] # None
  /\ \A i \in Ranges : wpc[i] = "ok" => Len(parts[i]) = Length(i)
  /\ pc = "concat" => \A i \in Ranges : wpc[i] = "ok"

\* Every part, one left behind by another process too, is from its place.
PartsRight ==
  version = 1 =>
    \A i \in Ranges : parts[i] # None =>
      /\ Offset(i) + Len(parts[i]) <= SizeOf[1]
      /\ \A k \in 1..Len(parts[i]) : parts[i][k] = <<1, Offset(i) + k>>

\* What the file has while the parts are joined.
Joining ==
  /\ pc \in {"clear", "workers", "concat", "cleanup", "discard"} => existing = 0
  /\ pc \in {"clear", "workers"} => Size(dest) = 0
  /\ pc \in {"workers", "concat"} => ~joined
  /\ pc = "concat" =>
       /\ dest # None
       /\ cat \in 0..RangeCount(Expected, Workers)
       /\ cat \in Ranges => off <= Length(cat)
       /\ Len(dest) = IF cat \in Ranges THEN Offset(cat) + off ELSE Expected
  /\ pc = "cleanup" /\ joined => dest # None /\ Len(dest) = Expected

\* Ranges are used for files of the right size only.
ParallelAllowed == pc \in {"clear", "workers", "concat", "cleanup"} => CanParallel

\* A resumed response goes on where the file ends.
Resuming ==
  /\ pc = "request" /\ existing > 0 => dest # None /\ Len(dest) = existing
  /\ pc = "stream" => dest # None /\ Len(dest) = next - 1

\* A part that is still read is not longer than its range.
PartsFit == \A i \in Ranges : wpc[i] = "stream" => Len(parts[i]) <= Length(i)

IInv == TypeOK /\ WorkersDone /\ PartsRight /\ Joining /\ ParallelAllowed /\ Resuming /\ PrefixKept
=============================================================================
