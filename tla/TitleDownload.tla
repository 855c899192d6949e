---------------------------- MODULE TitleDownload ----------------------------
(***************************************************************************)
(* One title's work directory and the installs that use it: download_title *)
(* of core/services/download_service.py with its callees, the decryption    *)
(* step of _process_queue_item (apps/worker/runner.py) and the analyzer     *)
(* that decides whether a direct install is possible.                       *)
(*                                                                          *)
(* The worker loop and execute requests may install one title at the same   *)
(* time, in one directory that outlives the process.  What DownloadFile     *)
(* says of one file and one call is here a request, its blocks and its end; *)
(* block k of a served file is the number k, and the k-th of the ranges a   *)
(* large file is fetched in.                                                *)
(***************************************************************************)
EXTENDS Integers, Sequences, FiniteSets

CONSTANTS
  Jobs,      \* the threads that install this title
  Contents,  \* the content files the TMD names
  Records,   \* those files in the order of the TMD
  Listed,    \* the files of a manifest.json, <<>> when the mirror has none
  Hashed,    \* those of them it gives a sha256 for
  SizeOf,    \* Files -> how many blocks the server serves
  Expected,  \* Files -> the size in its TMD record or its entry in the manifest, or 0
  Sized,     \* the files of the manifest whose entry has a size
  ParallelMin, \* download_parallel_min_bytes; above every size for a single thread
  CipherSize,  \* how many blocks make one of AES
  MinSize,   \* _MIN_TMD_DOWNLOAD_SIZE and _MIN_CETK_DOWNLOAD_SIZE
  FakeSize,  \* the size of the generated ticket
  Watched,   \* the file whose calls the history variable follows
  None       \* no file, no ticket

Files == {"tmd", "cetk"} \cup Contents

ASSUME FilesAssumption ==
  /\ {"tmd", "cetk"} \cap Contents = {}
  /\ Records \in Seq(Contents)
  /\ Listed \in Seq(Files) /\ Hashed \subseteq Files
  /\ Watched \in Files

ASSUME SizeAssumption ==
  /\ SizeOf \in [Files -> Nat \ {0}]
  /\ Expected \in [Files -> Nat] /\ Sized \subseteq Files
  /\ \A f \in Files \ (Contents \cup Sized) : Expected[f] = 0
  /\ ParallelMin \in Nat \ {0} /\ CipherSize \in Nat \ {0}
  /\ MinSize \in [{"tmd", "cetk"} -> Nat \ {0}]
  /\ FakeSize \in Nat /\ FakeSize >= MinSize["cetk"]

Fake == 0   \* a block of the generated ticket, whose title key is all zeros
Hole == -1  \* a block nobody wrote, before one that somebody did
Data == Nat \cup {Hole}
ASSUME NoneAssumption == None \notin Seq(Data)

Served(f) == [k \in 1..SizeOf[f] |-> k]
FakeTicket == [k \in 1..FakeSize |-> Fake]
RangesOf(f) == 1..Expected[f]

-----------------------------------------------------------------------------

VARIABLES
  files,      \* Files -> its blocks on disk, or None
  pc,         \* Jobs -> where its install is
  phase,      \* Jobs -> what the files are fetched for
  todo,       \* Jobs -> the files of this phase from the current one on
  existing,   \* Jobs -> existing_size
  next,       \* Jobs -> the next block of the response
  appending,  \* Jobs -> the file is open in mode "ab" and not "wb"
  loose,      \* the jobs whose open file has been unlinked meanwhile
  parts,      \* Files -> its ranges that are whole in their .partNN files
  done,       \* Jobs -> the ranges whose workers are through
  have,       \* Jobs -> the artifacts; tmd_present, ticket_present if among them
  info,       \* Jobs -> tmd_info is not None
  ticket,     \* Jobs -> cetk_bytes
  fake,       \* Jobs -> fake_ticket
  call,       \* history: how the last call for Watched ended
  spoiled,    \* history: files two calls worked on at a time, or the fake ticket went to
  alone       \* history: Jobs -> no other install has run beside its own

request == <<phase, todo, existing, next, appending>>
ranging == <<parts, done>>
found == <<have, info, ticket, fake>>
history == <<call, spoiled, alone>>
vars == <<files, pc, request, loose, ranging, found, history>>

RangePcs == {"ranges", "join"}
FetchPcs == RangePcs \cup {"request", "stream", "small"}
Pcs == {"idle", "stat", "fetched", "failed", "parse", "ticket", "prepare"} \cup FetchPcs

Len0(file) == IF file = None THEN 0 ELSE Len(file)
Active(j) == pc[j] # "idle"
Cur(j) == Head(todo[j])

Goto(j, l) == pc' = [pc EXCEPT ![j] = l]
Fetch(j, p, list) ==
  /\ phase' = [phase EXCEPT ![j] = p]
  /\ todo' = [todo EXCEPT ![j] = list]
  /\ Goto(j, "stat")

Init ==
  /\ files = [f \in Files |-> None]
  /\ pc = [j \in Jobs |-> "idle"]
  /\ phase = [j \in Jobs |-> "metadata"]
  /\ todo = [j \in Jobs |-> <<>>]
  /\ existing = [j \in Jobs |-> 0]
  /\ next = [j \in Jobs |-> 1]
  /\ appending = [j \in Jobs |-> FALSE]
  /\ loose = {}
  /\ parts = [f \in Files |-> {}]
  /\ done = [j \in Jobs |-> {}]
  /\ have = [j \in Jobs |-> {}]
  /\ info = [j \in Jobs |-> FALSE]
  /\ ticket = [j \in Jobs |-> None]
  /\ fake = [j \in Jobs |-> FALSE]
  /\ call = "none"
  /\ spoiled = {}
  /\ alone = [j \in Jobs |-> FALSE]

\* The worker calls download_title, which asks for the manifest first.  Nothing
\* in it counts but its files: without one, or with an empty one, or when it
\* cannot be fetched, the title is looked for itself.
Start(j) ==
  /\ pc[j] = "idle"
  /\ \/ Listed # <<>> /\ Fetch(j, "manifest", Listed)
     \/ Fetch(j, "metadata", <<"tmd", "cetk">>)
  /\ alone' = [k \in Jobs |-> k = j /\ \A i \in Jobs : ~Active(i)]
  /\ UNCHANGED <<files, existing, next, appending, loose, ranging, found, call, spoiled>>

\* _process_queue_item is through with j; nothing of its result is kept.
Return(j) ==
  /\ Goto(j, "idle")
  /\ phase' = [phase EXCEPT ![j] = "metadata"]
  /\ todo' = [todo EXCEPT ![j] = <<>>]
  /\ have' = [have EXCEPT ![j] = {}]
  /\ info' = [info EXCEPT ![j] = FALSE]
  /\ ticket' = [ticket EXCEPT ![j] = None]
  /\ fake' = [fake EXCEPT ![j] = FALSE]
  /\ alone' = [alone EXCEPT ![j] = FALSE]

-----------------------------------------------------------------------------
(* One file: _download_with_resume.                                         *)

\* Another call for the file is under way.
Shared(j, f) == \E i \in Jobs \ {j} : pc[i] \in FetchPcs /\ Cur(i) = f

\* What is known of the last call for Watched, once one for f ends like this.
Marked(end, f, unsafe) ==
  IF Watched \in unsafe THEN "none" ELSE IF Watched = f THEN end ELSE call

\* The size of the record comes with a content, that of a manifest entry with
\* its file, if it has one; the metadata files have none.
HasSize(j) == phase[j] = "content" \/ (phase[j] = "manifest" /\ Cur(j) \in Sized)
CanParallel(j) == HasSize(j) /\ Expected[Cur(j)] >= ParallelMin

\* The parts of the file are removed, but for those that cannot be.
ClearParts(f) == \E kept \in SUBSET parts[f] : parts' = [parts EXCEPT ![f] = kept]

\* The size of what is there decides: a file that has nothing yet is fetched
\* in ranges, which starts with removing the parts another call has left.
Stat(j) ==
  /\ pc[j] = "stat"
  /\ existing' = [existing EXCEPT ![j] = Len0(files[Cur(j)])]
  /\ IF Len0(files[Cur(j)]) = 0 /\ CanParallel(j)
       THEN Goto(j, "ranges") /\ ClearParts(Cur(j))
       ELSE Goto(j, "request") /\ UNCHANGED parts
  /\ spoiled' = IF Shared(j, Cur(j)) THEN spoiled \cup {Cur(j)} ELSE spoiled
  /\ call' = Marked("busy", Cur(j), spoiled')
  /\ UNCHANGED <<files, phase, todo, next, appending, loose, done, found, alone>>

Rest(j) == Tail(todo[j])

\* On to the next file of this phase, or past it.
Advance(j, l) ==
  /\ todo' = [todo EXCEPT ![j] = Rest(j)]
  /\ Goto(j, IF Rest(j) = <<>> THEN l ELSE "stat")

\* The call is over; its local variables with it.
Forget(j) ==
  /\ existing' = [existing EXCEPT ![j] = 0]
  /\ next' = [next EXCEPT ![j] = 1]
  /\ appending' = [appending EXCEPT ![j] = FALSE]

\* _try_fetch_binary turns the outcome into tmd_present or ticket_present, and
\* the file into an artifact only when both have been tried; what else is
\* fetched is hashed first, or the error raised.
End(j, ok) ==
  /\ IF phase[j] = "metadata"
       THEN /\ have' = IF ok THEN [have EXCEPT ![j] = @ \cup {Cur(j)}] ELSE have
            /\ Advance(j, "parse")
       ELSE Goto(j, IF ok THEN "fetched" ELSE "failed") /\ UNCHANGED <<have, todo>>
  /\ call' = Marked(IF ok THEN "ok" ELSE "error", Cur(j), spoiled)
  /\ Forget(j)
  /\ UNCHANGED <<phase, info, ticket, fake, spoiled, alone>>

\* _try_fetch_binary takes metadata files only, and not when they are small.
TooSmall(j, size) == phase[j] = "metadata" /\ size < MinSize[Cur(j)]

Finish(j, size) ==
  IF TooSmall(j, size)
    THEN Goto(j, "small") /\ Forget(j) /\ UNCHANGED <<phase, todo, found, history>>
    ELSE End(j, TRUE)

\* A write at block k, whatever the file has become since it was opened.
Put(file, k, block) ==
  [i \in 1..(IF k > Len(file) THEN k ELSE Len(file)) |->
     IF i = k THEN block ELSE IF i <= Len(file) THEN file[i] ELSE Hole]

\* Who writes to the file: an unlink leaves them with a file without a name.
HaveOpen(f) == {i \in Jobs : pc[i] \in {"join", "stream"} /\ Cur(i) = f}

-----------------------------------------------------------------------------
(* _download_parallel_ranges.                                               *)

\* A worker has removed its part, or opened it anew, and its attempt goes on or
\* has failed.
RangeTry(j, k) ==
  /\ pc[j] = "ranges"
  /\ k \in RangesOf(Cur(j)) \ done[j]
  /\ parts' = [parts EXCEPT ![Cur(j)] = @ \ {k}]
  /\ UNCHANGED <<files, pc, request, loose, done, found, history>>

\* Mutant: the size of a part is not compared with its range.
RangeDone_NoCheck(j, k) ==
  /\ pc[j] = "ranges"
  /\ k \in RangesOf(Cur(j)) \ done[j]
  /\ \E whole \in SUBSET {k} : parts' = [parts EXCEPT ![Cur(j)] = @ \cup whole]
  /\ done' = [done EXCEPT ![j] = @ \cup {k}]
  /\ UNCHANGED <<files, pc, request, loose, found, history>>

\* A worker has all of a range that the server has.  If another call has removed
\* the part or opened it anew, that came after it.
RangeDone(j, k) ==
  /\ pc[j] = "ranges"
  /\ k \in RangesOf(Cur(j)) \ done[j]
  /\ k <= SizeOf[Cur(j)]
  /\ parts' = [parts EXCEPT ![Cur(j)] = @ \cup {k}]
  /\ done' = [done EXCEPT ![j] = @ \cup {k}]
  /\ UNCHANGED <<files, pc, request, loose, found, history>>

\* The file is truncated to take in the parts.
JoinOpen(j) ==
  /\ pc[j] = "ranges"
  /\ done[j] = RangesOf(Cur(j))
  /\ files' = [files EXCEPT ![Cur(j)] = <<>>]
  /\ Goto(j, "join")
  /\ UNCHANGED <<request, loose, ranging, found, history>>

\* A part is copied.  One that another call is at may have a hole at its start;
\* what it lacks at its end makes the file too short, which is the same as a
\* failure.
JoinPart(j) ==
  /\ pc[j] = "join"
  /\ next[j] \in RangesOf(Cur(j))
  /\ LET block == IF next[j] \in parts[Cur(j)] THEN next[j] ELSE Hole
     IN  files' = IF j \in loose THEN files ELSE [files EXCEPT ![Cur(j)] = Put(@, next[j], block)]
  /\ next' = [next EXCEPT ![j] = @ + 1]
  /\ UNCHANGED <<pc, phase, todo, existing, appending, loose, ranging, found, history>>

\* The call leaves the ranges behind, and its parts if they cannot be removed.
DropRanges(j) ==
  /\ ClearParts(Cur(j))
  /\ done' = [done EXCEPT ![j] = {}]

\* A file of the expected size is the result; of another size it is asked for
\* again as a single stream.
JoinEnd(j) ==
  /\ pc[j] = "join"
  /\ next[j] > Expected[Cur(j)]
  /\ files[Cur(j)] # None
  /\ DropRanges(j)
  /\ loose' = loose \ {j}
  /\ IF Len(files[Cur(j)]) = Expected[Cur(j)]
       THEN End(j, TRUE)
       ELSE /\ Goto(j, "request")
            /\ next' = [next EXCEPT ![j] = 1]
            /\ UNCHANGED <<phase, todo, existing, appending, found, history>>
  /\ UNCHANGED files

\* The attempts at a range are used up, a part or the file is gone, or the disk
\* is full: the file is unlinked, if that works, and asked for as a single
\* stream.
RangesFail(j) ==
  /\ pc[j] \in RangePcs
  /\ DropRanges(j)
  /\ \/ /\ files' = [files EXCEPT ![Cur(j)] = None]
        /\ loose' = (loose \cup HaveOpen(Cur(j))) \ {j}
     \/ loose' = loose \ {j} /\ UNCHANGED files
  /\ next' = [next EXCEPT ![j] = 1]
  /\ Goto(j, "request")
  /\ UNCHANGED <<phase, todo, existing, appending, found, history>>

-----------------------------------------------------------------------------
(* The single stream.                                                       *)

\* 416: what is there counts as the file.
RequestBeyond(j) ==
  /\ pc[j] = "request"
  /\ existing[j] > 0 /\ existing[j] >= SizeOf[Cur(j)]
  /\ Finish(j, existing[j])
  /\ UNCHANGED <<files, loose, ranging>>

\* Mutant: the blocks of the rest are counted from 0.
RequestRest_From0(j) ==
  /\ pc[j] = "request"
  /\ existing[j] > 0 /\ existing[j] < SizeOf[Cur(j)]
  /\ files' = [files EXCEPT ![Cur(j)] = IF @ = None THEN <<>> ELSE @]
  /\ next' = [next EXCEPT ![j] = existing[j] - 1]
  /\ appending' = [appending EXCEPT ![j] = TRUE]
  /\ Goto(j, "stream")
  /\ UNCHANGED <<phase, todo, existing, loose, ranging, found, history>>

\* 206: the rest of the file is appended to what is there then.
RequestRest(j) ==
  /\ pc[j] = "request"
  /\ existing[j] > 0 /\ existing[j] < SizeOf[Cur(j)]
  /\ files' = [files EXCEPT ![Cur(j)] = IF @ = None THEN <<>> ELSE @]
  /\ next' = [next EXCEPT ![j] = existing[j] + 1]
  /\ appending' = [appending EXCEPT ![j] = TRUE]
  /\ Goto(j, "stream")
  /\ UNCHANGED <<phase, todo, existing, loose, ranging, found, history>>

\* 200: the file is truncated and written from the start.
RequestAll(j) ==
  /\ pc[j] = "request"
  /\ files' = [files EXCEPT ![Cur(j)] = <<>>]
  /\ existing' = [existing EXCEPT ![j] = 0]
  /\ Goto(j, "stream")
  /\ UNCHANGED <<phase, todo, next, appending, loose, ranging, found, history>>

\* Mutant: what is appended is the response from its start.
Written_FromStart(j) ==
  Put(files[Cur(j)], IF appending[j] THEN Len(files[Cur(j)]) + 1 ELSE next[j],
      IF appending[j] THEN next[j] - existing[j] ELSE next[j])

Written(j) ==
  Put(files[Cur(j)], IF appending[j] THEN Len(files[Cur(j)]) + 1 ELSE next[j], next[j])

Chunk(j) ==
  /\ pc[j] = "stream"
  /\ next[j] <= SizeOf[Cur(j)]
  /\ files' = IF j \in loose THEN files ELSE [files EXCEPT ![Cur(j)] = Written(j)]
  /\ next' = [next EXCEPT ![j] = @ + 1]
  /\ UNCHANGED <<pc, phase, todo, existing, appending, loose, ranging, found, history>>

\* The size of what is at the path now is returned.
StreamEnd(j) ==
  /\ pc[j] = "stream"
  /\ next[j] > SizeOf[Cur(j)]
  /\ IF files[Cur(j)] = None THEN End(j, FALSE) ELSE Finish(j, Len(files[Cur(j)]))
  /\ loose' = loose \ {j}
  /\ UNCHANGED <<files, ranging>>

\* Mutant: a response that breaks off counts as complete.
StreamError_Ignored(j) ==
  /\ pc[j] \in {"request", "stream"}
  /\ End(j, TRUE)
  /\ loose' = loose \ {j}
  /\ UNCHANGED <<files, ranging>>

\* Another status, or the response breaks off: what was written stays.
StreamError(j) ==
  /\ pc[j] \in {"request", "stream"}
  /\ End(j, FALSE)
  /\ loose' = loose \ {j}
  /\ UNCHANGED <<files, ranging>>

\* A metadata file that is too small is unlinked, if that works, under the
\* hands of whoever has it open.
DropSmall(j) ==
  /\ pc[j] = "small"
  /\ files' = [files EXCEPT ![Cur(j)] = None]
  /\ loose' = loose \cup HaveOpen(Cur(j))
  /\ End(j, FALSE)
  /\ UNCHANGED ranging

SmallFails(j) ==
  /\ pc[j] = "small"
  /\ End(j, FALSE)
  /\ UNCHANGED <<files, loose, ranging>>

-----------------------------------------------------------------------------
(* download_title: a file that was fetched becomes an artifact.             *)

\* stat and _hash_file need the file; a manifest may give its sha256.
Acceptable(j) ==
  /\ files[Cur(j)] # None
  /\ phase[j] = "manifest" /\ Cur(j) \in Hashed => files[Cur(j)] = Served(Cur(j))

\* A file of a manifest or a content.  Nothing parses the metadata that a
\* manifest brings.
Take(j) ==
  /\ pc[j] = "fetched"
  /\ Acceptable(j)
  /\ have' = [have EXCEPT ![j] = @ \cup {Cur(j)}]
  /\ Advance(j, "prepare")
  /\ UNCHANGED <<files, phase, existing, next, appending, loose, ranging, info, ticket, fake, history>>

\* parse_tmd_bytes: an empty file is no TMD, a damaged one may still parse.
ParseTmd(j) ==
  /\ pc[j] = "parse"
  /\ \/ /\ "tmd" \in have[j] /\ files["tmd"] # None
        /\ \E parses \in BOOLEAN :
             /\ files["tmd"] = Served("tmd") => parses
             /\ files["tmd"] = <<>> => ~parses
             /\ info' = [info EXCEPT ![j] = parses]
     \/ "tmd" \notin have[j] /\ UNCHANGED info
  /\ Goto(j, "ticket")
  /\ UNCHANGED <<files, request, loose, ranging, have, ticket, fake, history>>

\* The contents of a parsed TMD are fetched next.
ToContents(j) ==
  IF info[j] /\ Records # <<>>
    THEN Fetch(j, "content", Records)
    ELSE Goto(j, "prepare") /\ UNCHANGED <<phase, todo>>

ReadTicket(j) ==
  /\ pc[j] = "ticket"
  /\ "cetk" \in have[j] /\ files["cetk"] # None
  /\ ticket' = [ticket EXCEPT ![j] = files["cetk"]]
  /\ ToContents(j)
  /\ UNCHANGED <<files, existing, next, appending, loose, ranging, have, info, fake, history>>

\* With allow_fake_tickets a ticket is generated and written to the place of
\* the real one, whatever a failed request has left there.  When the write
\* fails its bytes are used all the same.
MakeTicket(j) ==
  /\ pc[j] = "ticket"
  /\ "cetk" \notin have[j]
  /\ ticket' = [ticket EXCEPT ![j] = FakeTicket]
  /\ spoiled' = spoiled \cup {"cetk"}
  /\ \/ /\ files' = [files EXCEPT !["cetk"] = FakeTicket]
        /\ have' = [have EXCEPT ![j] = @ \cup {"cetk"}]
        /\ fake' = [fake EXCEPT ![j] = TRUE]
     \/ /\ files' = [files EXCEPT !["cetk"] = <<>>]
        /\ UNCHANGED <<have, fake>>
  /\ ToContents(j)
  /\ call' = Marked("none", "cetk", spoiled')
  /\ UNCHANGED <<existing, next, appending, loose, ranging, info, alone>>

\* Not allowed, or there is no common key to make one with.
NoTicket(j) ==
  /\ pc[j] = "ticket"
  /\ "cetk" \notin have[j]
  /\ ToContents(j)
  /\ UNCHANGED <<files, existing, next, appending, loose, ranging, found, history>>

-----------------------------------------------------------------------------
(* _process_queue_item goes on with the result: decrypt and analyze.  With   *)
(* no artifact at all the result is a placeholder file and never direct.     *)

\* The title key lies in the first block of the ticket.
RealKey(j) == ticket[j][1] = 1

Decrypts(j) == ticket[j] \notin {None, <<>>} /\ info[j]

Direct(j) == "cetk" \in have[j] /\ info[j]

Decrypted(j) == IF Decrypts(j) THEN have[j] \cap Contents ELSE {}

\* decrypt_app takes a file of whole AES blocks and gets one of any length; the
\* ticket has to be one.
CanDecrypt(j) ==
  /\ Len(ticket[j]) >= MinSize["cetk"]
  /\ \A c \in Decrypted(j) : files[c] # None /\ Len(files[c]) % CipherSize = 0

\* The first n blocks of the file are the server's.
Begins(file, n) == Len(file) >= n /\ \A k \in 1..n : file[k] = k

\* Mutant: what was decrypted is hashed without a cut.
Matches_Uncut(j, c) ==
  RealKey(j) /\ files[c] # None /\ Begins(files[c], Expected[c]) /\ Len(files[c]) = Expected[c]

\* The hash in the TMD is that of the content up to the size in its record, to
\* which what was decrypted is cut.
Matches(j, c) == RealKey(j) /\ files[c] # None /\ Begins(files[c], Expected[c])

Mismatches(j) == IF fake[j] THEN {} ELSE {c \in Decrypted(j) : ~Matches(j, c)}

\* A hash mismatch is counted and reported, nothing more.  The queue goes on
\* with the decrypted files and Direct(j).
Prepare(j) ==
  /\ pc[j] = "prepare"
  /\ Decrypts(j) => CanDecrypt(j)
  /\ Return(j)
  /\ UNCHANGED <<files, existing, next, appending, loose, ranging, call, spoiled>>

\* An error that is not caught: a manifest's sha256, a content that cannot be
\* fetched, a file another install has removed, or anything the decryption
\* needs, such as the common key.
Raises(j) ==
  \/ pc[j] = "fetched" /\ ~Acceptable(j)
  \/ pc[j] = "failed"
  \/ pc[j] = "parse" /\ "tmd" \in have[j] /\ files["tmd"] = None
  \/ pc[j] = "ticket" /\ "cetk" \in have[j] /\ files["cetk"] = None
  \/ pc[j] = "prepare" /\ Decrypts(j)

Fail(j) ==
  /\ Raises(j)
  /\ Return(j)
  /\ UNCHANGED <<files, existing, next, appending, loose, ranging, call, spoiled>>

\* The process ends.  The files stay.
Exit ==
  /\ \E j \in Jobs : Active(j)
  /\ pc' = [j \in Jobs |-> "idle"]
  /\ phase' = [j \in Jobs |-> "metadata"]
  /\ todo' = [j \in Jobs |-> <<>>]
  /\ existing' = [j \in Jobs |-> 0]
  /\ next' = [j \in Jobs |-> 1]
  /\ appending' = [j \in Jobs |-> FALSE]
  /\ loose' = {}
  /\ done' = [j \in Jobs |-> {}]
  /\ have' = [j \in Jobs |-> {}]
  /\ info' = [j \in Jobs |-> FALSE]
  /\ ticket' = [j \in Jobs |-> None]
  /\ fake' = [j \in Jobs |-> FALSE]
  /\ alone' = [j \in Jobs |-> FALSE]
  /\ call' = IF call = "busy" THEN "none" ELSE call
  /\ UNCHANGED <<files, parts, spoiled>>

-----------------------------------------------------------------------------

Ranging(j) ==
  \/ /\ pc[j] = "ranges"
     /\ \E k \in RangesOf(Cur(j)) : RangeTry(j, k) \/ RangeDone(j, k)
  \/ JoinOpen(j) \/ JoinPart(j) \/ JoinEnd(j) \/ RangesFail(j)

File(j) ==
  \/ Stat(j)
  \/ Ranging(j)
  \/ RequestBeyond(j) \/ RequestRest(j) \/ RequestAll(j)
  \/ Chunk(j) \/ StreamEnd(j) \/ StreamError(j)
  \/ DropSmall(j) \/ SmallFails(j)

Title(j) ==
  \/ Take(j)
  \/ ParseTmd(j) \/ ReadTicket(j) \/ MakeTicket(j) \/ NoTicket(j)
  \/ Prepare(j) \/ Fail(j)

Next ==
  \/ \E j \in Jobs : Start(j)
  \/ \E j \in Jobs : File(j)
  \/ \E j \in Jobs : Title(j)
  \/ Exit

Spec == Init /\ [][Next]_vars

-----------------------------------------------------------------------------
(* Properties.                                                              *)

TypeOK ==
  /\ files \in [Files -> Seq(Data) \cup {None}]
  /\ pc \in [Jobs -> Pcs]
  /\ phase \in [Jobs -> {"manifest", "metadata", "content"}]
  /\ todo \in [Jobs -> Seq(Files)]
  /\ existing \in [Jobs -> Nat]
  /\ next \in [Jobs -> Nat \ {0}]
  /\ appending \in [Jobs -> BOOLEAN]
  /\ loose \subseteq Jobs
  /\ parts \in [Files -> SUBSET Nat]
  /\ done \in [Jobs -> SUBSET Nat]
  /\ have \in [Jobs -> SUBSET Files]
  /\ info \in [Jobs -> BOOLEAN]
  /\ ticket \in [Jobs -> Seq(Data) \cup {None}]
  /\ fake \in [Jobs -> BOOLEAN]
  /\ call \in {"none", "busy", "ok", "error"}
  /\ spoiled \subseteq Files
  /\ alone \in [Jobs -> BOOLEAN]

IsPrefix(file, f) == Len(file) <= SizeOf[f] /\ \A k \in 1..Len(file) : file[k] = k

\* A file that no two calls worked on at a time, and that no generated ticket
\* went to, is at every moment a prefix of what the server has: whatever
\* requests failed, installs were given up and processes ended in between.
UnspoiledIsPrefix ==
  \A f \in Files \ spoiled : files[f] # None => IsPrefix(files[f], f)

\* What a call may take for all of a file: what the server has, or, of a file
\* fetched in ranges, just as much as the caller was told to expect.
MaySettleFor(f) ==
  {SizeOf[f]} \cup (IF Expected[f] >= ParallelMin THEN {Expected[f]} ELSE {})

\* download_title does not return before every artifact is whole, or cut off
\* exactly where its record or its manifest entry ends it: an install
\* that no other one ran beside goes on with such files, those it resumed
\* or that earlier installs, interrupted and overlapping ones too, have left
\* behind included, except where those have spoiled a file.
ResultIsWhole ==
  \A j \in Jobs : pc[j] = "prepare" /\ alone[j] =>
    \A f \in have[j] \ spoiled :
      /\ files[f] # None
      /\ Len(files[f]) \in MaySettleFor(f)
      /\ Begins(files[f], Len(files[f]))

\* A direct install means that the metadata and every content of the TMD have
\* been fetched, and, if the decryption does not turn a file away, that all
\* contents are decrypted and none of them has a wrong hash, those that were
\* cut off included, unless its record is beyond what the server has.  (The
\* analyzer looks at ticket_present and tmd_info, the
\* decryption at cetk_bytes and tmd_info.)
DirectIsDecrypted ==
  \A j \in Jobs : pc[j] = "prepare" /\ alone[j] /\ have[j] \cap spoiled = {} /\ Direct(j) =>
    /\ {"tmd", "cetk"} \cup {Records[k] : k \in 1..Len(Records)} \subseteq have[j]
    /\ Decrypted(j) = have[j] \cap Contents
    /\ Mismatches(j) \subseteq {c \in Contents : Expected[c] > SizeOf[c]}

\* An install that does not say its ticket was generated (fake_ticket, without
\* which the hashes of the contents are compared) has the real one, on a server
\* whose tickets are real: there the generator is never activated, its own
\* documentation says.
FakeIsFlagged ==
  \A j \in Jobs :
    pc[j] = "prepare" /\ alone[j] /\ "cetk" \in have[j] /\ ticket[j] \notin {None, <<>>} /\ ~fake[j]
      => RealKey(j)

\* How much of the file is there, -1 if it is not the server's.
Have ==
  IF Watched \in spoiled \/ files[Watched] = None THEN 0
  ELSE IF IsPrefix(files[Watched], Watched) THEN Len(files[Watched]) ELSE -1

WatchedFile == INSTANCE FileFetch WITH
  Total <- SizeOf[Watched],
  Accepted <- MaySettleFor(Watched),
  have <- Have,
  state <- IF Watched \in spoiled THEN "replaced" ELSE call

\* Every file of a title keeps the promises of FileFetch until it is spoiled,
\* although installs with and without a manifest and what they clean up share
\* it, and the parts of its ranges.
WatchedImplementsFetch == WatchedFile!Spec
=============================================================================
