----------------------------- MODULE WfsInstall -----------------------------
(***************************************************************************)
(* What an install does to the disk: the decryption loop of                 *)
(* _process_queue_item (apps/worker/runner.py), WriterEngine                *)
(* (core/services/writer_engine.py), DiskService's attachment               *)
(* (core/services/disk_service.py) and the native engine behind             *)
(* NativeWfsAdapter (native/wfs_core).                                      *)
(*                                                                          *)
(* Installs, deinstall requests and attach requests run in threads of their *)
(* own and share, without a lock, the adapter's one device handle, the      *)
(* disk_attachments table and the work directory of a title.  A native call *)
(* holds the interpreter lock until it returns, so it is one step.          *)
(***************************************************************************)
EXTENDS Integers, FiniteSets

CONSTANTS
  Jobs,          \* installs, by job id
  Titles, Disks,
  TitleOf,       \* Jobs -> Titles
  Files,         \* the encrypted contents of a title
  Deinstalls,    \* API threads that serve /api/titles/{id}/deinstall
  Attaches,      \* API threads that serve /api/disks/attach
  EnvDisks,      \* what WIIU_DISK may name when the process starts: disks, or None
  None,          \* no disk, no file, no request
  MaxExits,      \* bound: how often the process may end
  MaxDbErrors    \* bound: how many transactions of attach_device may fail

ASSUME TitleAssumption == TitleOf \in [Jobs -> Titles]
ASSUME DiskAssumption ==
  None \notin Disks \cup Files \cup Attaches /\ EnvDisks \subseteq Disks \cup {None}
ASSUME JobAssumption == Jobs \cap {"none", "full"} = {}
ASSUME LimitAssumption == MaxExits \in Nat /\ MaxDbErrors \in Nat

\* What dry_run and first_write_confirmed allow.  bootstrap_defaults stores
\* both from the environment at startup and nothing changes them later.
Gates == {"dry_run", "unconfirmed", "open"}

\* _target_path: a direct install goes under /usr/title, a staged one under
\* /install.  An artifact without a path in its title, which has another place
\* there, is not among Files.
Places == {"title", "install"}
Paths == Titles \X Places \X Files

\* A file on a disk: not there, created with its size but without its data,
\* written with a prefix of its data, or complete.
Contents == {"absent", "blank", "partial", "full"}

WritePcs == {"files", "read", "write", "check", "report"}
JobPcs == {"decrypt", "decrypting", "hashing", "gate"} \cup WritePcs
RemovePcs == {"title", "install", "flush"}
EndPcs == {"idle", "done", "failed"}

VARIABLES
  up, gate,
  handle,      \* the disk the adapter's engine has open, or None
  record,      \* the device of the active disk_attachments row, or None
  view,        \* Disks -> Paths -> Contents, as an open handle sees it
  durable,     \* Disks -> Paths -> Contents, as it is on the medium
  local,       \* Titles -> Files -> "none", "full" or the job that truncated
               \* the decrypted file last and has not finished it
  pc, place, todo, file, \* Jobs -> where it is, its target, files left, file in work
  sha,         \* Jobs -> Files -> the content its artifact.sha256 was taken of
  data,        \* Jobs -> what read_bytes returned
  dpc, dtitle, \* Deinstalls -> where it is, the title it removes
  apc, adisk,  \* Attaches -> where it is, the disk it attaches
  opener, recorder, \* history: the request that was the last to open a disk, and
               \* the last to record one unless it is back; None for the startup
  disturbed,   \* history: the threads another thread interfered with
  exits, dbErrors        \* counters for the bounds

jobVars == <<pc, place, todo, file, sha, data>>
deinstallVars == <<dpc, dtitle>>
attachVars == <<apc, adisk, opener, recorder>>
disk == <<handle, view, durable>>
counters == <<exits, dbErrors>>
vars == <<up, gate, disk, record, local, jobVars, deinstallVars, attachVars, disturbed, counters>>

-----------------------------------------------------------------------------

Active(j) == pc[j] \in JobPcs
ActiveOn(t) == {j \in Jobs : Active(j) /\ TitleOf[j] = t}
Writing == {j \in Jobs : pc[j] \in WritePcs}
WritingOn(t) == {j \in Writing : TitleOf[j] = t}
Removing == {r \in Deinstalls : dpc[r] \in RemovePcs}
RemovingOf(t) == {r \in Removing : dtitle[r] = t}

\* The two threads of any pair in A and B get in each other's way.
Interfere(A, B) == disturbed \cup (IF A = {} \/ B = {} THEN {} ELSE A \cup B)

\* The third branch of _target_path is for relative target paths, and every
\* artifact of a title that has a TMD is given an absolute one.
Target(j, f) == <<TitleOf[j], place[j], f>>

\* What a reader of a decrypted file gets at this moment.
LocalContent(t, f) == IF local[t][f] \in {"none", "full"} THEN local[t][f] ELSE "partial"

Goto(j, l) == pc' = [pc EXCEPT ![j] = l]

\* Mutant: the other files of the disk are lost.
Put_Only(paths, c) == [view EXCEPT ![handle] = [x \in paths |-> c]]

\* The open handle's disk after the files under paths have become c.
Put(paths, c) == [view EXCEPT ![handle] = [x \in Paths |-> IF x \in paths THEN c ELSE view[handle][x]]]

\* flush(), and the destructor of a device that is closed or replaced.
FlushHandle ==
  durable' = IF handle = None THEN durable ELSE [durable EXCEPT ![handle] = view[handle]]

Init ==
  /\ up = TRUE
  /\ gate \in Gates
  /\ handle = None
  /\ record = None
  /\ view = [d \in Disks |-> [x \in Paths |-> "absent"]]
  /\ durable = view
  /\ local = [t \in Titles |-> [f \in Files |-> "none"]]
  /\ pc = [j \in Jobs |-> "idle"]
  /\ place = [j \in Jobs |-> "title"]
  /\ todo = [j \in Jobs |-> {}]
  /\ file = [j \in Jobs |-> None]
  /\ sha = [j \in Jobs |-> [f \in Files |-> "none"]]
  /\ data = [j \in Jobs |-> "none"]
  /\ dpc = [r \in Deinstalls |-> "idle"]
  /\ dtitle = [r \in Deinstalls |-> None]
  /\ apc = [a \in Attaches |-> "idle"]
  /\ adisk = [a \in Attaches |-> None]
  /\ opener = None
  /\ recorder = None
  /\ disturbed = {}
  /\ exits = 0
  /\ dbErrors = 0

-----------------------------------------------------------------------------
(* An install: decryption.                                                  *)

\* The download is there, and the decision for /usr/title or /install made.
\* Two installs of one title share its work directory; one that still downloads
\* touches none of the .dec files, so it does not interfere yet.  The artifacts
\* that are passed on as they are, the metadata among them, are written by the
\* same loop and left out.
Begin(j, where) ==
  /\ up
  /\ pc[j] = "idle"
  /\ Goto(j, "decrypt")
  /\ place' = [place EXCEPT ![j] = where]
  /\ todo' = [todo EXCEPT ![j] = Files]
  /\ disturbed' = Interfere({j}, ActiveOn(TitleOf[j]))
  /\ UNCHANGED <<up, gate, disk, record, local, file, sha, data, deinstallVars, attachVars,
                 counters>>

\* decrypt_app opens the .dec file of the work directory with "wb".
DecryptOpen(j) ==
  /\ pc[j] = "decrypt"
  /\ \E f \in todo[j] :
       /\ file' = [file EXCEPT ![j] = f]
       /\ local' = [local EXCEPT ![TitleOf[j]][f] = j]
  /\ Goto(j, "decrypting")
  /\ UNCHANGED <<up, gate, disk, record, place, todo, sha, data, deinstallVars, attachVars,
                 disturbed, counters>>

\* All of the content is written and the file closed, and what is behind the
\* size in its record cut off; until then it is as wrong as while it is written,
\* so the cut is no step of its own.  If another job has truncated the file
\* since, it is that job's bytes that are missing now.
DecryptClose(j) ==
  /\ pc[j] = "decrypting"
  /\ local' = IF local[TitleOf[j]][file[j]] = j
                THEN [local EXCEPT ![TitleOf[j]][file[j]] = "full"]
                ELSE local
  /\ Goto(j, "hashing")
  /\ UNCHANGED <<up, gate, disk, record, place, todo, file, sha, data, deinstallVars, attachVars,
                 disturbed, counters>>

\* The SHA-256 of the .dec file becomes the hash of the artifact.
Hash(j) ==
  /\ pc[j] = "hashing"
  /\ sha' = [sha EXCEPT ![j][file[j]] = LocalContent(TitleOf[j], file[j])]
  /\ todo' = [todo EXCEPT ![j] = @ \ {file[j]}]
  /\ Goto(j, IF todo[j] = {file[j]} THEN "gate" ELSE "decrypt")
  /\ UNCHANGED <<up, gate, disk, record, local, place, file, data, deinstallVars, attachVars,
                 disturbed, counters>>

-----------------------------------------------------------------------------
(* An install: write_download_result.                                       *)

\* Mutant: the confirmation of the first write is not asked for.
PassGate_Unconfirmed(j) ==
  /\ pc[j] = "gate"
  /\ todo' = [todo EXCEPT ![j] = Files]
  /\ Goto(j, IF gate = "dry_run" THEN "report" ELSE "files")
  /\ disturbed' = Interfere({j}, RemovingOf(TitleOf[j]))
  /\ UNCHANGED <<up, gate, disk, record, local, place, file, sha, data, deinstallVars, attachVars,
                 counters>>

\* Both settings are read once, before the first file.  The job is new, so no
\* path is in its file_written events yet.
PassGate(j) ==
  /\ pc[j] = "gate"
  /\ todo' = [todo EXCEPT ![j] = Files]
  /\ Goto(j, CASE gate = "unconfirmed" -> "failed"
               [] gate = "dry_run" -> "report"
               [] gate = "open" -> "files")
  /\ disturbed' = IF gate = "open" THEN Interfere({j}, RemovingOf(TitleOf[j])) ELSE disturbed
  /\ UNCHANGED <<up, gate, disk, record, local, place, file, sha, data, deinstallVars, attachVars,
                 counters>>

\* mkdir and create_file: a file that exists is resized and keeps its data.
CreateFile(j) ==
  /\ pc[j] = "files"
  /\ handle # None
  /\ \E f \in todo[j] :
       /\ file' = [file EXCEPT ![j] = f]
       /\ view' = IF view[handle][Target(j, f)] = "absent" THEN Put({Target(j, f)}, "blank")
                                                           ELSE view
  /\ Goto(j, "read")
  /\ UNCHANGED <<up, gate, handle, durable, record, local, place, todo, sha, data, deinstallVars,
                 attachVars, disturbed, counters>>

ReadLocal(j) ==
  /\ pc[j] = "read"
  /\ data' = [data EXCEPT ![j] = LocalContent(TitleOf[j], file[j])]
  /\ Goto(j, "write")
  /\ UNCHANGED <<up, gate, disk, record, local, place, todo, file, sha, deinstallVars, attachVars,
                 disturbed, counters>>

\* write_stream looks the path up again, on the handle that is open now.  The
\* bytes behind a short read stay what they were.
WriteFile(j) ==
  /\ pc[j] = "write"
  /\ handle # None
  /\ LET x == Target(j, file[j])
     IN  /\ view[handle][x] # "absent"
         /\ \E c \in {data[j]} \cup (IF data[j] = "partial" THEN {view[handle][x]} ELSE {}) :
              view' = Put({x}, c)
  /\ Goto(j, "check")
  /\ UNCHANGED <<up, gate, handle, durable, record, local, place, todo, file, sha, data,
                 deinstallVars, attachVars, disturbed, counters>>

\* The local file is hashed again, after the write.  If it is as it was when
\* the artifact was hashed, the file_written event follows; two different
\* prefixes of the file may or may not be the same.
CheckHash(j) ==
  /\ pc[j] = "check"
  /\ LocalContent(TitleOf[j], file[j]) = sha[j][file[j]]
  /\ todo' = [todo EXCEPT ![j] = @ \ {file[j]}]
  /\ Goto(j, "files")
  /\ UNCHANGED <<up, gate, disk, record, local, place, file, sha, data, deinstallVars, attachVars,
                 disturbed, counters>>

\* Mutant: the report is returned with the data still in the cache.
FlushFiles_NoFlush(j) ==
  /\ pc[j] = "files"
  /\ todo[j] = {}
  /\ Goto(j, "report")
  /\ UNCHANGED <<up, gate, disk, record, local, place, todo, file, sha, data, deinstallVars,
                 attachVars, disturbed, counters>>

FlushFiles(j) ==
  /\ pc[j] = "files"
  /\ todo[j] = {}
  /\ handle # None
  /\ FlushHandle
  /\ Goto(j, "report")
  /\ UNCHANGED <<up, gate, handle, view, record, local, place, todo, file, sha, data,
                 deinstallVars, attachVars, disturbed, counters>>

\* integrity_check("/") needs a handle, in a dry run too; it counts files.
Report(j) ==
  /\ pc[j] = "report"
  /\ handle # None
  /\ Goto(j, "done")
  /\ UNCHANGED <<up, gate, disk, record, local, place, todo, file, sha, data, deinstallVars,
                 attachVars, disturbed, counters>>

\* A write that fails on the way leaves some of its bytes.
WriteBreaks(j) ==
  /\ pc[j] = "write"
  /\ handle # None
  /\ view[handle][Target(j, file[j])] # "absent"
  /\ view' = Put({Target(j, file[j])}, "partial")

\* An operation raises: no handle, the path is gone, an I/O error, a short
\* write, a hash that drifted.  What was written stays.
Fail(j) ==
  /\ Active(j)
  /\ WriteBreaks(j) \/ UNCHANGED view
  /\ Goto(j, "failed")
  /\ UNCHANGED <<up, gate, handle, durable, record, local, place, todo, file, sha, data,
                 deinstallVars, attachVars, disturbed, counters>>

-----------------------------------------------------------------------------
(* deinstall_title.                                                         *)

DeinstallBegin(r, t) ==
  /\ up
  /\ dpc[r] = "idle"
  /\ gate = "open"
  /\ dpc' = [dpc EXCEPT ![r] = "title"]
  /\ dtitle' = [dtitle EXCEPT ![r] = t]
  /\ disturbed' = Interfere({r}, WritingOn(t))
  /\ UNCHANGED <<up, gate, disk, record, local, jobVars, attachVars, counters>>

Under(t, where) == {t} \X {where} \X Files

\* delete("/usr/title/...") and then delete("/install/..."); a tree that is
\* not there is skipped.
DeinstallTree(r, where, next) ==
  /\ dpc[r] = where
  /\ handle # None
  /\ view' = Put(Under(dtitle[r], where), "absent")
  /\ dpc' = [dpc EXCEPT ![r] = next]
  /\ UNCHANGED <<up, gate, handle, durable, record, local, jobVars, dtitle, attachVars, disturbed,
                 counters>>

DeinstallFlush(r) ==
  /\ dpc[r] = "flush"
  /\ handle # None
  /\ FlushHandle
  /\ dpc' = [dpc EXCEPT ![r] = "done"]
  /\ UNCHANGED <<up, gate, handle, view, record, local, jobVars, dtitle, attachVars, disturbed,
                 counters>>

DeinstallFail(r) ==
  /\ r \in Removing
  /\ dpc' = [dpc EXCEPT ![r] = "failed"]
  /\ UNCHANGED <<up, gate, disk, record, local, jobVars, dtitle, attachVars, disturbed, counters>>

\* Mutant: a staged copy of the title is left.
Deinstall_TitleOnly(r) == DeinstallTree(r, "title", "flush") \/ DeinstallFlush(r)

Deinstall(r) ==
  \/ DeinstallTree(r, "title", "install")
  \/ DeinstallTree(r, "install", "flush")
  \/ DeinstallFlush(r)

-----------------------------------------------------------------------------
(* attach_device.  Requests it turns away before it calls the adapter (no    *)
(* block device, not USB, bad key files) change nothing, and no more does an *)
(* attach that raises.  Both backends raise for a disk that does not verify, *)
(* so that the branches which detach it again are never taken.               *)

\* Mutant: an engine that has a disk open keeps it.
AttachOpen_Keep(a, d) ==
  /\ up
  /\ apc[a] = "idle"
  /\ handle' = IF handle = None THEN d ELSE handle
  /\ FlushHandle
  /\ apc' = [apc EXCEPT ![a] = "opened"]
  /\ adisk' = [adisk EXCEPT ![a] = d]
  /\ opener' = a
  /\ recorder' = IF recorder = a THEN None ELSE recorder
  /\ UNCHANGED <<up, gate, view, record, local, jobVars, deinstallVars, disturbed, counters>>

\* The engine opens the device and drops the one it had, which flushes it.
\* Opening the disk that is open already counts as no change: what its two
\* views may do to each other is the library's.
AttachOpen(a, d) ==
  /\ up
  /\ apc[a] = "idle"
  /\ handle' = d
  /\ FlushHandle
  /\ disturbed' = IF handle = d THEN disturbed ELSE disturbed \cup Writing \cup Removing
  /\ apc' = [apc EXCEPT ![a] = "opened"]
  /\ adisk' = [adisk EXCEPT ![a] = d]
  /\ opener' = a
  /\ recorder' = IF recorder = a THEN None ELSE recorder
  /\ UNCHANGED <<up, gate, view, record, local, jobVars, deinstallVars, counters>>

\* The active row is replaced in one transaction.
AttachRecord(a) ==
  /\ apc[a] = "opened"
  /\ record' = adisk[a]
  /\ apc' = [apc EXCEPT ![a] = "idle"]
  /\ recorder' = a
  /\ UNCHANGED <<up, gate, disk, local, jobVars, deinstallVars, adisk, opener, disturbed, counters>>

\* The transaction fails; the adapter stays attached.
AttachDbError(a) ==
  /\ apc[a] = "opened"
  /\ dbErrors < MaxDbErrors
  /\ dbErrors' = dbErrors + 1
  /\ apc' = [apc EXCEPT ![a] = "idle"]
  /\ UNCHANGED <<up, gate, disk, record, local, jobVars, deinstallVars, adisk, opener, recorder,
                 disturbed, exits>>

\* The readiness check of a recorded disk probes the handle with a flush().
CheckReadiness ==
  /\ up
  /\ record # None
  /\ handle # None
  /\ FlushHandle
  /\ UNCHANGED <<up, gate, handle, view, record, local, jobVars, deinstallVars, attachVars,
                 disturbed, counters>>

-----------------------------------------------------------------------------
(* The life of the service process.                                         *)

Dirty == {y \in Disks \X Paths : view[y[1]][y[2]] # durable[y[1]][y[2]]}

\* The process ends, with or without a chance to write back what it cached.
Exit ==
  /\ up
  /\ exits < MaxExits
  /\ exits' = exits + 1
  /\ up' = FALSE
  /\ handle' = None
  /\ \E kept \in SUBSET Dirty :
       durable' = [d \in Disks |-> [x \in Paths |-> IF <<d, x>> \in kept THEN view[d][x]
                                                                      ELSE durable[d][x]]]
  /\ view' = durable'
  /\ pc' = [j \in Jobs |-> IF Active(j) THEN "failed" ELSE pc[j]]
  /\ dpc' = [r \in Deinstalls |-> IF r \in Removing THEN "failed" ELSE dpc[r]]
  /\ apc' = [a \in Attaches |-> "idle"]
  /\ UNCHANGED <<gate, record, local, place, todo, file, sha, data, dtitle, adisk, opener, recorder,
                 disturbed, dbErrors>>

\* startup(): the settings come from the environment, and WIIU_DISK or else
\* the recorded device is attached, which may fail.  Nobody else is there yet.
Startup ==
  /\ ~up
  /\ up' = TRUE
  /\ gate' \in Gates
  /\ \/ handle' = None /\ UNCHANGED record
     \/ \E d \in EnvDisks \ {None} : handle' = d /\ record' = d
     \/ None \in EnvDisks /\ record # None /\ handle' = record /\ UNCHANGED record
  /\ opener' = None
  /\ recorder' = None
  /\ UNCHANGED <<view, durable, local, jobVars, deinstallVars, apc, adisk, disturbed, counters>>

-----------------------------------------------------------------------------

Install(j) ==
  \/ DecryptOpen(j) \/ DecryptClose(j) \/ Hash(j) \/ PassGate(j) \/ CreateFile(j)
  \/ ReadLocal(j) \/ WriteFile(j) \/ CheckHash(j) \/ FlushFiles(j) \/ Report(j)

Next ==
  \/ \E j \in Jobs : (\E where \in Places : Begin(j, where)) \/ Install(j) \/ Fail(j)
  \/ \E r \in Deinstalls :
       (\E t \in Titles : DeinstallBegin(r, t)) \/ Deinstall(r) \/ DeinstallFail(r)
  \/ \E a \in Attaches :
       \/ \E d \in Disks : AttachOpen(a, d)
       \/ AttachRecord(a) \/ AttachDbError(a)
  \/ CheckReadiness
  \/ Exit
  \/ Startup

Spec == Init /\ [][Next]_vars

-----------------------------------------------------------------------------
(* Properties.                                                              *)

\* Every variable keeps to its type.
TypeOK ==
  /\ up \in BOOLEAN
  /\ gate \in Gates
  /\ handle \in Disks \cup {None}
  /\ record \in Disks \cup {None}
  /\ view \in [Disks -> [Paths -> Contents]]
  /\ durable \in [Disks -> [Paths -> Contents]]
  /\ local \in [Titles -> [Files -> {"none", "full"} \cup Jobs]]
  /\ pc \in [Jobs -> JobPcs \cup EndPcs]
  /\ place \in [Jobs -> Places]
  /\ todo \in [Jobs -> SUBSET Files]
  /\ file \in [Jobs -> Files \cup {None}]
  /\ sha \in [Jobs -> [Files -> {"none", "partial", "full"}]]
  /\ data \in [Jobs -> {"none", "partial", "full"}]
  /\ dpc \in [Deinstalls -> RemovePcs \cup EndPcs]
  /\ dtitle \in [Deinstalls -> Titles \cup {None}]
  /\ apc \in [Attaches -> {"idle", "opened"}]
  /\ adisk \in [Attaches -> Disks \cup {None}]
  /\ opener \in Attaches \cup {None}
  /\ recorder \in Attaches \cup {None}
  /\ disturbed \subseteq Jobs \cup Deinstalls
  /\ exits \in 0..MaxExits
  /\ dbErrors \in 0..MaxDbErrors

\* The safety gate of the release runbook: nothing on any disk changes in a
\* dry run or before the first write is confirmed.
GateHolds == [][up /\ up' /\ view' # view => gate = "open"]_vars

\* A real install that returns its report has every file complete on the
\* medium of one disk, at one place, so that it survives the loss of the
\* process: unless another install of the title ran at the same time, or the
\* title was removed or the disk exchanged while the files were written.
\* Installs of other titles, removals of them and attaching the same disk
\* again do not interfere.
ReportedIsInstalled ==
  [][\A j \in Jobs :
       pc[j] = "report" /\ pc'[j] = "done" /\ gate = "open" /\ j \notin disturbed =>
         \E d \in Disks : \A f \in Files : durable[d][Target(j, f)] = "full"]_vars

\* A removal that returns has left no file of the title on the medium of the
\* open disk, under neither of the two places, unless an install of the title
\* was writing or the disk was exchanged meanwhile.
RemovedIsGone ==
  [][\A r \in Deinstalls :
       dpc[r] = "flush" /\ dpc'[r] = "done" /\ r \notin disturbed =>
         \A where \in Places, f \in Files :
           durable'[handle][<<dtitle[r], where, f>>] = "absent"]_vars

\* What the disk pages and the readiness check call the active verified disk
\* is the disk the writes go to, whenever the request that was the last to open
\* a disk was also the last to record one.  That is less than it sounds:
\* attach_device opens and records in two steps without a lock, so requests may
\* record in another order than they open, and a transaction may fail.  But
\* whatever other requests were under way meanwhile, failed, or were cut off by
\* the end of the process, the mismatch ends with the first request that is not
\* overtaken between its two steps.
ActiveDiskIsOpen == up /\ handle # None /\ opener = recorder => record = handle

\* What a file_written event says: the file at target_path holds the bytes its
\* sha256 is the hash of, the whole artifact.
WrittenEventIsTrue ==
  [][\A j \in Jobs :
       pc[j] = "check" /\ pc'[j] = "files" /\ sha[j][file[j]] = "full" =>
         \E d \in Disks : view[d][Target(j, file[j])] = "full"]_vars

\* It is true of an install that nothing interfered with, which always writes
\* the whole artifact, whatever other titles are installed or removed.
EventIsTrueAlone ==
  [][\A j \in Jobs :
       pc[j] = "check" /\ pc'[j] = "files" /\ j \notin disturbed =>
         /\ sha[j][file[j]] = "full"
         /\ view[handle][Target(j, file[j])] = "full"]_vars

-----------------------------------------------------------------------------
(* The strengthening that makes the properties above inductive.             *)

Busy == {"files", "read", "write", "check"}

DownIsOff ==
  ~up =>
    /\ handle = None
    /\ \A j \in Jobs : ~Active(j)
    /\ \A r \in Deinstalls : r \notin Removing

\* Who changes files on a disk got past the gate, which stays as it is until
\* the process ends.
PastGate ==
  /\ \A j \in Jobs : pc[j] \in Busy => gate = "open"
  /\ \A r \in Deinstalls : r \in Removing => gate = "open"

\* The file in work is one of those that are left.
FileHeld ==
  \A j \in Jobs : pc[j] \in {"decrypting", "hashing", "read", "write", "check"} => file[j] \in todo[j]

\* A removal has a title.
TitleHeld == \A r \in Removing : dtitle[r] \in Titles

\* The files j has decrypted and hashed, and those it has written.
Decrypted(j) ==
  IF pc[j] \in {"decrypt", "decrypting"} THEN Files \ todo[j]
  ELSE IF pc[j] = "hashing" THEN (Files \ todo[j]) \cup {file[j]}
  ELSE IF pc[j] = "gate" \/ pc[j] \in WritePcs THEN Files
  ELSE {}

DecryptedExist ==
  \A j \in Jobs :
    /\ \A f \in Decrypted(j) : local[TitleOf[j]][f] # "none"
    /\ pc[j] = "decrypting" => local[TitleOf[j]][file[j]] # "none"
    /\ pc[j] = "write" => data[j] # "none"

\* An undisturbed install is the only one of its title, and nobody removes the
\* title while it writes; an undisturbed removal has no writer.
Undisturbed ==
  /\ \A j \in Jobs : Active(j) /\ j \notin disturbed =>
       \A k \in Jobs : Active(k) /\ TitleOf[k] = TitleOf[j] => k = j
  /\ \A j \in Jobs, r \in Deinstalls :
       j \in Writing /\ r \in RemovingOf(TitleOf[j]) => j \in disturbed /\ r \in disturbed

\* Its decrypted files are complete.
DecryptedFull ==
  \A j \in Jobs : j \notin disturbed =>
    /\ \A f \in Decrypted(j) : local[TitleOf[j]][f] = "full"
    /\ pc[j] = "decrypting" => local[TitleOf[j]][file[j]] = j
    /\ pc[j] = "write" => data[j] = "full"

\* What it has written is complete on the disk that is open.
Written(j) ==
  IF pc[j] \in {"files", "read", "write"} THEN Files \ todo[j]
  ELSE IF pc[j] = "check" THEN (Files \ todo[j]) \cup {file[j]}
  ELSE {}

WrittenFull ==
  \A j \in Jobs : j \notin disturbed =>
    \A f \in Written(j) : handle # None /\ view[handle][Target(j, f)] = "full"

\* Once it is flushed, it stays so on some disk, cached and on the medium.
FlushedFull ==
  \A j \in Jobs : pc[j] = "report" /\ gate = "open" /\ j \notin disturbed =>
    \E d \in Disks : \A f \in Files :
      view[d][Target(j, f)] = "full" /\ durable[d][Target(j, f)] = "full"

\* The trees an undisturbed removal has deleted are empty on the open disk.
Deleted(r) ==
  IF dpc[r] = "install" THEN {"title"} ELSE IF dpc[r] = "flush" THEN Places ELSE {}

DeletedGone ==
  \A r \in Deinstalls : r \notin disturbed =>
    \A where \in Deleted(r), f \in Files :
      handle # None /\ view[handle][<<dtitle[r], where, f>>] = "absent"

IInv == /\ TypeOK /\ DownIsOff /\ PastGate /\ FileHeld /\ TitleHeld /\ DecryptedExist
        /\ Undisturbed /\ DecryptedFull /\ WrittenFull /\ FlushedFull /\ DeletedGone
=============================================================================
