-------------------------- MODULE WfsInstallProofs --------------------------
(***************************************************************************)
(* Proofs about WfsInstall, for any number of installs, titles, files,     *)
(* disks and requests.                                                      *)
(***************************************************************************)
EXTENDS WfsInstall, TLAPS

USE TitleAssumption, DiskAssumption, JobAssumption, LimitAssumption

-----------------------------------------------------------------------------
(* Lemmas about the helpers.                                                *)

\* What a decrypted file reads as is a content, and complete only if it is.
LEMMA LocalContentType ==
  ASSUME TypeOK, NEW t \in Titles, NEW f \in Files
  PROVE  /\ LocalContent(t, f) \in {"none", "partial", "full"}
         /\ LocalContent(t, f) = "none" <=> local[t][f] = "none"
         /\ local[t][f] = "full" => LocalContent(t, f) = "full"
BY DEF TypeOK, LocalContent

\* Put keeps the type of view, changes the given paths and no others.
LEMMA PutType ==
  ASSUME TypeOK, handle # None, NEW paths, NEW c \in Contents
  PROVE  /\ Put(paths, c) \in [Disks -> [Paths -> Contents]]
         /\ \A d \in Disks, x \in Paths :
              Put(paths, c)[d][x] = IF d = handle /\ x \in paths THEN c ELSE view[d][x]
BY DEF TypeOK, Put

\* Target is a path of the job's title.
LEMMA TargetType ==
  ASSUME TypeOK, NEW j \in Jobs, NEW f \in Files
  PROVE  Target(j, f) \in Paths
BY DEF TypeOK, Target, Paths

\* A flush keeps the type of durable.
LEMMA FlushType ==
  ASSUME TypeOK, FlushHandle
  PROVE  durable' \in [Disks -> [Paths -> Contents]]
BY DEF TypeOK, FlushHandle

\* Whom Interfere adds is a job or a removal.
LEMMA InterfereType ==
  ASSUME TypeOK, NEW U, NEW V, U \subseteq Jobs \cup Deinstalls, V \subseteq Jobs \cup Deinstalls
  PROVE  /\ Interfere(U, V) \subseteq Jobs \cup Deinstalls
         /\ disturbed \subseteq Interfere(U, V)
         /\ U # {} /\ V # {} => U \cup V \subseteq Interfere(U, V)
BY DEF TypeOK, Interfere

-----------------------------------------------------------------------------
(* The invariant, one conjunct at a time.                                   *)

\* The initial states satisfy the invariant.
LEMMA InitInvariant == Init => IInv
<1> SUFFICES ASSUME Init PROVE IInv
  OBVIOUS
<1>1. TypeOK
  BY DEF Init, TypeOK, Gates, Contents, JobPcs, WritePcs, EndPcs, Places, RemovePcs
<1>2. \A j \in Jobs : ~Active(j) /\ pc[j] \notin Busy \cup WritePcs \cup JobPcs
  BY DEF Init, Active, JobPcs, WritePcs, Busy
<1>3. Removing = {}
  BY DEF Init, Removing, RemovePcs
<1>4. /\ DownIsOff /\ PastGate /\ FileHeld /\ TitleHeld /\ DecryptedExist /\ Undisturbed
  BY <1>2, <1>3 DEF Init, DownIsOff, PastGate, FileHeld, TitleHeld, DecryptedExist, Undisturbed, Decrypted,
     RemovingOf, JobPcs, WritePcs
<1>5. DecryptedFull /\ WrittenFull /\ FlushedFull
  BY <1>2 DEF Init, DecryptedFull, WrittenFull, FlushedFull, Decrypted, Written, WritePcs
<1>6. DeletedGone
  BY DEF Init, DeletedGone, Deleted
<1> QED
  BY <1>1, <1>4, <1>5, <1>6 DEF IInv

\* Every step keeps every variable in its type.
LEMMA TypeStep == IInv /\ [Next]_vars => TypeOK'
<1> SUFFICES ASSUME IInv, [Next]_vars PROVE TypeOK'
  OBVIOUS
<1> USE DEF vars, jobVars, deinstallVars, attachVars, disk, counters, Goto,
       JobPcs, WritePcs, RemovePcs, EndPcs, Places
<1>0. TypeOK /\ FileHeld /\ DecryptedExist
  BY DEF IInv
<1>1. ASSUME NEW j \in Jobs, NEW where \in Places, Begin(j, where) PROVE TypeOK'
  <2>1. disturbed' \subseteq Jobs \cup Deinstalls
    BY <1>0, <1>1, InterfereType DEF Begin, ActiveOn
  <2> QED
    BY <1>0, <1>1, <2>1 DEF TypeOK, Begin
<1>2. ASSUME NEW j \in Jobs, DecryptOpen(j) PROVE TypeOK'
  <2>1. PICK f \in todo[j] : /\ file' = [file EXCEPT ![j] = f]
                             /\ local' = [local EXCEPT ![TitleOf[j]][f] = j]
    BY <1>2 DEF DecryptOpen
  <2>2. f \in Files
    BY <1>0 DEF TypeOK
  <2> QED
    BY <1>0, <1>2, <2>1, <2>2 DEF TypeOK, DecryptOpen
<1>3. ASSUME NEW j \in Jobs, DecryptClose(j) PROVE TypeOK'
  <2>1. local' \in [Titles -> [Files -> {"none", "full"} \cup Jobs]]
    BY <1>0, <1>3 DEF TypeOK, DecryptClose
  <2> QED
    BY <1>0, <1>3, <2>1 DEF TypeOK, DecryptClose
<1>4. ASSUME NEW j \in Jobs, Hash(j) PROVE TypeOK'
  <2>1. file[j] \in Files
    BY <1>0, <1>4 DEF TypeOK, Hash, FileHeld
  <2>2. LocalContent(TitleOf[j], file[j]) \in {"none", "partial", "full"}
    BY <1>0, <2>1, LocalContentType
  <2>3. sha' \in [Jobs -> [Files -> {"none", "partial", "full"}]]
    BY <1>0, <1>4, <2>1, <2>2 DEF TypeOK, Hash
  <2>4. todo' \in [Jobs -> SUBSET Files] /\ pc' \in [Jobs -> JobPcs \cup EndPcs]
    BY <1>0, <1>4 DEF TypeOK, Hash
  <2> QED
    BY <1>0, <1>4, <2>3, <2>4 DEF TypeOK, Hash
<1>5. ASSUME NEW j \in Jobs, PassGate(j) PROVE TypeOK'
  <2>1. disturbed' \subseteq Jobs \cup Deinstalls
    <3>1. Interfere({j}, RemovingOf(TitleOf[j])) \subseteq Jobs \cup Deinstalls
      BY <1>0, InterfereType DEF RemovingOf, Removing
    <3>2. disturbed \subseteq Jobs \cup Deinstalls
      BY <1>0 DEF TypeOK
    <3> QED
      BY <1>5, <3>1, <3>2 DEF PassGate
  <2>2. pc' \in [Jobs -> JobPcs \cup EndPcs]
    BY <1>0, <1>5 DEF TypeOK, PassGate, Gates
  <2> QED
    BY <1>0, <1>5, <2>1, <2>2 DEF TypeOK, PassGate
<1>6. ASSUME NEW j \in Jobs, CreateFile(j) PROVE TypeOK'
  <2>1. PICK f \in todo[j] :
          /\ file' = [file EXCEPT ![j] = f]
          /\ view' = IF view[handle][Target(j, f)] = "absent" THEN Put({Target(j, f)}, "blank")
                                                             ELSE view
    BY <1>6 DEF CreateFile
  <2>2. f \in Files
    BY <1>0 DEF TypeOK
  <2>3. Put({Target(j, f)}, "blank") \in [Disks -> [Paths -> Contents]]
    BY <1>0, <1>6, PutType DEF CreateFile, Contents
  <2> QED
    BY <1>0, <1>6, <2>1, <2>2, <2>3 DEF TypeOK, CreateFile
<1>7. ASSUME NEW j \in Jobs, ReadLocal(j) PROVE TypeOK'
  <2>1. LocalContent(TitleOf[j], file[j]) \in {"none", "partial", "full"}
    BY <1>0, <1>7, LocalContentType DEF TypeOK, ReadLocal, FileHeld
  <2> QED
    BY <1>0, <1>7, <2>1 DEF TypeOK, ReadLocal
<1>8. ASSUME NEW j \in Jobs, WriteFile(j) PROVE TypeOK'
  <2> DEFINE x == Target(j, file[j])
  <2>1. PICK c \in {data[j]} \cup (IF data[j] = "partial" THEN {view[handle][x]} ELSE {}) :
          view' = Put({x}, c)
    BY <1>8 DEF WriteFile
  <2>2. x \in Paths
    BY <1>0, <1>8, TargetType DEF TypeOK, WriteFile, FileHeld
  <2>3. c \in Contents
    <3>1. data[j] \in {"partial", "full"}
      BY <1>0, <1>8 DEF TypeOK, WriteFile, DecryptedExist
    <3>2. view[handle][x] \in Contents
      BY <1>0, <1>8, <2>2 DEF TypeOK, WriteFile
    <3> QED
      BY <2>1, <3>1, <3>2 DEF Contents
  <2>4. view' \in [Disks -> [Paths -> Contents]]
    BY <1>0, <1>8, <2>1, <2>3, PutType DEF WriteFile
  <2> QED
    BY <1>0, <1>8, <2>4 DEF TypeOK, WriteFile
<1>9. ASSUME NEW j \in Jobs, CheckHash(j) PROVE TypeOK'
  BY <1>0, <1>9 DEF TypeOK, CheckHash
<1>10. ASSUME NEW j \in Jobs, FlushFiles(j) PROVE TypeOK'
  <2>1. durable' \in [Disks -> [Paths -> Contents]]
    BY <1>0, <1>10, FlushType DEF FlushFiles
  <2> QED
    BY <1>0, <1>10, <2>1 DEF TypeOK, FlushFiles
<1>11. ASSUME NEW j \in Jobs, Report(j) \/ Fail(j) PROVE TypeOK'
  <2>1. CASE Report(j)
    BY <1>0, <2>1 DEF TypeOK, Report
  <2>2. CASE Fail(j)
    <3>1. view' \in [Disks -> [Paths -> Contents]]
      BY <1>0, <2>2, PutType DEF TypeOK, Fail, WriteBreaks, Contents
    <3> QED
      BY <1>0, <2>2, <3>1 DEF TypeOK, Fail
  <2> QED
    BY <1>11, <2>1, <2>2
<1>12. ASSUME NEW r \in Deinstalls, NEW t \in Titles, DeinstallBegin(r, t) PROVE TypeOK'
  <2>1. disturbed' \subseteq Jobs \cup Deinstalls
    BY <1>0, <1>12, InterfereType DEF DeinstallBegin, WritingOn, Writing
  <2> QED
    BY <1>0, <1>12, <2>1 DEF TypeOK, DeinstallBegin
<1>13. ASSUME NEW r \in Deinstalls, Deinstall(r) PROVE TypeOK'
  <2>1. ASSUME NEW where, NEW next \in RemovePcs, DeinstallTree(r, where, next) PROVE TypeOK'
    <3>1. view' \in [Disks -> [Paths -> Contents]]
      BY <1>0, <2>1, PutType DEF DeinstallTree, Contents
    <3> QED
      BY <1>0, <2>1, <3>1 DEF TypeOK, DeinstallTree
  <2>2. CASE DeinstallFlush(r)
    <3>1. durable' \in [Disks -> [Paths -> Contents]]
      BY <1>0, <2>2, FlushType DEF DeinstallFlush
    <3> QED
      BY <1>0, <2>2, <3>1 DEF TypeOK, DeinstallFlush
  <2> QED
    BY <1>13, <2>1, <2>2 DEF Deinstall
<1>14. ASSUME NEW r \in Deinstalls, DeinstallFail(r) PROVE TypeOK'
  BY <1>0, <1>14 DEF TypeOK, DeinstallFail
<1>15. ASSUME NEW a \in Attaches, NEW d \in Disks, AttachOpen(a, d) PROVE TypeOK'
  <2>1. durable' \in [Disks -> [Paths -> Contents]]
    BY <1>0, <1>15, FlushType DEF AttachOpen
  <2>2. disturbed' \subseteq Jobs \cup Deinstalls
    BY <1>0, <1>15 DEF TypeOK, AttachOpen, Writing, Removing
  <2> QED
    BY <1>0, <1>15, <2>1, <2>2 DEF TypeOK, AttachOpen
<1>17. ASSUME NEW a \in Attaches, AttachRecord(a) PROVE TypeOK'
  BY <1>0, <1>17 DEF TypeOK, AttachRecord
<1>18. ASSUME NEW a \in Attaches, AttachDbError(a) PROVE TypeOK'
  BY <1>0, <1>18 DEF TypeOK, AttachDbError
<1>19. CASE CheckReadiness
  <2>1. durable' \in [Disks -> [Paths -> Contents]]
    BY <1>0, <1>19, FlushType DEF CheckReadiness
  <2> QED
    BY <1>0, <1>19, <2>1 DEF TypeOK, CheckReadiness
<1>20. CASE Exit
  <2>1. durable' \in [Disks -> [Paths -> Contents]]
    BY <1>0, <1>20 DEF TypeOK, Exit
  <2>2. /\ pc' \in [Jobs -> JobPcs \cup EndPcs]
        /\ dpc' \in [Deinstalls -> RemovePcs \cup EndPcs]
        /\ apc' \in [Attaches -> {"idle", "opened"}]
        /\ exits' \in 0..MaxExits
    BY <1>0, <1>20 DEF TypeOK, Exit
  <2> QED
    BY <1>0, <1>20, <2>1, <2>2 DEF TypeOK, Exit
<1>21. CASE Startup
  BY <1>0, <1>21 DEF TypeOK, Startup
<1>22. CASE UNCHANGED vars
  BY <1>0, <1>22 DEF TypeOK
<1> QED
  BY <1>1, <1>2, <1>3, <1>4, <1>5, <1>6, <1>7, <1>8, <1>9, <1>10, <1>11, <1>12, <1>13, <1>14,
     <1>15, <1>17, <1>18, <1>19, <1>20, <1>21, <1>22 DEF Next, Install
\* What can happen while the service is down.
LEMMA DownSteps ==
  ASSUME IInv, Next, ~up
  PROVE  Startup \/ \E a \in Attaches : AttachRecord(a) \/ AttachDbError(a)
<1>1. DownIsOff
  BY DEF IInv
<1>2. ASSUME NEW j \in Jobs, NEW where \in Places, Begin(j, where) PROVE FALSE
  BY <1>2 DEF Begin
<1>3. ASSUME NEW j \in Jobs, Install(j) \/ Fail(j) PROVE FALSE
  <2>1. Active(j)
    BY <1>3 DEF Install, Fail, Active, JobPcs, WritePcs, DecryptOpen, DecryptClose, Hash, PassGate,
       CreateFile, ReadLocal, WriteFile, CheckHash, FlushFiles, Report
  <2> QED
    BY <1>1, <2>1 DEF DownIsOff
<1>4. ASSUME NEW r \in Deinstalls, NEW t \in Titles, DeinstallBegin(r, t) PROVE FALSE
  BY <1>4 DEF DeinstallBegin
<1>5. ASSUME NEW r \in Deinstalls, Deinstall(r) \/ DeinstallFail(r) PROVE FALSE
  <2>1. r \in Removing
    BY <1>5 DEF Deinstall, DeinstallTree, DeinstallFlush, DeinstallFail, Removing, RemovePcs
  <2> QED
    BY <1>1, <2>1 DEF DownIsOff
<1>6. ASSUME NEW a \in Attaches, NEW d \in Disks, AttachOpen(a, d) PROVE FALSE
  BY <1>6 DEF AttachOpen
<1>7. ~CheckReadiness /\ ~Exit
  BY DEF CheckReadiness, Exit
<1> QED
  BY <1>2, <1>3, <1>4, <1>5, <1>6, <1>7 DEF Next

\* While the service is down nothing of it is at work.
LEMMA DownStep == IInv /\ [Next]_vars => DownIsOff'
<1> SUFFICES ASSUME IInv, [Next]_vars, ~up' PROVE DownIsOff'
  BY DEF DownIsOff
<1> USE DEF vars, jobVars, deinstallVars, attachVars, disk, counters
<1>1. CASE UNCHANGED vars
  BY <1>1 DEF IInv, DownIsOff, Active, Removing
<1>2. CASE Next /\ up
  <2>1. Exit
    <3>1. ASSUME NEW j \in Jobs, Install(j) \/ Fail(j) PROVE up' = up
      BY <3>1 DEF Install, Fail, DecryptOpen, DecryptClose, Hash, PassGate, CreateFile, ReadLocal,
         WriteFile, CheckHash, FlushFiles, Report
    <3>2. ASSUME NEW j \in Jobs, NEW where \in Places, Begin(j, where) PROVE up' = up
      BY <3>2 DEF Begin
    <3>3. ASSUME NEW r \in Deinstalls, NEW t \in Titles, DeinstallBegin(r, t) PROVE up' = up
      BY <3>3 DEF DeinstallBegin
    <3>4. ASSUME NEW r \in Deinstalls, Deinstall(r) \/ DeinstallFail(r) PROVE up' = up
      BY <3>4 DEF Deinstall, DeinstallTree, DeinstallFlush, DeinstallFail
    <3>5. ASSUME NEW a \in Attaches, NEW d \in Disks, AttachOpen(a, d) PROVE up' = up
      BY <3>5 DEF AttachOpen
    <3>6. ASSUME NEW a \in Attaches, AttachRecord(a) \/ AttachDbError(a)
          PROVE up' = up
      BY <3>6 DEF AttachRecord, AttachDbError
    <3>7. (CheckReadiness => up' = up) /\ (Startup => up' = TRUE)
      BY DEF CheckReadiness, Startup
    <3> QED
      BY <1>2, <3>1, <3>2, <3>3, <3>4, <3>5, <3>6, <3>7 DEF Next
  <2>2. \A j \in Jobs : pc'[j] \notin JobPcs
    BY <2>1 DEF Exit, Active, IInv, TypeOK, JobPcs, WritePcs
  <2>3. \A r \in Deinstalls : dpc'[r] \notin RemovePcs
    BY <2>1 DEF Exit, Removing, IInv, TypeOK, RemovePcs
  <2> QED
    BY <2>1, <2>2, <2>3 DEF DownIsOff, Exit, Active, Removing
<1>3. CASE Next /\ ~up
  <2>1. CASE Startup
    BY <2>1 DEF Startup
  <2>2. ASSUME NEW a \in Attaches, AttachRecord(a) \/ AttachDbError(a)
        PROVE DownIsOff'
    BY <1>3, <2>2 DEF AttachRecord, AttachDbError, IInv, DownIsOff, Active, Removing
  <2> QED
    BY <1>3, <2>1, <2>2, DownSteps
<1> QED
  BY <1>1, <1>2, <1>3
\* What changes files on a disk is past the gate.
LEMMA GateStep == IInv /\ [Next]_vars => PastGate'
<1> SUFFICES ASSUME IInv, [Next]_vars PROVE PastGate'
  OBVIOUS
<1> USE DEF vars, jobVars, deinstallVars, attachVars, disk, counters, Goto, PastGate, Removing,
       RemovePcs, Busy
<1>0. TypeOK /\ PastGate /\ DownIsOff
  BY DEF IInv
<1>1. ASSUME NEW j \in Jobs, NEW where \in Places, Begin(j, where) PROVE PastGate'
  BY <1>0, <1>1 DEF TypeOK, Begin
<1>2. ASSUME NEW j \in Jobs, DecryptOpen(j) \/ DecryptClose(j) PROVE PastGate'
  BY <1>0, <1>2 DEF TypeOK, DecryptOpen, DecryptClose
<1>3. ASSUME NEW j \in Jobs, Hash(j) PROVE PastGate'
  BY <1>0, <1>3 DEF TypeOK, Hash
<1>4. ASSUME NEW j \in Jobs, PassGate(j) PROVE PastGate'
  BY <1>0, <1>4 DEF TypeOK, PassGate, Gates
<1>5. ASSUME NEW j \in Jobs, CreateFile(j) \/ ReadLocal(j) \/ WriteFile(j) PROVE PastGate'
  BY <1>0, <1>5 DEF TypeOK, CreateFile, ReadLocal, WriteFile
<1>6. ASSUME NEW j \in Jobs, CheckHash(j) \/ FlushFiles(j) \/ Report(j) \/ Fail(j) PROVE PastGate'
  BY <1>0, <1>6 DEF TypeOK, CheckHash, FlushFiles, Report, Fail
<1>7. ASSUME NEW r \in Deinstalls, NEW t \in Titles, DeinstallBegin(r, t) PROVE PastGate'
  BY <1>0, <1>7 DEF TypeOK, DeinstallBegin
<1>8. ASSUME NEW r \in Deinstalls, Deinstall(r) \/ DeinstallFail(r) PROVE PastGate'
  BY <1>0, <1>8 DEF TypeOK, Deinstall, DeinstallTree, DeinstallFlush, DeinstallFail
<1>9. ASSUME NEW a \in Attaches, NEW d \in Disks, AttachOpen(a, d) PROVE PastGate'
  BY <1>0, <1>9 DEF AttachOpen
<1>10. ASSUME NEW a \in Attaches, AttachRecord(a) \/ AttachDbError(a)
       PROVE PastGate'
  BY <1>0, <1>10 DEF AttachRecord, AttachDbError
<1>11. CASE CheckReadiness \/ UNCHANGED vars
  BY <1>0, <1>11 DEF CheckReadiness
<1>12. CASE Exit
  BY <1>0, <1>12 DEF TypeOK, Exit, Active, JobPcs, WritePcs
<1>13. CASE Startup
  BY <1>0, <1>13 DEF Startup, DownIsOff, Active, JobPcs, WritePcs
<1> QED
  BY <1>1, <1>2, <1>3, <1>4, <1>5, <1>6, <1>7, <1>8, <1>9, <1>10, <1>11, <1>12, <1>13
     DEF Next, Install

\* The file in work is one of those left.
LEMMA FileStep == IInv /\ [Next]_vars => FileHeld'
<1> SUFFICES ASSUME IInv, [Next]_vars PROVE FileHeld'
  OBVIOUS
<1> USE DEF vars, jobVars, deinstallVars, attachVars, disk, counters, Goto, FileHeld
<1>0. TypeOK /\ FileHeld
  BY DEF IInv
<1>1. ASSUME NEW j \in Jobs, NEW where \in Places, Begin(j, where) PROVE FileHeld'
  BY <1>0, <1>1 DEF TypeOK, Begin
<1>2. ASSUME NEW j \in Jobs, DecryptOpen(j) \/ DecryptClose(j) PROVE FileHeld'
  BY <1>0, <1>2 DEF TypeOK, DecryptOpen, DecryptClose
<1>3. ASSUME NEW j \in Jobs, Hash(j) PROVE FileHeld'
  BY <1>0, <1>3 DEF TypeOK, Hash
<1>4. ASSUME NEW j \in Jobs, PassGate(j) PROVE FileHeld'
  BY <1>0, <1>4 DEF TypeOK, PassGate, Gates
<1>5. ASSUME NEW j \in Jobs, CreateFile(j) \/ ReadLocal(j) \/ WriteFile(j) PROVE FileHeld'
  BY <1>0, <1>5 DEF TypeOK, CreateFile, ReadLocal, WriteFile
<1>6. ASSUME NEW j \in Jobs, CheckHash(j) \/ FlushFiles(j) \/ Report(j) \/ Fail(j) PROVE FileHeld'
  BY <1>0, <1>6 DEF TypeOK, CheckHash, FlushFiles, Report, Fail
<1>7. ASSUME NEW r \in Deinstalls, NEW t \in Titles, DeinstallBegin(r, t) PROVE FileHeld'
  BY <1>0, <1>7 DEF DeinstallBegin
<1>8. ASSUME NEW r \in Deinstalls, Deinstall(r) \/ DeinstallFail(r) PROVE FileHeld'
  BY <1>0, <1>8 DEF Deinstall, DeinstallTree, DeinstallFlush, DeinstallFail
<1>9. ASSUME NEW a \in Attaches, NEW d \in Disks, AttachOpen(a, d) PROVE FileHeld'
  BY <1>0, <1>9 DEF AttachOpen
<1>10. ASSUME NEW a \in Attaches, AttachRecord(a) \/ AttachDbError(a)
       PROVE FileHeld'
  BY <1>0, <1>10 DEF AttachRecord, AttachDbError
<1>11. CASE CheckReadiness \/ Startup \/ UNCHANGED vars
  BY <1>0, <1>11 DEF CheckReadiness, Startup
<1>12. CASE Exit
  BY <1>0, <1>12 DEF TypeOK, Exit
<1> QED
  BY <1>1, <1>2, <1>3, <1>4, <1>5, <1>6, <1>7, <1>8, <1>9, <1>10, <1>11, <1>12 DEF Next, Install
\* A step that is no job's and does not end the process.
RequestStep ==
  \/ \E r \in Deinstalls, t \in Titles : DeinstallBegin(r, t)
  \/ \E r \in Deinstalls : Deinstall(r) \/ DeinstallFail(r)
  \/ \E a \in Attaches, d \in Disks : AttachOpen(a, d)
  \/ \E a \in Attaches : AttachRecord(a) \/ AttachDbError(a)
  \/ CheckReadiness
  \/ Startup
  \/ UNCHANGED vars

\* It leaves the jobs and the decrypted files alone and disturbs more threads,
\* never fewer.
LEMMA RequestFrame == RequestStep => UNCHANGED <<jobVars, local>> /\ disturbed \subseteq disturbed'
<1> USE DEF vars, jobVars, deinstallVars, attachVars, disk, counters
<1>1. ASSUME NEW r \in Deinstalls, NEW t \in Titles, DeinstallBegin(r, t)
      PROVE UNCHANGED <<jobVars, local>> /\ disturbed \subseteq disturbed'
  BY <1>1 DEF DeinstallBegin, Interfere
<1>2. ASSUME NEW r \in Deinstalls, Deinstall(r) \/ DeinstallFail(r)
      PROVE UNCHANGED <<jobVars, local, disturbed>>
  BY <1>2 DEF Deinstall, DeinstallTree, DeinstallFlush, DeinstallFail
<1>3. ASSUME NEW a \in Attaches, NEW d \in Disks, AttachOpen(a, d)
      PROVE UNCHANGED <<jobVars, local>> /\ disturbed \subseteq disturbed'
  BY <1>3 DEF AttachOpen
<1>4. ASSUME NEW a \in Attaches, AttachRecord(a) \/ AttachDbError(a)
      PROVE UNCHANGED <<jobVars, local>> /\ disturbed \subseteq disturbed'
  BY <1>4 DEF AttachRecord, AttachDbError
<1>5. CASE CheckReadiness \/ Startup \/ UNCHANGED vars
  BY <1>5 DEF CheckReadiness, Startup
<1> QED
  BY <1>1, <1>2, <1>3, <1>4, <1>5 DEF RequestStep

\* Every step is a job's, the end of the process or a request's.
LEMMA StepKinds ==
  [Next]_vars =>
    \/ \E j \in Jobs : (\E where \in Places : Begin(j, where)) \/ Install(j) \/ Fail(j)
    \/ Exit
    \/ RequestStep
BY DEF Next, RequestStep

\* What has been decrypted is there.
LEMMA DecryptedStep == IInv /\ [Next]_vars => DecryptedExist'
<1> SUFFICES ASSUME IInv, [Next]_vars PROVE DecryptedExist'
  OBVIOUS
<1> USE DEF vars, jobVars, deinstallVars, attachVars, disk, counters, Goto, DecryptedExist,
       Decrypted, WritePcs
<1>0. TypeOK /\ FileHeld /\ DecryptedExist
  BY DEF IInv
<1>1. ASSUME NEW j \in Jobs, NEW where \in Places, Begin(j, where) PROVE DecryptedExist'
  BY <1>0, <1>1 DEF TypeOK, Begin
<1>2. ASSUME NEW j \in Jobs, DecryptOpen(j) PROVE DecryptedExist'
  BY <1>0, <1>2 DEF TypeOK, DecryptOpen
<1>3. ASSUME NEW j \in Jobs, DecryptClose(j) PROVE DecryptedExist'
  <2>1. file[j] \in Files
    BY <1>0, <1>3 DEF TypeOK, FileHeld, DecryptClose
  <2>2. \A t \in Titles, f \in Files : local[t][f] # "none" => local'[t][f] # "none"
    BY <1>0, <1>3, <2>1 DEF TypeOK, DecryptClose
  <2> QED
    BY <1>0, <1>3, <2>1, <2>2 DEF TypeOK, FileHeld, DecryptClose
<1>4. ASSUME NEW j \in Jobs, Hash(j) PROVE DecryptedExist'
  BY <1>0, <1>4 DEF TypeOK, Hash
<1>5. ASSUME NEW j \in Jobs, PassGate(j) PROVE DecryptedExist'
  BY <1>0, <1>5 DEF TypeOK, PassGate, Gates
<1>6. ASSUME NEW j \in Jobs, CreateFile(j) PROVE DecryptedExist'
  BY <1>0, <1>6 DEF TypeOK, CreateFile
<1>7. ASSUME NEW j \in Jobs, ReadLocal(j) PROVE DecryptedExist'
  <2>1. file[j] \in Files
    BY <1>0, <1>7 DEF TypeOK, FileHeld, ReadLocal
  <2>2. local[TitleOf[j]][file[j]] # "none"
    BY <1>0, <1>7, <2>1 DEF ReadLocal
  <2>3. LocalContent(TitleOf[j], file[j]) # "none"
    BY <1>0, <2>1, <2>2, LocalContentType
  <2> QED
    BY <1>0, <1>7, <2>3 DEF TypeOK, ReadLocal
<1>8. ASSUME NEW j \in Jobs, WriteFile(j) PROVE DecryptedExist'
  BY <1>0, <1>8 DEF TypeOK, WriteFile
<1>9. ASSUME NEW j \in Jobs, CheckHash(j) \/ FlushFiles(j) PROVE DecryptedExist'
  BY <1>0, <1>9 DEF TypeOK, CheckHash, FlushFiles
<1>10. ASSUME NEW j \in Jobs, Report(j) \/ Fail(j) PROVE DecryptedExist'
  BY <1>0, <1>10 DEF TypeOK, Report, Fail
<1>11. CASE Exit
  BY <1>0, <1>11 DEF TypeOK, Exit, Active, JobPcs
<1>12. CASE RequestStep
  BY <1>0, <1>12, RequestFrame
<1> QED
  BY <1>1, <1>2, <1>3, <1>4, <1>5, <1>6, <1>7, <1>8, <1>9, <1>10, <1>11, <1>12, StepKinds
     DEF Install
\* No new thread joins the installs, the writers or the removals.
NoNewThread ==
  /\ \A j \in Jobs : Active(j)' => Active(j)
  /\ Writing' \subseteq Writing
  /\ \A r \in Removing' : r \in Removing /\ dtitle'[r] = dtitle[r]
  /\ disturbed \subseteq disturbed'

\* Then nobody new interferes.
LEMMA UndisturbedFrame == Undisturbed /\ NoNewThread => Undisturbed'
BY DEF Undisturbed, NoNewThread, RemovingOf

\* Two threads that get in each other's way are both recorded as disturbed.
LEMMA UndisturbedStep == IInv /\ [Next]_vars => Undisturbed'
<1> SUFFICES ASSUME IInv, [Next]_vars PROVE Undisturbed'
  OBVIOUS
<1> USE DEF vars, jobVars, deinstallVars, attachVars, disk, counters, Goto
<1>0. TypeOK /\ PastGate /\ DownIsOff /\ Undisturbed
  BY DEF IInv
<1>1. ASSUME NEW j \in Jobs, NEW where \in Places, Begin(j, where) PROVE Undisturbed'
  <2>1. /\ \A k \in Jobs : Active(k)' => Active(k) \/ k = j
        /\ Writing' = Writing /\ Removing' = Removing /\ dtitle' = dtitle
    BY <1>0, <1>1 DEF Begin, TypeOK, Active, Writing, Removing, JobPcs, WritePcs
  <2>2. disturbed \subseteq disturbed'
    BY <1>1 DEF Begin, Interfere
  <2>3. \A k \in Jobs : Active(k) /\ TitleOf[k] = TitleOf[j] => {j, k} \subseteq disturbed'
    BY <1>1 DEF Begin, Interfere, ActiveOn
  <2> QED
    BY <1>0, <2>1, <2>2, <2>3 DEF Undisturbed, RemovingOf
<1>2. ASSUME NEW j \in Jobs, PassGate(j) PROVE Undisturbed'
  <2>1. \A k \in Jobs : Active(k)' => Active(k)
    BY <1>0, <1>2 DEF PassGate, TypeOK, Active, JobPcs, WritePcs, Gates
  <2>2. /\ Writing' \subseteq Writing \cup {j}
        /\ gate = "unconfirmed" => j \notin Writing'
        /\ Removing' = Removing /\ dtitle' = dtitle
    BY <1>0, <1>2 DEF PassGate, TypeOK, Writing, Removing, WritePcs, Gates
  <2>3. disturbed \subseteq disturbed'
    BY <1>2 DEF PassGate, Interfere
  <2>4. CASE gate = "open"
    <3>1. \A r \in RemovingOf(TitleOf[j]) : {j, r} \subseteq disturbed'
      BY <1>2, <2>4 DEF PassGate, Interfere
    <3> QED
      BY <1>0, <2>1, <2>2, <2>3, <3>1 DEF Undisturbed, RemovingOf
  <2>5. CASE gate # "open"
    <3>1. \A r \in Deinstalls : r \notin Removing
      BY <1>0, <2>5 DEF PastGate
    <3> QED
      BY <1>0, <2>1, <2>2, <2>3, <3>1 DEF Undisturbed, RemovingOf
  <2> QED
    BY <2>4, <2>5
<1>3. ASSUME NEW j \in Jobs, \/ DecryptOpen(j) \/ DecryptClose(j) \/ Hash(j) \/ CreateFile(j)
                             \/ ReadLocal(j) \/ WriteFile(j) \/ CheckHash(j) \/ FlushFiles(j)
                             \/ Report(j) \/ Fail(j)
      PROVE Undisturbed'
  <2>1. UNCHANGED <<deinstallVars, disturbed>>
    BY <1>3 DEF DecryptOpen, DecryptClose, Hash, CreateFile, ReadLocal, WriteFile, CheckHash,
       FlushFiles, Report, Fail
  <2>2. \A k \in Jobs : (pc'[k] \in JobPcs => pc[k] \in JobPcs)
                        /\ (pc'[k] \in WritePcs => pc[k] \in WritePcs)
    <3>1. CASE DecryptOpen(j) \/ DecryptClose(j) \/ Hash(j)
      BY <1>0, <3>1 DEF TypeOK, DecryptOpen, DecryptClose, Hash, JobPcs, WritePcs
    <3>2. CASE CreateFile(j) \/ ReadLocal(j) \/ WriteFile(j)
      BY <1>0, <3>2 DEF TypeOK, CreateFile, ReadLocal, WriteFile, JobPcs, WritePcs
    <3>3. CASE CheckHash(j) \/ FlushFiles(j) \/ Report(j) \/ Fail(j)
      BY <1>0, <3>3 DEF TypeOK, CheckHash, FlushFiles, Report, Fail, JobPcs, WritePcs
    <3> QED
      BY <1>3, <3>1, <3>2, <3>3
  <2>3. NoNewThread
    BY <2>1, <2>2 DEF NoNewThread, Active, Writing, Removing
  <2> QED
    BY <1>0, <2>3, UndisturbedFrame
<1>4. ASSUME NEW r \in Deinstalls, NEW t \in Titles, DeinstallBegin(r, t) PROVE Undisturbed'
  <2>1. /\ UNCHANGED pc
        /\ \A q \in Deinstalls \ {r} : dpc'[q] = dpc[q] /\ dtitle'[q] = dtitle[q]
        /\ dtitle'[r] = t
        /\ disturbed \subseteq disturbed'
    BY <1>0, <1>4 DEF DeinstallBegin, TypeOK, Interfere
  <2>2. \A j \in WritingOn(t) : {j, r} \subseteq disturbed'
    BY <1>4 DEF DeinstallBegin, Interfere
  <2> QED
    BY <1>0, <2>1, <2>2 DEF Undisturbed, RemovingOf, Removing, WritingOn, Writing, Active
<1>5. ASSUME NEW r \in Deinstalls, Deinstall(r) \/ DeinstallFail(r) PROVE Undisturbed'
  <2>1. UNCHANGED <<pc, dtitle, disturbed>>
    BY <1>5 DEF Deinstall, DeinstallTree, DeinstallFlush, DeinstallFail
  <2>2. \A q \in Deinstalls : dpc'[q] \in RemovePcs => dpc[q] \in RemovePcs
    BY <1>0, <1>5 DEF TypeOK, Deinstall, DeinstallTree, DeinstallFlush, DeinstallFail, Removing,
       RemovePcs
  <2>3. NoNewThread
    BY <2>1, <2>2 DEF NoNewThread, Active, Writing, Removing
  <2> QED
    BY <1>0, <2>3, UndisturbedFrame
<1>6. ASSUME \/ \E a \in Attaches, d \in Disks : AttachOpen(a, d)
             \/ \E a \in Attaches : AttachRecord(a) \/ AttachDbError(a)
             \/ CheckReadiness \/ Startup \/ UNCHANGED vars
      PROVE Undisturbed'
  <2>1. UNCHANGED <<pc, dpc, dtitle>> /\ disturbed \subseteq disturbed'
    BY <1>6 DEF AttachOpen, AttachRecord, AttachDbError, CheckReadiness, Startup
  <2>2. NoNewThread
    BY <2>1 DEF NoNewThread, Active, Writing, Removing
  <2> QED
    BY <1>0, <2>2, UndisturbedFrame
<1>7. CASE Exit
  <2>1. /\ \A k \in Jobs : pc'[k] \notin JobPcs
        /\ \A r \in Deinstalls : dpc'[r] \notin RemovePcs
    BY <1>0, <1>7 DEF TypeOK, Exit, Active, Removing, JobPcs, RemovePcs, WritePcs
  <2> QED
    BY <2>1 DEF Undisturbed, Active, RemovingOf, Removing
<1> QED
  BY <1>1, <1>2, <1>3, <1>4, <1>5, <1>6, <1>7 DEF Next, Install
\* What DecryptedFull says of one job.
FullFor(k) ==
  k \notin disturbed =>
    /\ \A f \in Decrypted(k) : local[TitleOf[k]][f] = "full"
    /\ pc[k] = "decrypting" => local[TitleOf[k]][file[k]] = k
    /\ pc[k] = "write" => data[k] = "full"

\* A step of job j leaves it to be true of the others, which are of another
\* title or disturbed.
LEMMA FullForOthers ==
  ASSUME IInv, NEW j \in Jobs, NEW k \in Jobs \ {j}, Active(j), disturbed \subseteq disturbed',
         pc'[k] = pc[k], todo'[k] = todo[k], file'[k] = file[k], data'[k] = data[k],
         \A t \in Titles \ {TitleOf[j]} : local'[t] = local[t]
  PROVE  FullFor(k)'
<1>1. FullFor(k) /\ Undisturbed /\ TitleOf[k] \in Titles /\ TypeOK
  BY DEF IInv, DecryptedFull, FullFor
<1>2. CASE k \in disturbed'
  BY <1>2 DEF FullFor
<1>3. CASE k \notin disturbed' /\ ~Active(k)
  BY <1>3 DEF FullFor, Decrypted, Active, JobPcs, WritePcs
<1>4. CASE k \notin disturbed' /\ Active(k)
  <2>1. TitleOf[k] # TitleOf[j]
    BY <1>1, <1>4 DEF Undisturbed
  <2>2. local'[TitleOf[k]] = local[TitleOf[k]]
    BY <1>1, <2>1
  <2> QED
    BY <1>1, <1>4, <2>2 DEF FullFor, Decrypted
<1> QED
  BY <1>2, <1>3, <1>4

\* The decrypted files of an undisturbed install stay complete.
LEMMA FullStep == IInv /\ [Next]_vars => DecryptedFull'
<1> SUFFICES ASSUME IInv, [Next]_vars PROVE DecryptedFull'
  OBVIOUS
<1> USE DEF vars, jobVars, deinstallVars, attachVars, disk, counters, Goto
<1>0. TypeOK /\ FileHeld /\ Undisturbed /\ \A k \in Jobs : FullFor(k)
  BY DEF IInv, DecryptedFull, FullFor
<1> SUFFICES ASSUME NEW k \in Jobs PROVE FullFor(k)'
  BY DEF DecryptedFull, FullFor
<1>1. ASSUME NEW j \in Jobs, NEW where \in Places, Begin(j, where) PROVE FullFor(k)'
  <2>1. disturbed \subseteq disturbed'
    BY <1>1 DEF Begin, Interfere
  <2> QED
    BY <1>0, <1>1, <2>1 DEF TypeOK, Begin, FullFor, Decrypted, WritePcs
<1>2. ASSUME NEW j \in Jobs, Install(j) \/ Fail(j) PROVE FullFor(k)'
  <2>1. Active(j)
    BY <1>2 DEF Install, Fail, Active, JobPcs, WritePcs, DecryptOpen, DecryptClose, Hash, PassGate,
       CreateFile, ReadLocal, WriteFile, CheckHash, FlushFiles, Report
  <2>2. disturbed \subseteq disturbed'
    BY <1>2 DEF Install, Fail, DecryptOpen, DecryptClose, Hash, PassGate, Interfere, CreateFile,
       ReadLocal, WriteFile, CheckHash, FlushFiles, Report
  <2>3. CASE k # j
    <3>1. \A t \in Titles \ {TitleOf[j]} : local'[t] = local[t]
      BY <1>0, <1>2 DEF TypeOK, Install, Fail, DecryptOpen, DecryptClose, Hash, PassGate,
         CreateFile, ReadLocal, WriteFile, CheckHash, FlushFiles, Report
    <3>2. /\ pc'[k] = pc[k] /\ todo'[k] = todo[k]
          /\ file'[k] = file[k] /\ data'[k] = data[k]
      BY <1>0, <1>2, <2>3 DEF TypeOK, Install, Fail, DecryptOpen, DecryptClose, Hash, PassGate,
         CreateFile, ReadLocal, WriteFile, CheckHash, FlushFiles, Report
    <3> QED
      BY <2>1, <2>2, <2>3, <3>1, <3>2, FullForOthers
  <2>4. CASE k = j
    <3> USE DEF FullFor, Decrypted, WritePcs
    <3>1. CASE DecryptOpen(j)
      BY <1>0, <2>2, <2>4, <3>1 DEF TypeOK, DecryptOpen
    <3>2. CASE DecryptClose(j)
      BY <1>0, <2>2, <2>4, <3>2 DEF TypeOK, FileHeld, DecryptClose
    <3>3. CASE Hash(j)
      BY <1>0, <2>2, <2>4, <3>3 DEF TypeOK, Hash
    <3>4. CASE PassGate(j)
      BY <1>0, <2>2, <2>4, <3>4 DEF TypeOK, PassGate, Gates
    <3>5. CASE CreateFile(j)
      BY <1>0, <2>2, <2>4, <3>5 DEF TypeOK, CreateFile
    <3>6. CASE ReadLocal(j)
      <4>1. file[j] \in Files
        BY <1>0, <3>6 DEF TypeOK, FileHeld, ReadLocal
      <4>2. j \notin disturbed => LocalContent(TitleOf[j], file[j]) = "full"
        BY <1>0, <3>6, <4>1 DEF ReadLocal, LocalContent
      <4> QED
        BY <1>0, <2>2, <2>4, <3>6, <4>2 DEF TypeOK, ReadLocal
    <3>7. CASE WriteFile(j)
      BY <1>0, <2>2, <2>4, <3>7 DEF TypeOK, WriteFile
    <3>8. CASE CheckHash(j)
      BY <1>0, <2>2, <2>4, <3>8 DEF TypeOK, CheckHash
    <3>9. CASE FlushFiles(j)
      BY <1>0, <2>2, <2>4, <3>9 DEF TypeOK, FlushFiles
    <3>10. CASE Report(j) \/ Fail(j)
      BY <1>0, <2>2, <2>4, <3>10 DEF TypeOK, Report, Fail
    <3> QED
      BY <1>2, <3>1, <3>2, <3>3, <3>4, <3>5, <3>6, <3>7, <3>8, <3>9, <3>10 DEF Install
  <2> QED
    BY <2>3, <2>4
<1>3. CASE Exit
  BY <1>0, <1>3 DEF TypeOK, Exit, FullFor, Decrypted, Active, JobPcs, WritePcs
<1>4. CASE RequestStep
  BY <1>0, <1>4, RequestFrame DEF FullFor, Decrypted
<1> QED
  BY <1>1, <1>2, <1>3, <1>4, StepKinds
\* A flush leaves every disk's medium as it is or makes it what the handle saw.
LEMMA FlushEffect ==
  ASSUME IInv, FlushHandle \/ durable' = durable
  PROVE  \A d \in Disks : durable'[d] = durable[d] \/ durable'[d] = view[d]
BY DEF IInv, TypeOK, FlushHandle

\* A job's step changes paths of its own title, on the open disk, while it writes.
LEMMA JobWrites ==
  ASSUME IInv, NEW j \in Jobs, Install(j) \/ Fail(j)
  PROVE  /\ UNCHANGED <<up, gate, handle, place, deinstallVars>>
         /\ disturbed \subseteq disturbed'
         /\ FlushHandle \/ durable' = durable
         /\ j \notin Writing => view' = view
         /\ \A d \in Disks, x \in Paths : x[1] # TitleOf[j] => view'[d][x] = view[d][x]
         /\ \A k \in Jobs \ {j} : pc'[k] = pc[k] /\ todo'[k] = todo[k] /\ file'[k] = file[k]
                                  /\ data'[k] = data[k]
<1> USE DEF deinstallVars, disk, counters, Goto
<1>0. TypeOK /\ FileHeld
  BY DEF IInv
<1>1. CASE DecryptOpen(j) \/ DecryptClose(j) \/ Hash(j) \/ ReadLocal(j) \/ CheckHash(j)
  BY <1>0, <1>1 DEF TypeOK, DecryptOpen, DecryptClose, Hash, ReadLocal, CheckHash
<1>2. CASE PassGate(j) \/ FlushFiles(j) \/ Report(j)
  BY <1>0, <1>2 DEF TypeOK, PassGate, Interfere, FlushFiles, Report
<1>3. CASE CreateFile(j)
  <2>1. PICK f \in todo[j] :
          /\ file' = [file EXCEPT ![j] = f]
          /\ view' = IF view[handle][Target(j, f)] = "absent" THEN Put({Target(j, f)}, "blank")
                                                             ELSE view
    BY <1>3 DEF CreateFile
  <2>2. \A d \in Disks, x \in Paths : x[1] # TitleOf[j] =>
          Put({Target(j, f)}, "blank")[d][x] = view[d][x]
    BY <1>0, <1>3, PutType DEF CreateFile, Contents, Target
  <2>3. UNCHANGED <<up, gate, handle, place, deinstallVars, disturbed, durable, todo, data>>
    BY <1>3 DEF CreateFile
  <2>4. j \in Writing /\ \A k \in Jobs \ {j} : pc'[k] = pc[k] /\ file'[k] = file[k]
    BY <1>0, <1>3, <2>1 DEF TypeOK, CreateFile, Writing, WritePcs
  <2> QED
    BY <2>1, <2>2, <2>3, <2>4
<1>4. CASE WriteFile(j)
  <2> DEFINE x == Target(j, file[j])
  <2>1. PICK c \in {data[j]} \cup (IF data[j] = "partial" THEN {view[handle][x]} ELSE {}) :
          view' = Put({x}, c)
    BY <1>4 DEF WriteFile
  <2>2. x \in Paths
    BY <1>0, <1>4, TargetType DEF TypeOK, WriteFile, FileHeld
  <2>3. c \in Contents
    <3>1. data[j] \in {"partial", "full"}
      BY <1>0, <1>4 DEF IInv, TypeOK, WriteFile, DecryptedExist
    <3>2. view[handle][x] \in Contents
      BY <1>0, <1>4, <2>2 DEF TypeOK, WriteFile
    <3> QED
      BY <2>1, <3>1, <3>2 DEF Contents
  <2>4. \A d \in Disks, y \in Paths : y[1] # TitleOf[j] => view'[d][y] = view[d][y]
    BY <1>0, <1>4, <2>1, <2>3, PutType DEF WriteFile, Target
  <2>5. UNCHANGED <<up, gate, handle, place, deinstallVars, disturbed, durable, todo, file, data>>
    BY <1>4 DEF WriteFile
  <2>6. j \in Writing /\ \A k \in Jobs \ {j} : pc'[k] = pc[k]
    BY <1>0, <1>4 DEF TypeOK, WriteFile, Writing, WritePcs
  <2> QED
    BY <2>4, <2>5, <2>6
<1>5. CASE Fail(j)
  <2>1. UNCHANGED <<up, gate, handle, place, deinstallVars, disturbed, durable, todo, file, data>>
        /\ \A k \in Jobs \ {j} : pc'[k] = pc[k]
    BY <1>0, <1>5 DEF TypeOK, Fail
  <2>2. CASE view' = view
    BY <2>1, <2>2
  <2>3. CASE WriteBreaks(j)
    <3>1. j \in Writing
      BY <2>3 DEF WriteBreaks, Writing, WritePcs
    <3>2. \A d \in Disks, y \in Paths : y[1] # TitleOf[j] => view'[d][y] = view[d][y]
      BY <1>0, <2>3, PutType DEF WriteBreaks, Target, Contents
    <3> QED
      BY <2>1, <3>1, <3>2
  <2> QED
    BY <1>5, <2>2, <2>3 DEF Fail
<1> QED
  BY <1>1, <1>2, <1>3, <1>4, <1>5 DEF Install

\* A removal's step only removes, and only paths of its title.
LEMMA RemovalWrites ==
  ASSUME IInv, NEW r \in Deinstalls, Deinstall(r) \/ DeinstallFail(r)
  PROVE  /\ UNCHANGED <<up, gate, handle, jobVars, dtitle, disturbed>>
         /\ r \in Removing
         /\ FlushHandle \/ durable' = durable
         /\ \A d \in Disks, x \in Paths :
              \/ view'[d][x] = view[d][x]
              \/ x[1] = dtitle[r] /\ view'[d][x] = "absent"
         /\ \A q \in Deinstalls \ {r} : dpc'[q] = dpc[q]
<1> USE DEF jobVars, disk, counters
<1>0. TypeOK
  BY DEF IInv
<1>1. CASE DeinstallFlush(r) \/ DeinstallFail(r)
  BY <1>0, <1>1 DEF TypeOK, DeinstallFlush, DeinstallFail, Removing, RemovePcs
<1>2. ASSUME NEW where \in Places, NEW next, DeinstallTree(r, where, next)
      PROVE  /\ UNCHANGED <<up, gate, handle, jobVars, dtitle, disturbed, durable>>
             /\ r \in Removing
             /\ \A d \in Disks, x \in Paths :
                  \/ view'[d][x] = view[d][x]
                  \/ x[1] = dtitle[r] /\ view'[d][x] = "absent"
             /\ \A q \in Deinstalls \ {r} : dpc'[q] = dpc[q]
  <2>1. \A d \in Disks, x \in Paths :
          view'[d][x] = IF d = handle /\ x \in Under(dtitle[r], where) THEN "absent" ELSE view[d][x]
    BY <1>0, <1>2, PutType DEF DeinstallTree, Contents
  <2>2. \A x \in Under(dtitle[r], where) : x[1] = dtitle[r]
    BY DEF Under
  <2> QED
    BY <1>0, <1>2, <2>1, <2>2 DEF TypeOK, DeinstallTree, Removing, RemovePcs, Places
<1> QED
  BY <1>1, <1>2 DEF Deinstall, Places

\* No other request changes what a handle sees, and none moves the handle to
\* another disk unnoticed.
LEMMA RequestWrites ==
  ASSUME IInv, RequestStep,
         \A r \in Deinstalls : ~Deinstall(r) /\ ~DeinstallFail(r)
  PROVE  /\ UNCHANGED <<view, jobVars>>
         /\ disturbed \subseteq disturbed'
         /\ FlushHandle \/ durable' = durable
         /\ handle' = handle \/ Writing \cup Removing \subseteq disturbed'
         /\ \A r \in Removing : dpc'[r] = dpc[r] /\ dtitle'[r] = dtitle[r]
         /\ \A r \in Deinstalls : dpc'[r] # dpc[r] => dpc'[r] = "title"
         /\ up => gate' = gate
<1> USE DEF vars, jobVars, deinstallVars, attachVars, disk, counters
<1>0. TypeOK /\ DownIsOff
  BY DEF IInv
<1>1. ASSUME NEW r \in Deinstalls, NEW t \in Titles, DeinstallBegin(r, t)
      PROVE  /\ UNCHANGED <<view, durable, handle, gate, jobVars>> /\ disturbed \subseteq disturbed'
             /\ \A q \in Removing : dpc'[q] = dpc[q] /\ dtitle'[q] = dtitle[q]
             /\ \A q \in Deinstalls : dpc'[q] # dpc[q] => dpc'[q] = "title"
  BY <1>0, <1>1 DEF TypeOK, DeinstallBegin, Interfere, Removing, RemovePcs
<1>2. ASSUME NEW a \in Attaches, NEW d \in Disks, AttachOpen(a, d)
      PROVE  /\ UNCHANGED <<view, gate, jobVars, deinstallVars>> /\ disturbed \subseteq disturbed'
             /\ FlushHandle
             /\ handle' = handle \/ Writing \cup Removing \subseteq disturbed'
  BY <1>2 DEF AttachOpen
<1>3. ASSUME NEW a \in Attaches, AttachRecord(a) \/ AttachDbError(a)
      PROVE  /\ UNCHANGED <<view, gate, jobVars, deinstallVars>> /\ disturbed \subseteq disturbed'
             /\ FlushHandle \/ durable' = durable
             /\ handle' = handle \/ Writing \cup Removing \subseteq disturbed'
  BY <1>3 DEF AttachRecord, AttachDbError
<1>4. CASE CheckReadiness \/ UNCHANGED vars
  BY <1>4 DEF CheckReadiness
<1>5. CASE Startup
  <2>1. Writing = {} /\ Removing = {}
    BY <1>0, <1>5 DEF Startup, DownIsOff, Active, Writing, JobPcs, Removing
  <2> QED
    BY <1>5, <2>1 DEF Startup
<1> QED
  BY <1>1, <1>2, <1>3, <1>4, <1>5 DEF RequestStep
-----------------------------------------------------------------------------
(* What the threads do to each other's files.                               *)

\* Nobody but an undisturbed writer itself changes its files, where it is or
\* the disk that is open.
LEMMA QuietWriter ==
  ASSUME IInv, [Next]_vars, NEW k \in Writing, k \notin disturbed', ~Exit, ~Install(k), ~Fail(k)
  PROVE  /\ k \notin disturbed
         /\ UNCHANGED <<handle, gate>>
         /\ pc'[k] = pc[k] /\ todo'[k] = todo[k] /\ file'[k] = file[k] /\ place'[k] = place[k]
         /\ \A d \in Disks, x \in Paths : x[1] = TitleOf[k] => view'[d][x] = view[d][x]
         /\ FlushHandle \/ durable' = durable
<1>0. /\ TypeOK /\ DownIsOff /\ Undisturbed /\ k \in Jobs /\ Active(k) /\ pc[k] # "idle" /\ up
      /\ TitleOf[k] \in Titles
  BY DEF IInv, Writing, Active, JobPcs, WritePcs, DownIsOff
<1>1. ASSUME NEW j \in Jobs, NEW where \in Places, Begin(j, where)
      PROVE  /\ disturbed \subseteq disturbed'
             /\ UNCHANGED <<handle, gate, view, durable>>
             /\ pc'[k] = pc[k] /\ todo'[k] = todo[k] /\ file'[k] = file[k] /\ place'[k] = place[k]
  BY <1>0, <1>1 DEF TypeOK, Begin, Goto, Interfere, disk
<1>2. ASSUME NEW j \in Jobs, Install(j) \/ Fail(j)
      PROVE  /\ disturbed \subseteq disturbed'
             /\ UNCHANGED <<handle, gate>>
             /\ pc'[k] = pc[k] /\ todo'[k] = todo[k] /\ file'[k] = file[k] /\ place'[k] = place[k]
             /\ \A d \in Disks, x \in Paths : x[1] = TitleOf[k] => view'[d][x] = view[d][x]
             /\ FlushHandle \/ durable' = durable
  <2>1. j # k
    BY <1>2
  <2>2. /\ UNCHANGED <<handle, gate, place>> /\ disturbed \subseteq disturbed'
        /\ FlushHandle \/ durable' = durable
        /\ j \notin Writing => view' = view
        /\ \A d \in Disks, x \in Paths : x[1] # TitleOf[j] => view'[d][x] = view[d][x]
        /\ pc'[k] = pc[k] /\ todo'[k] = todo[k] /\ file'[k] = file[k]
    BY <1>0, <1>2, <2>1, JobWrites
  <2>3. j \in Writing => TitleOf[j] # TitleOf[k]
    BY <1>0, <2>1, <2>2 DEF Undisturbed, Writing, Active, JobPcs
  <2> QED
    BY <2>2, <2>3
<1>3. ASSUME NEW r \in Deinstalls, Deinstall(r) \/ DeinstallFail(r)
      PROVE  /\ UNCHANGED <<handle, gate, disturbed, jobVars>>
             /\ \A d \in Disks, x \in Paths : x[1] = TitleOf[k] => view'[d][x] = view[d][x]
             /\ FlushHandle \/ durable' = durable
  <2>1. /\ UNCHANGED <<handle, gate, disturbed, jobVars>>
        /\ r \in Removing
        /\ FlushHandle \/ durable' = durable
        /\ \A d \in Disks, x \in Paths : view'[d][x] = view[d][x] \/ x[1] = dtitle[r]
    BY <1>3, RemovalWrites
  <2>2. dtitle[r] # TitleOf[k]
    BY <1>0, <2>1 DEF Undisturbed, RemovingOf
  <2> QED
    BY <2>1, <2>2
<1>4. CASE RequestStep /\ \A r \in Deinstalls : ~Deinstall(r) /\ ~DeinstallFail(r)
  BY <1>0, <1>4, RequestWrites DEF jobVars
<1> QED
  BY <1>0, <1>1, <1>2, <1>3, <1>4, StepKinds DEF jobVars

\* Nobody brings back what an undisturbed removal has deleted.
LEMMA QuietRemoval ==
  ASSUME IInv, [Next]_vars, NEW r \in Removing, r \notin disturbed', ~Exit, ~Deinstall(r),
         ~DeinstallFail(r)
  PROVE  /\ r \notin disturbed
         /\ UNCHANGED handle
         /\ dpc'[r] = dpc[r] /\ dtitle'[r] = dtitle[r]
         /\ \A d \in Disks, x \in Paths :
              x[1] = dtitle[r] /\ view[d][x] = "absent" => view'[d][x] = "absent"
<1>0. TypeOK /\ Undisturbed /\ r \in Deinstalls
  BY DEF IInv, Removing
<1>1. ASSUME NEW j \in Jobs, NEW where \in Places, Begin(j, where)
      PROVE  disturbed \subseteq disturbed' /\ UNCHANGED <<handle, view, deinstallVars>>
  BY <1>1 DEF Begin, Interfere, disk
<1>2. ASSUME NEW j \in Jobs, Install(j) \/ Fail(j)
      PROVE  /\ disturbed \subseteq disturbed' /\ UNCHANGED <<handle, deinstallVars>>
             /\ \A d \in Disks, x \in Paths : x[1] = dtitle[r] => view'[d][x] = view[d][x]
  <2>1. /\ UNCHANGED <<handle, deinstallVars>> /\ disturbed \subseteq disturbed'
        /\ j \notin Writing => view' = view
        /\ \A d \in Disks, x \in Paths : x[1] # TitleOf[j] => view'[d][x] = view[d][x]
    BY <1>2, JobWrites
  <2>2. j \in Writing => TitleOf[j] # dtitle[r]
    BY <1>0, <2>1 DEF Undisturbed, RemovingOf
  <2> QED
    BY <2>1, <2>2
<1>3. ASSUME NEW q \in Deinstalls, Deinstall(q) \/ DeinstallFail(q)
      PROVE  /\ UNCHANGED <<handle, disturbed, dtitle>> /\ dpc'[r] = dpc[r]
             /\ \A d \in Disks, x \in Paths : view'[d][x] = view[d][x] \/ view'[d][x] = "absent"
  BY <1>0, <1>3, RemovalWrites
<1>4. CASE RequestStep /\ \A q \in Deinstalls : ~Deinstall(q) /\ ~DeinstallFail(q)
  BY <1>4, RequestWrites
<1> QED
  BY <1>1, <1>2, <1>3, <1>4, StepKinds DEF deinstallVars
\* What WrittenFull, FlushedFull and DeletedGone say of one thread.
WrittenFor(k) ==
  k \notin disturbed =>
    \A f \in Written(k) : handle # None /\ view[handle][Target(k, f)] = "full"

FlushedFor(k) ==
  pc[k] = "report" /\ gate = "open" /\ k \notin disturbed =>
    \E d \in Disks : \A f \in Files :
      view[d][Target(k, f)] = "full" /\ durable[d][Target(k, f)] = "full"

GoneFor(r) ==
  r \notin disturbed =>
    \A where \in Deleted(r), f \in Files :
      handle # None /\ view[handle][<<dtitle[r], where, f>>] = "absent"

\* Two files of an install have different targets.
LEMMA TargetsDiffer ==
  ASSUME NEW j \in Jobs, NEW f \in Files, NEW g \in Files, f # g
  PROVE  Target(j, f) # Target(j, g)
BY DEF Target

\* Who is in its write loop after a step was in it before, or passes the gate.
LEMMA WritersBefore ==
  ASSUME IInv, [Next]_vars, NEW k \in Jobs, k \in Writing', k \notin Writing
  PROVE  PassGate(k)
<1> USE DEF vars, jobVars, deinstallVars, attachVars, disk, counters, Goto, Writing, WritePcs
<1>0. TypeOK /\ pc'[k] \in WritePcs /\ pc[k] \notin WritePcs
  BY DEF IInv
<1>1. ASSUME NEW j \in Jobs, NEW where \in Places, Begin(j, where) PROVE FALSE
  BY <1>0, <1>1 DEF TypeOK, Begin
<1>2. ASSUME NEW j \in Jobs, Install(j) \/ Fail(j) PROVE PassGate(k)
  BY <1>0, <1>2 DEF TypeOK, Install, Fail, DecryptOpen, DecryptClose, Hash, PassGate, CreateFile,
     ReadLocal, WriteFile, CheckHash, FlushFiles, Report
<1>3. CASE Exit
  BY <1>0, <1>3 DEF TypeOK, Exit, Active, JobPcs
<1>4. CASE RequestStep
  BY <1>0, <1>4, RequestFrame
<1> QED
  BY <1>1, <1>2, <1>3, <1>4, StepKinds

\* The writes of an install keep the files it has written complete; its flush
\* puts all of them on the medium.
LEMMA WriterOwnStep ==
  ASSUME IInv, NEW k \in Jobs, Install(k), k \in Writing
  PROVE  WrittenFor(k)' /\ FlushedFor(k)'
<1> USE DEF disk, counters, Goto, WrittenFor, FlushedFor, Written
<1>0. /\ TypeOK /\ FileHeld /\ WrittenFor(k) /\ pc[k] \in WritePcs
      /\ pc[k] = "write" /\ k \notin disturbed => data[k] = "full"
  BY DEF IInv, WrittenFull, Writing, DecryptedFull
<1>1. CASE CreateFile(k)
  <2>1. PICK f \in todo[k] :
          /\ file' = [file EXCEPT ![k] = f]
          /\ view' = IF view[handle][Target(k, f)] = "absent" THEN Put({Target(k, f)}, "blank")
                                                             ELSE view
    BY <1>1 DEF CreateFile
  <2>2. f \in Files /\ handle \in Disks
    BY <1>0, <1>1 DEF TypeOK, CreateFile
  <2>3. /\ pc[k] = "files" /\ pc'[k] = "read" /\ handle # None
        /\ UNCHANGED <<handle, todo, place, disturbed>>
    BY <1>0, <1>1 DEF TypeOK, CreateFile
  <2>4. \A g \in Files \ todo[k] : view'[handle][Target(k, g)] = view[handle][Target(k, g)]
    <3> SUFFICES ASSUME NEW g \in Files \ todo[k]
                 PROVE  view'[handle][Target(k, g)] = view[handle][Target(k, g)]
      OBVIOUS
    <3>1. Target(k, g) \in Paths /\ Target(k, g) # Target(k, f)
      BY <1>0, <2>2, TargetType, TargetsDiffer
    <3>2. Put({Target(k, f)}, "blank")[handle][Target(k, g)] = view[handle][Target(k, g)]
      BY <1>0, <2>2, <2>3, <3>1, PutType DEF Contents
    <3> QED
      BY <2>1, <3>2
  <2>5. \A g \in Files : Target(k, g)' = Target(k, g)
    BY <2>3 DEF Target
  <2> QED
    BY <1>0, <2>3, <2>4, <2>5
<1>2. CASE ReadLocal(k)
  <2>1. /\ pc[k] = "read" /\ pc'[k] = "write"
        /\ UNCHANGED <<handle, view, todo, place, disturbed>>
    BY <1>0, <1>2 DEF TypeOK, ReadLocal
  <2> QED
    BY <1>0, <2>1 DEF Target
<1>3. CASE WriteFile(k)
  <2> DEFINE x == Target(k, file[k])
  <2>1. /\ pc[k] = "write" /\ pc'[k] = "check" /\ handle # None /\ handle \in Disks
        /\ UNCHANGED <<handle, todo, place, file, disturbed>>
    BY <1>0, <1>3 DEF TypeOK, WriteFile
  <2>2. file[k] \in Files
    BY <1>0, <2>1 DEF FileHeld, TypeOK
  <2>3. k \notin disturbed => view' = Put({x}, "full")
    BY <1>0, <1>3, <2>1 DEF WriteFile
  <2>4. \A g \in Files : k \notin disturbed =>
          view'[handle][Target(k, g)] = IF g = file[k] THEN "full" ELSE view[handle][Target(k, g)]
    <3> SUFFICES ASSUME NEW g \in Files, k \notin disturbed
                 PROVE  view'[handle][Target(k, g)]
                          = IF g = file[k] THEN "full" ELSE view[handle][Target(k, g)]
      OBVIOUS
    <3>1. Target(k, g) \in Paths /\ (g # file[k] => Target(k, g) # x)
      BY <1>0, <2>2, TargetType, TargetsDiffer
    <3>2. Put({x}, "full")[handle][Target(k, g)]
            = IF Target(k, g) = x THEN "full" ELSE view[handle][Target(k, g)]
      BY <1>0, <2>1, <3>1, PutType DEF Contents
    <3> QED
      BY <2>3, <3>1, <3>2
  <2>5. \A g \in Files : Target(k, g)' = Target(k, g)
    BY <2>1 DEF Target
  <2> QED
    BY <1>0, <2>1, <2>2, <2>4, <2>5
<1>4. CASE CheckHash(k)
  <2>1. /\ pc[k] = "check" /\ pc'[k] = "files" /\ todo'[k] = todo[k] \ {file[k]}
        /\ UNCHANGED <<handle, view, place, disturbed>>
    BY <1>0, <1>4 DEF TypeOK, CheckHash
  <2>2. file[k] \in todo[k] /\ todo[k] \subseteq Files
    BY <1>0, <2>1 DEF TypeOK, FileHeld
  <2>3. \A g \in Files \ todo'[k] : g \in (Files \ todo[k]) \cup {file[k]}
    BY <2>1
  <2> QED
    BY <1>0, <2>1, <2>2, <2>3 DEF Target
<1>5. CASE FlushFiles(k)
  <2>1. /\ pc[k] = "files" /\ todo[k] = {} /\ pc'[k] = "report" /\ handle \in Disks
        /\ handle # None /\ UNCHANGED <<view, handle, place, disturbed>>
        /\ durable'[handle] = view[handle]
    BY <1>0, <1>5 DEF TypeOK, FlushFiles, FlushHandle
  <2>2. WrittenFor(k)'
    BY <2>1
  <2>3. k \notin disturbed => \A f \in Files : view[handle][Target(k, f)] = "full"
    BY <1>0, <2>1
  <2>4. \A f \in Files : Target(k, f)' = Target(k, f)
    BY <2>1 DEF Target
  <2> QED
    BY <2>1, <2>2, <2>3, <2>4
<1>6. CASE Report(k)
  BY <1>0, <1>6 DEF TypeOK, Report
<1>7. pc[k] \in WritePcs => ~(DecryptOpen(k) \/ DecryptClose(k) \/ Hash(k) \/ PassGate(k))
  BY DEF WritePcs, DecryptOpen, DecryptClose, Hash, PassGate
<1> QED
  BY <1>0, <1>1, <1>2, <1>3, <1>4, <1>5, <1>6, <1>7 DEF Install
\* What an undisturbed install has written stays complete until it reports.
LEMMA WrittenStep == IInv /\ [Next]_vars => WrittenFull' /\ FlushedFull'
<1> SUFFICES ASSUME IInv, [Next]_vars, NEW k \in Jobs PROVE WrittenFor(k)' /\ FlushedFor(k)'
  BY DEF WrittenFull, FlushedFull, WrittenFor, FlushedFor
<1>0. TypeOK /\ WrittenFor(k) /\ FlushedFor(k)
  BY DEF IInv, WrittenFull, FlushedFull, WrittenFor, FlushedFor
<1>1. CASE k \notin Writing'
  BY <1>1 DEF Writing, WritePcs, WrittenFor, FlushedFor, Written
<1>2. CASE k \in disturbed'
  BY <1>2 DEF WrittenFor, FlushedFor
<1>3. CASE k \in Writing' /\ k \notin Writing
  <2>1. PassGate(k)
    BY <1>3, WritersBefore
  <2>2. \/ pc'[k] = "files" /\ todo'[k] = Files
        \/ pc'[k] = "report" /\ gate' # "open"
        \/ pc'[k] = "failed"
    BY <1>0, <2>1 DEF TypeOK, PassGate, Goto, Gates
  <2> QED
    BY <2>2 DEF WrittenFor, FlushedFor, Written
<1>4. CASE k \in Writing /\ Install(k)
  BY <1>4, WriterOwnStep
<1>5. CASE Fail(k) \/ Exit
  <2>1. k \notin Writing'
    <3>1. CASE Fail(k)
      BY <1>0, <3>1 DEF TypeOK, Fail, Goto, Writing, WritePcs
    <3>2. CASE Exit
      BY <1>0, <3>2 DEF TypeOK, Exit, Active, JobPcs, Writing, WritePcs
    <3> QED
      BY <1>5, <3>1, <3>2
  <2> QED
    BY <1>1, <2>1
<1>6. CASE k \in Writing /\ k \notin disturbed' /\ ~Install(k) /\ ~Fail(k) /\ ~Exit
  <2>1. /\ k \notin disturbed
        /\ UNCHANGED <<handle, gate>>
        /\ pc'[k] = pc[k] /\ todo'[k] = todo[k] /\ file'[k] = file[k] /\ place'[k] = place[k]
        /\ \A d \in Disks, x \in Paths : x[1] = TitleOf[k] => view'[d][x] = view[d][x]
        /\ FlushHandle \/ durable' = durable
    BY <1>6, QuietWriter
  <2>2. \A f \in Files : Target(k, f)' = Target(k, f)
    BY <2>1 DEF Target
  <2>3. \A d \in Disks, f \in Files : view'[d][Target(k, f)] = view[d][Target(k, f)]
    <3>1. \A f \in Files : Target(k, f) \in Paths /\ Target(k, f)[1] = TitleOf[k]
      <4>1. \A f \in Files : Target(k, f) \in Paths
        BY <1>0, TargetType
      <4> QED
        BY <4>1 DEF Target
    <3> QED
      BY <2>1, <3>1
  <2>4. WrittenFor(k)'
    <3>1. Written(k)' = Written(k) /\ Written(k) \subseteq Files /\ handle \in Disks \cup {None}
      BY <1>0, <1>6, <2>1 DEF Written, TypeOK, Writing, IInv, FileHeld
    <3> QED
      BY <1>0, <2>1, <2>2, <2>3, <3>1 DEF WrittenFor
  <2>5. FlushedFor(k)'
    <3>1. \A d \in Disks : durable'[d] = durable[d] \/ durable'[d] = view[d]
      BY <2>1, FlushEffect
    <3> QED
      BY <1>0, <2>1, <2>2, <2>3, <3>1 DEF FlushedFor
  <2> QED
    BY <2>4, <2>5
<1> QED
  BY <1>1, <1>2, <1>3, <1>4, <1>5, <1>6

\* Who removes has a title to remove.
LEMMA TitleStep == IInv /\ [Next]_vars => TitleHeld'
<1> SUFFICES ASSUME IInv, [Next]_vars PROVE TitleHeld'
  OBVIOUS
<1> USE DEF TitleHeld, Removing, RemovePcs, vars, deinstallVars, attachVars, disk, counters
<1>0. TypeOK /\ TitleHeld
  BY DEF IInv
<1>1. ASSUME NEW j \in Jobs, NEW where \in Places, Begin(j, where) PROVE TitleHeld'
  BY <1>0, <1>1 DEF Begin
<1>2. ASSUME NEW j \in Jobs, Install(j) \/ Fail(j) PROVE TitleHeld'
  <2>1. UNCHANGED deinstallVars
    BY <1>2, JobWrites
  <2> QED
    BY <1>0, <2>1
<1>3. CASE Exit
  BY <1>0, <1>3 DEF TypeOK, Exit
<1>4. ASSUME NEW r \in Deinstalls, NEW t \in Titles, DeinstallBegin(r, t) PROVE TitleHeld'
  BY <1>0, <1>4 DEF TypeOK, DeinstallBegin
<1>5. ASSUME NEW r \in Deinstalls, Deinstall(r) \/ DeinstallFail(r) PROVE TitleHeld'
  <2>1. /\ UNCHANGED dtitle /\ r \in Removing
        /\ \A q \in Deinstalls \ {r} : dpc'[q] = dpc[q]
    BY <1>5, RemovalWrites
  <2> QED
    BY <1>0, <2>1
<1>6. ASSUME \/ \E a \in Attaches, d \in Disks : AttachOpen(a, d)
             \/ \E a \in Attaches : AttachRecord(a) \/ AttachDbError(a)
             \/ CheckReadiness \/ Startup \/ UNCHANGED vars
      PROVE TitleHeld'
  <2>1. UNCHANGED deinstallVars
    BY <1>6 DEF AttachOpen, AttachRecord, AttachDbError, CheckReadiness, Startup
  <2> QED
    BY <1>0, <2>1
<1> QED
  BY <1>1, <1>2, <1>3, <1>4, <1>5, <1>6, StepKinds DEF RequestStep

\* What an undisturbed removal has deleted stays deleted until it reports.
LEMMA GoneStep == IInv /\ [Next]_vars => DeletedGone'
<1> SUFFICES ASSUME IInv, [Next]_vars, NEW r \in Deinstalls PROVE GoneFor(r)'
  BY DEF DeletedGone, GoneFor
<1>0. TypeOK /\ GoneFor(r)
  BY DEF IInv, DeletedGone, GoneFor
<1>1. CASE dpc'[r] \notin {"install", "flush"} \/ r \in disturbed'
  BY <1>1 DEF GoneFor, Deleted
<1>2. CASE Exit \/ DeinstallFail(r)
  <2>1. dpc'[r] \notin {"install", "flush"}
    BY <1>0, <1>2 DEF TypeOK, Exit, DeinstallFail, Removing, RemovePcs
  <2> QED
    BY <1>1, <2>1
<1>3. ASSUME Deinstall(r) PROVE GoneFor(r)'
  <2>1. ASSUME NEW where \in Places, NEW next, DeinstallTree(r, where, next)
        PROVE  /\ handle # None /\ UNCHANGED <<handle, dtitle, disturbed>> /\ dpc'[r] = next
               /\ dpc[r] = where
               /\ \A p \in Places, f \in Files :
                    <<dtitle[r], p, f>> \in Paths =>
                      view'[handle][<<dtitle[r], p, f>>]
                        = IF p = where THEN "absent" ELSE view[handle][<<dtitle[r], p, f>>]
    <3>1. /\ handle # None /\ UNCHANGED <<handle, dtitle, disturbed>> /\ dpc'[r] = next
          /\ handle \in Disks /\ dpc[r] = where
          /\ view' = Put(Under(dtitle[r], where), "absent")
      BY <1>0, <2>1 DEF TypeOK, DeinstallTree
    <3>2. \A x \in Paths : view'[handle][x]
                             = IF x \in Under(dtitle[r], where) THEN "absent" ELSE view[handle][x]
      BY <1>0, <3>1, PutType DEF Contents
    <3>3. \A p \in Places, f \in Files :
            <<dtitle[r], p, f>> \in Under(dtitle[r], where) <=> p = where
      BY DEF Under
    <3> QED
      BY <3>1, <3>2, <3>3
  <2>2. \A p \in Places, f \in Files : <<dtitle[r], p, f>> \in Paths
    <3>1. r \in Removing
      BY <1>3, RemovalWrites
    <3> QED
      BY <3>1 DEF IInv, TitleHeld, Paths
  <2>3. CASE DeinstallTree(r, "title", "install")
    <3>1. /\ handle # None /\ UNCHANGED <<handle, dtitle, disturbed>> /\ dpc'[r] = "install"
          /\ \A f \in Files : view'[handle][<<dtitle[r], "title", f>>] = "absent"
      BY <2>1, <2>2, <2>3 DEF Places
    <3> QED
      BY <3>1 DEF GoneFor, Deleted
  <2>4. CASE DeinstallTree(r, "install", "flush")
    <3>1. /\ handle # None /\ UNCHANGED <<handle, dtitle, disturbed>> /\ dpc'[r] = "flush"
          /\ dpc[r] = "install"
          /\ \A p \in Places, f \in Files :
               view'[handle][<<dtitle[r], p, f>>]
                 = IF p = "install" THEN "absent" ELSE view[handle][<<dtitle[r], p, f>>]
      BY <2>1, <2>2, <2>4 DEF Places
    <3> QED
      BY <1>0, <3>1 DEF GoneFor, Deleted, Places
  <2>5. CASE DeinstallFlush(r)
    BY <1>0, <1>1, <2>5 DEF TypeOK, DeinstallFlush
  <2> QED
    BY <1>3, <2>3, <2>4, <2>5 DEF Deinstall
<1>4. CASE /\ dpc'[r] \in {"install", "flush"} /\ r \notin disturbed'
           /\ ~Exit /\ ~Deinstall(r) /\ ~DeinstallFail(r)
  <2>1. CASE r \in Removing
    <3>1. /\ r \notin disturbed /\ UNCHANGED handle /\ dpc'[r] = dpc[r] /\ dtitle'[r] = dtitle[r]
          /\ \A d \in Disks, x \in Paths :
               x[1] = dtitle[r] /\ view[d][x] = "absent" => view'[d][x] = "absent"
      BY <1>4, <2>1, QuietRemoval
    <3>2. \A p \in Places, f \in Files : <<dtitle[r], p, f>> \in Paths
      BY <2>1 DEF IInv, TitleHeld, Paths
    <3>3. handle # None => handle \in Disks
      BY <1>0 DEF TypeOK
    <3>4. Deleted(r)' = Deleted(r) /\ Deleted(r) \subseteq Places
      BY <3>1 DEF Deleted, Places
    <3> QED
      BY <1>0, <3>1, <3>2, <3>3, <3>4 DEF GoneFor
  <2>2. CASE r \notin Removing
    <3>1. dpc'[r] = dpc[r] \/ dpc'[r] = "title"
      <4> USE DEF vars, deinstallVars, disk, counters
      <4>1. ASSUME NEW j \in Jobs, NEW where \in Places, Begin(j, where) PROVE dpc' = dpc
        BY <4>1 DEF Begin
      <4>2. ASSUME NEW j \in Jobs, Install(j) \/ Fail(j) PROVE dpc' = dpc
        BY <4>2, JobWrites
      <4>3. ASSUME NEW q \in Deinstalls, Deinstall(q) \/ DeinstallFail(q) PROVE dpc'[r] = dpc[r]
        BY <2>2, <4>3, RemovalWrites
      <4>4. CASE RequestStep /\ \A q \in Deinstalls : ~Deinstall(q) /\ ~DeinstallFail(q)
        BY <4>4, RequestWrites
      <4> QED
        BY <1>4, <4>1, <4>2, <4>3, <4>4, StepKinds
    <3> QED
      BY <1>4, <2>2, <3>1 DEF Removing, RemovePcs
  <2> QED
    BY <2>1, <2>2
<1> QED
  BY <1>1, <1>2, <1>3, <1>4
-----------------------------------------------------------------------------
(* The theorems.                                                            *)

\* The invariant is inductive.
LEMMA InductiveStep == IInv /\ [Next]_vars => IInv'
BY TypeStep, DownStep, GateStep, FileStep, TitleStep, DecryptedStep, UndisturbedStep, FullStep,
   WrittenStep, GoneStep DEF IInv

\* It holds in every reachable state.
THEOREM Invariance == Spec => []IInv
BY InitInvariant, InductiveStep, PTL DEF Spec

\* Every variable keeps to its type.
THEOREM TypeCorrect == Spec => []TypeOK
<1>1. IInv => TypeOK
  BY DEF IInv
<1> QED
  BY <1>1, Invariance, PTL

\* The safety gate: while the service runs, no file of any disk is created,
\* written or removed in a dry run or before the first write is confirmed.
THEOREM GateIsKept == Spec => GateHolds
<1>1. IInv /\ [Next]_vars => [up /\ up' /\ view' # view => gate = "open"]_vars
  <2> SUFFICES ASSUME IInv, [Next]_vars, up, up', view' # view PROVE gate = "open"
    OBVIOUS
  <2>0. PastGate /\ TypeOK
    BY DEF IInv
  <2>1. ASSUME NEW j \in Jobs, NEW where \in Places, Begin(j, where) PROVE FALSE
    BY <2>1 DEF Begin, disk
  <2>2. ASSUME NEW j \in Jobs, Install(j) \/ Fail(j) PROVE gate = "open"
    <3>1. CASE CreateFile(j) \/ WriteFile(j) \/ Fail(j)
      BY <2>0, <3>1 DEF PastGate, Busy, CreateFile, WriteFile, Fail, WriteBreaks
    <3>2. ~(\/ DecryptOpen(j) \/ DecryptClose(j) \/ Hash(j) \/ PassGate(j) \/ ReadLocal(j)
            \/ CheckHash(j) \/ FlushFiles(j) \/ Report(j))
      BY DEF DecryptOpen, DecryptClose, Hash, PassGate, ReadLocal, CheckHash, FlushFiles, Report, disk
    <3> QED
      BY <2>2, <3>1, <3>2 DEF Install
  <2>3. ASSUME NEW r \in Deinstalls, Deinstall(r) \/ DeinstallFail(r) PROVE gate = "open"
    <3>1. r \in Removing
      BY <2>3, RemovalWrites
    <3> QED
      BY <2>0, <3>1 DEF PastGate
  <2>4. CASE RequestStep /\ \A r \in Deinstalls : ~Deinstall(r) /\ ~DeinstallFail(r)
    BY <2>4, RequestWrites
  <2>5. ~Exit
    BY DEF Exit
  <2> QED
    BY <2>1, <2>2, <2>3, <2>4, <2>5, StepKinds
<1> QED
  BY <1>1, Invariance, PTL DEF Spec, GateHolds

\* An install that reports, and that no other install, removal or exchange of
\* the disk disturbed, has all of its files complete on one disk's medium.
THEOREM InstalledWhenReported == Spec => ReportedIsInstalled
<1> DEFINE Installed(j) ==
             pc[j] = "report" /\ pc'[j] = "done" /\ gate = "open" /\ j \notin disturbed =>
               \E d \in Disks : \A f \in Files : durable[d][Target(j, f)] = "full"
<1>1. ASSUME IInv, NEW j \in Jobs PROVE Installed(j)
  BY <1>1 DEF IInv, FlushedFull
<1>2. IInv => \A j \in Jobs : Installed(j)
  BY <1>1
<1> HIDE DEF Installed
<1>3. IInv /\ [Next]_vars => [\A j \in Jobs : Installed(j)]_vars
  BY <1>2
<1> USE DEF Installed
<1> QED
  BY <1>3, Invariance, PTL DEF Spec, ReportedIsInstalled

\* The hash is compared by no other step.
LEMMA CheckStep ==
  ASSUME IInv, [Next]_vars, NEW j \in Jobs, pc[j] = "check", pc'[j] = "files"
  PROVE  CheckHash(j)
<1> USE DEF vars, jobVars, deinstallVars, disk, counters, Goto
<1>0. TypeOK
  BY DEF IInv
<1>1. ASSUME NEW k \in Jobs, NEW where \in Places, Begin(k, where) PROVE FALSE
  BY <1>0, <1>1 DEF TypeOK, Begin
<1>2. ~RequestStep
  BY RequestFrame
<1>3. ~Exit
  BY <1>0 DEF TypeOK, Exit
<1>4. PICK k \in Jobs : Install(k) \/ Fail(k)
  BY <1>1, <1>2, <1>3, StepKinds
<1>5. k = j
  BY <1>4, JobWrites
<1> QED
  BY <1>0, <1>4, <1>5 DEF TypeOK, Install, Fail, DecryptOpen, DecryptClose, Hash, PassGate,
     CreateFile, ReadLocal, WriteFile, FlushFiles, Report

\* The file_written events of an undisturbed install are true: its hash is that
\* of the whole artifact, and the file on the open disk is the whole artifact.
THEOREM EventTrueWhenAlone == Spec => EventIsTrueAlone
<1> DEFINE True(j) ==
             pc[j] = "check" /\ pc'[j] = "files" /\ j \notin disturbed =>
               /\ sha[j][file[j]] = "full"
               /\ view[handle][Target(j, file[j])] = "full"
<1>1. ASSUME IInv, [Next]_vars, NEW j \in Jobs PROVE True(j)
  <2> SUFFICES ASSUME pc[j] = "check", pc'[j] = "files", j \notin disturbed
               PROVE  sha[j][file[j]] = "full" /\ view[handle][Target(j, file[j])] = "full"
    OBVIOUS
  <2>0. TypeOK /\ FileHeld /\ DecryptedFull /\ WrittenFull
    BY <1>1 DEF IInv
  <2>1. file[j] \in Files
    BY <2>0 DEF TypeOK, FileHeld
  <2>2. local[TitleOf[j]][file[j]] = "full"
    BY <2>0, <2>1 DEF DecryptedFull, Decrypted, WritePcs
  <2>3. sha[j][file[j]] = LocalContent(TitleOf[j], file[j])
    BY <1>1, CheckStep DEF CheckHash
  <2>4. sha[j][file[j]] = "full"
    BY <2>2, <2>3 DEF LocalContent
  <2>5. view[handle][Target(j, file[j])] = "full"
    BY <2>0 DEF WrittenFull, Written
  <2> QED
    BY <2>4, <2>5
<1>2. IInv /\ [Next]_vars => [\A j \in Jobs : True(j)]_vars
  BY <1>1
<1> QED
  BY <1>2, Invariance, PTL DEF Spec, EventIsTrueAlone

\* A removal that returns, undisturbed, leaves nothing of its title on the
\* medium of the open disk.
THEOREM GoneWhenRemoved == Spec => RemovedIsGone
<1> DEFINE Gone(r) ==
             dpc[r] = "flush" /\ dpc'[r] = "done" /\ r \notin disturbed =>
               \A where \in Places, f \in Files :
                 durable'[handle][<<dtitle[r], where, f>>] = "absent"
<1>1. ASSUME IInv, [Next]_vars, NEW r \in Deinstalls PROVE Gone(r)
  <2> SUFFICES ASSUME dpc[r] = "flush", dpc'[r] = "done", r \notin disturbed,
                      NEW where \in Places, NEW f \in Files
               PROVE  durable'[handle][<<dtitle[r], where, f>>] = "absent"
    OBVIOUS
  <2> USE DEF vars, deinstallVars, disk, counters
  <2>0. TypeOK /\ GoneFor(r)
    BY <1>1 DEF IInv, DeletedGone, GoneFor
  <2>1. ASSUME NEW j \in Jobs, NEW p \in Places, Begin(j, p) PROVE FALSE
    BY <2>1 DEF Begin
  <2>2. ASSUME NEW j \in Jobs, Install(j) \/ Fail(j) PROVE FALSE
    BY <1>1, <2>2, JobWrites
  <2>3. ~Exit
    BY <2>0 DEF TypeOK, Exit
  <2>4. ~(RequestStep /\ \A q \in Deinstalls : ~Deinstall(q) /\ ~DeinstallFail(q))
    BY <1>1, RequestWrites
  <2>5. \E q \in Deinstalls : Deinstall(q) \/ DeinstallFail(q)
    BY <1>1, <2>1, <2>2, <2>3, <2>4, StepKinds
  <2>6. Deinstall(r) \/ DeinstallFail(r)
    BY <1>1, <2>5, RemovalWrites
  <2>7. DeinstallFlush(r)
    BY <2>0, <2>6 DEF TypeOK, Deinstall, DeinstallFail, DeinstallTree
  <2>8. durable'[handle] = view[handle]
    BY <2>0, <2>7 DEF TypeOK, DeinstallFlush, FlushHandle
  <2>9. view[handle][<<dtitle[r], where, f>>] = "absent"
    BY <2>0 DEF GoneFor, Deleted
  <2> QED
    BY <2>8, <2>9
<1>2. IInv /\ [Next]_vars => [\A r \in Deinstalls : Gone(r)]_vars
  BY <1>1
<1> QED
  BY <1>2, Invariance, PTL DEF Spec, RemovedIsGone

\* The disk the last request to open one opened stays open, that request is not
\* the one that recorded last before it records, and none is under way while the
\* service is down.
DiskHeld ==
  /\ ~up => \A a \in Attaches : apc[a] = "idle"
  /\ \A a \in Attaches : apc[a] = "opened" => recorder # a /\ (opener = a => handle = adisk[a])
  /\ handle # None /\ opener = recorder => record = handle

LEMMA DiskHeldStep == TypeOK /\ DiskHeld /\ [Next]_vars => DiskHeld'
<1> SUFFICES ASSUME TypeOK, DiskHeld, [Next]_vars PROVE DiskHeld'
  OBVIOUS
<1> USE DEF vars, jobVars, deinstallVars, attachVars, disk, counters
<1> DEFINE Frame == UNCHANGED <<up, handle, record, apc, adisk, opener, recorder>>
<1>0. Frame => DiskHeld'
  BY DEF DiskHeld
<1> HIDE DEF Frame
<1>1. ASSUME NEW j \in Jobs, (\E where \in Places : Begin(j, where)) \/ Install(j) \/ Fail(j)
      PROVE Frame
  <2>1. CASE Install(j)
    BY <2>1 DEF Install, DecryptOpen, DecryptClose, Hash, PassGate, CreateFile, ReadLocal,
       WriteFile, CheckHash, FlushFiles, Report, Frame
  <2> QED
    BY <1>1, <2>1 DEF Begin, Fail, Frame
<1>2. ASSUME NEW r \in Deinstalls,
             (\E t \in Titles : DeinstallBegin(r, t)) \/ Deinstall(r) \/ DeinstallFail(r)
      PROVE Frame
  BY <1>2 DEF DeinstallBegin, Deinstall, DeinstallTree, DeinstallFlush, DeinstallFail, Frame
<1>3. CheckReadiness \/ UNCHANGED vars => Frame
  BY DEF CheckReadiness, Frame
<1>4. ASSUME NEW a \in Attaches, NEW d \in Disks, AttachOpen(a, d) PROVE DiskHeld'
  <2>1. /\ up' = up /\ up /\ handle' = d /\ opener' = a /\ recorder' # a
        /\ adisk'[a] = d /\ recorder' \in {recorder, None}
        /\ \A b \in Attaches \ {a} : apc'[b] = apc[b] /\ adisk'[b] = adisk[b]
    BY <1>4 DEF AttachOpen, TypeOK
  <2> QED
    BY <2>1 DEF DiskHeld
<1>5. ASSUME NEW a \in Attaches, AttachRecord(a) PROVE DiskHeld'
  <2>1. /\ UNCHANGED <<up, handle, adisk, opener>> /\ recorder' = a /\ record' = adisk[a]
        /\ apc[a] = "opened" /\ apc'[a] = "idle"
        /\ \A b \in Attaches \ {a} : apc'[b] = apc[b]
    BY <1>5 DEF AttachRecord, TypeOK
  <2> QED
    BY <2>1 DEF DiskHeld
<1>6. ASSUME NEW a \in Attaches, AttachDbError(a) PROVE DiskHeld'
  <2>1. /\ UNCHANGED <<up, handle, record, adisk, opener, recorder>> /\ apc'[a] = "idle"
        /\ \A b \in Attaches \ {a} : apc'[b] = apc[b]
    BY <1>6 DEF AttachDbError, TypeOK
  <2> QED
    BY <2>1 DEF DiskHeld
<1>7. CASE Exit
  BY <1>7 DEF Exit, DiskHeld
<1>8. CASE Startup
  BY <1>8 DEF Startup, DiskHeld
<1> QED
  BY <1>0, <1>1, <1>2, <1>3, <1>4, <1>5, <1>6, <1>7, <1>8 DEF Next

\* The recorded disk is the open one whenever the request that opened last is
\* the one that recorded last, whatever requests overlap, and whatever
\* transactions, startups and processes fail.
THEOREM RecordedIsOpen == Spec => []ActiveDiskIsOpen
<1>1. Init => DiskHeld
  BY DEF Init, DiskHeld
<1>2. DiskHeld => ActiveDiskIsOpen
  BY DEF DiskHeld, ActiveDiskIsOpen
<1> QED
  BY <1>1, <1>2, DiskHeldStep, TypeCorrect, PTL DEF Spec
=============================================================================
