------------------------- MODULE CatalogRefreshProofs -------------------------
(* Proofs about CatalogRefresh, for any number of threads, lists and       *)
(* archives and any delays that TimeAssumption allows.                      *)
EXTENDS CatalogRefresh, TLAPS

USE DEF service, vault, history

Fallback == {"vault", "clear", "extract", "stamp", "parse", "vaultopen", "vaultwrite"}

-----------------------------------------------------------------------------
(* The catalogs.                                                            *)

LEMMA CatalogMembers ==
  /\ Empty \in Catalogs /\ Partial \in Catalogs
  /\ \A l \in Lists : Remote(l) \in Catalogs
  /\ \A n \in 1..Archives : Vault(n) \in Catalogs
  BY DEF Catalogs

LEMMA MemoryIsFile ==
  ASSUME items \in Catalogs, lastRefresh \in Times \cup {None}, source \in Sources
  PROVE  Memory \in CacheFiles
  BY DEF Memory, CacheFiles

\* What is read back is what was saved, or an empty catalog.
LEMMA LoadedFile ==
  ASSUME NEW file \in {None, Torn} \cup CacheFiles
  PROVE  /\ Loaded(file) \in CacheFiles
         /\ file \in CacheFiles => Loaded(file) = file
  <1>1. CASE file \in {None, Torn}
    <2>1. "cache" \in Sources BY DEF Sources
    <2> QED BY <1>1, <2>1, CatalogMembers, CacheAssumption DEF Loaded, CacheFiles
  <1>2. CASE file \in CacheFiles BY <1>2, CacheAssumption DEF Loaded
  <1> QED BY <1>1, <1>2

-----------------------------------------------------------------------------
(* The inductive invariant, part by part.                                   *)

\* The lock: one refresh at a time; a request under way knows when it came.
LockInv ==
  /\ \A t, u \in Threads : pc[t] \in Locked /\ pc[u] \in Locked => t = u
  /\ \A t \in Threads : pc[t] # "idle" => now[t] \in Times /\ now[t] <= clock
  /\ tried # None => tried <= clock

\* The directory: a stamp of the current archive is one of all of its entries.
DirInv ==
  /\ present => archive >= 1
  /\ dir.stamp # None => dir.stamp <= archive
  /\ dir.stamp = archive => dir.holds = Vault(archive)
  /\ print <= archive
  /\ \A t \in Threads : pc[t] \in Fallback \ {"vault"} => print >= 1
  /\ \A t \in Threads : pc[t] = "clear" => dir.stamp # archive
  /\ \A t \in Threads : pc[t] \in {"stamp", "parse"} =>
       \E n \in print..archive : dir.holds = Vault(n)
  /\ VaultIsCurrent

\* The age of the titles and the time of the next attempt.
TimeInv ==
  /\ retryAt # None => lastError
  /\ \A t \in Threads : pc[t] \in Locked => tried = now[t]
  /\ \A t \in Threads : pc[t] \in {"open", "write"} =>
       lastRefresh # None /\ now[t] <= lastRefresh /\ retryAt = None
  /\ \A t \in Threads : pc[t] \in {"vaultopen", "vaultwrite"} =>
       lastError /\ retryAt = now[t] + RetryDelay
  /\ \A t \in Threads : pc[t] = "read" /\ ~lastError =>
       lastRefresh # None /\ now[t] - lastRefresh <= MaxAge
  /\ tried # None /\ Free =>
       \/ retryAt # None /\ retryAt >= tried + RetryDelay
       \/ retryAt = None /\ lastRefresh # None /\ lastRefresh >= tried

IInv == TypeOK /\ LockInv /\ DirInv /\ TimeInv /\ RestartKeepsCatalog

LEMMA Constants ==
  /\ RetryDelay \in Nat /\ MaxAge \in Nat /\ MaxTime \in Nat /\ Archives \in Nat
  /\ MaxAge + 1 >= RetryDelay
  /\ None \notin Nat /\ None \notin Catalogs /\ None \notin Times
  /\ Times \subseteq Nat
  BY TimeAssumption, ArchiveAssumption, NoneAssumption DEF Times

LEMMA InitInv == Init => IInv
  <1> SUFFICES ASSUME Init PROVE IInv
    OBVIOUS
  <1>1. \A t \in Threads : pc[t] = "idle" BY DEF Init
  <1>2. TypeOK
    <2>1. 0 \in Times /\ 0 \in 0..Archives BY Constants DEF Times
    <2>2. dir \in [stamp : {None} \cup 0..Archives, holds : {None} \cup Catalogs] BY DEF Init
    <2> QED BY <2>1, <2>2, CatalogMembers DEF Init, TypeOK, Sources
  <1>3. LockInv BY <1>1 DEF LockInv, Locked, Init
  <1>4. DirInv
    <2>1. 0 # None BY Constants
    <2> QED BY <1>1, <2>1 DEF DirInv, VaultIsCurrent, Fallback, Init
  <1>5. TimeInv BY <1>1 DEF TimeInv, Locked, Init
  <1>6. RestartKeepsCatalog BY DEF RestartKeepsCatalog, Loaded, Memory, Init
  <1> QED BY <1>2, <1>3, <1>4, <1>5, <1>6 DEF IInv

\* What there is to do in a step.
Others == Restart \/ ReplaceArchive \/ Tick

LEMMA NextCases ==
  ASSUME [Next]_vars
  PROVE  \/ \E t \in Threads : Enter(t) \/ Refresh(t) \/ Read(t)
         \/ Others
         \/ UNCHANGED vars
  BY DEF Next, Others

-----------------------------------------------------------------------------
(* Type correctness.                                                        *)

LEMMA RefreshType ==
  ASSUME IInv, NEW t \in Threads, Refresh(t)
  PROVE  TypeOK'
  <1> TypeOK BY DEF IInv
  <1>1. now[t] \in Times /\ now[t] + RetryDelay \in Nat
    <2>1. now[t] \in Times
      BY DEF IInv, LockInv, Refresh, FetchOk, FetchFails, Open, Write, WriteFails, Vaulted, Clear,
             Extract, Stamp, Parse, VaultOpen, VaultWrite, VaultFails
    <2>2. now[t] \in Nat BY <2>1, Constants
    <2> QED BY <2>1, <2>2, Constants
  <1>2. Memory \in CacheFiles BY MemoryIsFile DEF TypeOK
  <1>3. 0 \in 0..Archives /\ "remote" \in Sources /\ "vault" \in Sources
    BY Constants DEF Sources
  <1> USE DEF TypeOK, Goto, Leave, Locked
  <1>4. CASE FetchOk(t)
    <2>1. items' \in Catalogs BY <1>4, CatalogMembers DEF FetchOk
    <2> QED BY <1>3, <1>4, <2>1 DEF FetchOk
  <1>5. CASE FetchFails(t) BY <1>5 DEF FetchFails
  <1>6. CASE Open(t) BY <1>6 DEF Open
  <1>7. CASE Write(t) BY <1>2, <1>3, <1>7 DEF Write
  <1>8. CASE WriteFails(t) BY <1>8 DEF WriteFails
  <1>9. CASE Vaulted(t) BY <1>9 DEF Vaulted
  <1>10. CASE Clear(t) BY <1>10, CatalogMembers DEF Clear
  <1>11. CASE Extract(t)
    <2>1. print >= 1 BY <1>11 DEF Extract, IInv, DirInv, Fallback
    <2>2. \A n \in print..archive : Vault(n) \in Catalogs BY <2>1, Constants, CatalogMembers
    <2>3. dir' \in [stamp : {None} \cup 0..Archives, holds : {None} \cup Catalogs]
      BY <1>11, <2>2, CatalogMembers DEF Extract
    <2> QED BY <1>11, <2>3 DEF Extract
  <1>12. CASE Stamp(t) BY <1>12 DEF Stamp
  <1>13. CASE Parse(t)
    <2>1. dir.holds \in Catalogs
      <3>1. PICK n \in print..archive : dir.holds = Vault(n)
        BY <1>13 DEF Parse, IInv, DirInv
      <3>2. print >= 1 BY <1>13 DEF Parse, IInv, DirInv, Fallback
      <3> QED BY <3>1, <3>2, Constants, CatalogMembers
    <2> QED BY <1>1, <1>3, <1>13, <2>1 DEF Parse
  <1>14. CASE VaultOpen(t) BY <1>14 DEF VaultOpen
  <1>15. CASE VaultWrite(t) BY <1>2, <1>3, <1>15 DEF VaultWrite
  <1>16. CASE VaultFails(t) BY <1>1, <1>3, <1>16 DEF VaultFails
  <1> HIDE DEF TypeOK
  <1> QED
    BY <1>4, <1>5, <1>6, <1>7, <1>8, <1>9, <1>10, <1>11, <1>12, <1>13, <1>14, <1>15, <1>16
    DEF Refresh

LEMMA RestartType ==
  ASSUME TypeOK, Restart
  PROVE  TypeOK'
  <1>1. Loaded(cache) \in CacheFiles BY LoadedFile DEF TypeOK
  <1>2. items' \in Catalogs /\ lastRefresh' \in Times \cup {None} /\ source' \in Sources
    BY <1>1 DEF Restart, CacheFiles
  <1>3. 0 \in 0..Archives BY Constants
  <1> QED BY <1>2, <1>3 DEF Restart, TypeOK

LEMMA NextType ==
  ASSUME IInv, [Next]_vars
  PROVE  TypeOK'
  <1> TypeOK BY DEF IInv
  <1>1. ASSUME NEW t \in Threads, Enter(t) PROVE TypeOK'
    BY <1>1 DEF Enter, TypeOK, Goto, Locked
  <1>2. ASSUME NEW t \in Threads, Refresh(t) PROVE TypeOK' BY <1>2, RefreshType
  <1>3. ASSUME NEW t \in Threads, Read(t) PROVE TypeOK'
    BY <1>3 DEF Read, TypeOK, Goto, Locked
  <1>4. CASE Restart BY <1>4, RestartType
  <1>5. CASE ReplaceArchive
    <2>1. archive \in Nat /\ archive \in 0..Archives BY Constants DEF TypeOK
    <2>2. archive' = archive \/ (archive < Archives /\ archive' = archive + 1)
      BY <1>5 DEF ReplaceArchive
    <2>3. archive' \in 0..Archives BY <2>1, <2>2, Constants
    <2>4. present' \in BOOLEAN BY <1>5, Zenon DEF ReplaceArchive
    <2> QED BY <1>5, <2>3, <2>4 DEF ReplaceArchive, TypeOK
  <1>6. CASE Tick
    <2>1. clock' \in Times BY <1>6, Constants DEF Tick, TypeOK, Times
    <2> QED BY <1>6, <2>1 DEF Tick, TypeOK
  <1>7. CASE UNCHANGED vars BY <1>7 DEF vars, TypeOK
  <1> QED BY <1>1, <1>2, <1>3, <1>4, <1>5, <1>6, <1>7, NextCases DEF Others

-----------------------------------------------------------------------------
(* The lock.                                                                *)

\* A refresh runs inside the lock and leaves it for the read.
LEMMA RefreshKeepsLock ==
  ASSUME TypeOK, NEW t \in Threads, Refresh(t)
  PROVE  /\ pc[t] \in Locked
         /\ pc' = [pc EXCEPT ![t] = pc'[t]] /\ pc'[t] \in Locked \cup {"read"}
         /\ clock' = clock /\ now' = now /\ tried' = tried
         /\ archive' = archive /\ present' = present
  <1> USE DEF TypeOK, Goto, Leave, Locked
  <1>1. CASE \/ FetchOk(t) \/ FetchFails(t) \/ Open(t) \/ Write(t) \/ WriteFails(t)
    BY <1>1 DEF FetchOk, FetchFails, Open, Write, WriteFails
  <1>2. CASE Vaulted(t) \/ Clear(t) \/ Extract(t) \/ Stamp(t) \/ Parse(t)
    BY <1>2 DEF Vaulted, Clear, Extract, Stamp, Parse
  <1>3. CASE VaultOpen(t) \/ VaultWrite(t) \/ VaultFails(t)
    BY <1>3 DEF VaultOpen, VaultWrite, VaultFails
  <1> QED BY <1>1, <1>2, <1>3 DEF Refresh

LEMMA NextLock ==
  ASSUME IInv, [Next]_vars
  PROVE  LockInv'
  <1> TypeOK /\ LockInv BY DEF IInv
  <1>1. clock \in Nat BY Constants DEF TypeOK
  <1> USE DEF LockInv
  <1>2. ASSUME NEW t \in Threads, Enter(t) PROVE LockInv'
    <2>1. \A u \in Threads : pc[u] \notin Locked BY <1>2 DEF Enter, Free
    <2>2. /\ \A u \in Threads \ {t} : pc'[u] = pc[u] /\ now'[u] = now[u]
          /\ now'[t] = clock /\ clock' = clock
          /\ tried' \in {tried, clock}
      BY <1>2 DEF Enter, Goto, TypeOK
    <2> QED BY <1>1, <2>1, <2>2 DEF TypeOK
  <1>3. ASSUME NEW t \in Threads, Refresh(t) PROVE LockInv'
    <2>1. "read" \notin Locked /\ "idle" \notin Locked BY DEF Locked
    <2> QED BY <1>3, <2>1, RefreshKeepsLock DEF TypeOK
  <1>4. ASSUME NEW t \in Threads, Read(t) PROVE LockInv'
    BY <1>4 DEF Read, Goto, TypeOK, Locked
  <1>5. CASE Restart
    <2>1. \A t \in Threads : pc'[t] = "idle" BY <1>5 DEF Restart
    <2>2. tried' = None BY <1>5 DEF Restart
    <2> QED BY <2>1, <2>2 DEF Locked
  <1>6. CASE ReplaceArchive BY <1>6 DEF ReplaceArchive
  <1>7. CASE Tick
    <2>1. clock' = clock + 1 /\ pc' = pc /\ now' = now /\ tried' = tried BY <1>7 DEF Tick
    <2>2. \A t \in Threads : now[t] \in Times => now[t] \in Nat BY Constants
    <2>3. tried # None => tried \in Nat BY Constants DEF TypeOK
    <2> QED BY <1>1, <2>1, <2>2, <2>3
  <1>8. CASE UNCHANGED vars BY <1>8 DEF vars
  <1> QED BY <1>2, <1>3, <1>4, <1>5, <1>6, <1>7, <1>8, NextCases DEF Others

-----------------------------------------------------------------------------
(* The directory of the archive.                                            *)

LEMMA RefreshDir ==
  ASSUME IInv, NEW t \in Threads, Refresh(t)
  PROVE  DirInv'
  <1> TypeOK /\ LockInv /\ DirInv BY DEF IInv
  <1>1. /\ pc[t] \in Locked /\ pc' = [pc EXCEPT ![t] = pc'[t]]
        /\ archive' = archive /\ present' = present
    BY RefreshKeepsLock
  <1>2. \A u \in Threads \ {t} : pc'[u] = pc[u] /\ pc'[u] \notin Locked
    BY <1>1 DEF LockInv, TypeOK
  <1>3. archive \in Nat /\ print \in Nat /\ 0 # None /\ archive # None
        /\ (dir.stamp # None => dir.stamp \in Nat)
    BY Constants DEF TypeOK
  <1> USE DEF DirInv, VaultIsCurrent, Fallback, Locked, Goto, Leave
  <1>4. CASE \/ FetchOk(t) \/ FetchFails(t) \/ Open(t) \/ Write(t) \/ WriteFails(t)
    BY <1>1, <1>2, <1>3, <1>4 DEF FetchOk, FetchFails, Open, Write, WriteFails, TypeOK
  <1>5. CASE Vaulted(t)
    <2>1. archive \in archive..archive BY <1>3
    <2> QED BY <1>1, <1>2, <1>3, <1>5, <2>1 DEF Vaulted, Stamped, TypeOK
  <1>6. CASE Clear(t) BY <1>1, <1>2, <1>3, <1>6 DEF Clear, TypeOK
  <1>7. CASE Extract(t)
    <2>1. dir'.stamp = None /\ print' = print BY <1>7 DEF Extract
    <2>2. pc'[t] = "stamp" => \E n \in print..archive : dir'.holds = Vault(n)
      BY <1>7 DEF Extract, TypeOK
    <2>3. pc[t] = "extract" /\ pc'[t] \in {"extract", "stamp"} BY <1>7 DEF Extract, TypeOK
    <2> QED BY <1>1, <1>2, <1>3, <2>1, <2>2, <2>3
  <1>8. CASE Stamp(t)
    <2>1. /\ pc[t] = "stamp" /\ pc'[t] = "parse" /\ print' = print /\ items' = items
          /\ dir'.stamp = print /\ dir'.holds = dir.holds
      BY <1>8 DEF Stamp, TypeOK
    <2>2. PICK n \in print..archive : dir.holds = Vault(n) BY <2>1
    <2>3. print = archive => dir.holds = Vault(archive) BY <1>3, <2>2
    <2> QED BY <1>1, <1>2, <1>3, <2>1, <2>2, <2>3
  <1>9. CASE Parse(t) BY <1>1, <1>2, <1>3, <1>9 DEF Parse, TypeOK
  <1>10. CASE VaultOpen(t) \/ VaultWrite(t) \/ VaultFails(t)
    BY <1>1, <1>2, <1>3, <1>10 DEF VaultOpen, VaultWrite, VaultFails, TypeOK
  <1> HIDE DEF DirInv
  <1> QED BY <1>4, <1>5, <1>6, <1>7, <1>8, <1>9, <1>10 DEF Refresh

LEMMA NextDir ==
  ASSUME IInv, [Next]_vars
  PROVE  DirInv'
  <1> TypeOK /\ DirInv BY DEF IInv
  <1>1. archive \in Nat /\ print \in Nat /\ 0 # None /\ archive # None
        /\ (dir.stamp # None => dir.stamp \in Nat)
    BY Constants DEF TypeOK
  <1>2. ASSUME NEW t \in Threads, Refresh(t) PROVE DirInv' BY <1>2, RefreshDir
  <1> USE DEF DirInv, VaultIsCurrent, Fallback, Goto
  <1>3. ASSUME NEW t \in Threads, Enter(t) PROVE DirInv' BY <1>3 DEF Enter, TypeOK
  <1>4. ASSUME NEW t \in Threads, Read(t) PROVE DirInv' BY <1>4 DEF Read, TypeOK
  <1>5. CASE Restart
    <2>1. \A t \in Threads : pc'[t] = "idle" BY <1>5 DEF Restart
    <2>2. print' = 0 /\ vault' = vault BY <1>5 DEF Restart
    <2> QED BY <1>1, <2>1, <2>2
  <1>6. CASE ReplaceArchive
    <2>1. UNCHANGED <<pc, dir, print, items>> BY <1>6 DEF ReplaceArchive
    <2>2. archive' \in {archive, archive + 1} BY <1>6 DEF ReplaceArchive
    <2>3. ASSUME present' PROVE archive' >= 1
      <3>1. (archive # 0 /\ archive' = archive) \/ archive' = archive + 1
        BY <1>6, <2>3, Zenon DEF ReplaceArchive
      <3> QED BY <1>1, <3>1
    <2>4. print..archive \subseteq print..archive' BY <1>1, <2>2
    <2>5. dir.stamp = archive' => archive' = archive
      <3>1. archive' \in Nat /\ archive' # None BY <1>1, <2>2, Constants
      <3>2. dir.stamp # None => dir.stamp <= archive OBVIOUS
      <3> QED BY <1>1, <2>2, <3>1, <3>2
    <2> QED BY <1>1, <2>1, <2>2, <2>3, <2>4, <2>5
  <1>7. CASE Tick BY <1>7 DEF Tick
  <1>8. CASE UNCHANGED vars BY <1>8 DEF vars
  <1> HIDE DEF DirInv
  <1> QED BY <1>2, <1>3, <1>4, <1>5, <1>6, <1>7, <1>8, NextCases DEF Others

-----------------------------------------------------------------------------
(* The age of the titles.                                                   *)

LEMMA RefreshTime ==
  ASSUME IInv, NEW t \in Threads, Refresh(t)
  PROVE  TimeInv'
  <1> TypeOK /\ LockInv /\ TimeInv BY DEF IInv
  <1>1. /\ pc[t] \in Locked /\ pc' = [pc EXCEPT ![t] = pc'[t]]
        /\ clock' = clock /\ now' = now /\ tried' = tried
    BY RefreshKeepsLock
  <1>2. \A u \in Threads \ {t} : pc'[u] = pc[u] /\ pc'[u] \notin Locked
    BY <1>1 DEF LockInv, TypeOK
  <1>3. /\ clock \in Nat /\ RetryDelay \in Nat /\ MaxAge \in Nat
        /\ clock # None /\ now[t] # None
        /\ now[t] \in Nat /\ now[t] <= clock /\ tried = now[t]
        /\ now[t] + RetryDelay # None
        /\ lastRefresh # None => lastRefresh \in Nat
    BY <1>1, Constants DEF TypeOK, LockInv, TimeInv, Locked
  <1>4. \A u \in Threads : pc[u] = "read" => now[u] \in Nat /\ now[u] <= clock
    BY Constants DEF LockInv
  <1> USE DEF TimeInv, Locked, Goto, Leave, Free
  <1>5. CASE FetchOk(t)
    <2>1. /\ lastRefresh' = clock /\ lastError' = FALSE /\ retryAt' = None /\ pc'[t] = "open"
      BY <1>5 DEF FetchOk, TypeOK
    <2> QED BY <1>1, <1>2, <1>3, <1>4, <2>1
  <1>6. CASE FetchFails(t) \/ WriteFails(t) \/ Vaulted(t) \/ Clear(t) \/ Extract(t) \/ Stamp(t)
    <2>1. /\ UNCHANGED <<lastRefresh, lastError, retryAt>>
          /\ pc'[t] \in {"vault", "parse", "clear", "extract", "stamp"}
      BY <1>6 DEF FetchFails, WriteFails, Vaulted, Clear, Extract, Stamp, TypeOK
    <2> QED BY <1>1, <1>2, <1>3, <1>4, <2>1
  <1>7. CASE Open(t)
    <2>1. /\ UNCHANGED <<lastRefresh, lastError, retryAt>>
          /\ pc[t] = "open" /\ pc'[t] \in {"write", "vault"}
      BY <1>7 DEF Open, TypeOK
    <2> QED BY <1>1, <1>2, <1>3, <1>4, <2>1
  <1>8. CASE Write(t)
    <2>1. /\ UNCHANGED <<lastRefresh, lastError, retryAt>>
          /\ pc[t] = "write" /\ pc'[t] = "read"
      BY <1>8 DEF Write, TypeOK
    <2> QED BY <1>1, <1>2, <1>3, <1>4, <2>1
  <1>9. CASE Parse(t)
    <2>1. /\ lastRefresh' = now[t] /\ lastError' = TRUE /\ retryAt' = now[t] + RetryDelay
          /\ pc'[t] = "vaultopen"
      BY <1>9 DEF Parse, TypeOK
    <2> QED BY <1>1, <1>2, <1>3, <1>4, <2>1
  <1>10. CASE VaultOpen(t) \/ VaultWrite(t)
    <2>1. /\ UNCHANGED <<lastRefresh, lastError, retryAt>>
          /\ pc[t] \in {"vaultopen", "vaultwrite"} /\ pc'[t] \in {"vaultwrite", "read"}
      BY <1>10 DEF VaultOpen, VaultWrite, TypeOK
    <2> QED BY <1>1, <1>2, <1>3, <1>4, <2>1
  <1>11. CASE VaultFails(t)
    <2>1. /\ UNCHANGED lastRefresh
          /\ lastError' = TRUE /\ retryAt' = now[t] + RetryDelay /\ pc'[t] = "read"
      BY <1>11 DEF VaultFails, TypeOK
    <2> QED BY <1>1, <1>2, <1>3, <1>4, <2>1
  <1> HIDE DEF TimeInv
  <1> QED BY <1>5, <1>6, <1>7, <1>8, <1>9, <1>10, <1>11 DEF Refresh

LEMMA NextTime ==
  ASSUME IInv, [Next]_vars
  PROVE  TimeInv'
  <1> TypeOK /\ LockInv /\ TimeInv BY DEF IInv
  <1>1. ASSUME NEW t \in Threads, Refresh(t) PROVE TimeInv' BY <1>1, RefreshTime
  <1> USE DEF TimeInv, Locked, Goto, Free
  <1>2. ASSUME NEW t \in Threads, Enter(t) PROVE TimeInv'
    <2>1. /\ clock \in Nat /\ clock # None /\ MaxAge \in Nat
          /\ \A u \in Threads : pc[u] \notin Locked
          /\ \A u \in Threads \ {t} : pc'[u] = pc[u] /\ now'[u] = now[u]
          /\ now'[t] = clock /\ service' = service
      BY <1>2, Constants DEF Enter, TypeOK
    <2>2. CASE Due
      <3>1. pc'[t] = "fetch" /\ tried' = clock BY <1>2, <2>2 DEF Enter, TypeOK
      <3> QED BY <2>1, <3>1
    <2>3. CASE ~Due
      <3>1. pc'[t] = "read" /\ tried' = tried BY <1>2, <2>3 DEF Enter, TypeOK
      <3>2. lastError \/ (lastRefresh # None /\ ~(clock - lastRefresh > MaxAge))
        BY <2>3 DEF Due
      <3>3. lastRefresh # None => lastRefresh \in Nat BY Constants DEF TypeOK
      <3> QED BY <2>1, <3>1, <3>2, <3>3
    <2> QED BY <2>2, <2>3
  <1>3. ASSUME NEW t \in Threads, Read(t) PROVE TimeInv' BY <1>3 DEF Read, TypeOK
  <1>4. CASE Restart
    <2>1. \A t \in Threads : pc'[t] = "idle" BY <1>4 DEF Restart
    <2>2. retryAt' = None /\ tried' = None BY <1>4 DEF Restart
    <2> QED BY <2>1, <2>2
  <1>5. CASE ReplaceArchive BY <1>5 DEF ReplaceArchive
  <1>6. CASE Tick BY <1>6 DEF Tick
  <1>7. CASE UNCHANGED vars BY <1>7 DEF vars
  <1> HIDE DEF TimeInv
  <1> QED BY <1>1, <1>2, <1>3, <1>4, <1>5, <1>6, <1>7, NextCases DEF Others

-----------------------------------------------------------------------------
(* The cache file.                                                          *)

LEMMA NextCache ==
  ASSUME IInv, [Next]_vars
  PROVE  RestartKeepsCatalog'
  <1> TypeOK /\ LockInv /\ RestartKeepsCatalog BY DEF IInv
  <1> USE DEF RestartKeepsCatalog, Saving, Goto, Leave
  <1>1. ASSUME NEW t \in Threads, Refresh(t) PROVE RestartKeepsCatalog'
    <2>1. \A u \in Threads \ {t} : pc[u] \notin Saving
      BY <1>1, RefreshKeepsLock DEF LockInv, Locked
    <2>2. CASE FetchOk(t) BY <2>2 DEF FetchOk, TypeOK
    <2>3. CASE Open(t) BY <2>3 DEF Open, TypeOK
    <2>4. CASE Write(t) \/ VaultWrite(t)
      <3>1. Memory' = Memory /\ cache' = Memory BY <2>4 DEF Write, VaultWrite, Memory
      <3>2. Memory \in CacheFiles BY MemoryIsFile DEF TypeOK
      <3> QED BY <3>1, <3>2, LoadedFile
    <2>5. CASE WriteFails(t) BY <2>5 DEF WriteFails
    <2>6. CASE FetchFails(t) \/ Vaulted(t) \/ Clear(t) \/ Extract(t) \/ Stamp(t)
      <3>1. /\ Memory' = Memory /\ cache' = cache /\ saved' = saved
            /\ pc[t] \notin Saving
        BY <2>6 DEF FetchFails, Vaulted, Clear, Extract, Stamp, Memory
      <3> QED BY <2>1, <3>1
    <2>7. CASE Parse(t) BY <2>7 DEF Parse, TypeOK
    <2>8. CASE VaultOpen(t) BY <2>8 DEF VaultOpen, TypeOK
    <2>9. CASE VaultFails(t)
      <3>1. CASE pc[t] \in {"vaultopen", "vaultwrite"} BY <2>9, <3>1 DEF VaultFails
      <3>2. CASE pc[t] \notin {"vaultopen", "vaultwrite"}
        <4>1. /\ Memory' = Memory /\ cache' = cache /\ (saved' => saved)
              /\ pc[t] \notin Saving
          BY <2>9, <3>2 DEF VaultFails, Memory
        <4> QED BY <2>1, <4>1
      <3> QED BY <3>1, <3>2
    <2> QED BY <1>1, <2>2, <2>3, <2>4, <2>5, <2>6, <2>7, <2>8, <2>9 DEF Refresh
  <1>2. ASSUME NEW t \in Threads, Enter(t) PROVE RestartKeepsCatalog'
    BY <1>2 DEF Enter, TypeOK, Memory
  <1>3. ASSUME NEW t \in Threads, Read(t) PROVE RestartKeepsCatalog'
    BY <1>3 DEF Read, TypeOK, Memory
  <1>4. CASE Restart
    <2>1. Loaded(cache) \in CacheFiles BY LoadedFile DEF TypeOK
    <2>2. Memory' = Loaded(cache) BY <1>4, <2>1 DEF Restart, Memory, CacheFiles
    <2>3. cache' = cache BY <1>4 DEF Restart
    <2> QED BY <2>2, <2>3
  <1>5. CASE ReplaceArchive BY <1>5 DEF ReplaceArchive, Memory
  <1>6. CASE Tick BY <1>6 DEF Tick, Memory
  <1>7. CASE UNCHANGED vars BY <1>7 DEF vars, Memory
  <1> QED BY <1>1, <1>2, <1>3, <1>4, <1>5, <1>6, <1>7, NextCases DEF Others

-----------------------------------------------------------------------------

\* IInv holds in every reachable state, whatever fails and whenever the process
\* ends.
THEOREM Invariance == Spec => []IInv
  <1>1. IInv /\ [Next]_vars => IInv'
    BY NextType, NextLock, NextDir, NextTime, NextCache DEF IInv
  <1> QED BY InitInv, <1>1, PTL DEF Spec

\* Every variable keeps its type, torn files and failing saves included.
THEOREM TypeCorrect == Spec => []TypeOK
  <1>1. IInv => TypeOK BY DEF IInv
  <1> QED BY <1>1, Invariance, PTL

\* The titles of the archive are never those of an interrupted extraction.
THEOREM NoPartialVault == Spec => []VaultIsCurrent
  <1>1. IInv => VaultIsCurrent BY DEF IInv, DirInv
  <1> QED BY <1>1, Invariance, PTL

\* The next process starts with the catalog of this one, unless the last save
\* failed or is under way.
THEOREM CatalogIsKept == Spec => []RestartKeepsCatalog
  <1>1. IInv => RestartKeepsCatalog BY DEF IInv
  <1> QED BY <1>1, Invariance, PTL

\* "ok" is only said of titles that are not older than they may be.
THEOREM OkMeansFresh == Spec => []OkIsFresh
  <1>1. IInv => OkIsFresh BY DEF IInv, TypeOK, TimeInv, OkIsFresh, SourceStatus
  <1> QED BY <1>1, Invariance, PTL

\* Two attempts of one process at the server are RetryDelay apart.
THEOREM AttemptsAreSpaced == Spec => AttemptsSpaced
  <1> DEFINE Spaced == \A t \in Threads : pc[t] = "idle" /\ pc'[t] = "fetch" /\ tried # None =>
                         clock - tried >= RetryDelay
  <1>1. ASSUME IInv, [Next]_vars PROVE Spaced
    <2> SUFFICES ASSUME NEW t \in Threads, pc[t] = "idle", pc'[t] = "fetch", tried # None
                 PROVE  clock - tried >= RetryDelay
      OBVIOUS
    <2> TypeOK /\ TimeInv BY <1>1 DEF IInv
    <2>1. Enter(t) /\ Due
      <3>1. ASSUME NEW u \in Threads, Enter(u) PROVE u = t /\ Due
        BY <3>1 DEF Enter, Goto, TypeOK
      <3>2. ASSUME NEW u \in Threads, Refresh(u) PROVE FALSE
        <4>1. u # t BY <3>2, RefreshKeepsLock DEF Locked
        <4> QED BY <3>2, <4>1, RefreshKeepsLock DEF TypeOK
      <3>3. ASSUME NEW u \in Threads, Read(u) PROVE FALSE
        BY <3>3 DEF Read, Goto, TypeOK
      <3>4. CASE Others BY <3>4 DEF Others, Restart, ReplaceArchive, Tick
      <3>5. CASE UNCHANGED vars BY <3>5 DEF vars
      <3> QED BY <1>1, <3>1, <3>2, <3>3, <3>4, <3>5, NextCases
    <2>2. /\ clock \in Nat /\ tried \in Nat /\ RetryDelay \in Nat /\ MaxAge \in Nat
          /\ MaxAge + 1 >= RetryDelay
          /\ retryAt # None => retryAt \in Nat
          /\ lastRefresh # None => lastRefresh \in Nat
      BY Constants DEF TypeOK
    <2>3. \/ retryAt # None /\ retryAt >= tried + RetryDelay
          \/ retryAt = None /\ lastRefresh # None /\ lastRefresh >= tried
      BY <2>1 DEF TimeInv, Enter
    <2> QED BY <2>1, <2>2, <2>3 DEF Due
  <1>2. IInv /\ [Next]_vars => [Spaced]_vars BY <1>1
  <1> QED BY <1>2, Invariance, PTL DEF Spec, AttemptsSpaced
=============================================================================
