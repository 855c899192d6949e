---------------------------- MODULE CatalogRefresh ----------------------------
(***************************************************************************)
(* The catalog of titles: CatalogService of core/services/catalog_service.py *)
(* with the vault archive it falls back to (core/catalog/vault_archive.py).  *)
(*                                                                          *)
(* Each request for the catalog first refreshes it when that is due, from   *)
(* the server or else from the archive, and then reads it.  One lock covers *)
(* the refresh and another round of it the read; the request threads, the   *)
(* clock, the user who replaces the archive and the end of the process      *)
(* interleave with all of it.  What a catalog contains is a version of the  *)
(* server's list or of the archive's; parse_catalog_feed is not looked into. *)
(***************************************************************************)
EXTENDS Integers, Sequences, FiniteSets

CONSTANTS
  Threads,     \* the API's request threads
  Lists,       \* versions of the server's list
  Archives,    \* how many archives the user ever puts in place
  RetryDelay,  \* five minutes
  MaxAge,      \* catalog_refresh_minutes
  MaxTime,     \* the end of time, for model checking
  None, Torn

ASSUME TimeAssumption ==
  /\ RetryDelay \in Nat \ {0} /\ MaxAge \in Nat /\ MaxTime \in Nat
  /\ MaxAge + 1 >= RetryDelay
ASSUME ArchiveAssumption == Archives \in Nat

Empty == <<>>
Remote(list) == <<"remote", list>>
Vault(version) == <<"vault", version>>
Partial == <<"vault", None>>      \* what a half-extracted archive may parse to
Catalogs == {Empty, Partial} \cup {Remote(l) : l \in Lists} \cup {Vault(n) : n \in 1..Archives}
Times == 0..MaxTime
Sources == {"cache", "remote", "vault"}
CacheFiles == [items : Catalogs, lastRefresh : Times \cup {None}, source : Sources]

ASSUME NoneAssumption == None \notin Nat /\ None \notin Catalogs
ASSUME CacheAssumption == None \notin CacheFiles /\ Torn \notin CacheFiles

VARIABLES
  clock,
  items, lastRefresh, lastError, retryAt, source,  \* the fields of CatalogService
  cache,     \* the cache file: None, Torn or what was saved
  archive,   \* the version of vault.tar.gz that was put in place last
  present,   \* and whether it is still there
  dir,       \* the extraction directory: its stamp and what it contains
  pc,        \* Threads -> where its request is
  now,       \* Threads -> now of refresh_if_needed
  print,     \* the lock holder's fingerprint: the archive it has looked at
  tried,     \* history: when this process last asked the server
  saved      \* history: the last save of this process was not one that failed

service == <<items, lastRefresh, lastError, retryAt, source>>
vault == <<archive, present, dir>>
history == <<tried, saved>>
vars == <<clock, service, cache, vault, pc, now, print, history>>

Locked == {"fetch", "open", "write", "vault", "clear", "extract", "stamp", "parse", "vaultopen", "vaultwrite"}
Free == \A t \in Threads : pc[t] \notin Locked

Goto(t, l) == pc' = [pc EXCEPT ![t] = l]

\* Mutant: the titles of a file that cannot be read are not set back to none.
Loaded_NoItems(file) ==
  IF file \in {None, Torn}
    THEN [items |-> file, lastRefresh |-> None, source |-> "cache"]
    ELSE file

\* _load_cache_from_disk: a file that cannot be read counts as none.
Loaded(file) ==
  IF file \in {None, Torn}
    THEN [items |-> Empty, lastRefresh |-> None, source |-> "cache"]
    ELSE file

\* What _save_cache_to_disk writes.
Memory == [items |-> items, lastRefresh |-> lastRefresh, source |-> source]

Init ==
  /\ clock = 0
  /\ items = Empty /\ lastRefresh = None /\ source = "cache"
  /\ lastError = FALSE /\ retryAt = None
  /\ cache = None
  /\ archive = 0 /\ present = FALSE
  /\ dir = [stamp |-> None, holds |-> None]
  /\ pc = [t \in Threads |-> "idle"]
  /\ now = [t \in Threads |-> None]
  /\ print = 0
  /\ tried = None
  /\ saved = TRUE

-----------------------------------------------------------------------------
(* refresh_if_needed.                                                       *)

Due ==
  /\ retryAt # None => clock >= retryAt
  /\ lastRefresh # None => clock - lastRefresh > MaxAge

\* A request comes and gets the lock.
Enter(t) ==
  /\ pc[t] = "idle" /\ Free
  /\ now' = [now EXCEPT ![t] = clock]
  /\ IF Due
       THEN Goto(t, "fetch") /\ tried' = clock
       ELSE Goto(t, "read") /\ UNCHANGED tried
  /\ UNCHANGED <<clock, service, cache, vault, print, saved>>

\* The refresh is over and the lock released.
Leave(t) ==
  /\ Goto(t, "read")
  /\ print' = 0
  /\ UNCHANGED <<now, tried>>

-----------------------------------------------------------------------------
(* _refresh_locked: the server.                                             *)

\* Whatever it answers counts, an empty list too.
FetchOk(t) ==
  /\ pc[t] = "fetch"
  /\ \E answer \in {Empty} \cup {Remote(l) : l \in Lists} : items' = answer
  /\ lastRefresh' = clock
  /\ lastError' = FALSE
  /\ retryAt' = None
  /\ source' = "remote"
  /\ Goto(t, "open")
  /\ UNCHANGED <<clock, cache, vault, now, print, history>>

FetchFails(t) ==
  /\ pc[t] = "fetch"
  /\ Goto(t, "vault")
  /\ UNCHANGED <<clock, service, cache, vault, now, print, history>>

\* _save_cache_to_disk of what came from the server; an error in it is one of
\* the refresh.
Open(t) ==
  /\ pc[t] = "open"
  /\ \/ cache' = Torn /\ Goto(t, "write") /\ UNCHANGED saved
     \/ Goto(t, "vault") /\ saved' = FALSE /\ UNCHANGED cache
  /\ UNCHANGED <<clock, service, vault, now, print, tried>>

Write(t) ==
  /\ pc[t] = "write"
  /\ cache' = Memory
  /\ saved' = TRUE
  /\ Leave(t)
  /\ UNCHANGED <<clock, service, vault>>

WriteFails(t) ==
  /\ pc[t] = "write"
  /\ Goto(t, "vault")
  /\ saved' = FALSE
  /\ UNCHANGED <<clock, service, cache, vault, now, print, tried>>

-----------------------------------------------------------------------------
(* load_vault_catalog: the archive.                                         *)

Stamped == dir.stamp = archive

Vaulted(t) ==
  /\ pc[t] = "vault" /\ present
  /\ print' = archive
  /\ Goto(t, IF Stamped THEN "parse" ELSE "clear")
  /\ UNCHANGED <<clock, service, cache, vault, now, history>>

\* rmtree on its way: the stamp is removed sooner or later than the rest.
Clear(t) ==
  /\ pc[t] = "clear"
  /\ dir' = [dir EXCEPT !.holds = IF @ = None THEN None ELSE Partial]
  /\ Goto(t, "extract")
  /\ UNCHANGED <<clock, service, cache, archive, present, now, print, history>>

\* Mutant: the stamp is written before the files.
Extract_StampFirst(t) ==
  /\ pc[t] = "extract"
  /\ \/ dir' = [stamp |-> print, holds |-> Partial] /\ UNCHANGED pc
     \/ /\ \E n \in print..archive : dir' = [stamp |-> print, holds |-> Vault(n)]
        /\ Goto(t, "stamp")
  /\ UNCHANGED <<clock, service, cache, archive, present, now, print, history>>

\* The directory is gone; the members of the archive follow one by one, of one
\* that has been there since the refresh looked for it.
Extract(t) ==
  /\ pc[t] = "extract"
  /\ \/ dir' = [stamp |-> None, holds |-> Partial] /\ UNCHANGED pc
     \/ /\ \E n \in print..archive : dir' = [stamp |-> None, holds |-> Vault(n)]
        /\ Goto(t, "stamp")
  /\ UNCHANGED <<clock, service, cache, archive, present, now, print, history>>

Stamp(t) ==
  /\ pc[t] = "stamp"
  /\ dir' = [dir EXCEPT !.stamp = print]
  /\ Goto(t, "parse")
  /\ UNCHANGED <<clock, service, cache, archive, present, now, print, history>>

\* Mutant: what the archive brings is not saved.
Parse_NoSave(t) ==
  /\ pc[t] = "parse"
  /\ items' = dir.holds
  /\ lastRefresh' = now[t]
  /\ source' = "vault"
  /\ lastError' = TRUE
  /\ retryAt' = now[t] + RetryDelay
  /\ Leave(t)
  /\ UNCHANGED <<clock, cache, vault, saved>>

\* The entries become the catalog, as if they were as new as the server's.
Parse(t) ==
  /\ pc[t] = "parse"
  /\ items' = dir.holds
  /\ lastRefresh' = now[t]
  /\ source' = "vault"
  /\ lastError' = TRUE
  /\ retryAt' = now[t] + RetryDelay
  /\ Goto(t, "vaultopen")
  /\ UNCHANGED <<clock, cache, vault, now, print, history>>

VaultOpen(t) ==
  /\ pc[t] = "vaultopen"
  /\ cache' = Torn
  /\ Goto(t, "vaultwrite")
  /\ UNCHANGED <<clock, service, vault, now, print, history>>

VaultWrite(t) ==
  /\ pc[t] = "vaultwrite"
  /\ cache' = Memory
  /\ saved' = TRUE
  /\ Leave(t)
  /\ UNCHANGED <<clock, service, vault>>

\* Mutant: the next attempt is only put off when there is no archive.
VaultFails_Retry(t) ==
  /\ pc[t] \in {"vault", "clear", "extract", "stamp", "parse", "vaultopen", "vaultwrite"}
  /\ lastError' = TRUE
  /\ retryAt' = IF pc[t] = "vault" THEN now[t] + RetryDelay ELSE retryAt
  /\ saved' = (saved /\ pc[t] \notin {"vaultopen", "vaultwrite"})
  /\ Leave(t)
  /\ UNCHANGED <<clock, items, lastRefresh, source, cache, vault>>

\* Mutant: without an archive the error is not kept.
VaultFails_Silent(t) ==
  /\ pc[t] \in {"vault", "clear", "extract", "stamp", "parse", "vaultopen", "vaultwrite"}
  /\ lastError' = (lastError \/ present)
  /\ retryAt' = now[t] + RetryDelay
  /\ saved' = (saved /\ pc[t] \notin {"vaultopen", "vaultwrite"})
  /\ Leave(t)
  /\ UNCHANGED <<clock, items, lastRefresh, source, cache, vault>>

\* No archive, one that is too large, damaged or without entries, or an error
\* of the file system, in the save too.
VaultFails(t) ==
  /\ pc[t] \in {"vault", "clear", "extract", "stamp", "parse", "vaultopen", "vaultwrite"}
  /\ lastError' = TRUE
  /\ retryAt' = now[t] + RetryDelay
  /\ saved' = (saved /\ pc[t] \notin {"vaultopen", "vaultwrite"})
  /\ Leave(t)
  /\ UNCHANGED <<clock, items, lastRefresh, source, cache, vault>>

-----------------------------------------------------------------------------

\* source_status of an answer.
SourceStatus ==
  IF ~lastError THEN "ok"
  ELSE IF items = Empty THEN "degraded"
  ELSE IF source = "vault" THEN "fallback" ELSE "stale"

\* query takes the lock again and answers.
Read(t) ==
  /\ pc[t] = "read" /\ Free
  /\ Goto(t, "idle")
  /\ now' = [now EXCEPT ![t] = None]
  /\ UNCHANGED <<clock, service, cache, vault, print, history>>

\* The process ends, in whatever it was doing, and another one starts.
Restart ==
  /\ LET file == Loaded(cache) IN
       items' = file.items /\ lastRefresh' = file.lastRefresh /\ source' = file.source
  /\ lastError' = FALSE
  /\ retryAt' = None
  /\ pc' = [t \in Threads |-> "idle"]
  /\ now' = [t \in Threads |-> None]
  /\ print' = 0
  /\ tried' = None
  /\ saved' = TRUE
  /\ UNCHANGED <<clock, cache, vault>>

\* The user removes the archive, puts it back, or puts in place one whose size
\* or time of modification no earlier one had.
ReplaceArchive ==
  /\ \/ present /\ present' = FALSE /\ UNCHANGED archive
     \/ ~present /\ archive # 0 /\ present' = TRUE /\ UNCHANGED archive
     \/ archive < Archives /\ archive' = archive + 1 /\ present' = TRUE
  /\ UNCHANGED <<clock, service, cache, dir, pc, now, print, history>>

Tick ==
  /\ clock < MaxTime
  /\ clock' = clock + 1
  /\ UNCHANGED <<service, cache, vault, pc, now, print, history>>

-----------------------------------------------------------------------------

Refresh(t) ==
  \/ FetchOk(t) \/ FetchFails(t) \/ Open(t) \/ Write(t) \/ WriteFails(t)
  \/ Vaulted(t) \/ Clear(t) \/ Extract(t) \/ Stamp(t) \/ Parse(t)
  \/ VaultOpen(t) \/ VaultWrite(t) \/ VaultFails(t)

Next ==
  \/ \E t \in Threads : Enter(t) \/ Refresh(t) \/ Read(t)
  \/ Restart
  \/ ReplaceArchive
  \/ Tick

Spec == Init /\ [][Next]_vars

-----------------------------------------------------------------------------
(* Properties.                                                              *)

Saving == {"open", "write", "vaultopen", "vaultwrite"}

TypeOK ==
  /\ clock \in Times
  /\ items \in Catalogs
  /\ lastRefresh \in Times \cup {None}
  /\ lastError \in BOOLEAN
  /\ retryAt \in Nat \cup {None}
  /\ source \in Sources
  /\ cache \in {None, Torn} \cup CacheFiles
  /\ archive \in 0..Archives /\ present \in BOOLEAN
  /\ dir \in [stamp : {None} \cup 0..Archives, holds : {None} \cup Catalogs]
  /\ pc \in [Threads -> Locked \cup {"idle", "read"}]
  /\ now \in [Threads -> Times \cup {None}]
  /\ print \in 0..Archives
  /\ tried \in Times \cup {None}
  /\ saved \in BOOLEAN

\* A process leaves the server alone for five minutes after each attempt,
\* whatever became of it, however many requests came meanwhile, and whichever
\* step of the fallback or of a save has failed.
AttemptsSpaced ==
  [][\A t \in Threads : pc[t] = "idle" /\ pc'[t] = "fetch" /\ tried # None =>
       clock - tried >= RetryDelay]_vars

\* The titles the archive brings are those of all of it, never of what an
\* interrupted extraction has left behind, and of the archive that was there
\* when the refresh looked for it, or of a newer one.
VaultIsCurrent ==
  \A t \in Threads : pc[t] \in {"vaultopen", "vaultwrite"} =>
    \E n \in print..archive : items = Vault(n)

\* A process that starts has the titles, their age and their source from the
\* one before it, unless that one's last save failed or was under way.
RestartKeepsCatalog ==
  saved /\ (\A t \in Threads : pc[t] \notin Saving) => Loaded(cache) = Memory

\* An answer with source_status "ok" has titles that were at most an hour old
\* when the request came.
OkIsFresh ==
  \A t \in Threads : pc[t] = "read" /\ Free /\ SourceStatus = "ok" =>
    lastRefresh # None /\ now[t] - lastRefresh <= MaxAge
=============================================================================
