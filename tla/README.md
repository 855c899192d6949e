# A verification project for wiiu-usb-rocket

The service downloads titles for a Wii U, decrypts them and writes them to a
USB disk with the console's WFS file system.  It is one Python process: a
FastAPI application (`apps/api/main.py`), one worker thread that drains an
install queue (`apps/worker/runner.py`), SQLite behind SQLAlchemy
(`core/db.py`), and a C++ engine over the vendored `wfslib`
(`native/wfs_core`).  The modules here model its core in TLA+, TLC checks them
on small instances, and TLAPS proves the most important properties for every
value of the constants.

Paths below are relative to the root of the repository.

## 1. Inventory

### Components, their state and their operations

| Component | State | Operations |
|---|---|---|
| **QueueWorker** `apps/worker/runner.py` | `_running`, `_stop_event`, `_thread`; per call of `_process_queue_item` the item, the job and the phase | `start`, `pause`, `stop`, `execute_queue_item`, `_loop`, `process_next`, `_process_queue_item` |
| **QueueService** `core/services/queue_service.py` | tables `queue_items`, `jobs`, `job_events` | `add_item`, `next_queued_item`, `set_state`, `create_job`, `update_job`, `add_event`, `recover_incomplete_jobs`; each one is one transaction |
| **DownloadService** `core/services/download_service.py` | the work directory of a title: `tmd`, `cetk`, `content/*.app`, `.partNN` files, the manifest | `download_title`, `_try_fetch_binary`, `_download_with_resume`, `_download_parallel_ranges` |
| **NUS parsing** `core/nus/*.py` | none | TMD and ticket parsing, fake tickets, `decrypt_app` (writes the `.dec` file) |
| **InstallAnalyzer** `core/services/install_analyzer.py` | none | `analyze`: direct install possible or not |
| **WriterEngine** `core/services/writer_engine.py` | `file_written` events | `write_download_result`, `deinstall_title` |
| **WFS adapter** `core/services/wfs_adapter.py` | the engine object, the attached device | `attach`, `detach`, file operations, `flush`, `integrity_check` |
| **Native engine** `native/wfs_core` | the open device with its block cache | the same, on `wfslib` |
| **DiskService** `core/services/disk_service.py` | table `disk_attachments` | `scan_usb_disks`, `attach_device`, `restore_runtime_attachment` |
| **HealthService** `core/services/health_service.py` | none | `evaluate`: may an install start |
| **SettingsService**, common key `core/services/settings_service.py`, `core/config.py` | table `settings`, `WIIU_COMMON_KEY` in the environment | `bootstrap_defaults`, `bootstrap_common_key_env`, set and clear |
| **CatalogService** `core/services/catalog_service.py`, `core/catalog` | table of titles, cache file, next retry time | `refresh_if_needed`, `force_refresh`, `query`, `lookup` |
| **API lifecycle** `apps/api/main.py` | the service objects | startup (bootstrap, recovery, attachment), shutdown, requests |
| **Launcher, scripts, vendored code** | | command lines around docker and HTTP; `third_party` |

### How they interact

* API threads (one per request, FastAPI's thread pool) and the worker thread
  call the same service objects.  There is no lock around the queue, the worker
  flags, the adapter's handle or a work directory.
* The worker and `POST /api/install/{id}/execute` both run
  `_process_queue_item`: two threads can work on one item.
* `download_title` calls back on every chunk and the callback writes to the
  database (`runner.py:104`).
* Installs, deinstall requests, attach requests and the readiness check all use
  the one engine handle.
* The process is restarted by docker (`restart: unless-stopped`); the database,
  the work directories and the disks outlive it, the thread flags, the handle
  and the block cache do not.

### What is hard, and what makes each component right

* *Queue and worker*: an item row and its job row are written in two
  transactions, by several threads, with a crash or a database error anywhere.
  Right means: recovery finds whatever a restart interrupts; outcomes are
  written once; DONE means written; the queue is served in order and drains.
* *One file*: responses that break off, servers without ranges, range workers
  that fail apart from each other, a process that ends while parts are joined.
  Right means: the file is always a prefix of the server's, a call that
  succeeds leaves all of it, and every call returns.
* *One title*: several installs of it in one work directory, files of earlier
  installs that are resumed, metadata that is removed because it is too small, a
  generated ticket in the place of the real one, contents fetched in ranges that
  end at the size in their TMD record, records whose length has to be guessed.
  Right means: an install goes on with whole files, or with files that end
  exactly at their record, and a direct install is one whose contents are all
  there, decrypted and unaltered.
* *Writing*: caches, flushes, an exchange of the disk or a removal under a
  running install, two jobs of one title in one work directory.  Right means:
  nothing is written in a dry run or before the first write is confirmed, and
  what is reported as installed or removed is so on the medium.
* *Attachment*: requests that open a disk and record it in two steps, beside
  each other, with a transaction that may fail.  Right means: the recorded disk is
  the open disk again as soon as one request has done both undisturbed.
* *Catalog*: a cache that is overwritten in place, an archive that is extracted
  in place, a server that fails.  Right means: a restart keeps titles, age and
  source; nothing half-extracted is shown; "ok" means fresh; a server that fails
  is asked again only after the retry time.
* *Settings and readiness*: the common key is in the table and in the
  environment, the disk in the adapter and in the table.  Right means: safety
  switches come back to the environment's values at startup, the next process
  uses the key this one does, and a queue that is let start finds a key, a disk
  and a backend it can write to.

`PROJECT.json` lists the hazards at their lines.

## 2. Plan

| Order | Module | Status |
|---|---|---|
| 1 | `QueueWorker`: queue, worker, recovery | modelled, checked, proved |
| 2 | `WfsInstall`: decryption files, writer, attachment, native engine | modelled, checked, proved |
| 3 | `DownloadFile` and its abstract specification `FileFetch` | modelled, checked, proved |
| 4 | `TitleDownload`: all installs of a title over what `DownloadFile` shows of one file and one call; `FileFetch` once more, for every file | modelled, checked, proved |
| 5 | `CatalogRefresh`: lock, cache, archive, retry time | modelled, checked, proved |
| 6 | `Readiness`: startup, common key, disk and the start of the queue | modelled, checked, proved |
| 7 | `TmdRecords`: the guess of the record length, as functions against what was written; `TmdParser`: the parser as it is called | modelled, proved; the finding checked |
| 8 | `ItemLifecycle`: what the queue promises of an item and a job, with `QueueWorker` as its implementation | modelled, checked, proved |

Open: the composition of `TitleDownload` with `WfsInstall`, which meet in the
work directory (`TitleDownload` ends where the `.dec` files of `WfsInstall`
begin).

## 3. The modules

### QueueWorker and ItemLifecycle

State: `up` and the worker's flags (`running`, `stopEvent`, `thread`); `starter`
for the two steps of `start()`; for each thread that can run
`_process_queue_item` its program counter, phase, item and job; the item and job
rows (`istate`, `order`, `jstate`, `jitem`); the `allow_fallback` setting.
`written` and `latePicks` are history variables for the properties.

| Actions | Code |
|---|---|
| `AddItem`, `StartCheck`/`StartSpawn`, `Pause`, `SetFallback`, `Execute` | requests; `start()` tests the thread and spawns it in two steps, because it takes no lock |
| `LoopHead`, `Pick`, `PickNothing` | `_loop` and `process_next`: the query does not claim the row |
| `CreateJob`, `SetState`, `UpdateJob`, `FinishJob`, `TicketEvent` | the transactions of a phase, each its own step |
| `Progress`, `DownloadDone`, `Decrypt`, `Decide`, `WriteDone` | the callback and the work of the phases |
| `Raise`, `HandlerSetState`, `HandlerUpdateJob`, `HandlerEvent`, `DbError` | exceptions, the `except` clause, and a transaction that fails there too |
| `Stop`, `Exit`, `Startup` | shutdown, the death of the process, `bootstrap_defaults` and `recover_incomplete_jobs` |

`ItemLifecycle` is what those who look at the rows rely on, without threads,
phases or error paths: an item changes only under a job of its own without an
outcome (or when a failed job's error is stored once more), is DONE only after
such a job has written it, is left in progress only to another job, and a restart
settles what was under way and nothing else.  `QueueWorker` implements it (`Life
== INSTANCE ItemLifecycle WITH ...`, property `ImplementsLifecycle`): the phases
of an install are one state there, and a job that has returned from its write is
"WRITTEN".

Abstractions: what a download, a decryption and a write do is a nondeterministic
outcome (the other modules model it); `created_at` order is commit order; events,
progress numbers, messages and error codes are left out; the readiness check only
restricts when a worker may be started (`Readiness`).

### WfsInstall

State: the engine's open disk `handle`, the recorded one `record`; for each disk
the files as the open handle sees them (`view`) and as they are on the medium
(`durable`); the decrypted files of each title's work directory (`local`), for
each job where it is and what it has hashed and read; removals and attach
requests.  A file is absent, blank (created with its size), partial or full.
`opener` and `recorder` remember which attach request was the last to open a disk
and which the last to record one.  `disturbed` records which installs and removals another thread interfered with:
the properties hold for the others, and say which interferences matter.

| Actions | Code |
|---|---|
| `DecryptOpen`, `DecryptClose`, `Hash` | the decryption loop of `_process_queue_item`: truncate, fill, hash the file |
| `PassGate` | the settings `write_download_result` reads once |
| `CreateFile`, `ReadLocal`, `WriteFile`, `CheckHash`, `FlushFiles`, `Report` | its loop, call by call; `write_stream` looks the path up again |
| `Fail`, with `WriteBreaks` | an operation that raises; a failed or short write leaves some of its bytes in the file |
| `DeinstallBegin`, `DeinstallTree`, `DeinstallFlush` | `deinstall_title` |
| `AttachOpen`, `AttachRecord`, `AttachDbError` | `attach_device`: the native attach and the transaction are two steps |
| `CheckReadiness` | the flush with which `evaluate` probes the handle |
| `DeinstallFail`, `Exit`, `Startup` | an error of a removal; the death of the process, where any part of the cache may have reached the medium; `restore_runtime_attachment`, with or without `WIIU_DISK` (`EnvDisks`) |

Abstractions: a native call is one step (the bindings do not release the
interpreter lock); attaching the disk that is open already gives the same view
(a second cached view of one medium is not modelled); the simulated adapter and
the dry run of a removal, which changes nothing, are left out.  `attach_device`
detaches a disk again whose verification is reported as false, but no backend
reports that: the native attach raises before it returns, and so leaves the disk
that was open.  The branches are never taken and have no action.  Cutting the
decrypted file to the size of its record is part of `DecryptClose`: until then the
file is as wrong as while it is written.  The artifacts that are passed on as they
are (`tmd`, `cetk`, a content without a record) go through the same loop of the
writer and are not among `Files`, nor is the third branch of `_target_path`, which
only a manifest with relative target paths reaches.  An install that is still
downloading touches no `.dec` file and does not count as interference.

### DownloadFile and FileFetch

One file of a title.  State: the version the server has, the file `dest`, its
`.partNN` files, the call's program counter, each range worker's, the position in
the response.  A byte is the version it comes from and its position.

| Actions | Code |
|---|---|
| `Call` | `existing_size` and the decision for parallel ranges |
| `ClearParts`, `WorkerRequest`, `WorkerChunk`, `WorkerEnd`, `Join`, `Concat`, `ParallelError`, `Cleanup`, `Discard` | `_download_parallel_ranges` with its workers, retries, `finally` clause and the caller's fallback |
| `RequestBeyond`, `RequestRest`, `RequestAll`, `Chunk`, `StreamEnd`, `StreamError` | 416, 206, 200, the body, errors |
| `Exit`, `Update` | the process ends; the server gets a new version |

`Span` and `Start` give the ranges of `_split_ranges` in closed form;
`SplitLoop` is the loop of the code, round by round, and `SplitIsLoop` compares
the two.

`FileFetch` is what callers rely on: the file grows byte by byte or is started
over, does not change between calls, and is complete when a call succeeds, until
the server replaces it.  `DownloadFile` implements it (`Fetch == INSTANCE
FileFetch WITH ...`, property `ImplementsFetch`).

Abstractions: a response that ends before its announced length is noticed by the
HTTP client; the server is updated between responses, not within one; one call of
a file at a time; an `unlink` that fails leaves the file, as in the code.

### TitleDownload

All installs of one title, in its one work directory.  State: the files and their
blocks (block `k` of what the mirror serves is the number `k`, a block of a
generated ticket is 0, a hole in a sparse file -1); for each install where it is,
the files it still has to fetch and for what, the local variables of
`_download_with_resume`, the ranges whose workers are through, and what it has
found: the artifacts, whether the TMD
parsed, the ticket and whether it says it was generated.  `parts` has the
ranges of a file that are whole in their `.partNN` files, which installs share as
they share the file; `loose` the installs whose open file has been unlinked.  History: `spoiled`, the files two
calls worked on at a time or a generated ticket went to; `alone`, the installs no
other one ran beside; `call`, how the last call for the file `Watched` ended.

| Actions | Code |
|---|---|
| `Start` | `_try_fetch_json`: a manifest with files, or else `tmd` and `cetk` |
| `Stat` | `existing_size` and the choice between ranges and a single stream; the parts that were left are removed |
| `RangeTry`, `RangeDone`, `JoinOpen`, `JoinPart`, `JoinEnd`, `RangesFail` | `_download_parallel_ranges`, and the caller's comparison of the size and fallback |
| `RequestBeyond`, `RequestRest`, `RequestAll`, `Chunk`, `StreamEnd`, `StreamError` | the single stream |
| `DropSmall`, `SmallFails` | `_try_fetch_binary`: what is too small is unlinked |
| `Take` | `_materialize_manifest` and the loop over the contents: `stat`, hash, artifact |
| `ParseTmd`, `ReadTicket`, `MakeTicket`, `NoTicket` | the rest of `download_title` |
| `Prepare`, `Fail` | the decryption with its hashes and the analyzer; an error that is not caught |
| `Exit` | the process ends; the files stay |

Contents come with the size in their record, and a file of a manifest with the
size there, if it has one (`Sized`); one of at least `ParallelMin` is fetched in
ranges when nothing of it is there yet.  Ranges end at that size (`Expected`).
Where the server has more, because a record names the size without the padding,
the call returns a file that is cut off, and `download_title` goes on with it; a
later install that resumes it has all of it.  `MaySettleFor` is what a call may
return with: the whole file, or exactly the expected size.  The decryption cuts to
the size in the record too, so that the hash holds for either (`Matches`), and it
raises when what was cut off is no multiple of an AES block (`CanDecrypt`).

Abstractions: one block is one range, a worker's attempts are `RangeTry` any
number of times (their limit is in `DownloadFile`), and a part two calls write to
is whole or has a hole; the server does not change (`DownloadFile` has an update);
`allow_fake_tickets` is read by each install and may be set between two, so that
`MakeTicket` and `NoTicket` are both possible; the title that is not in a manifest
and has no metadata is a placeholder file and needs no state; parsing a damaged
TMD may succeed or fail.

### TmdRecords and TmdParser

`_parse`, `_parse_records` and `_score_records` as functions over the words of a
file, and `Encode`, which writes records in one of the two layouts with anything
behind them.  `WellFormed` says what a TMD is: indexes in order, ids below 2^24,
sizes the parser takes for reasonable, any words as hashes, up to 65535 contents.
`Understood` says that it is read with the ids, indexes and sizes that were
written, and the hash in front; one with the longer records is read with that
length.  That it holds of every well-formed TMD is a theorem.

`TmdParser` has the parser as `download_title` calls it, one title after the
other: `Parse` settles for a reading and its record length, `Reject` raises
`TmdError` for a file that is too short for what it counts.

The exceptions are `Misleading` hashes; neither can be left out.  In the 0x24 layout (`LooksLong`): the first word of the second record's
hash, or the fourth of the third's, starts with what could be an index, so that
the longer reading scores as much.  In the 0x30 layout (`LooksShort`): a content
is empty, and a hash has its index at a place where the shorter reading looks
for one.  Hashes of real files are spread evenly, so that both take a
coincidence of 16 bits.  A 0x24 file that is read as 0x30 with the same
ids, indexes and sizes is as good, because the decryption compares the SHA-1 with
the first 20 bytes of a longer hash.

### CatalogRefresh

State: the fields of `CatalogService`, the cache file (none, torn, or what was
saved), the archive, the extraction directory with its stamp, each request's
program counter and its `now`, and the clock.

| Actions | Code |
|---|---|
| `Enter`, `Read`, `Leave` | `refresh_if_needed` and `query` with their two rounds of the lock |
| `FetchOk`, `FetchFails` | `_refresh_locked` |
| `Open`, `Write`, `WriteFails`, `VaultOpen`, `VaultWrite` | `_save_cache_to_disk`: `write_text` truncates and then writes |
| `Vaulted`, `Clear`, `Extract`, `Stamp`, `Parse`, `VaultFails` | `load_vault_catalog` and the handlers around it |
| `Restart`, `ReplaceArchive`, `Tick` | a new process loads the cache; the user; time |

Abstractions: a feed is a version of a list, an archive with entries is a
version, a half-extracted one is `Partial`; a new archive never has the size and
time of modification of an earlier one, which is what its fingerprint assumes;
searching is a function of the titles.

What the model shows and no property says, because no document says otherwise: a
200 with an empty list empties the catalog; titles from the archive count as
refreshed now; after a restart they are answered with "ok" and the source
"vault"; when the list has come but cannot be saved, the archive replaces it; a
torn cache file is an empty catalog.

### Readiness

State: the common key as the container gave it, in `os.environ` and in the table;
the backend and the switches; the disk the adapter has open and the one on
record; each request's program counter and argument.  History: `own` (the
environment still has the container's value), `calm` (the evaluations no write of
another request has disturbed), `mixed` (what two requests wrote at a time).

| Actions | Code |
|---|---|
| `Restart` | `startup`: defaults, key, `build_wfs_adapter`, attachment, with any environment |
| `SetStored`/`SetEnv`, `ClearStored`/`ClearEnv` | `set_common_key`, `clear_common_key`: the table first, then the environment |
| `AttachOpen`, `AttachRecord`, `AttachDbError` | `attach_device` |
| `CheckKey`, `CheckRecord`, `CheckRuntime`, `Answer` | `evaluate`, check by check, and the start it lets through |

The exceptions in the properties are the code's: a container whose value is no
key keeps it in the environment while a stored key counts as available
(`common_key_source` says "stored", `load_common_key` raises); two requests that
set and clear at once leave the two places different.  The form that adds items in
bulk (`apps/api/main.py:558`) may start the worker without an evaluation;
`QueueWorker` lets a start happen at any time.

## 4. The runs

| Run | Question | Instance |
|---|---|---|
| `QW_overlap` | Do the item and job rows stay consistent and keep the promises of `ItemLifecycle`, and is a worker that is shown as running alive, when the loop and an execute request work on one item, with a restart and a failed transaction anywhere? | 1 item, 3 jobs, 1 loop, 1 request, 1 restart, 1 database error |
| `QW_order` | Is the queue served in order, and what does a pause guarantee, with two start requests racing? | 2 items, 2 loops, 2 starters |
| `QW_live` | Is every queued item taken, and does every job get an outcome? | 2 items, 1 loop, 2 restarts |
| `QW_staged` | (violated) Is an interrupted item settled? | 1 restart during a staged write |
| `WI_disks` | Do the gate, a removal and a reported install hold over two disks, and is the recorded disk the open one, when attach requests overlap and fail? | 1 install of 2 files, 1 removal, 2 attach threads, 1 exit, 1 failed transaction, restart with or without `WIIU_DISK` |
| `WI_overlap` | (violated) Is a `file_written` event true when two jobs of one title share a work directory? | 2 installs of 1 title |
| `DF_file` | Does a download keep the promises of `FileFetch` and return, and are the ranges those of the loop in the code? | 3-byte file with a 4-byte second version, `expected_size` 3, 2 workers, 2 attempts; ranges of sizes up to 12 in up to 5 parts |
| `TD_title` | Does an install go on with files that are whole or end at their record, is a direct one decrypted, and does the content keep the promises of `FileFetch`? | 2 installs, 1 content of 2 blocks whose record has 1, fetched in ranges or not, minimum sizes 1, with and without a manifest |
| `TD_fake` | (violated) Does an install know that its ticket was generated? | 1 thread, one install after the other, real ticket longer than the generated one |
| `TP_records` | (violated) Is every record treated as one of 36 bytes? | TMDs of 1 to 3 contents with records of either length, with and without certificates behind them, and one that is cut off |
| `CR_cache` | Does a restart keep the catalog, is "ok" fresh, is the archive shown whole, are attempts spaced? | 2 requests, 2 lists, 2 archives, retry after 2, age 3, time to 7 |
| `RD_start` | Does the next process use this one's key, and can a queue that is let start install? | 2 requests, 2 keys, 2 disks, any number of restarts |

Why the bounds are enough to see the interesting cases: the races need two
threads on one item, title, disk or key, which every overlap run has; recovery
needs one restart at any step and, for what a second recovery may do, two
(`QW_live`; the other modules restart without a bound); order needs two items; "a
part of the files" needs two files; a gap or a double byte needs two ranges and a
retry, or a file of two blocks that is resumed or cut off at its record; that
installs and removals of other titles do not interfere is `InstalledWhenReported`
of the proofs, for any titles and jobs; an old, a current and a
half-extracted archive need two versions; the time of `CR_cache` has room for a
refresh, its age and a retry.  Counters are bounded by constants that the modules
name as bounds (`MaxRestarts`, `MaxDbErrors`, `MaxExits`, `MaxVersion`,
`MaxTime`, `Archives`); `SpareJob` bounds execute requests by the job ids that are
left.  `WI_*` switches deadlock checking off: once every install, removal and exit
of the instance is used up, a system without requests stands still.  Symmetry is
used in safety runs only.

### Fairness

`QW_live`: the threads of the worker run (weak fairness for each), a container
whose process ended is restarted, and each download, decryption and write ends,
because HTTP calls have timeouts, retries are counted and files are finite.
Nobody has to add, start, pause or fail anything, and `DbError` is not in these
runs: with one, a job can stay RUNNING until the next restart.  `DF_file`: each
range worker, the call that waits for them and the single stream run; servers
answer or time out.  A new call or an update is never forced.  The other modules
state safety only: nothing promises that a mirror ever answers.

### Findings

Each is the violated run of its name.

* `QW_staged`: `recover_incomplete_jobs` does not know `FALLBACK_STAGED`; an item
  interrupted during a staged write keeps that state for ever.
* `WI_overlap`: the hash of an artifact says nothing of the bytes that were
  written when two jobs share a work directory.
* `TD_fake`: a ticket that was generated because the request for the real one
  failed is stored in its place, and the next install goes on with it as a real
  one, although the generator's documentation says it is never activated on the
  official server.  In the trace the next request resumes behind the generated
  ticket and the end of the real one is appended to it; where the real one is no
  longer, the server answers 416, to the same effect.
* `TP_records`: `CHECK.md` says that every content record is treated as exactly 36
  bytes long; the parser reads the records with 48 and with 36 bytes, takes the
  reading with the better score, and the longer one on a tie.

What properties state as a condition, because no document promises more:

* `max_parallel_installs` is read nowhere; the loop and every execute request
  install at the same time.
* An exception of a transaction outside the `try` block ends the worker's thread
  while `worker_running` stays true (condition of `WorkerRunningIsAlive`).
* Two attach requests that overlap can record one disk and leave the other open,
  and a transaction that fails leaves the new disk open under the old record.
  Both are in the run: `ActiveDiskIsOpen` says what puts them right again, namely
  the first request that was the last to open and the last to record
  (`mixed` of `Readiness`).
* A resumed download mixes two versions of a file when the server gets a new one
  (`DownloadFile` keeps its promises until then).
* A parallel download stops at `expected_size`, so that `ReturnedIsWhole` and
  `ImplementsFetch` need a size that is not short of the file.  `TitleDownload` has
  records that are short: `ResultIsWhole`, `DirectIsDecrypted` and
  `WatchedImplementsFetch` say that the file then ends exactly there.
* Two calls for one file at a time may leave anything in it (`spoiled`), and a
  hash that does not match is counted, not acted on: the install is written.
* A DONE item that the progress callback of another thread makes DOWNLOADING again
  is no violation of `DoneIsBacked`, which is about items that are DONE;
  `ImplementsLifecycle` and `ActiveItemHasRunningJob` say that it happens under a
  job of the item that recovery will find.

## 5. The proofs

Each `...Proofs` module (but `ItemLifecycleProofs`, which goes on from
`QueueWorkerProofs`) proves its module's `IInv` inductive, for any number of
items, jobs, threads, disks, titles, files, bytes, workers, retries, restarts
and errors, and derives the rest from it.

* `QueueWorkerProofs`: `TypeOK`, `ActiveItemHasRunningJob`, `DoneIsBacked`,
  `NoOrphanJob`, `RecoveryComplete`, `JobOutcomeFinal`, `OldestFirst`,
  `PauseBound`, `WorkerRunningIsAlive`.
  `ActiveItemHasRunningJob` alone is not inductive: the RUNNING job of an item
  may be about to end.  `ActiveItemHasPendingJob` says that there is one whose
  holder, if it has one, still has to write to the item; `Ownership` says that a
  thread and its job belong to each other, `WriteBeforeDone` that a thread gets
  to DONE only past its write, `RowsOrdered` that the queue has each row once,
  `StopIsPaused` that a worker that was told to end is not shown as running.
* `ItemLifecycleProofs`: `QueueWorker` implements `ItemLifecycle`
  (`LifecycleRefinement`).  A job may end while its item is in progress only if
  another one goes on with it, which is what `ActiveItemHasPendingJob` gives; that
  a job is begun only for a row that is there needs `Taken`, and with it the order
  of the queue.
* `WfsInstallProofs`: `TypeOK`, `GateHolds`, `ReportedIsInstalled`,
  `RemovedIsGone` and `ActiveDiskIsOpen`, for any number of attach requests,
  overlapping and failing ones included (`DiskHeld`: a request between its two
  steps that was the last to open has its disk open).  The invariant follows an undisturbed install from its
  decrypted files (`DecryptedFull`) over what it has written (`WrittenFull`) to
  what is flushed (`FlushedFull`), and a removal over the trees it has deleted
  (`DeletedGone`); `Undisturbed` says who may have been beside it, `PastGate`
  that writers got past the gate of this run of the process.
  `EventTrueWhenAlone` is the other side of the finding of WI_overlap: the
  `file_written` event of an undisturbed install names the hash of the whole
  artifact, and the file on the open disk is the whole artifact
  (`EventIsTrueAlone`, which is no property of a run).
* `DownloadFileProofs`: `TypeOK`, `PrefixKept`, `ReturnedIsWhole`, `SplitIsLoop`, and that
  `DownloadFile` implements `FileFetch` (`Refinement`, under the assumption that
  an `expected_size` that is used for ranges is not short of the file).  It rests
  on `SplitCovers`: the ranges of `_split_ranges` follow each other without a gap
  for any size and any number of parts.  `SplitClosedForm` proves by induction
  over the rounds that the loop in the code has built just these after every
  round (`NatSetInduction` states induction for a set in place of a predicate,
  which the provers can instantiate).  The invariant says that every part has
  bytes of its place only, those left behind by a dead process too
  (`PartsRight`), that finished workers leave whole parts (`WorkersDone`), and
  that a response goes on where the file ends (`Joining`, `Resuming`).
  `CallAlwaysEnds` is the part of `CallReturns` a prover can have: every step of a
  call, failures and fallbacks included, gets it to a later stage, or leaves less
  to do for a worker, to join or to read, in natural numbers (`CallEnds`), so that
  no call can go on for ever.  That a step is always possible, and taken, is what
  the run adds.
* `TmdRecordsProofs`: a well-formed TMD that is not misleading is understood
  (`RecordsAreUnderstood`), whatever its length and its hashes.  The reading in
  the layout it was written in scores the most each record can bring
  (`WrittenScore`); `SumGap` compares the sums.  The longer reading of a short file
  loses something at the second or third record (`ShortRight`; `SingleShort` has
  the file with one record, which may be read as a long one), the shorter reading
  of a long file has the wrong index wherever it could gain something
  (`LongRight`); what has been written is read back by `ReadBack`.
* `TitleDownloadProofs`: `TypeOK`, `UnspoiledIsPrefix`, `ResultIsWhole`,
  `DirectIsDecrypted`, and that every file implements `FileFetch` until it is
  spoiled (`FileRefinement`; `Watched` is any file), under the assumption that
  the server's metadata files are not below the minimum sizes.  Records may be
  short of the file or beyond it.  `CallInv` says that one call at a time works on
  an unspoiled file and knows its length, so that what it appends is what
  follows, and that the parts it joins are those it has fetched; `Phase` says what
  an install has fetched when it is past a file, and `Alone` that while no other
  install runs nothing of it gets lost.
* `CatalogRefreshProofs`: `TypeOK`, `VaultIsCurrent`, `RestartKeepsCatalog`,
  `OkIsFresh`, `AttemptsSpaced`.  `LockInv` says that one request is in a refresh,
  `DirInv` that a stamp of the current archive comes with all of its entries,
  `TimeInv` how the last attempt, the retry time and the last refresh are related.
  The assumption is that a catalog ages for longer than the retry time (60 and 5
  minutes by default): a shorter `catalog_refresh_minutes` would space attempts
  after a success by itself.
* `ReadinessProofs`: `TypeOK`, `RestartKeepsKey`, `ReadyCanInstall`.  `KeyInv` and
  `DiskInv` say how far the two places of the key and of the disk are apart while
  a request is between its two writes, `CalmInv` what an evaluation still knows of
  the checks it has passed.

The assumptions are the named `ASSUME`s of the modules: the sets of identifiers
are disjoint or finite where the code's primary keys are, bounds are natural
numbers, settings are in the range the code accepts.

Model-checked only: the liveness properties `QueueDrains`, `JobsSettle` and
`CallReturns`, because fairness and `ENABLED` are out of the prover's reach.

## 6. What is not modelled

* The cipher, key derivation, byte offsets, page templates and the parsing of a
  catalog feed: data or layout.
* Scanning block devices, listing titles, lookups and read-only requests: they
  change nothing.  `force_refresh`, `detach_active` and `remove_title` have no
  caller in the service.
* `enable_downloads`: the service stores it, and only a page template reads it.
* The files of the simulated backend and the dry run of a removal.
* The launcher and the scripts: command lines without a state of their own.
* `wfslib` (under `third_party`) is external: the model has what
  `wfs_core_engine.cpp` relies on, namely that a device caches writes until it is
  flushed or closed.
