---------------------------- MODULE QueueWorker ----------------------------
(***************************************************************************)
(* The install queue of the service: the queue_items and jobs tables        *)
(* (core/services/queue_service.py), the worker that drains them            *)
(* (apps/worker/runner.py), and the parts of apps/api/main.py that start,   *)
(* pause, stop and restart it.                                              *)
(*                                                                          *)
(* Every QueueService method runs in a session_scope of its own, so it is   *)
(* one atomic step, and the item row and the job row of one phase change    *)
(* are two steps between which another thread, a database error or the      *)
(* death of the process can fall.  A process of the model is a thread that  *)
(* runs _process_queue_item: a worker loop, or the API thread of one        *)
(* POST /api/install/{id}/execute request.                                  *)
(***************************************************************************)
EXTENDS Integers, Sequences, FiniteSets

CONSTANTS
  Items,        \* queue_items rows that may be added, by primary key
  JobIds,       \* jobs rows that may be created, by primary key
  Loops,        \* worker loop threads that may be alive at one time
  Requests,     \* API threads that serve /api/install/{id}/execute
  Starters,     \* API threads that serve /api/queue/start (or a bulk add)
  ForceFallback,\* the items whose preferred_mode is "fallback"
  EnvFallback,  \* ALLOW_FALLBACK of the environment
  None,         \* no item, no job, no thread
  MaxRestarts,  \* bound: how often the service process may end
  MaxDbErrors   \* bound: how many database operations may raise

ASSUME SetsAssumption ==
  /\ Loops \cap Requests = {}
  /\ None \notin Items \cup JobIds \cup Loops
  /\ ForceFallback \subseteq Items
  /\ EnvFallback \in BOOLEAN

ASSUME FiniteAssumption == IsFiniteSet(Items) /\ IsFiniteSet(JobIds) /\ IsFiniteSet(Loops)

ASSUME BoundsAssumption == MaxRestarts \in Nat /\ MaxDbErrors \in Nat

Procs == Loops \cup Requests

\* Item states the worker moves through while it holds the item, and the
\* whole enumeration; "ABSENT" stands for a row that does not exist yet.
ActiveStates == {"DOWNLOADING", "DOWNLOADED", "DECRYPTING", "WRITING_WFS", "VERIFYING"}
FinalStates == {"DONE", "FAILED"}
QueueStates == {"QUEUED", "FALLBACK_STAGED"} \cup ActiveStates \cup FinalStates
ItemStates == {"ABSENT"} \cup QueueStates

\* Mutant: an install that was being verified is not recovered.
InProgress_NoVerify == {"QUEUED", "DOWNLOADING", "DOWNLOADED", "DECRYPTING", "WRITING_WFS"}

\* The set recover_incomplete_jobs builds: FALLBACK_STAGED is not in it.
InProgressQueueStates == {"QUEUED"} \cup ActiveStates

JobStates == {"ABSENT", "RUNNING", "DONE", "FAILED"}

\* The phase a process is entering or in.  TICKET_ERROR is the early return
\* on an unusable ticket: it too stores FAILED, but one more event follows.
Stages == {"DOWNLOADING", "DOWNLOADED", "DECRYPTING", "FALLBACK_STAGED", "WRITING_WFS",
           "VERIFYING", "DONE", "FAILED", "TICKET_ERROR"}
EndStages == {"DONE", "FAILED", "TICKET_ERROR"}
StateOf_Raw(s) == s  \* mutant: the early return stores its own name
StateOf(s) == IF s = "TICKET_ERROR" THEN "FAILED" ELSE s

\* Program counters.  TryPcs lie inside the try block of _process_queue_item,
\* HandlerPcs in its except clause.
TryPcs == {"item", "job", "download", "ticket", "decide", "write", "event"}
HandlerPcs == {"xitem", "xjob", "xevent"}
JobPcs == TryPcs \cup HandlerPcs
Pcs == {"off", "head", "pick", "create"} \cup JobPcs

VARIABLES
  up,            \* the service process is alive and has finished startup
  running,       \* QueueWorker._running
  stopEvent,     \* QueueWorker._stop_event
  thread,        \* QueueWorker._thread: the loop started last
  starter,       \* Starters -> where start() is: "idle" or about to "spawn"
  pc, stage, cur, job,  \* Procs -> program counter, phase, item and job held
  istate,        \* Items -> queue_items.state
  order,         \* the items by queue_items.created_at
  jstate, jitem, \* JobIds -> jobs.state and jobs.queue_item_id
  allowFallback, \* the allow_fallback setting
  written,       \* history: the jobs whose write_download_result returned
  latePicks,     \* history: items picked since running last became FALSE
  restarts, dbErrors    \* counters for the bounds

worker == <<running, stopEvent, thread, starter>>
procs == <<pc, stage, cur, job>>
items == <<istate, order>>
jobs == <<jstate, jitem>>
counters == <<restarts, dbErrors>>
vars == <<up, worker, procs, items, jobs, allowFallback, written, latePicks, counters>>

-----------------------------------------------------------------------------

Alive(l) == pc[l] # "off"
ThreadAlive == thread # None /\ Alive(thread)
FreeJobs == {j \in JobIds : jstate[j] = "ABSENT"}

\* The service answers requests: it is up and its shutdown has not begun.
Serving == up /\ ~stopEvent

\* Bound on requests: a request may run an item again only while job ids
\* are left over for every item that still waits to be picked.
SpareJob ==
  Cardinality(FreeJobs) > Cardinality({i \in Items : istate[i] \in {"ABSENT", "QUEUED"}})
                          + Cardinality({p \in Procs : pc[p] = "create"})

Goto(p, l) == pc' = [pc EXCEPT ![p] = l]
Enter(p, l, s) == Goto(p, l) /\ stage' = [stage EXCEPT ![p] = s]

\* p is through with its item: a loop goes back to its head, a request ends.
Release(p) ==
  /\ Goto(p, IF p \in Loops THEN "head" ELSE "off")
  /\ cur' = [cur EXCEPT ![p] = None]
  /\ job' = [job EXCEPT ![p] = None]
  /\ UNCHANGED stage

\* An exception leaves _process_queue_item (or the query before it) in p.
\* Nothing in _loop catches it, so a worker thread ends; running stays TRUE.
Die(p) ==
  /\ Goto(p, "off")
  /\ cur' = [cur EXCEPT ![p] = None]
  /\ job' = [job EXCEPT ![p] = None]
  /\ UNCHANGED stage

AllOff ==
  /\ pc' = [p \in Procs |-> "off"]
  /\ stage' = [p \in Procs |-> "DOWNLOADING"]
  /\ cur' = [p \in Procs |-> None]
  /\ job' = [p \in Procs |-> None]

Init ==
  /\ up = TRUE
  /\ running = FALSE
  /\ stopEvent = FALSE
  /\ thread = None
  /\ starter = [s \in Starters |-> "idle"]
  /\ pc = [p \in Procs |-> "off"]
  /\ stage = [p \in Procs |-> "DOWNLOADING"]
  /\ cur = [p \in Procs |-> None]
  /\ job = [p \in Procs |-> None]
  /\ istate = [i \in Items |-> "ABSENT"]
  /\ order = <<>>
  /\ jstate = [j \in JobIds |-> "ABSENT"]
  /\ jitem = [j \in JobIds |-> None]
  /\ allowFallback = EnvFallback
  /\ written = {}
  /\ latePicks = 0
  /\ restarts = 0
  /\ dbErrors = 0

-----------------------------------------------------------------------------
(* Requests of the API.                                                     *)

AddItem(i) ==
  /\ Serving
  /\ istate[i] = "ABSENT"
  /\ istate' = [istate EXCEPT ![i] = "QUEUED"]
  /\ order' = Append(order, i)
  /\ UNCHANGED <<up, worker, procs, jobs, allowFallback, written, latePicks, counters>>

\* QueueWorker.start takes no lock: the liveness test and the spawn are two
\* steps, and two requests may both find the thread dead.
StartCheck(s) ==
  /\ Serving
  /\ starter[s] = "idle"
  /\ running' = TRUE
  /\ starter' = [starter EXCEPT ![s] = IF ThreadAlive THEN "idle" ELSE "spawn"]
  /\ latePicks' = 0
  /\ UNCHANGED <<up, stopEvent, thread, procs, items, jobs, allowFallback, written, counters>>

StartSpawn(s) ==
  /\ up
  /\ starter[s] = "spawn"
  /\ \E l \in Loops :
       /\ ~Alive(l)
       /\ thread' = l
       /\ Goto(l, "head")
  /\ stopEvent' = FALSE
  /\ starter' = [starter EXCEPT ![s] = "idle"]
  /\ UNCHANGED <<up, running, stage, cur, job, items, jobs, allowFallback, written, latePicks,
                 counters>>

Pause ==
  /\ Serving
  /\ running' = FALSE
  /\ latePicks' = 0
  /\ UNCHANGED <<up, stopEvent, thread, starter, procs, items, jobs, allowFallback, written,
                 counters>>

SetFallback(value) ==
  /\ Serving
  /\ allowFallback' = value
  /\ UNCHANGED <<up, worker, procs, items, jobs, written, latePicks, counters>>

\* execute_queue_item lists the items and takes the one asked for, whatever
\* state it is in and whoever works on it.
Execute(r, i) ==
  /\ Serving
  /\ pc[r] = "off"
  /\ istate[i] # "ABSENT"
  /\ SpareJob
  /\ Goto(r, "create")
  /\ cur' = [cur EXCEPT ![r] = i]
  /\ UNCHANGED <<up, worker, stage, job, items, jobs, allowFallback, written, latePicks, counters>>

-----------------------------------------------------------------------------
(* The worker loop up to the point where it holds an item.                  *)

\* Mutant: the loop does not test _running.
LoopHead_NoTest(l) ==
  /\ pc[l] = "head"
  /\ Goto(l, IF stopEvent THEN "off" ELSE "pick")
  /\ UNCHANGED <<up, worker, stage, cur, job, items, jobs, allowFallback, written, latePicks,
                 counters>>

LoopHead(l) ==
  /\ pc[l] = "head"
  /\ stopEvent \/ running
  /\ Goto(l, IF stopEvent THEN "off" ELSE "pick")
  /\ UNCHANGED <<up, worker, stage, cur, job, items, jobs, allowFallback, written, latePicks,
                 counters>>

\* Mutants: the query forgets its order, or filters after it took the first row.
OldestQueued_AnyOrder(n) == istate[order[n]] = "QUEUED"
OldestQueued_FirstRow(n) == n = 1 /\ istate[order[n]] = "QUEUED"

\* Position n of order holds the oldest item that is QUEUED.
OldestQueued(n) ==
  /\ istate[order[n]] = "QUEUED"
  /\ \A m \in 1..(n - 1) : istate[order[m]] # "QUEUED"

\* next_queued_item reads the oldest QUEUED row and does not claim it.
Pick(l) ==
  /\ pc[l] = "pick"
  /\ \E n \in 1..Len(order) :
       /\ OldestQueued(n)
       /\ cur' = [cur EXCEPT ![l] = order[n]]
  /\ Goto(l, "create")
  /\ latePicks' = IF running THEN latePicks ELSE latePicks + 1
  /\ UNCHANGED <<up, worker, stage, job, items, jobs, allowFallback, written, counters>>

\* Mutant: the loop ends with the last queued item.
PickNothing_Ends(l) ==
  /\ pc[l] = "pick"
  /\ \A n \in 1..Len(order) : istate[order[n]] # "QUEUED"
  /\ Goto(l, "off")
  /\ UNCHANGED <<up, worker, stage, cur, job, items, jobs, allowFallback, written, latePicks,
                 counters>>

PickNothing(l) ==
  /\ pc[l] = "pick"
  /\ \A n \in 1..Len(order) : istate[order[n]] # "QUEUED"
  /\ Goto(l, "head")
  /\ UNCHANGED <<up, worker, stage, cur, job, items, jobs, allowFallback, written, latePicks,
                 counters>>

-----------------------------------------------------------------------------
(* _process_queue_item.                                                     *)

CreateJob(p) ==
  /\ pc[p] = "create"
  /\ \E j \in FreeJobs :
       /\ jstate' = [jstate EXCEPT ![j] = "RUNNING"]
       /\ jitem' = [jitem EXCEPT ![j] = cur[p]]
       /\ job' = [job EXCEPT ![p] = j]
  /\ Enter(p, "item", "DOWNLOADING")
  /\ UNCHANGED <<up, worker, cur, items, allowFallback, written, latePicks, counters>>

\* Mutant: an early return without its update_job.
SetState_EarlyReturn(p) ==
  /\ pc[p] = "item"
  /\ istate' = [istate EXCEPT ![cur[p]] = StateOf(stage[p])]
  /\ IF stage[p] = "FAILED" THEN Release(p) ELSE Goto(p, "job") /\ UNCHANGED <<stage, cur, job>>
  /\ UNCHANGED <<up, worker, order, jobs, allowFallback, written, latePicks, counters>>

\* set_state of the phase p enters.
SetState(p) ==
  /\ pc[p] = "item"
  /\ istate' = [istate EXCEPT ![cur[p]] = StateOf(stage[p])]
  /\ Goto(p, "job")
  /\ UNCHANGED <<up, worker, stage, cur, job, order, jobs, allowFallback, written, latePicks,
                 counters>>

\* update_job of a phase that is not the last one.  It changes the phase, the
\* progress and nothing else of the row; then the work of the phase follows.
UpdateJob(p) ==
  /\ pc[p] = "job"
  /\ \/ stage[p] = "DOWNLOADING" /\ Enter(p, "download", "DOWNLOADING")
     \/ stage[p] = "DOWNLOADED" /\ Enter(p, "item", "DECRYPTING")
     \/ stage[p] = "DECRYPTING" /\ Enter(p, "ticket", "DECRYPTING")
     \/ stage[p] \in {"FALLBACK_STAGED", "WRITING_WFS"} /\ Enter(p, "write", stage[p])
     \/ stage[p] = "VERIFYING" /\ Enter(p, "item", "DONE")
  /\ UNCHANGED <<up, worker, cur, job, items, jobs, allowFallback, written, latePicks, counters>>

\* update_job of the last phase.
FinishJob(p) ==
  /\ pc[p] = "job"
  /\ stage[p] \in EndStages
  /\ jstate' = [jstate EXCEPT ![job[p]] = StateOf(stage[p])]
  /\ IF stage[p] = "TICKET_ERROR"
       THEN Goto(p, "event") /\ UNCHANGED <<stage, cur, job>>
       ELSE Release(p)
  /\ UNCHANGED <<up, worker, items, jitem, allowFallback, written, latePicks, counters>>

\* The error event the ticket path adds after its update_job.
TicketEvent(p) ==
  /\ pc[p] = "event"
  /\ Release(p)
  /\ UNCHANGED <<up, worker, items, jobs, allowFallback, written, latePicks, counters>>

\* The callback download_title makes on every chunk: set_state(DOWNLOADING),
\* whatever the item has become meanwhile, and an update_job of the progress.
Progress(p) ==
  /\ pc[p] = "download"
  /\ istate' = [istate EXCEPT ![cur[p]] = "DOWNLOADING"]
  /\ UNCHANGED <<up, worker, procs, order, jobs, allowFallback, written, latePicks, counters>>

DownloadDone(p) ==
  /\ pc[p] = "download"
  /\ Enter(p, "item", "DOWNLOADED")
  /\ UNCHANGED <<up, worker, cur, job, items, jobs, allowFallback, written, latePicks, counters>>

\* Ticket and content decryption: an unusable ticket is an early return.  A
\* content hash that does not match is only counted.
Decrypt(p) ==
  /\ pc[p] = "ticket"
  /\ \/ Enter(p, "item", "TICKET_ERROR")
     \/ Enter(p, "decide", "DECRYPTING")
  /\ UNCHANGED <<up, worker, cur, job, items, jobs, allowFallback, written, latePicks, counters>>

\* The phase that follows the analysis of the download.
NextStage(i, directPossible) ==
  IF i \notin ForceFallback /\ directPossible THEN "WRITING_WFS"
  ELSE IF allowFallback THEN "FALLBACK_STAGED" ELSE "FAILED"

Decide(p) ==
  /\ pc[p] = "decide"
  /\ \E directPossible \in BOOLEAN : Enter(p, "item", NextStage(cur[p], directPossible))
  /\ UNCHANGED <<up, worker, cur, job, items, jobs, allowFallback, written, latePicks, counters>>

\* write_download_result returned; a staged install is not verified.
WriteDone(p) ==
  /\ pc[p] = "write"
  /\ written' = written \cup {job[p]}
  /\ Enter(p, "item", IF stage[p] = "WRITING_WFS" THEN "VERIFYING" ELSE "DONE")
  /\ UNCHANGED <<up, worker, cur, job, items, jobs, allowFallback, latePicks, counters>>

\* Mutant: an exception of the write is swallowed and the install goes on.
Raise_Swallow(p) ==
  /\ pc[p] \in {"download", "ticket", "write"}
  /\ IF pc[p] = "write" THEN Enter(p, "item", "DONE") ELSE Goto(p, "xitem") /\ UNCHANGED stage
  /\ UNCHANGED <<up, worker, cur, job, items, jobs, allowFallback, written, latePicks, counters>>

\* The download, the decryption or the write raises: on to the except clause.
Raise(p) ==
  /\ pc[p] \in {"download", "ticket", "write"}
  /\ Goto(p, "xitem")
  /\ UNCHANGED <<up, worker, stage, cur, job, items, jobs, allowFallback, written, latePicks,
                 counters>>

\* Mutant: the except clause settles the job and forgets the item.
HandlerSetState_Skip(p) ==
  /\ pc[p] = "xitem"
  /\ Goto(p, "xjob")
  /\ UNCHANGED <<up, worker, stage, cur, job, items, jobs, allowFallback, written, latePicks,
                 counters>>

HandlerSetState(p) ==
  /\ pc[p] = "xitem"
  /\ istate' = [istate EXCEPT ![cur[p]] = "FAILED"]
  /\ Goto(p, "xjob")
  /\ UNCHANGED <<up, worker, stage, cur, job, order, jobs, allowFallback, written, latePicks,
                 counters>>

HandlerUpdateJob(p) ==
  /\ pc[p] = "xjob"
  /\ jstate' = [jstate EXCEPT ![job[p]] = "FAILED"]
  /\ Goto(p, "xevent")
  /\ UNCHANGED <<up, worker, stage, cur, job, items, jitem, allowFallback, written, latePicks,
                 counters>>

HandlerEvent(p) ==
  /\ pc[p] = "xevent"
  /\ Release(p)
  /\ UNCHANGED <<up, worker, items, jobs, allowFallback, written, latePicks, counters>>

\* A transaction raises (a locked database, a full disk) and is rolled back.
\* Inside the try block the except clause runs; anywhere else the exception
\* leaves the function and ends the thread or the request.
DbError(p) ==
  /\ dbErrors < MaxDbErrors
  /\ dbErrors' = dbErrors + 1
  /\ \/ pc[p] \in TryPcs /\ Goto(p, "xitem") /\ UNCHANGED <<stage, cur, job>>
     \/ pc[p] \in {"pick", "create"} \cup HandlerPcs /\ Die(p)
  /\ UNCHANGED <<up, worker, items, jobs, allowFallback, written, latePicks, restarts>>

-----------------------------------------------------------------------------
(* The life of the service process.                                         *)

\* The shutdown hook: requests have been answered, the loops are told to end.
Stop ==
  /\ Serving
  /\ restarts < MaxRestarts
  /\ \A r \in Requests : pc[r] = "off"
  /\ \A s \in Starters : starter[s] = "idle"
  /\ running' = FALSE
  /\ latePicks' = 0
  /\ stopEvent' = TRUE
  /\ UNCHANGED <<up, thread, starter, procs, items, jobs, allowFallback, written, counters>>

\* The process ends: killed, or after Stop, whose join waits two seconds at
\* most for a thread that is a daemon.
Exit ==
  /\ up
  /\ restarts < MaxRestarts
  /\ up' = FALSE
  /\ running' = FALSE
  /\ stopEvent' = FALSE
  /\ thread' = None
  /\ starter' = [s \in Starters |-> "idle"]
  /\ latePicks' = 0
  /\ AllOff
  /\ restarts' = restarts + 1
  /\ UNCHANGED <<items, jobs, allowFallback, written, dbErrors>>

\* Mutants: recovery takes every job, or only those whose item is in progress.
RunningJobs_All == {j \in JobIds : jstate[j] # "ABSENT"}
RunningJobs_ByItem ==
  {j \in JobIds : jstate[j] = "RUNNING" /\ istate[jitem[j]] \in InProgressQueueStates}

\* The jobs and items recover_incomplete_jobs rewrites.
RunningJobs == {j \in JobIds : jstate[j] = "RUNNING"}
Interrupted_AnyItem ==  \* mutant: without a look at the jobs
  {i \in Items : istate[i] \in InProgressQueueStates}

Interrupted ==
  {i \in Items : istate[i] \in InProgressQueueStates /\ \E j \in RunningJobs : jitem[j] = i}

\* startup(): bootstrap_defaults puts allow_fallback back to the environment's
\* value, recover_incomplete_jobs runs in one transaction, and a new
\* QueueWorker is built that is not started.
Startup ==
  /\ ~up
  /\ up' = TRUE
  /\ allowFallback' = EnvFallback
  /\ jstate' = [j \in JobIds |-> IF j \in RunningJobs THEN "FAILED" ELSE jstate[j]]
  /\ istate' = [i \in Items |-> IF i \in Interrupted THEN "FAILED" ELSE istate[i]]
  /\ UNCHANGED <<worker, procs, order, jitem, written, latePicks, counters>>

-----------------------------------------------------------------------------

\* What a process does by itself; Progress and the failures are apart.
Step(p) ==
  \/ CreateJob(p) \/ SetState(p) \/ UpdateJob(p) \/ FinishJob(p) \/ TicketEvent(p)
  \/ DownloadDone(p) \/ Decrypt(p) \/ Decide(p) \/ WriteDone(p)
  \/ HandlerSetState(p) \/ HandlerUpdateJob(p) \/ HandlerEvent(p)

LoopStep(l) == LoopHead(l) \/ Pick(l) \/ PickNothing(l)

Next ==
  \/ \E i \in Items : AddItem(i)
  \/ \E s \in Starters : StartCheck(s) \/ StartSpawn(s)
  \/ Pause
  \/ \E value \in BOOLEAN : SetFallback(value)
  \/ \E r \in Requests, i \in Items : Execute(r, i)
  \/ \E l \in Loops : LoopStep(l)
  \/ \E p \in Procs : Step(p) \/ Progress(p) \/ Raise(p) \/ DbError(p)
  \/ Stop
  \/ Exit
  \/ Startup

Spec == Init /\ [][Next]_vars

\* Threads that can run do run; every download, decryption and write ends (the
\* HTTP calls have timeouts, their retries are counted, files are finite); and
\* the container is restarted when its process ends (restart: unless-stopped).
\* Nobody is obliged to add an item, to start the worker or to fail.
Fairness ==
  /\ \A p \in Procs : WF_vars(Step(p))
  /\ \A l \in Loops : WF_vars(LoopStep(l))
  /\ \A s \in Starters : WF_vars(StartSpawn(s))
  /\ WF_vars(Startup)

FairSpec == Spec /\ Fairness

-----------------------------------------------------------------------------
(* Properties.                                                              *)

\* Every variable keeps to its type, and a process inside
\* _process_queue_item holds an item and, after create_job, a job.
TypeOK ==
  /\ up \in BOOLEAN
  /\ running \in BOOLEAN
  /\ stopEvent \in BOOLEAN
  /\ thread \in Loops \cup {None}
  /\ starter \in [Starters -> {"idle", "spawn"}]
  /\ pc \in [Procs -> Pcs]
  /\ stage \in [Procs -> Stages]
  /\ cur \in [Procs -> Items \cup {None}]
  /\ job \in [Procs -> JobIds \cup {None}]
  /\ istate \in [Items -> ItemStates]
  /\ order \in Seq(Items)
  /\ jstate \in [JobIds -> JobStates]
  /\ jitem \in [JobIds -> Items \cup {None}]
  /\ allowFallback \in BOOLEAN
  /\ written \subseteq JobIds
  /\ latePicks \in Nat
  /\ restarts \in 0..MaxRestarts
  /\ dbErrors \in 0..MaxDbErrors
  /\ \A p \in Procs :
       /\ pc[p] \in JobPcs => job[p] \in JobIds
       /\ pc[p] \in JobPcs \cup {"create"} => cur[p] \in Items

\* The recovery of a restart finds an interrupted item only through a RUNNING
\* job of it.  So an item in a phase recovery must settle always has one, in
\* whatever order the item and job writes of several threads interleave and
\* wherever an exception cuts them off.
ActiveItemHasRunningJob ==
  \A i \in Items :
    istate[i] \in ActiveStates => \E j \in JobIds : jstate[j] = "RUNNING" /\ jitem[j] = i

\* After startup no job is RUNNING and no item is in a phase that
\* recover_incomplete_jobs knows as in progress, except those that wait for
\* their first job and stay QUEUED.
RecoveryComplete ==
  [][~up /\ up' =>
       /\ \A j \in JobIds : jstate'[j] # "RUNNING"
       /\ \A i \in Items : istate'[i] \notin ActiveStates]_vars

\* The outcome of a job is written once: no late handler, second thread or
\* recovery turns DONE into FAILED or back, or gives the job to another item.
JobOutcomeFinal ==
  [][\A j \in JobIds :
       /\ jstate[j] \in FinalStates => jstate'[j] = jstate[j]
       /\ jstate[j] # "ABSENT" => jitem'[j] = jitem[j]]_vars

\* An item is DONE only if the write of some job of that item was completed,
\* and a job only if its own was.
DoneIsBacked ==
  /\ \A i \in Items :
       istate[i] = "DONE" => \E j \in written : jitem[j] = i
  /\ \A j \in JobIds : jstate[j] = "DONE" => j \in written

\* While the service is up and no transaction has failed, a RUNNING job
\* belongs to exactly one thread: none is left behind as RUNNING for ever.
NoOrphanJob ==
  up /\ dbErrors = 0 =>
    \A j \in RunningJobs :
      \E p \in Procs :
        /\ pc[p] \in JobPcs /\ job[p] = j /\ jitem[j] = cur[p]
        /\ \A q \in Procs \ {p} : job[q] # j

\* The worker serves the queue in the order of created_at: a loop that is
\* about to start an item has left no older one waiting.
OldestFirst ==
  \A l \in Loops, n \in 1..Len(order) :
    pc[l] = "create" /\ cur[l] = order[n] =>
      \A m \in 1..(n - 1) : istate[order[m]] # "QUEUED"

\* pause() is no barrier: a loop that has tested _running may still take an
\* item.  Until the next start that happens at most once per loop.
PauseBound ==
  ~running => latePicks + Cardinality({l \in Loops : pc[l] = "pick"}) <= Cardinality(Loops)

\* A queued item is taken, unless the worker is paused, dies or is restarted.
QueueDrains ==
  \A i \in Items :
    istate[i] = "QUEUED" ~>
      (istate[i] # "QUEUED" \/ ~running \/ \A l \in Loops : ~Alive(l))

\* A job that was started gets an outcome, through any number of restarts, if
\* no transaction fails.
JobsSettle == \A j \in JobIds : (jstate[j] = "RUNNING") ~> (jstate[j] \in FinalStates)

\* What the log line of startup says: a job that was interrupted is FAILED
\* with its item.
InterruptedItemsSettle ==
  [][~up /\ up' => \A j \in RunningJobs : istate'[jitem[j]] \in FinalStates]_vars

\* What /healthz, the status page and the queue page say as worker_running: a
\* loop is alive or about to be, through failed installs, pauses, requests that
\* start the worker at once and restarts.  The condition is the hazard: nothing
\* in _loop catches an exception of next_queued_item, create_job or the except
\* clause, so that a failed transaction ends the thread while running stays TRUE.
WorkerRunningIsAlive ==
  up /\ running /\ dbErrors = 0 =>
    (\E l \in Loops : Alive(l)) \/ (\E s \in Starters : starter[s] = "spawn")

Life == INSTANCE ItemLifecycle WITH
  item <- [i \in Items |-> IF istate[i] \in ActiveStates THEN "ACTIVE" ELSE istate[i]],
  job <- [j \in JobIds |-> IF jstate[j] = "RUNNING" /\ j \in written THEN "WRITTEN" ELSE jstate[j]],
  of <- jitem

\* The rows of items and jobs, written by several threads in transactions of
\* their own, keep the promises of ItemLifecycle through errors and restarts.
ImplementsLifecycle == Life!Spec

-----------------------------------------------------------------------------
(* The strengthening that makes the invariants above inductive.             *)

\* p is inside _process_queue_item and has created its job.
Held(p) == pc[p] \in JobPcs

\* A thread and its job belong to each other.  The job is RUNNING, but for the
\* ends of the error paths, where update_job has stored FAILED already.
Ownership ==
  \A p \in Procs :
    /\ ~Held(p) => job[p] = None
    /\ Held(p) => jitem[job[p]] = cur[p]
    /\ Held(p) =>
         \/ jstate[job[p]] = "RUNNING" /\ pc[p] \notin {"event", "xevent"}
         \/ jstate[job[p]] = "FAILED" /\ pc[p] \in {"event"} \cup HandlerPcs
    /\ \A q \in Procs : Held(p) /\ Held(q) /\ job[p] = job[q] => p = q

DownIsOff == ~up => \A p \in Procs : pc[p] = "off"

\* p has made its last write to the item; only its job is still to be settled.
PastItemWrite(p) == pc[p] = "xjob" \/ (pc[p] = "job" /\ stage[p] \in EndStages)

\* j is RUNNING and the thread that holds it, if one does, is going to write
\* to the item again.
Pending(j) ==
  jstate[j] = "RUNNING" /\ \A p \in Procs : Held(p) /\ job[p] = j => ~PastItemWrite(p)

\* Why ActiveItemHasRunningJob is not inductive: the RUNNING job of the item
\* may be about to end.  A pending one is not.
ActiveItemHasPendingJob ==
  \A i \in Items :
    istate[i] \in ActiveStates => \E j \in JobIds : Pending(j) /\ jitem[j] = i

\* A thread reaches VERIFYING or DONE only with its write behind it.
WriteBeforeDone ==
  /\ \A p \in Procs :
       pc[p] \in {"item", "job"} /\ stage[p] \in {"VERIFYING", "DONE"} => job[p] \in written
  /\ \A j \in written : jstate[j] # "ABSENT"

RunningIsHeld ==
  up /\ dbErrors = 0 => \A j \in RunningJobs : \E p \in Procs : Held(p) /\ job[p] = j

\* No row is there twice, and those of the queue and of a loop are there.
RowsOrdered ==
  /\ \A m, n \in 1..Len(order) : order[m] = order[n] => m = n
  /\ \A n \in 1..Len(order) : istate[order[n]] # "ABSENT"
  /\ \A l \in Loops : pc[l] = "create" => istate[cur[l]] # "ABSENT"

\* A worker that was told to end, or has ended, is not shown as running.
StopIsPaused == stopEvent \/ ~up => ~running

IInv == /\ TypeOK /\ Ownership /\ DownIsOff /\ ActiveItemHasPendingJob
        /\ WriteBeforeDone /\ DoneIsBacked /\ RunningIsHeld

=============================================================================
