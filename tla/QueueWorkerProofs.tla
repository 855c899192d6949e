------------------------- MODULE QueueWorkerProofs -------------------------
(* Proofs about QueueWorker, for any sets of items, jobs and threads. *)
EXTENDS QueueWorker, FiniteSetTheorems, TLAPS

USE DEF worker, procs, items, jobs, counters

-----------------------------------------------------------------------------
(* Type correctness.                                                        *)

LEMMA InitType == Init => TypeOK
  <1> SUFFICES ASSUME Init PROVE TypeOK
    OBVIOUS
  <1>1. order \in Seq(Items) BY DEF Init
  <1>2. EnvFallback \in BOOLEAN BY SetsAssumption
  <1>3. \A p \in Procs : pc[p] \notin JobPcs \cup {"create"}
    BY DEF Init, JobPcs, TryPcs, HandlerPcs
  <1>4. pc \in [Procs -> Pcs] /\ stage \in [Procs -> Stages]
    BY DEF Init, Pcs, Stages
  <1>5. istate \in [Items -> ItemStates] /\ jstate \in [JobIds -> JobStates]
    BY DEF Init, ItemStates, JobStates
  <1>6. /\ cur \in [Procs -> Items \cup {None}]
        /\ job \in [Procs -> JobIds \cup {None}]
        /\ jitem \in [JobIds -> Items \cup {None}]
        /\ starter \in [Starters -> {"idle", "spawn"}]
    BY DEF Init
  <1>7. /\ thread \in Loops \cup {None}
        /\ written \subseteq JobIds
        /\ latePicks \in Nat
        /\ restarts \in 0..MaxRestarts
        /\ dbErrors \in 0..MaxDbErrors
    BY BoundsAssumption DEF Init
  <1>8. /\ up \in BOOLEAN /\ running \in BOOLEAN /\ stopEvent \in BOOLEAN
        /\ allowFallback \in BOOLEAN
    BY <1>2 DEF Init
  <1> QED
    BY <1>1, <1>3, <1>4, <1>5, <1>6, <1>7, <1>8 DEF TypeOK

\* A process inside _process_queue_item holds an item and a job.
LEMMA Holds ==
  ASSUME TypeOK, NEW p \in Procs, pc[p] \in JobPcs
  PROVE  cur[p] \in Items /\ job[p] \in JobIds
  BY DEF TypeOK

\* Each step of a process, one lemma for all of them: the program counter and
\* the rows keep their types.
LEMMA StepType ==
  ASSUME TypeOK, NEW p \in Procs, Step(p) \/ Progress(p) \/ Raise(p) \/ DbError(p)
  PROVE  TypeOK'
  <1> USE DEF TypeOK, Goto, Enter, Release, Die, Pcs, JobPcs, TryPcs, HandlerPcs, Stages,
              ItemStates, QueueStates, ActiveStates, FinalStates, JobStates
  <1>1. CASE CreateJob(p) BY <1>1 DEF CreateJob, FreeJobs
  <1>2. CASE SetState(p) BY <1>2 DEF SetState, StateOf
  <1>3. CASE UpdateJob(p) BY <1>3 DEF UpdateJob
  <1>4. CASE FinishJob(p)
    <2>1. StateOf(stage[p]) \in JobStates BY <1>4 DEF FinishJob, EndStages, StateOf
    <2>2. jstate' \in [JobIds -> JobStates] BY <1>4, <2>1 DEF FinishJob
    <2>3. CASE stage[p] = "TICKET_ERROR" BY <1>4, <2>2, <2>3 DEF FinishJob
    <2>4. CASE stage[p] # "TICKET_ERROR"
      <3>1. Release(p) BY <1>4, <2>4 DEF FinishJob
      <3>2. UNCHANGED <<up, worker, items, jitem, allowFallback, written, latePicks, counters>>
        BY <1>4 DEF FinishJob
      <3> QED BY <2>2, <3>1, <3>2
    <2> QED BY <2>3, <2>4
  <1>5. CASE TicketEvent(p) BY <1>5 DEF TicketEvent
  <1>6. CASE DownloadDone(p) BY <1>6 DEF DownloadDone
  <1>7. CASE Decrypt(p) BY <1>7 DEF Decrypt
  <1>8. CASE Decide(p) BY <1>8 DEF Decide, NextStage
  <1>9. CASE WriteDone(p)
    <2>1. pc[p] \in JobPcs BY <1>9 DEF WriteDone
    <2>2. job[p] \in JobIds BY <2>1, Holds
    <2>3. written' \subseteq JobIds BY <1>9, <2>2 DEF WriteDone
    <2> QED BY <1>9, <2>3 DEF WriteDone
  <1>10. CASE HandlerSetState(p) BY <1>10 DEF HandlerSetState
  <1>11. CASE HandlerUpdateJob(p) BY <1>11 DEF HandlerUpdateJob
  <1>12. CASE HandlerEvent(p) BY <1>12 DEF HandlerEvent
  <1>13. CASE Progress(p) BY <1>13 DEF Progress
  <1>14. CASE Raise(p) BY <1>14 DEF Raise
  <1>15. CASE DbError(p) BY <1>15, BoundsAssumption DEF DbError
  <1> HIDE DEF TypeOK
  <1> QED
    BY <1>1, <1>2, <1>3, <1>4, <1>5, <1>6, <1>7, <1>8, <1>9, <1>10, <1>11, <1>12, <1>13, <1>14,
       <1>15, Zenon DEF Step

LEMMA LoopType ==
  ASSUME TypeOK, NEW l \in Loops, LoopStep(l)
  PROVE  TypeOK'
  <1> l \in Procs BY DEF Procs
  <1> USE DEF TypeOK, Goto, Pcs, JobPcs, TryPcs, HandlerPcs
  <1>1. CASE LoopHead(l) BY <1>1 DEF LoopHead
  <1>2. CASE Pick(l)
    <2>1. PICK n \in 1..Len(order) : cur' = [cur EXCEPT ![l] = order[n]] BY <1>2 DEF Pick
    <2>2. order[n] \in Items BY <2>1
    <2> QED BY <1>2, <2>1, <2>2 DEF Pick
  <1>3. CASE PickNothing(l) BY <1>3 DEF PickNothing
  <1> HIDE DEF TypeOK
  <1> QED BY <1>1, <1>2, <1>3 DEF LoopStep

LEMMA RequestType ==
  ASSUME TypeOK,
         \/ \E i \in Items : AddItem(i)
         \/ \E s \in Starters : StartCheck(s) \/ StartSpawn(s)
         \/ Pause
         \/ \E value \in BOOLEAN : SetFallback(value)
         \/ \E r \in Requests, i \in Items : Execute(r, i)
  PROVE  TypeOK'
  <1> USE DEF TypeOK
  <1>1. ASSUME NEW i \in Items, AddItem(i) PROVE TypeOK'
    BY <1>1 DEF AddItem, ItemStates, QueueStates
  <1>2. ASSUME NEW s \in Starters, StartCheck(s) PROVE TypeOK'
    BY <1>2 DEF StartCheck
  <1>3. ASSUME NEW s \in Starters, StartSpawn(s) PROVE TypeOK'
    <2>1. PICK l \in Loops : thread' = l /\ Goto(l, "head") BY <1>3 DEF StartSpawn
    <2>2. l \in Procs BY DEF Procs
    <2> QED
      BY <1>3, <2>1, <2>2 DEF StartSpawn, Goto, Pcs, JobPcs, TryPcs, HandlerPcs
  <1>4. CASE Pause BY <1>4 DEF Pause
  <1>5. ASSUME NEW value \in BOOLEAN, SetFallback(value) PROVE TypeOK'
    BY <1>5 DEF SetFallback
  <1>6. ASSUME NEW r \in Requests, NEW i \in Items, Execute(r, i) PROVE TypeOK'
    <2>1. r \in Procs BY DEF Procs
    <2> QED BY <1>6, <2>1 DEF Execute, Goto, Pcs, JobPcs, TryPcs, HandlerPcs
  <1> HIDE DEF TypeOK
  <1> QED BY <1>1, <1>2, <1>3, <1>4, <1>5, <1>6

LEMMA ServiceType ==
  ASSUME TypeOK, Stop \/ Exit \/ Startup
  PROVE  TypeOK'
  <1> USE DEF TypeOK
  <1>1. CASE Stop BY <1>1 DEF Stop
  <1>2. CASE Exit
    <2>1. restarts' \in 0..MaxRestarts BY <1>2, BoundsAssumption DEF Exit
    <2>2. /\ pc' \in [Procs -> Pcs]
          /\ stage' \in [Procs -> Stages]
          /\ cur' \in [Procs -> Items \cup {None}]
          /\ job' \in [Procs -> JobIds \cup {None}]
      BY <1>2 DEF Exit, AllOff, Pcs, Stages
    <2>3. \A p \in Procs : pc'[p] \notin JobPcs \cup {"create"}
      BY <1>2 DEF Exit, AllOff, JobPcs, TryPcs, HandlerPcs
    <2> QED BY <1>2, <2>1, <2>2, <2>3 DEF Exit
  <1>3. CASE Startup
    <2>1. EnvFallback \in BOOLEAN BY SetsAssumption
    <2>2. /\ istate' \in [Items -> ItemStates]
          /\ jstate' \in [JobIds -> JobStates]
      BY <1>3 DEF Startup, ItemStates, QueueStates, FinalStates, JobStates
    <2> QED BY <1>3, <2>1, <2>2 DEF Startup
  <1> HIDE DEF TypeOK
  <1> QED BY <1>1, <1>2, <1>3

LEMMA NextType == TypeOK /\ [Next]_vars => TypeOK'
  <1> SUFFICES ASSUME TypeOK, [Next]_vars PROVE TypeOK'
    OBVIOUS
  <1>1. CASE UNCHANGED vars BY <1>1 DEF vars, TypeOK
  <1>2. CASE Next BY <1>2, StepType, LoopType, RequestType, ServiceType DEF Next
  <1> QED BY <1>1, <1>2

\* The types of every variable, and that a thread inside _process_queue_item
\* holds an item and a job, whatever the threads, restarts and errors.
THEOREM TypeCorrect == Spec => []TypeOK
  BY InitType, NextType, PTL DEF Spec

-----------------------------------------------------------------------------
(* Ownership: each thread holds a job of its own.                           *)

\* What the two ways out of _process_queue_item do to the thread that leaves.
LEMMA LeaveLeaves ==
  ASSUME TypeOK, NEW p \in Procs, Release(p) \/ Die(p)
  PROVE  /\ pc'[p] \in {"off", "head"} /\ job'[p] = None
         /\ \A q \in Procs \ {p} : pc'[q] = pc[q] /\ job'[q] = job[q] /\ cur'[q] = cur[q]
         /\ stage' = stage
  BY DEF TypeOK, Release, Die, Goto

LEMMA OwnershipStep ==
  ASSUME TypeOK, Ownership, NEW p \in Procs, Step(p) \/ Progress(p) \/ Raise(p) \/ DbError(p)
  PROVE  Ownership'
  <1> USE DEF TypeOK, Ownership, Held, Goto, Enter, JobPcs, TryPcs, HandlerPcs
  <1>1. CASE CreateJob(p)
    <2>1. PICK j \in FreeJobs :
            /\ jstate' = [jstate EXCEPT ![j] = "RUNNING"]
            /\ jitem' = [jitem EXCEPT ![j] = cur[p]]
            /\ job' = [job EXCEPT ![p] = j]
      BY <1>1 DEF CreateJob
    <2>2. j \in JobIds /\ jstate[j] = "ABSENT" BY DEF FreeJobs
    <2>3. \A q \in Procs : Held(q) => job[q] # j BY <2>2
    <2> QED BY <1>1, <2>1, <2>2, <2>3 DEF CreateJob
  <1>2. CASE SetState(p) BY <1>2 DEF SetState
  <1>3. CASE UpdateJob(p) BY <1>3 DEF UpdateJob
  <1>4. CASE FinishJob(p)
    <2>1. Held(p) /\ job[p] \in JobIds /\ jstate[job[p]] = "RUNNING" BY <1>4 DEF FinishJob
    <2>2. \A q \in Procs \ {p} : Held(q) => job[q] # job[p] BY <2>1
    <2>3. CASE stage[p] = "TICKET_ERROR"
      BY <1>4, <2>1, <2>2, <2>3 DEF FinishJob, StateOf, EndStages
    <2>4. CASE stage[p] # "TICKET_ERROR"
      BY <1>4, <2>1, <2>2, <2>4, LeaveLeaves DEF FinishJob, EndStages
    <2> QED BY <2>3, <2>4
  <1>5. CASE TicketEvent(p) BY <1>5, LeaveLeaves DEF TicketEvent
  <1>6. CASE DownloadDone(p) BY <1>6 DEF DownloadDone
  <1>7. CASE Decrypt(p) BY <1>7 DEF Decrypt
  <1>8. CASE Decide(p) BY <1>8 DEF Decide
  <1>9. CASE WriteDone(p) BY <1>9 DEF WriteDone
  <1>10. CASE HandlerSetState(p) BY <1>10 DEF HandlerSetState
  <1>11. CASE HandlerUpdateJob(p) BY <1>11 DEF HandlerUpdateJob
  <1>12. CASE HandlerEvent(p) BY <1>12, LeaveLeaves DEF HandlerEvent
  <1>13. CASE Progress(p) BY <1>13 DEF Progress
  <1>14. CASE Raise(p) BY <1>14 DEF Raise
  <1>15. CASE DbError(p) BY <1>15, LeaveLeaves DEF DbError
  <1> HIDE DEF TypeOK, Ownership
  <1> QED
    BY <1>1, <1>2, <1>3, <1>4, <1>5, <1>6, <1>7, <1>8, <1>9, <1>10, <1>11, <1>12, <1>13, <1>14,
       <1>15, Zenon DEF Step

\* A step of the API, of a loop that holds nothing yet, or of the service.
Other ==
  \/ \E i \in Items : AddItem(i)
  \/ \E s \in Starters : StartCheck(s) \/ StartSpawn(s)
  \/ Pause
  \/ \E value \in BOOLEAN : SetFallback(value)
  \/ \E r \in Requests, i \in Items : Execute(r, i)
  \/ \E l \in Loops : LoopStep(l)
  \/ Stop

LEMMA NextCases ==
  Next <=> \/ Other
           \/ \E p \in Procs : Step(p) \/ Progress(p) \/ Raise(p) \/ DbError(p)
           \/ Exit
           \/ Startup
  BY Zenon DEF Next, Other

\* Such a step leaves alone the jobs, the phases, what is written, and every
\* thread that holds a job; it adds no such thread.
LEMMA OtherHarmless ==
  ASSUME TypeOK, Other
  PROVE  /\ UNCHANGED <<up, jobs, job, stage, written, dbErrors>>
         /\ \A p \in Procs : Held(p)' <=> Held(p)
         /\ \A p \in Procs : Held(p) => pc'[p] = pc[p] /\ cur'[p] = cur[p]
         /\ \A i \in Items : istate'[i] \in ActiveStates \cup FinalStates => istate'[i] = istate[i]
  <1> DEFINE Goal ==
        /\ UNCHANGED <<up, jobs, job, stage, written, dbErrors>>
        /\ \A p \in Procs : Held(p)' <=> Held(p)
        /\ \A p \in Procs : Held(p) => pc'[p] = pc[p] /\ cur'[p] = cur[p]
        /\ \A i \in Items :
             istate'[i] \in ActiveStates \cup FinalStates => istate'[i] = istate[i]
  <1> SUFFICES Goal
    OBVIOUS
  <1> USE DEF TypeOK, Held, Goto, JobPcs, TryPcs, HandlerPcs
  <1>1. ASSUME NEW i \in Items, AddItem(i) PROVE Goal
    BY <1>1 DEF AddItem, ActiveStates, FinalStates
  <1>2. ASSUME NEW s \in Starters, StartCheck(s) PROVE Goal
    BY <1>2 DEF StartCheck
  <1>3. ASSUME NEW s \in Starters, StartSpawn(s) PROVE Goal
    <2>1. PICK l \in Loops : ~Alive(l) /\ Goto(l, "head") BY <1>3 DEF StartSpawn
    <2>2. l \in Procs BY DEF Procs
    <2> QED BY <1>3, <2>1, <2>2 DEF StartSpawn, Alive
  <1>4. CASE Pause BY <1>4 DEF Pause
  <1>5. ASSUME NEW value \in BOOLEAN, SetFallback(value) PROVE Goal
    BY <1>5 DEF SetFallback
  <1>6. ASSUME NEW r \in Requests, NEW i \in Items, Execute(r, i) PROVE Goal
    <2>1. r \in Procs BY DEF Procs
    <2> QED BY <1>6, <2>1 DEF Execute
  <1>7. ASSUME NEW l \in Loops, LoopStep(l) PROVE Goal
    <2>0. l \in Procs BY DEF Procs
    <2>1. CASE LoopHead(l) BY <2>0, <2>1 DEF LoopHead
    <2>2. CASE Pick(l) BY <2>0, <2>2 DEF Pick
    <2>3. CASE PickNothing(l) BY <2>0, <2>3 DEF PickNothing
    <2> QED BY <1>7, <2>1, <2>2, <2>3 DEF LoopStep
  <1>8. CASE Stop BY <1>8 DEF Stop
  <1> HIDE DEF TypeOK, Held, Goal
  <1> QED BY <1>1, <1>2, <1>3, <1>4, <1>5, <1>6, <1>7, <1>8 DEF Other

LEMMA ExitOff ==
  ASSUME Exit
  PROVE  /\ ~up'
         /\ \A p \in Procs : pc'[p] = "off" /\ job'[p] = None
         /\ UNCHANGED <<items, jobs, written, dbErrors>>
  BY DEF Exit, AllOff

LEMMA DownNext == TypeOK /\ DownIsOff /\ [Next]_vars => DownIsOff'
  <1> SUFFICES ASSUME TypeOK, DownIsOff, [Next]_vars PROVE DownIsOff'
    OBVIOUS
  <1> USE DEF DownIsOff
  <1>1. CASE UNCHANGED vars BY <1>1 DEF vars
  <1>2. CASE Other
    <2>1. up
      <3>1. SUFFICES ASSUME ~up PROVE FALSE
        OBVIOUS
      <3>2. ~Serving BY <3>1 DEF Serving
      <3>3. \A l \in Loops : ~LoopStep(l)
        BY <3>1 DEF LoopStep, LoopHead, Pick, PickNothing, Procs
      <3> QED
        BY <1>2, <3>1, <3>2, <3>3
        DEF Other, AddItem, StartCheck, StartSpawn, Pause, SetFallback, Execute, Stop
    <2> QED BY <1>2, <2>1, OtherHarmless
  <1>3. ASSUME NEW p \in Procs, Step(p) \/ Progress(p) \/ Raise(p) \/ DbError(p)
        PROVE  DownIsOff'
    <2>1. pc[p] # "off" /\ up' = up
      BY <1>3
      DEF Step, CreateJob, SetState, UpdateJob, FinishJob, TicketEvent, DownloadDone, Decrypt,
          Decide, WriteDone, HandlerSetState, HandlerUpdateJob, HandlerEvent, Progress, Raise,
          DbError, TryPcs, HandlerPcs
    <2> QED BY <2>1
  <1>4. CASE Exit BY <1>4, ExitOff
  <1>5. CASE Startup BY <1>5 DEF Startup
  <1> QED BY <1>1, <1>2, <1>3, <1>4, <1>5, NextCases

LEMMA OwnershipNext == TypeOK /\ DownIsOff /\ Ownership /\ [Next]_vars => Ownership'
  <1> SUFFICES ASSUME TypeOK, DownIsOff, Ownership, [Next]_vars PROVE Ownership'
    OBVIOUS
  <1>1. CASE UNCHANGED vars BY <1>1 DEF vars, Ownership, Held
  <1>2. CASE Other BY <1>2, OtherHarmless DEF Ownership, Held
  <1>3. ASSUME NEW p \in Procs, Step(p) \/ Progress(p) \/ Raise(p) \/ DbError(p)
        PROVE  Ownership'
    BY <1>3, OwnershipStep
  <1>4. CASE Exit BY <1>4, ExitOff DEF Ownership, Held, JobPcs, TryPcs, HandlerPcs
  <1>5. CASE Startup
    BY <1>5 DEF Startup, DownIsOff, Ownership, Held, JobPcs, TryPcs, HandlerPcs
  <1> QED BY <1>1, <1>2, <1>3, <1>4, <1>5, NextCases

-----------------------------------------------------------------------------
(* Recovery: an item in an active phase always has a pending job.           *)

\* A pending job stays pending while its row is RUNNING and the thread that
\* holds it does not pass its last write to the item.
LEMMA PendingKept ==
  ASSUME NEW j \in JobIds, Pending(j), jstate'[j] = "RUNNING",
         \A q \in Procs : Held(q)' /\ job'[q] = j => ~PastItemWrite(q)'
  PROVE  Pending(j)'
  BY DEF Pending

\* A step that moves no item into an active phase keeps the invariant if it
\* keeps every pending job.
LEMMA PendingFrame ==
  ASSUME ActiveItemHasPendingJob,
         \A i \in Items : istate'[i] \in ActiveStates => istate[i] \in ActiveStates,
         \A j \in JobIds : Pending(j) => Pending(j)' /\ jitem'[j] = jitem[j]
  PROVE  ActiveItemHasPendingJob'
  BY DEF ActiveItemHasPendingJob

\* The pending jobs of the items p does not hold are not touched by p, and the
\* job of p is pending until p has made its last write to its item.
LEMMA PendingStep ==
  ASSUME TypeOK, Ownership, ActiveItemHasPendingJob,
         NEW p \in Procs, Step(p) \/ Progress(p) \/ Raise(p) \/ DbError(p)
  PROVE  ActiveItemHasPendingJob'
  <1> USE DEF TypeOK, Ownership, Held, Goto, Enter, JobPcs, TryPcs, HandlerPcs, PastItemWrite
  <1>1. CASE CreateJob(p)
    <2>1. PICK j \in FreeJobs :
            /\ jstate' = [jstate EXCEPT ![j] = "RUNNING"]
            /\ jitem' = [jitem EXCEPT ![j] = cur[p]]
            /\ job' = [job EXCEPT ![p] = j]
      BY <1>1 DEF CreateJob
    <2>2. j \in JobIds /\ jstate[j] = "ABSENT" BY DEF FreeJobs
    <2>3. ASSUME NEW k \in JobIds, Pending(k) PROVE Pending(k)' /\ jitem'[k] = jitem[k]
      BY <1>1, <2>1, <2>2, <2>3 DEF CreateJob, Pending
    <2> QED BY <1>1, <2>3, PendingFrame DEF CreateJob
  <1>2. CASE SetState(p)
    <2>1. ASSUME NEW k \in JobIds, Pending(k), jitem[k] # cur[p]
          PROVE  Pending(k)' /\ jitem'[k] = jitem[k]
      BY <1>2, <2>1 DEF SetState, Pending
    <2>2. ASSUME stage[p] \notin EndStages PROVE Pending(job[p])' /\ jitem'[job[p]] = cur[p]
      BY <1>2, <2>2 DEF SetState, Pending
    <2>3. /\ cur[p] \in Items /\ job[p] \in JobIds
          /\ \A i \in Items \ {cur[p]} : istate'[i] = istate[i]
          /\ istate'[cur[p]] = StateOf(stage[p])
      BY <1>2 DEF SetState
    <2>4. StateOf(stage[p]) \in ActiveStates => stage[p] \notin EndStages
      BY DEF StateOf, ActiveStates, EndStages
    <2>5. SUFFICES ASSUME NEW i \in Items, istate'[i] \in ActiveStates
                   PROVE  \E k \in JobIds : Pending(k)' /\ jitem'[k] = i
      BY DEF ActiveItemHasPendingJob
    <2> HIDE DEF TypeOK, Ownership
    <2>6. CASE i = cur[p]
      <3>1. stage[p] \notin EndStages BY <2>3, <2>4, <2>5, <2>6
      <3>2. Pending(job[p])' /\ jitem'[job[p]] = i BY <2>2, <2>6, <3>1
      <3>3. job[p] \in JobIds /\ job' = job BY <1>2, <2>3 DEF SetState
      <3> HIDE DEF Held, Goto, Enter, JobPcs, TryPcs, HandlerPcs, PastItemWrite
      <3> QED BY <3>2, <3>3
    <2>7. CASE i # cur[p]
      <3>1. PICK k \in JobIds : Pending(k) /\ jitem[k] = i
        BY <2>3, <2>5, <2>7 DEF ActiveItemHasPendingJob
      <3> QED BY <2>1, <2>7, <3>1
    <2> QED BY <2>6, <2>7
  <1>3. CASE UpdateJob(p)
    <2>1. ASSUME NEW k \in JobIds, Pending(k) PROVE Pending(k)' /\ jitem'[k] = jitem[k]
      BY <1>3, <2>1 DEF UpdateJob, Pending
    <2> QED BY <1>3, <2>1, PendingFrame DEF UpdateJob
  <1>4. CASE FinishJob(p)
    <2>1. ASSUME NEW k \in JobIds, Pending(k) PROVE Pending(k)' /\ jitem'[k] = jitem[k]
      <3>1. k # job[p] BY <1>4, <2>1 DEF FinishJob, Pending
      <3>2. jstate'[k] = "RUNNING" /\ jitem'[k] = jitem[k]
        BY <1>4, <2>1, <3>1 DEF FinishJob, Pending
      <3>3. CASE stage[p] = "TICKET_ERROR"
        BY <1>4, <2>1, <3>1, <3>2, <3>3 DEF FinishJob, Pending
      <3>4. CASE stage[p] # "TICKET_ERROR"
        BY <1>4, <2>1, <3>2, <3>4, LeaveLeaves DEF FinishJob, Pending
      <3> QED BY <3>3, <3>4
    <2> QED BY <1>4, <2>1, PendingFrame DEF FinishJob
  <1>5. CASE TicketEvent(p) \/ HandlerEvent(p)
    <2>1. ASSUME NEW k \in JobIds, Pending(k) PROVE Pending(k)' /\ jitem'[k] = jitem[k]
      BY <1>5, <2>1, LeaveLeaves DEF TicketEvent, HandlerEvent, Pending
    <2> QED BY <1>5, <2>1, PendingFrame DEF TicketEvent, HandlerEvent
  <1>6. CASE DownloadDone(p) \/ Decrypt(p) \/ Decide(p) \/ WriteDone(p) \/ Raise(p)
    <2>1. UNCHANGED <<job, jobs, istate>> /\ pc'[p] \notin {"job", "xjob"}
      BY <1>6 DEF DownloadDone, Decrypt, Decide, WriteDone, Raise
    <2>2. \A q \in Procs \ {p} : pc'[q] = pc[q] /\ stage'[q] = stage[q]
      BY <1>6 DEF DownloadDone, Decrypt, Decide, WriteDone, Raise
    <2>3. ASSUME NEW k \in JobIds, Pending(k) PROVE Pending(k)' /\ jitem'[k] = jitem[k]
      BY <2>1, <2>2, <2>3 DEF Pending
    <2> QED BY <2>1, <2>3, PendingFrame
  <1>7. CASE HandlerSetState(p)
    <2>1. ASSUME NEW k \in JobIds, Pending(k), jitem[k] # cur[p]
          PROVE  Pending(k)' /\ jitem'[k] = jitem[k]
      BY <1>7, <2>1 DEF HandlerSetState, Pending
    <2>2. /\ \A i \in Items \ {cur[p]} : istate'[i] = istate[i]
          /\ cur[p] \in Items /\ istate'[cur[p]] \notin ActiveStates
      BY <1>7 DEF HandlerSetState, ActiveStates
    <2> QED BY <2>1, <2>2 DEF ActiveItemHasPendingJob
  <1>8. CASE HandlerUpdateJob(p)
    <2>1. ASSUME NEW k \in JobIds, Pending(k) PROVE Pending(k)' /\ jitem'[k] = jitem[k]
      BY <1>8, <2>1 DEF HandlerUpdateJob, Pending
    <2> QED BY <1>8, <2>1, PendingFrame DEF HandlerUpdateJob
  <1>9. CASE Progress(p)
    <2>1. Pending(job[p]) /\ cur[p] \in Items /\ job[p] \in JobIds /\ jitem[job[p]] = cur[p]
      BY <1>9 DEF Progress, Pending
    <2>2. \A k \in JobIds : Pending(k) => Pending(k)' /\ jitem'[k] = jitem[k]
      BY <1>9 DEF Progress, Pending
    <2>3. \A i \in Items \ {cur[p]} : istate'[i] = istate[i] BY <1>9 DEF Progress
    <2> QED BY <2>1, <2>2, <2>3 DEF ActiveItemHasPendingJob
  <1>10. CASE DbError(p)
    <2>1. UNCHANGED <<jobs, istate>> /\ pc'[p] \notin {"job", "xjob"}
      BY <1>10 DEF DbError, Die
    <2>2. /\ job'[p] \in {job[p], None}
          /\ \A q \in Procs \ {p} : pc'[q] = pc[q] /\ stage'[q] = stage[q] /\ job'[q] = job[q]
      BY <1>10 DEF DbError, Die
    <2>3. ASSUME NEW k \in JobIds, Pending(k) PROVE Pending(k)' /\ jitem'[k] = jitem[k]
      BY <2>1, <2>2, <2>3 DEF Pending
    <2> QED BY <2>1, <2>3, PendingFrame
  <1> HIDE DEF TypeOK, Ownership
  <1> QED
    BY <1>1, <1>2, <1>3, <1>4, <1>5, <1>6, <1>7, <1>8, <1>9, <1>10, Zenon DEF Step

LEMMA PendingNext ==
  TypeOK /\ DownIsOff /\ Ownership /\ ActiveItemHasPendingJob /\ [Next]_vars
    => ActiveItemHasPendingJob'
  <1> SUFFICES ASSUME TypeOK, DownIsOff, Ownership, ActiveItemHasPendingJob, [Next]_vars
               PROVE  ActiveItemHasPendingJob'
    OBVIOUS
  <1>1. CASE UNCHANGED vars
    BY <1>1 DEF vars, ActiveItemHasPendingJob, Pending, Held, PastItemWrite
  <1>2. CASE Other
    <2>1. \A k \in JobIds : Pending(k) => Pending(k)' /\ jitem'[k] = jitem[k]
      BY <1>2, OtherHarmless DEF Pending, PastItemWrite
    <2>2. \A i \in Items : istate'[i] \in ActiveStates => istate[i] \in ActiveStates
      BY <1>2, OtherHarmless
    <2> QED BY <2>1, <2>2, PendingFrame
  <1>3. ASSUME NEW p \in Procs, Step(p) \/ Progress(p) \/ Raise(p) \/ DbError(p)
        PROVE  ActiveItemHasPendingJob'
    BY <1>3, PendingStep
  <1>4. CASE Exit
    <2>1. \A k \in JobIds : Pending(k) => Pending(k)' /\ jitem'[k] = jitem[k]
      BY <1>4, ExitOff DEF Pending, Held, JobPcs, TryPcs, HandlerPcs
    <2> QED BY <1>4, <2>1, ExitOff, PendingFrame
  <1>5. CASE Startup
    <2>1. \A i \in Items : istate[i] \in ActiveStates => i \in Interrupted
      BY DEF ActiveItemHasPendingJob, Pending, Interrupted, RunningJobs, InProgressQueueStates
    <2>2. \A i \in Items : istate'[i] \notin ActiveStates
      BY <1>5, <2>1 DEF Startup, ActiveStates
    <2> QED BY <2>2 DEF ActiveItemHasPendingJob
  <1> QED BY <1>1, <1>2, <1>3, <1>4, <1>5, NextCases

-----------------------------------------------------------------------------
(* Completed writes: DONE is backed by one.                                 *)

Backed == WriteBeforeDone /\ DoneIsBacked

\* Jobs change hands for no step but create_job, which takes a fresh one.
LEMMA BackedStep ==
  ASSUME TypeOK, Ownership, Backed,
         NEW p \in Procs, Step(p) \/ Progress(p) \/ Raise(p) \/ DbError(p)
  PROVE  Backed'
  <1> USE DEF TypeOK, Ownership, Backed, WriteBeforeDone, DoneIsBacked, Held, Goto, Enter, JobPcs,
              TryPcs, HandlerPcs
  <1>1. CASE CreateJob(p)
    <2>1. PICK j \in FreeJobs :
            /\ jstate' = [jstate EXCEPT ![j] = "RUNNING"]
            /\ jitem' = [jitem EXCEPT ![j] = cur[p]]
            /\ job' = [job EXCEPT ![p] = j]
      BY <1>1 DEF CreateJob
    <2>2. j \in JobIds /\ jstate[j] = "ABSENT" /\ j \notin written BY DEF FreeJobs
    <2>3. \A k \in written : jitem'[k] = jitem[k] /\ jstate'[k] = jstate[k] BY <2>1, <2>2
    <2>4. UNCHANGED <<istate, written>> BY <1>1 DEF CreateJob
    <2>5. WriteBeforeDone' BY <1>1, <2>1, <2>2, <2>3, <2>4 DEF CreateJob
    <2>6. DoneIsBacked' BY <2>1, <2>2, <2>3, <2>4
    <2> QED BY <2>5, <2>6
  <1>2. CASE SetState(p)
    <2>1. stage[p] = "DONE" => job[p] \in written /\ jitem[job[p]] = cur[p] BY <1>2 DEF SetState
    <2>2. StateOf(stage[p]) = "DONE" <=> stage[p] = "DONE" BY DEF StateOf
    <2>3. DoneIsBacked' BY <1>2, <2>1, <2>2 DEF SetState
    <2>4. WriteBeforeDone' BY <1>2 DEF SetState
    <2> QED BY <2>3, <2>4
  <1>3. CASE UpdateJob(p) BY <1>3 DEF UpdateJob
  <1>4. CASE FinishJob(p)
    <2>1. job[p] \in JobIds /\ jstate[job[p]] = "RUNNING" BY <1>4 DEF FinishJob
    <2>2. StateOf(stage[p]) # "ABSENT" /\ (StateOf(stage[p]) = "DONE" => job[p] \in written)
      BY <1>4 DEF FinishJob, StateOf, EndStages
    <2>3. DoneIsBacked' BY <1>4, <2>1, <2>2 DEF FinishJob
    <2>4. WriteBeforeDone'
      <3>1. \A j \in written' : jstate'[j] # "ABSENT" BY <1>4, <2>1, <2>2 DEF FinishJob
      <3>2. CASE stage[p] = "TICKET_ERROR" BY <1>4, <3>1, <3>2 DEF FinishJob
      <3>3. CASE stage[p] # "TICKET_ERROR" BY <1>4, <3>1, <3>3, LeaveLeaves DEF FinishJob
      <3> QED BY <3>2, <3>3
    <2> QED BY <2>3, <2>4
  <1>5. CASE TicketEvent(p) \/ HandlerEvent(p)
    BY <1>5, LeaveLeaves DEF TicketEvent, HandlerEvent
  <1>6. CASE DownloadDone(p) \/ Decrypt(p) \/ Raise(p)
    BY <1>6 DEF DownloadDone, Decrypt, Raise
  <1>7. CASE Decide(p) BY <1>7 DEF Decide, NextStage
  <1>8. CASE WriteDone(p)
    <2>1. job[p] \in JobIds /\ jstate[job[p]] = "RUNNING" /\ job' = job
      BY <1>8 DEF WriteDone
    <2>2. WriteBeforeDone' BY <1>8, <2>1 DEF WriteDone
    <2>3. DoneIsBacked' BY <1>8 DEF WriteDone
    <2> QED BY <2>2, <2>3
  <1>9. CASE HandlerSetState(p) BY <1>9 DEF HandlerSetState
  <1>10. CASE HandlerUpdateJob(p) BY <1>10 DEF HandlerUpdateJob
  <1>11. CASE Progress(p) BY <1>11 DEF Progress
  <1>12. CASE DbError(p)
    <2>1. /\ pc'[p] \notin {"item", "job"}
          /\ \A q \in Procs \ {p} : pc'[q] = pc[q] /\ stage'[q] = stage[q] /\ job'[q] = job[q]
      BY <1>12 DEF DbError, Die
    <2> QED BY <1>12, <2>1 DEF DbError
  <1> HIDE DEF TypeOK, Ownership, Backed
  <1> QED
    BY <1>1, <1>2, <1>3, <1>4, <1>5, <1>6, <1>7, <1>8, <1>9, <1>10, <1>11, <1>12, Zenon DEF Step

LEMMA BackedNext ==
  TypeOK /\ DownIsOff /\ Ownership /\ Backed /\ [Next]_vars => Backed'
  <1> SUFFICES ASSUME TypeOK, DownIsOff, Ownership, Backed, [Next]_vars PROVE Backed'
    OBVIOUS
  <1> USE DEF Backed, WriteBeforeDone, DoneIsBacked
  <1>1. CASE UNCHANGED vars BY <1>1 DEF vars
  <1>2. CASE Other
    <2>1. \A p \in Procs : pc'[p] \in {"item", "job"} => pc[p] = pc'[p]
      BY <1>2, OtherHarmless DEF Held, JobPcs, TryPcs
    <2> QED BY <1>2, <2>1, OtherHarmless DEF FinalStates
  <1>3. ASSUME NEW p \in Procs, Step(p) \/ Progress(p) \/ Raise(p) \/ DbError(p)
        PROVE  Backed'
    BY <1>3, BackedStep
  <1>4. CASE Exit BY <1>4, ExitOff
  <1>5. CASE Startup
    <2>1. UNCHANGED <<pc, stage, job, jitem, written>> BY <1>5 DEF Startup
    <2>2. \A i \in Items : istate'[i] = "DONE" => istate[i] = "DONE" BY <1>5 DEF Startup
    <2>3. \A j \in JobIds :
            /\ jstate'[j] = "DONE" => jstate[j] = "DONE"
            /\ jstate'[j] = "ABSENT" => jstate[j] = "ABSENT"
      BY <1>5 DEF Startup
    <2>4. written \subseteq JobIds BY DEF TypeOK
    <2>5. WriteBeforeDone' BY <2>1, <2>3, <2>4
    <2>6. DoneIsBacked' BY <2>1, <2>2, <2>3
    <2> QED BY <2>5, <2>6
  <1> QED BY <1>1, <1>2, <1>3, <1>4, <1>5, NextCases

-----------------------------------------------------------------------------
(* No job is left RUNNING without a thread.                                 *)

LEMMA HeldStep ==
  ASSUME TypeOK, Ownership, RunningIsHeld,
         NEW p \in Procs, Step(p) \/ Progress(p) \/ Raise(p) \/ DbError(p)
  PROVE  RunningIsHeld'
  <1> USE DEF TypeOK, Ownership, RunningIsHeld, RunningJobs, Held, Goto, Enter, JobPcs, TryPcs,
              HandlerPcs
  <1>1. CASE CreateJob(p)
    <2>1. PICK j \in FreeJobs :
            /\ jstate' = [jstate EXCEPT ![j] = "RUNNING"]
            /\ job' = [job EXCEPT ![p] = j]
      BY <1>1 DEF CreateJob
    <2>2. j \in JobIds /\ jstate[j] = "ABSENT" /\ ~Held(p) BY <1>1 DEF FreeJobs, CreateJob
    <2>3. pc' = [pc EXCEPT ![p] = "item"] /\ UNCHANGED <<up, dbErrors>> BY <1>1 DEF CreateJob
    <2>4. pc'[p] \in JobPcs /\ job'[p] = j BY <2>1, <2>3
    <2>5. \A q \in Procs : Held(q) => Held(q)' /\ job'[q] = job[q] BY <2>1, <2>2, <2>3
    <2>6. SUFFICES ASSUME up, dbErrors = 0, NEW k \in JobIds, jstate'[k] = "RUNNING"
                   PROVE  \E q \in Procs : Held(q)' /\ job'[q] = k
      BY <2>3
    <2>7. CASE k = j BY <2>4, <2>7
    <2>8. CASE k # j
      <3>1. jstate[k] = "RUNNING" BY <2>1, <2>2, <2>6, <2>8
      <3>2. PICK q \in Procs : Held(q) /\ job[q] = k BY <2>6, <3>1
      <3> QED BY <2>5, <3>2
    <2> QED BY <2>7, <2>8
  <1>2. CASE SetState(p) BY <1>2 DEF SetState
  <1>3. CASE UpdateJob(p) BY <1>3 DEF UpdateJob
  <1>4. CASE FinishJob(p)
    <2>1. job[p] \in JobIds /\ jstate'[job[p]] # "RUNNING"
      BY <1>4 DEF FinishJob, StateOf, EndStages
    <2>2. \A k \in JobIds \ {job[p]} : jstate'[k] = jstate[k] BY <1>4 DEF FinishJob
    <2>3. \A q \in Procs \ {p} : pc'[q] = pc[q] /\ job'[q] = job[q]
      BY <1>4, LeaveLeaves DEF FinishJob
    <2>4. UNCHANGED <<up, dbErrors>> BY <1>4 DEF FinishJob
    <2> QED BY <2>1, <2>2, <2>3, <2>4
  <1>5. CASE TicketEvent(p) \/ HandlerEvent(p)
    <2>1. Held(p) /\ jstate[job[p]] = "FAILED" /\ UNCHANGED <<up, jstate, dbErrors>>
      BY <1>5 DEF TicketEvent, HandlerEvent
    <2>2. \A q \in Procs \ {p} : pc'[q] = pc[q] /\ job'[q] = job[q]
      BY <1>5, LeaveLeaves DEF TicketEvent, HandlerEvent
    <2> QED BY <2>1, <2>2
  <1>6. CASE DownloadDone(p) \/ Decrypt(p) \/ Decide(p) \/ WriteDone(p) \/ Raise(p)
    <2>1. UNCHANGED <<up, dbErrors, job, jstate>> /\ pc'[p] \in JobPcs
      BY <1>6 DEF DownloadDone, Decrypt, Decide, WriteDone, Raise
    <2>2. \A q \in Procs \ {p} : pc'[q] = pc[q]
      BY <1>6 DEF DownloadDone, Decrypt, Decide, WriteDone, Raise
    <2> QED BY <2>1, <2>2
  <1>7. CASE HandlerSetState(p) BY <1>7 DEF HandlerSetState
  <1>8. CASE HandlerUpdateJob(p) BY <1>8 DEF HandlerUpdateJob
  <1>9. CASE Progress(p) BY <1>9 DEF Progress
  <1>10. CASE DbError(p) BY <1>10 DEF DbError
  <1> HIDE DEF TypeOK, Ownership, RunningIsHeld
  <1> QED
    BY <1>1, <1>2, <1>3, <1>4, <1>5, <1>6, <1>7, <1>8, <1>9, <1>10, Zenon DEF Step

LEMMA HeldNext ==
  TypeOK /\ DownIsOff /\ Ownership /\ RunningIsHeld /\ [Next]_vars => RunningIsHeld'
  <1> SUFFICES ASSUME TypeOK, DownIsOff, Ownership, RunningIsHeld, [Next]_vars
               PROVE  RunningIsHeld'
    OBVIOUS
  <1> USE DEF RunningIsHeld, RunningJobs
  <1>1. CASE UNCHANGED vars BY <1>1 DEF vars, Held
  <1>2. CASE Other BY <1>2, OtherHarmless
  <1>3. ASSUME NEW p \in Procs, Step(p) \/ Progress(p) \/ Raise(p) \/ DbError(p)
        PROVE  RunningIsHeld'
    BY <1>3, HeldStep
  <1>4. CASE Exit BY <1>4, ExitOff
  <1>5. CASE Startup BY <1>5 DEF Startup
  <1> QED BY <1>1, <1>2, <1>3, <1>4, <1>5, NextCases

-----------------------------------------------------------------------------
(* The order of the queue, pauses and the worker that is shown as running.  *)

\* What a step of thread p leaves alone: the worker's flags, the other threads
\* and the queue.  Only a failed transaction ends a loop.
LEMMA StepFrame ==
  ASSUME TypeOK, NEW p \in Procs, Step(p) \/ Progress(p) \/ Raise(p) \/ DbError(p)
  PROVE  /\ UNCHANGED <<up, running, stopEvent, thread, starter, order, latePicks>>
         /\ \A q \in Procs \ {p} : pc'[q] = pc[q] /\ cur'[q] = cur[q]
         /\ pc[p] # "off" /\ pc'[p] \notin {"pick", "create"}
         /\ dbErrors' = dbErrors /\ p \in Loops => pc'[p] # "off"
         /\ \A i \in Items : istate'[i] = "QUEUED" => istate[i] = "QUEUED"
         /\ \A i \in Items : istate'[i] = "ABSENT" => istate[i] = "ABSENT"
  <1> DEFINE Goal ==
        /\ UNCHANGED <<up, running, stopEvent, thread, starter, order, latePicks>>
        /\ \A q \in Procs \ {p} : pc'[q] = pc[q] /\ cur'[q] = cur[q]
        /\ pc[p] # "off" /\ pc'[p] \notin {"pick", "create"}
        /\ dbErrors' = dbErrors /\ p \in Loops => pc'[p] # "off"
        /\ \A i \in Items : istate'[i] = "QUEUED" => istate[i] = "QUEUED"
        /\ \A i \in Items : istate'[i] = "ABSENT" => istate[i] = "ABSENT"
  <1> SUFFICES Goal
    OBVIOUS
  <1> USE DEF TypeOK, Goto, Enter, Release, Die, JobPcs, TryPcs, HandlerPcs
  <1>1. CASE CreateJob(p) BY <1>1 DEF CreateJob
  <1>2. CASE SetState(p) BY <1>2 DEF SetState, StateOf, Stages
  <1>3. CASE UpdateJob(p) BY <1>3 DEF UpdateJob
  <1>4. CASE FinishJob(p)
    <2>1. pc' = [pc EXCEPT ![p] = IF stage[p] = "TICKET_ERROR" THEN "event"
                                  ELSE IF p \in Loops THEN "head" ELSE "off"]
      BY <1>4 DEF FinishJob
    <2>2. \A q \in Procs \ {p} : cur'[q] = cur[q] BY <1>4 DEF FinishJob
    <2>3. /\ UNCHANGED <<up, running, stopEvent, thread, starter, order, latePicks, istate>>
          /\ pc[p] = "job"
      BY <1>4 DEF FinishJob
    <2> QED BY <2>1, <2>2, <2>3
  <1>5. CASE TicketEvent(p) BY <1>5 DEF TicketEvent
  <1>6. CASE DownloadDone(p) BY <1>6 DEF DownloadDone
  <1>7. CASE Decrypt(p) BY <1>7 DEF Decrypt
  <1>8. CASE Decide(p) BY <1>8 DEF Decide
  <1>9. CASE WriteDone(p) BY <1>9 DEF WriteDone
  <1>10. CASE HandlerSetState(p) BY <1>10 DEF HandlerSetState
  <1>11. CASE HandlerUpdateJob(p) BY <1>11 DEF HandlerUpdateJob
  <1>12. CASE HandlerEvent(p) BY <1>12 DEF HandlerEvent
  <1>13. CASE Progress(p) BY <1>13 DEF Progress
  <1>14. CASE Raise(p) BY <1>14 DEF Raise
  <1>15. CASE DbError(p) BY <1>15 DEF DbError
  <1> HIDE DEF TypeOK, Goal
  <1> QED
    BY <1>1, <1>2, <1>3, <1>4, <1>5, <1>6, <1>7, <1>8, <1>9, <1>10, <1>11, <1>12, <1>13, <1>14,
       <1>15, Zenon DEF Step

Ordered == RowsOrdered /\ OldestFirst

\* The queue grows at its end only, and no row becomes QUEUED again.
LEMMA OrderedKept ==
  ASSUME TypeOK, Ordered,
         order' = order,
         \A i \in Items : istate'[i] = "QUEUED" => istate[i] = "QUEUED",
         \A i \in Items : istate'[i] = "ABSENT" => istate[i] = "ABSENT",
         \A l \in Loops : pc'[l] = "create" => pc[l] = "create" /\ cur'[l] = cur[l]
  PROVE  Ordered'
  <1>1. \A n \in 1..Len(order) : order[n] \in Items BY DEF TypeOK
  <1>2. \A l \in Loops : pc[l] = "create" => cur[l] \in Items BY DEF TypeOK, Procs
  <1>3. RowsOrdered' BY <1>1, <1>2 DEF Ordered, RowsOrdered
  <1>4. OldestFirst'
    <2> SUFFICES ASSUME NEW l \in Loops, NEW n \in 1..Len(order),
                        pc[l] = "create", cur[l] = order[n], NEW m \in 1..(n - 1)
                 PROVE  istate[order[m]] # "QUEUED" /\ m \in 1..Len(order)
      BY <1>1 DEF OldestFirst
    <2>1. m \in 1..Len(order) BY DEF TypeOK
    <2> QED BY <2>1 DEF Ordered, OldestFirst
  <1> QED BY <1>3, <1>4 DEF Ordered

LEMMA OrderedAdd ==
  ASSUME TypeOK, Ordered, NEW i \in Items, AddItem(i)
  PROVE  Ordered'
  <1>1. /\ order \in Seq(Items) /\ istate[i] = "ABSENT" /\ order' = Append(order, i)
        /\ istate' = [istate EXCEPT ![i] = "QUEUED"] /\ istate \in [Items -> ItemStates]
        /\ UNCHANGED <<pc, cur>>
    BY DEF TypeOK, AddItem
  <1>2. Len(order') = Len(order) + 1 /\ Len(order) \in Nat BY <1>1
  <1>3. \A n \in 1..Len(order) : order'[n] = order[n] /\ order[n] \in Items BY <1>1
  <1>4. order'[Len(order')] = i BY <1>1
  <1>5. \A n \in 1..Len(order) : order[n] # i BY <1>1 DEF Ordered, RowsOrdered
  <1>6. \A n \in 1..Len(order) : istate'[order[n]] = istate[order[n]] BY <1>1, <1>3, <1>5
  <1>7. RowsOrdered'
    <2>1. ASSUME NEW m \in 1..Len(order'), NEW n \in 1..Len(order'), order'[m] = order'[n]
          PROVE  m = n
      <3>1. CASE m \in 1..Len(order) /\ n \in 1..Len(order)
        BY <2>1, <3>1, <1>3 DEF Ordered, RowsOrdered
      <3>2. CASE m = Len(order') \/ n = Len(order') BY <2>1, <3>2, <1>2, <1>3, <1>4, <1>5
      <3> QED BY <3>1, <3>2, <1>2
    <2>2. ASSUME NEW n \in 1..Len(order') PROVE istate'[order'[n]] # "ABSENT"
      <3>1. CASE n \in 1..Len(order) BY <3>1, <1>3, <1>6 DEF Ordered, RowsOrdered
      <3>2. CASE n = Len(order') BY <3>2, <1>1, <1>4
      <3> QED BY <3>1, <3>2, <1>2
    <2>3. ASSUME NEW l \in Loops, pc'[l] = "create" PROVE istate'[cur'[l]] # "ABSENT"
      <3>1. l \in Procs /\ cur[l] \in Items /\ istate[cur[l]] # "ABSENT"
        BY <2>3, <1>1 DEF Ordered, RowsOrdered, TypeOK, Procs
      <3> QED BY <3>1, <1>1
    <2> QED BY <2>1, <2>2, <2>3 DEF RowsOrdered
  <1>8. OldestFirst'
    <2> SUFFICES ASSUME NEW l \in Loops, NEW n \in 1..Len(order'),
                        pc[l] = "create", cur[l] = order'[n], NEW m \in 1..(n - 1)
                 PROVE  istate'[order'[m]] # "QUEUED"
      BY <1>1 DEF OldestFirst
    <2>1. m \in 1..Len(order) BY <1>2
    <2>2. CASE n \in 1..Len(order) BY <2>1, <2>2, <1>3, <1>6 DEF Ordered, OldestFirst
    <2>3. CASE n = Len(order')
      <3>1. cur[l] = i BY <2>3, <1>4
      <3> QED BY <3>1, <1>1 DEF Ordered, RowsOrdered
    <2> QED BY <2>2, <2>3, <1>2
  <1> QED BY <1>7, <1>8 DEF Ordered

LEMMA OrderedLoop ==
  ASSUME TypeOK, Ordered, NEW l \in Loops, LoopStep(l)
  PROVE  Ordered'
  <1> l \in Procs BY DEF Procs
  <1>1. CASE LoopHead(l) \/ PickNothing(l)
    <2>1. /\ UNCHANGED <<order, istate, cur>>
          /\ \A q \in Loops : pc'[q] = "create" => pc[q] = "create"
      BY <1>1 DEF LoopHead, PickNothing, Goto, TypeOK, Procs
    <2> QED BY <2>1, OrderedKept
  <1>2. CASE Pick(l)
    <2>1. PICK n \in 1..Len(order) : OldestQueued(n) /\ cur' = [cur EXCEPT ![l] = order[n]]
      BY <1>2 DEF Pick
    <2>2. /\ UNCHANGED <<order, istate>> /\ cur'[l] = order[n] /\ order[n] \in Items
          /\ \A q \in Loops \ {l} : pc'[q] = pc[q] /\ cur'[q] = cur[q]
      BY <1>2, <2>1 DEF Pick, Goto, TypeOK, Procs
    <2>3. RowsOrdered'
      BY <2>1, <2>2 DEF Ordered, RowsOrdered, OldestQueued
    <2>4. OldestFirst'
      <3> SUFFICES ASSUME NEW q \in Loops, NEW k \in 1..Len(order),
                          pc'[q] = "create", cur'[q] = order[k], NEW m \in 1..(k - 1)
                   PROVE  istate[order[m]] # "QUEUED"
        BY <2>2 DEF OldestFirst
      <3>1. CASE q = l
        <4>1. k = n BY <3>1, <2>2 DEF Ordered, RowsOrdered
        <4> QED BY <4>1, <2>1 DEF OldestQueued
      <3>2. CASE q # l BY <3>2, <2>2 DEF Ordered, OldestFirst
      <3> QED BY <3>1, <3>2
    <2> QED BY <2>3, <2>4 DEF Ordered
  <1> QED BY <1>1, <1>2 DEF LoopStep

LEMMA OrderedNext == TypeOK /\ Ordered /\ [Next]_vars => Ordered'
  <1> SUFFICES ASSUME TypeOK, Ordered, [Next]_vars PROVE Ordered'
    OBVIOUS
  <1> DEFINE Frame == /\ order' = order
                      /\ \A i \in Items : istate'[i] = "QUEUED" => istate[i] = "QUEUED"
                      /\ \A i \in Items : istate'[i] = "ABSENT" => istate[i] = "ABSENT"
                      /\ \A l \in Loops : pc'[l] = "create" =>
                                          pc[l] = "create" /\ cur'[l] = cur[l]
  <1>0. Frame => Ordered' BY OrderedKept
  <1> HIDE DEF Frame
  <1>1. CASE UNCHANGED vars
    <2>1. Frame BY <1>1 DEF vars, Frame
    <2> QED BY <1>0, <2>1
  <1>2. ASSUME NEW i \in Items, AddItem(i) PROVE Ordered'
    BY <1>2, OrderedAdd
  <1>3. ASSUME NEW s \in Starters, StartCheck(s) \/ StartSpawn(s) PROVE Frame
    BY <1>3 DEF StartCheck, StartSpawn, Frame, Goto, TypeOK, Procs
  <1>4. CASE Pause \/ Stop
    <2>1. UNCHANGED <<order, istate, pc, cur>> BY <1>4 DEF Pause, Stop
    <2>2. Frame BY <2>1 DEF Frame
    <2> QED BY <1>0, <2>2
  <1>5. ASSUME NEW value \in BOOLEAN, SetFallback(value) PROVE Frame
    BY <1>5 DEF SetFallback, Frame
  <1>6. ASSUME NEW r \in Requests, NEW i \in Items, Execute(r, i) PROVE Frame
    BY <1>6, SetsAssumption DEF Execute, Frame, Goto, TypeOK, Procs
  <1>7. ASSUME NEW l \in Loops, LoopStep(l) PROVE Ordered'
    BY <1>7, OrderedLoop
  <1>8. ASSUME NEW p \in Procs, Step(p) \/ Progress(p) \/ Raise(p) \/ DbError(p) PROVE Frame
    BY <1>8, StepFrame DEF Frame, Procs
  <1>9. CASE Exit
    <2>1. UNCHANGED <<order, istate>> /\ \A l \in Loops : pc'[l] = "off"
      BY <1>9, ExitOff DEF Procs
    <2>2. Frame BY <2>1 DEF Frame
    <2> QED BY <1>0, <2>2
  <1>10. CASE Startup
    <2>1. /\ UNCHANGED <<order, pc, cur>> /\ istate \in [Items -> ItemStates]
          /\ istate' = [i \in Items |-> IF i \in Interrupted THEN "FAILED" ELSE istate[i]]
      BY <1>10 DEF Startup, TypeOK
    <2>2. Frame BY <2>1 DEF Frame
    <2> QED BY <1>0, <2>2
  <1> QED
    BY <1>0, <1>1, <1>2, <1>3, <1>4, <1>5, <1>6, <1>7, <1>8, <1>9, <1>10, NextCases DEF Other

\* The loops that are about to take an item although the worker is paused.
Picking == {l \in Loops : pc[l] = "pick"}

LEMMA PauseFrame ==
  ASSUME TypeOK, PauseBound, Picking' \subseteq Picking, running' = running,
         latePicks' = latePicks
  PROVE  PauseBound'
  <1>1. IsFiniteSet(Picking) /\ IsFiniteSet(Picking')
    BY FiniteAssumption, FS_Subset DEF Picking
  <1>2. Cardinality(Picking') <= Cardinality(Picking) BY <1>1, FS_Subset
  <1>3. Cardinality(Picking) \in Nat /\ Cardinality(Picking') \in Nat /\ Cardinality(Loops) \in Nat
    BY <1>1, FiniteAssumption, FS_CardinalityType
  <1>4. PauseBound <=> (~running => latePicks + Cardinality(Picking) <= Cardinality(Loops))
    BY DEF PauseBound, Picking
  <1>5. PauseBound' <=> (~running' => latePicks' + Cardinality(Picking') <= Cardinality(Loops))
    BY DEF PauseBound, Picking
  <1> QED BY <1>2, <1>3, <1>4, <1>5 DEF TypeOK

\* A reset counts anew.
LEMMA PauseReset ==
  ASSUME latePicks' = 0
  PROVE  PauseBound'
  <1>1. Picking' \subseteq Loops BY DEF Picking
  <1>2. Cardinality(Picking') <= Cardinality(Loops) /\ Cardinality(Picking') \in Nat
    BY <1>1, FiniteAssumption, FS_Subset, FS_CardinalityType
  <1>3. PauseBound' <=> (~running' => latePicks' + Cardinality(Picking') <= Cardinality(Loops))
    BY DEF PauseBound, Picking
  <1> QED BY <1>2, <1>3

LEMMA PauseLoop ==
  ASSUME TypeOK, PauseBound, NEW l \in Loops, LoopStep(l)
  PROVE  PauseBound'
  <1> l \in Procs BY DEF Procs
  <1>1. CASE LoopHead(l)
    <2>1. CASE stopEvent
      <3>1. Picking' \subseteq Picking BY <1>1, <2>1 DEF LoopHead, Goto, Picking, TypeOK, Procs
      <3> QED BY <1>1, <3>1, PauseFrame DEF LoopHead
    <2>2. CASE ~stopEvent
      <3>1. running' BY <1>1, <2>2 DEF LoopHead
      <3> QED BY <3>1 DEF PauseBound
    <2> QED BY <2>1, <2>2
  <1>2. CASE Pick(l)
    <2>1. CASE running
      <3>1. running' BY <1>2, <2>1 DEF Pick
      <3> QED BY <3>1 DEF PauseBound
    <2>2. CASE ~running
      <3>1. /\ Picking' = Picking \ {l} /\ l \in Picking /\ latePicks' = latePicks + 1
            /\ running' = running
        BY <1>2, <2>2 DEF Pick, Goto, Picking, TypeOK, Procs
      <3>2. IsFiniteSet(Picking) BY FiniteAssumption, FS_Subset DEF Picking
      <3>3. /\ Cardinality(Picking') = Cardinality(Picking) - 1
            /\ Cardinality(Picking) \in Nat /\ Cardinality(Loops) \in Nat
        BY <3>1, <3>2, FiniteAssumption, FS_RemoveElement, FS_CardinalityType
      <3>4. latePicks + Cardinality(Picking) <= Cardinality(Loops)
        BY <2>2 DEF PauseBound, Picking
      <3>5. PauseBound' <=> (~running' => latePicks' + Cardinality(Picking') <= Cardinality(Loops))
        BY DEF PauseBound, Picking
      <3>6. latePicks \in Nat BY DEF TypeOK
      <3> QED BY <3>1, <3>3, <3>4, <3>5, <3>6
    <2> QED BY <2>1, <2>2
  <1>3. CASE PickNothing(l)
    <2>1. Picking' \subseteq Picking BY <1>3 DEF PickNothing, Goto, Picking, TypeOK, Procs
    <2> QED BY <1>3, <2>1, PauseFrame DEF PickNothing
  <1> QED BY <1>1, <1>2, <1>3 DEF LoopStep

LEMMA PauseNext == TypeOK /\ PauseBound /\ [Next]_vars => PauseBound'
  <1> SUFFICES ASSUME TypeOK, PauseBound, [Next]_vars PROVE PauseBound'
    OBVIOUS
  <1> DEFINE Frame == Picking' \subseteq Picking /\ running' = running /\ latePicks' = latePicks
  <1>0. Frame => PauseBound' BY PauseFrame
  <1> HIDE DEF Frame
  <1>1. CASE UNCHANGED vars BY <1>0, <1>1 DEF vars, Frame, Picking
  <1>2. ASSUME NEW i \in Items, AddItem(i) PROVE Frame
    BY <1>2 DEF AddItem, Frame, Picking
  <1>3. ASSUME NEW s \in Starters, StartCheck(s) PROVE PauseBound'
    BY <1>3, PauseReset DEF StartCheck
  <1>4. ASSUME NEW s \in Starters, StartSpawn(s) PROVE Frame
    BY <1>4 DEF StartSpawn, Frame, Goto, Picking, TypeOK, Procs
  <1>5. CASE Pause \/ Stop \/ Exit BY <1>5, PauseReset DEF Pause, Stop, Exit
  <1>6. ASSUME NEW value \in BOOLEAN, SetFallback(value) PROVE Frame
    BY <1>6 DEF SetFallback, Frame, Picking
  <1>7. ASSUME NEW r \in Requests, NEW i \in Items, Execute(r, i) PROVE Frame
    BY <1>7 DEF Execute, Frame, Goto, Picking, TypeOK, Procs
  <1>8. ASSUME NEW l \in Loops, LoopStep(l) PROVE PauseBound'
    BY <1>8, PauseLoop
  <1>9. ASSUME NEW p \in Procs, Step(p) \/ Progress(p) \/ Raise(p) \/ DbError(p) PROVE Frame
    BY <1>9, StepFrame DEF Frame, Picking, Procs
  <1>10. CASE Startup
    <2>1. UNCHANGED <<running, pc, latePicks>> BY <1>10 DEF Startup
    <2>2. Frame BY <2>1 DEF Frame, Picking
    <2> QED BY <1>0, <2>2
  <1> QED
    BY <1>0, <1>1, <1>2, <1>3, <1>4, <1>5, <1>6, <1>7, <1>8, <1>9, <1>10, NextCases DEF Other

Shown == StopIsPaused /\ WorkerRunningIsAlive

\* A loop that is alive stays so, or a start is under way as before.
LEMMA ShownKept ==
  ASSUME Shown, UNCHANGED <<up, running, stopEvent, starter>>,
         dbErrors' = 0 => dbErrors = 0,
         dbErrors' = 0 => \A l \in Loops : pc[l] # "off" => pc'[l] # "off"
  PROVE  Shown'
  BY DEF Shown, StopIsPaused, WorkerRunningIsAlive, Alive

LEMMA ShownNext == TypeOK /\ Shown /\ [Next]_vars => Shown'
  <1> SUFFICES ASSUME TypeOK, Shown, [Next]_vars PROVE Shown'
    OBVIOUS
  <1> DEFINE Frame == /\ UNCHANGED <<up, running, stopEvent, starter>>
                      /\ dbErrors' = 0 => dbErrors = 0
                      /\ dbErrors' = 0 => \A l \in Loops : pc[l] # "off" => pc'[l] # "off"
  <1>0. Frame => Shown' BY ShownKept
  <1> HIDE DEF Frame
  <1>1. CASE UNCHANGED vars BY <1>0, <1>1 DEF vars, Frame
  <1>2. ASSUME NEW i \in Items, AddItem(i) PROVE Frame
    BY <1>2 DEF AddItem, Frame
  <1>3. ASSUME NEW s \in Starters, StartCheck(s) PROVE Shown'
    <2>1. up /\ ~stopEvent /\ UNCHANGED <<up, stopEvent, pc>> BY <1>3 DEF StartCheck, Serving
    <2>2. CASE ThreadAlive
      BY <2>1, <2>2 DEF ThreadAlive, Alive, Shown, StopIsPaused, WorkerRunningIsAlive, TypeOK
    <2>3. CASE ~ThreadAlive
      <3>1. starter'[s] = "spawn" BY <1>3, <2>3 DEF StartCheck, TypeOK
      <3> QED BY <2>1, <3>1 DEF Shown, StopIsPaused, WorkerRunningIsAlive
    <2> QED BY <2>2, <2>3
  <1>4. ASSUME NEW s \in Starters, StartSpawn(s) PROVE Shown'
    <2>1. PICK l \in Loops : Goto(l, "head") BY <1>4 DEF StartSpawn
    <2>2. pc'[l] = "head" /\ ~stopEvent' /\ up'
      BY <1>4, <2>1 DEF StartSpawn, Goto, TypeOK, Procs
    <2> QED BY <2>2 DEF Shown, StopIsPaused, WorkerRunningIsAlive, Alive
  <1>5. CASE Pause \/ Stop \/ Exit
    <2>1. ~running' BY <1>5 DEF Pause, Stop, Exit
    <2> QED BY <2>1 DEF Shown, StopIsPaused, WorkerRunningIsAlive
  <1>6. ASSUME NEW value \in BOOLEAN, SetFallback(value) PROVE Frame
    BY <1>6 DEF SetFallback, Frame
  <1>7. ASSUME NEW r \in Requests, NEW i \in Items, Execute(r, i) PROVE Frame
    BY <1>7 DEF Execute, Frame, Goto, TypeOK, Procs
  <1>8. ASSUME NEW l \in Loops, LoopStep(l) PROVE Shown'
    <2> l \in Procs BY DEF Procs
    <2>1. CASE LoopHead(l) /\ stopEvent
      <3>1. ~running' /\ stopEvent' BY <2>1 DEF LoopHead, Shown, StopIsPaused
      <3> QED BY <3>1 DEF Shown, StopIsPaused, WorkerRunningIsAlive
    <2>2. CASE (LoopHead(l) /\ ~stopEvent) \/ Pick(l) \/ PickNothing(l)
      <3>1. Frame BY <2>2 DEF LoopHead, Pick, PickNothing, Frame, Goto, TypeOK, Procs
      <3> QED BY <1>0, <3>1
    <2> QED BY <1>8, <2>1, <2>2 DEF LoopStep
  <1>9. ASSUME NEW p \in Procs, Step(p) \/ Progress(p) \/ Raise(p) \/ DbError(p) PROVE Frame
    <2>1. dbErrors' = dbErrors \/ dbErrors' = dbErrors + 1
      BY <1>9
      DEF Step, CreateJob, SetState, UpdateJob, FinishJob, TicketEvent, DownloadDone, Decrypt,
          Decide, WriteDone, HandlerSetState, HandlerUpdateJob, HandlerEvent, Progress, Raise,
          DbError
    <2>2. dbErrors \in Nat BY BoundsAssumption DEF TypeOK
    <2>3. dbErrors' = 0 => dbErrors' = dbErrors BY <2>1, <2>2
    <2> QED BY <1>9, <2>3, StepFrame DEF Frame, Procs
  <1>10. CASE Startup
    <2>1. running' = running /\ ~up BY <1>10 DEF Startup
    <2>2. ~running' BY <2>1 DEF Shown, StopIsPaused
    <2> QED BY <2>2 DEF Shown, StopIsPaused, WorkerRunningIsAlive
  <1> QED
    BY <1>0, <1>1, <1>2, <1>3, <1>4, <1>5, <1>6, <1>7, <1>8, <1>9, <1>10, NextCases DEF Other

-----------------------------------------------------------------------------
(* The theorems.                                                            *)

LEMMA InitInv == Init => IInv
  <1> SUFFICES ASSUME Init PROVE IInv
    OBVIOUS
  <1>1. \A p \in Procs : pc[p] = "off" /\ job[p] = None BY DEF Init
  <1>2. Ownership BY <1>1 DEF Ownership, Held, JobPcs, TryPcs, HandlerPcs
  <1>3. DownIsOff BY <1>1 DEF DownIsOff
  <1>4. ActiveItemHasPendingJob BY DEF Init, ActiveItemHasPendingJob, ActiveStates
  <1>5. WriteBeforeDone /\ DoneIsBacked BY <1>1 DEF Init, WriteBeforeDone, DoneIsBacked
  <1>6. RunningIsHeld BY DEF Init, RunningIsHeld, RunningJobs
  <1> QED BY <1>2, <1>3, <1>4, <1>5, <1>6, InitType DEF IInv

LEMMA NextInv == IInv /\ [Next]_vars => IInv'
  BY NextType, DownNext, OwnershipNext, PendingNext, BackedNext, HeldNext DEF IInv, Backed

\* IInv holds in every reachable state, for any number of threads, restarts and
\* failed transactions.
THEOREM Invariance == Spec => []IInv
  BY InitInv, NextInv, PTL DEF Spec

\* recover_incomplete_jobs can find every item it has to settle: an item in an
\* active phase has a RUNNING job in every reachable state, so at every point
\* where the process may die.
THEOREM RecoverableAlways == Spec => []ActiveItemHasRunningJob
  <1>1. IInv => ActiveItemHasRunningJob
    BY DEF IInv, ActiveItemHasPendingJob, Pending, ActiveItemHasRunningJob
  <1> QED BY <1>1, Invariance, PTL

\* DONE is never stored for an item, nor for a job, without a completed write.
THEOREM DoneAlwaysBacked == Spec => []DoneIsBacked
  <1>1. IInv => DoneIsBacked BY DEF IInv
  <1> QED BY <1>1, Invariance, PTL

\* While no transaction fails, exactly one thread holds each RUNNING job.
THEOREM NeverOrphaned == Spec => []NoOrphanJob
  <1>1. IInv => NoOrphanJob
    <2> SUFFICES ASSUME IInv, up, dbErrors = 0, NEW j \in RunningJobs
                 PROVE  \E p \in Procs :
                          /\ pc[p] \in JobPcs /\ job[p] = j /\ jitem[j] = cur[p]
                          /\ \A q \in Procs \ {p} : job[q] # j
      BY DEF NoOrphanJob
    <2>1. PICK p \in Procs : Held(p) /\ job[p] = j BY DEF IInv, RunningIsHeld
    <2>2. j # None BY SetsAssumption DEF RunningJobs
    <2> QED BY <2>1, <2>2 DEF IInv, Ownership, Held
  <1> QED BY <1>1, Invariance, PTL

\* A loop takes items in the order they were added in: whatever else the
\* requests, threads and failures do, it leaves no older one waiting.
THEOREM OldestAlwaysFirst == Spec => []OldestFirst
  <1>1. Init => Ordered
    BY DEF Init, Ordered, RowsOrdered, OldestFirst, Procs
  <1>2. Ordered => OldestFirst BY DEF Ordered
  <1> QED BY <1>1, <1>2, OrderedNext, TypeCorrect, PTL DEF Spec

\* A pause lets each loop take one more item at most.
THEOREM PauseIsBounded == Spec => []PauseBound
  <1>1. Init => PauseBound
    <2> SUFFICES ASSUME Init PROVE PauseBound
      OBVIOUS
    <2>1. {l \in Loops : pc[l] = "pick"} = {} BY DEF Init, Procs
    <2>2. Cardinality({l \in Loops : pc[l] = "pick"}) = 0 BY <2>1, FS_EmptySet
    <2>3. Cardinality(Loops) \in Nat BY FiniteAssumption, FS_CardinalityType
    <2> QED BY <2>2, <2>3 DEF Init, PauseBound
  <1> QED BY <1>1, PauseNext, TypeCorrect, PTL DEF Spec

\* While no transaction fails, a worker that is shown as running has a loop.
THEOREM RunningMeansAlive == Spec => []WorkerRunningIsAlive
  <1>1. Init => Shown BY DEF Init, Shown, StopIsPaused, WorkerRunningIsAlive
  <1>2. Shown => WorkerRunningIsAlive BY DEF Shown
  <1> QED BY <1>1, <1>2, ShownNext, TypeCorrect, PTL DEF Spec

\* Only startup brings the service up.
LEMMA UpByStartup ==
  ASSUME TypeOK, [Next]_vars, ~up, up'
  PROVE  Startup
  <1>1. CASE UNCHANGED vars BY <1>1 DEF vars
  <1>2. CASE Other BY <1>2, OtherHarmless
  <1>3. ASSUME NEW p \in Procs, Step(p) \/ Progress(p) \/ Raise(p) \/ DbError(p)
        PROVE  FALSE
    <2>1. up' = up
      BY <1>3
      DEF Step, CreateJob, SetState, UpdateJob, FinishJob, TicketEvent, DownloadDone, Decrypt,
          Decide, WriteDone, HandlerSetState, HandlerUpdateJob, HandlerEvent, Progress, Raise,
          DbError
    <2> QED BY <2>1
  <1>4. CASE Exit BY <1>4, ExitOff
  <1> QED BY <1>1, <1>2, <1>3, <1>4, NextCases

\* A restart leaves no RUNNING job and no item in an active phase.
THEOREM RecoveryIsComplete == Spec => RecoveryComplete
  <1> DEFINE Settled == /\ \A j \in JobIds : jstate'[j] # "RUNNING"
                        /\ \A i \in Items : istate'[i] \notin ActiveStates
  <1>1. ASSUME IInv, [Next]_vars, ~up, up' PROVE Settled
    <2>1. TypeOK /\ Startup BY <1>1, UpByStartup DEF IInv
    <2>2. \A j \in JobIds : jstate'[j] # "RUNNING" BY <2>1 DEF Startup, RunningJobs
    <2>3. \A i \in Items : istate[i] \in ActiveStates => i \in Interrupted
      BY <1>1 DEF IInv, ActiveItemHasPendingJob, Pending, Interrupted, RunningJobs,
                  InProgressQueueStates
    <2>4. \A i \in Items : istate'[i] \notin ActiveStates
      BY <2>1, <2>3 DEF Startup, ActiveStates
    <2> QED BY <2>2, <2>4
  <1>2. IInv /\ [Next]_vars => [~up /\ up' => Settled]_vars
    BY <1>1
  <1> QED BY <1>2, Invariance, PTL DEF Spec, RecoveryComplete

\* The job rows a step of thread p rewrites: none but a fresh one and its own.
LEMMA OutcomeStep ==
  ASSUME TypeOK, Ownership, NEW p \in Procs,
         Step(p) \/ Progress(p) \/ Raise(p) \/ DbError(p), NEW j \in JobIds
  PROVE  /\ jstate[j] \in FinalStates => jstate'[j] = jstate[j]
         /\ jstate[j] # "ABSENT" => jitem'[j] = jitem[j]
  <1> USE DEF TypeOK, Ownership, Held, JobPcs, TryPcs, HandlerPcs, FinalStates
  <1>1. CASE CreateJob(p) BY <1>1 DEF CreateJob, FreeJobs
  <1>2. CASE FinishJob(p)
    <2>1. job[p] \in JobIds /\ jstate[job[p]] = "RUNNING" BY <1>2 DEF FinishJob
    <2> QED BY <1>2, <2>1 DEF FinishJob
  <1>3. CASE HandlerUpdateJob(p)
    <2>1. job[p] \in JobIds /\ jstate[job[p]] \in {"RUNNING", "FAILED"}
      BY <1>3 DEF HandlerUpdateJob
    <2> QED BY <1>3, <2>1 DEF HandlerUpdateJob
  <1>4. CASE jobs' = jobs BY <1>4
  <1>5. jobs' = jobs \/ CreateJob(p) \/ FinishJob(p) \/ HandlerUpdateJob(p)
    BY DEF Step, SetState, UpdateJob, TicketEvent, DownloadDone, Decrypt, Decide, WriteDone,
           HandlerSetState, HandlerEvent, Progress, Raise, DbError
  <1> QED BY <1>1, <1>2, <1>3, <1>4, <1>5

\* The outcome of a job is final, and a job stays with its item.
THEOREM OutcomeIsFinal == Spec => JobOutcomeFinal
  <1> DEFINE Kept(j) == /\ jstate[j] \in FinalStates => jstate'[j] = jstate[j]
                        /\ jstate[j] # "ABSENT" => jitem'[j] = jitem[j]
  <1>1. ASSUME IInv, [Next]_vars, NEW j \in JobIds PROVE Kept(j)
    <2>1. CASE UNCHANGED vars BY <2>1 DEF vars
    <2>2. CASE Other BY <1>1, <2>2, OtherHarmless DEF IInv
    <2>3. ASSUME NEW p \in Procs, Step(p) \/ Progress(p) \/ Raise(p) \/ DbError(p)
          PROVE  Kept(j)
      BY <1>1, <2>3, OutcomeStep DEF IInv
    <2>4. CASE Exit BY <2>4, ExitOff
    <2>5. CASE Startup BY <1>1, <2>5 DEF Startup, RunningJobs, FinalStates, IInv, TypeOK
    <2> QED BY <1>1, <2>1, <2>2, <2>3, <2>4, <2>5, NextCases
  <1>2. IInv /\ [Next]_vars => [\A j \in JobIds : Kept(j)]_vars
    BY <1>1
  <1> QED BY <1>2, Invariance, PTL DEF Spec, JobOutcomeFinal

=============================================================================
