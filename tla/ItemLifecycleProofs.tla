------------------------ MODULE ItemLifecycleProofs ------------------------
(* Proof that QueueWorker implements ItemLifecycle. *)
EXTENDS QueueWorkerProofs

USE DEF worker, procs, items, jobs, counters

\* The items and jobs as ItemLifecycle sees them.
SeenItem == [i \in Items |-> IF istate[i] \in ActiveStates THEN "ACTIVE" ELSE istate[i]]
SeenJob ==
  [j \in JobIds |-> IF jstate[j] = "RUNNING" /\ j \in written THEN "WRITTEN" ELSE jstate[j]]

-----------------------------------------------------------------------------
(* A thread that is about to create a job holds an item whose row is there. *)

Taken == \A p \in Procs : pc[p] = "create" => istate[cur[p]] # "ABSENT"

LEMMA TakenKept ==
  ASSUME TypeOK, Taken,
         \A i \in Items : istate'[i] = "ABSENT" => istate[i] = "ABSENT",
         \A p \in Procs : pc'[p] = "create" => pc[p] = "create" /\ cur'[p] = cur[p]
  PROVE  Taken'
  <1>1. \A p \in Procs : pc[p] = "create" => cur[p] \in Items BY DEF TypeOK
  <1> QED BY <1>1 DEF Taken

LEMMA TakenNext == TypeOK /\ Ordered /\ Taken /\ [Next]_vars => Taken'
  <1> SUFFICES ASSUME TypeOK, Ordered, Taken, [Next]_vars PROVE Taken'
    OBVIOUS
  <1> DEFINE Frame == /\ \A i \in Items : istate'[i] = "ABSENT" => istate[i] = "ABSENT"
                      /\ \A p \in Procs : pc'[p] = "create" =>
                                          pc[p] = "create" /\ cur'[p] = cur[p]
  <1>0. Frame => Taken' BY TakenKept
  <1> HIDE DEF Frame
  <1>1. CASE UNCHANGED vars
    <2>1. Frame BY <1>1 DEF vars, Frame
    <2> QED BY <1>0, <2>1
  <1>2. ASSUME NEW i \in Items, AddItem(i) PROVE Frame
    BY <1>2 DEF AddItem, Frame, TypeOK
  <1>3. ASSUME NEW s \in Starters, StartCheck(s) \/ StartSpawn(s) PROVE Frame
    BY <1>3 DEF StartCheck, StartSpawn, Frame, Goto, TypeOK, Procs
  <1>4. CASE Pause \/ Stop
    <2>1. UNCHANGED <<istate, pc, cur>> BY <1>4 DEF Pause, Stop
    <2>2. Frame BY <2>1 DEF Frame
    <2> QED BY <1>0, <2>2
  <1>5. ASSUME NEW value \in BOOLEAN, SetFallback(value) PROVE Frame
    BY <1>5 DEF SetFallback, Frame
  <1>6. ASSUME NEW r \in Requests, NEW i \in Items, Execute(r, i) PROVE Taken'
    BY <1>6 DEF Execute, Goto, Taken, TypeOK, Procs
  <1>7. ASSUME NEW l \in Loops, LoopStep(l) PROVE Taken'
    <2>1. CASE LoopHead(l) \/ PickNothing(l)
      <3>1. Frame BY <2>1 DEF LoopHead, PickNothing, Frame, Goto, TypeOK, Procs
      <3> QED BY <1>0, <3>1
    <2>2. CASE Pick(l)
      <3>1. PICK n \in 1..Len(order) : cur' = [cur EXCEPT ![l] = order[n]] BY <2>2 DEF Pick
      <3>2. istate[order[n]] # "ABSENT" BY DEF Ordered, RowsOrdered
      <3> QED BY <2>2, <3>1, <3>2 DEF Pick, Goto, Taken, TypeOK, Procs
    <2> QED BY <1>7, <2>1, <2>2 DEF LoopStep
  <1>8. ASSUME NEW p \in Procs, Step(p) \/ Progress(p) \/ Raise(p) \/ DbError(p) PROVE Frame
    BY <1>8, StepFrame DEF Frame
  <1>9. CASE Exit BY <1>9, ExitOff DEF Taken
  <1>10. CASE Startup
    <2>1. UNCHANGED <<pc, cur>> /\ \A i \in Items : istate'[i] \in {"FAILED", istate[i]}
      BY <1>10 DEF Startup
    <2>2. Frame BY <2>1 DEF Frame
    <2> QED BY <1>0, <2>2
  <1> QED
    BY <1>0, <1>1, <1>2, <1>3, <1>4, <1>5, <1>6, <1>7, <1>8, <1>9, <1>10, NextCases DEF Other

-----------------------------------------------------------------------------
(* Every step is a step of ItemLifecycle, or changes nothing it sees.       *)

LEMMA SeenUnfinished ==
  ASSUME TypeOK
  PROVE  /\ Life!Unfinished = RunningJobs
         /\ \A i : Life!JobsOf(i) = {j \in RunningJobs : jitem[j] = i}
  <1>1. Life!Unfinished = RunningJobs
    BY DEF TypeOK, JobStates, Life!Unfinished, RunningJobs
  <1> QED BY <1>1 DEF Life!JobsOf

LEMMA SeenStutter ==
  ASSUME UNCHANGED <<up, istate, jstate, jitem, written>>
  PROVE  UNCHANGED Life!vars
  BY DEF Life!vars

\* A write to an item is seen as one.
LEMMA SeenWrite ==
  ASSUME TypeOK, NEW i \in Items, NEW s, istate' = [istate EXCEPT ![i] = s]
  PROVE  SeenItem' = [SeenItem EXCEPT ![i] = IF s \in ActiveStates THEN "ACTIVE" ELSE s]
  BY DEF TypeOK, SeenItem

LEMMA SeenOutcome ==
  ASSUME TypeOK, NEW j \in JobIds, NEW s, s # "RUNNING", jstate' = [jstate EXCEPT ![j] = s],
         written' = written
  PROVE  SeenJob' = [SeenJob EXCEPT ![j] = s]
  BY DEF TypeOK, SeenJob

\* A thread inside _process_queue_item works for a service that is up.
LEMMA HeldIsUp ==
  ASSUME IInv, NEW p \in Procs, Held(p)
  PROVE  /\ up /\ cur[p] \in Items /\ job[p] \in JobIds /\ jitem[job[p]] = cur[p]
         /\ pc[p] \notin {"event", "xevent"} \cup HandlerPcs => job[p] \in RunningJobs
         /\ job[p] \notin RunningJobs => jstate[job[p]] = "FAILED"
  BY DEF IInv, TypeOK, DownIsOff, Ownership, Held, JobPcs, TryPcs, HandlerPcs, RunningJobs

\* Its actions name the job and the item; a thread names them by what it holds.
LEMMA SeenByJob ==
  ASSUME NEW j \in JobIds,
         \/ Life!Work(j) \/ Life!Write(j) \/ Life!End(j) \/ Life!StoreFailure(j)
         \/ \E i \in Items : Life!Begin(j, i)
  PROVE  [Life!Next]_(Life!vars)
  <1> Life!Next BY Zenon DEF Life!Next
  <1> QED OBVIOUS

LEMMA SeenCreate ==
  ASSUME IInv, Taken, NEW p \in Procs, CreateJob(p)
  PROVE  [Life!Next]_(Life!vars)
  <1>1. TypeOK /\ up /\ cur[p] \in Items /\ istate[cur[p]] # "ABSENT"
    BY DEF CreateJob, IInv, DownIsOff, Taken, TypeOK
  <1>8. PICK i \in Items : i = cur[p] BY <1>1
  <1>2. PICK j \in FreeJobs :
          /\ jstate' = [jstate EXCEPT ![j] = "RUNNING"]
          /\ jitem' = [jitem EXCEPT ![j] = cur[p]]
    BY DEF CreateJob
  <1>3. j \in JobIds /\ jstate[j] = "ABSENT" /\ j \notin written
    BY DEF FreeJobs, IInv, WriteBeforeDone
  <1>4. UNCHANGED <<up, istate, written>> BY DEF CreateJob
  <1>5. SeenItem[cur[p]] # "ABSENT" BY <1>1 DEF SeenItem
  <1>6. SeenJob[j] = "ABSENT" BY <1>3 DEF SeenJob
  <1>7. SeenJob' = [SeenJob EXCEPT ![j] = "RUNNING"]
    BY <1>1, <1>2, <1>3, <1>4 DEF SeenJob, TypeOK
  <1>9. Life!Begin(j, i)
    BY <1>1, <1>2, <1>3, <1>4, <1>5, <1>6, <1>7, <1>8 DEF Life!Begin, SeenItem, SeenJob
  <1> QED BY <1>3, <1>9, SeenByJob

\* The states a running job moves its item to.
LEMMA SeenWork ==
  ASSUME IInv, NEW p \in Procs, Held(p), job[p] \in RunningJobs,
         NEW s \in QueueStates \ {"QUEUED"}, s = "DONE" => job[p] \in written,
         istate' = [istate EXCEPT ![cur[p]] = s],
         UNCHANGED <<up, jstate, jitem, written>>
  PROVE  [Life!Next]_(Life!vars)
  <1> DEFINE t == IF s \in ActiveStates THEN "ACTIVE" ELSE s
  <1>1. TypeOK BY DEF IInv
  <1>2. /\ up /\ cur[p] \in Items /\ job[p] \in JobIds /\ jitem[job[p]] = cur[p]
        /\ job[p] \in Life!Unfinished
    BY <1>1, HeldIsUp, SeenUnfinished
  <1>3. t \in {"ACTIVE", "FALLBACK_STAGED", "FAILED", "DONE"} BY DEF QueueStates, FinalStates
  <1>4. t = "DONE" => SeenJob[job[p]] = "WRITTEN" BY <1>2 DEF SeenJob, RunningJobs
  <1>5. SeenItem' = [SeenItem EXCEPT ![jitem[job[p]]] = t] BY <1>1, <1>2, SeenWrite
  <1>6. SeenJob' = SeenJob BY DEF SeenJob
  <1> HIDE DEF t
  <1>7. PICK j \in JobIds : j = job[p] BY <1>2
  <1>8. Life!Work(j) BY <1>2, <1>3, <1>4, <1>5, <1>6, <1>7 DEF Life!Work, SeenItem, SeenJob
  <1> QED BY <1>8, SeenByJob

\* A job that gets its outcome leaves its item to another one, if the item is
\* in progress: its thread has made its last write to the item.
LEMMA SeenEnd ==
  ASSUME IInv, NEW p \in Procs, Held(p), PastItemWrite(p), job[p] \in RunningJobs,
         NEW s \in FinalStates, s = "DONE" => job[p] \in written,
         jstate' = [jstate EXCEPT ![job[p]] = s],
         UNCHANGED <<up, istate, jitem, written>>
  PROVE  [Life!Next]_(Life!vars)
  <1>1. TypeOK BY DEF IInv
  <1>2. /\ up /\ cur[p] \in Items /\ job[p] \in JobIds /\ jitem[job[p]] = cur[p]
        /\ job[p] \in Life!Unfinished
    BY <1>1, HeldIsUp, SeenUnfinished
  <1>3. SeenItem[jitem[job[p]]] = "ACTIVE" => Life!JobsOf(jitem[job[p]]) # {job[p]}
    <2> SUFFICES ASSUME SeenItem[cur[p]] = "ACTIVE" PROVE Life!JobsOf(cur[p]) # {job[p]}
      BY <1>2
    <2>1. istate[cur[p]] \in ActiveStates
      BY <1>1, <1>2 DEF SeenItem, TypeOK, ItemStates, QueueStates, FinalStates, ActiveStates
    <2>2. PICK k \in JobIds : Pending(k) /\ jitem[k] = cur[p]
      BY <1>2, <2>1 DEF IInv, ActiveItemHasPendingJob
    <2>3. k # job[p] /\ k \in RunningJobs BY <2>2 DEF Pending, RunningJobs
    <2> QED BY <1>1, <2>2, <2>3, SeenUnfinished
  <1>4. s = "DONE" => SeenJob[job[p]] = "WRITTEN" BY <1>2 DEF SeenJob, RunningJobs
  <1>5. SeenJob' = [SeenJob EXCEPT ![job[p]] = s] BY <1>1, <1>2, SeenOutcome DEF FinalStates
  <1>6. SeenItem' = SeenItem BY DEF SeenItem
  <1>7. PICK j \in JobIds : j = job[p] BY <1>2
  <1>8. Life!End(j)
    BY <1>2, <1>3, <1>4, <1>5, <1>6, <1>7 DEF Life!End, SeenItem, SeenJob, FinalStates
  <1> QED BY <1>8, SeenByJob

LEMMA SeenWriteDone ==
  ASSUME IInv, NEW p \in Procs, WriteDone(p)
  PROVE  [Life!Next]_(Life!vars)
  <1>1. TypeOK /\ Held(p) /\ pc[p] = "write" BY DEF IInv, WriteDone, Held, JobPcs, TryPcs
  <1>2. up /\ job[p] \in JobIds /\ job[p] \in RunningJobs BY <1>1, HeldIsUp DEF HandlerPcs
  <1>3. job[p] \in Life!Unfinished BY <1>1, <1>2, SeenUnfinished
  <1>4. written' = written \cup {job[p]} /\ UNCHANGED <<up, istate, jstate, jitem>>
    BY DEF WriteDone
  <1>5. SeenJob' = [SeenJob EXCEPT ![job[p]] = "WRITTEN"]
    BY <1>2, <1>4 DEF SeenJob, RunningJobs
  <1>6. SeenItem' = SeenItem BY <1>4 DEF SeenItem
  <1>7. PICK j \in JobIds : j = job[p] BY <1>2
  <1>8. Life!Write(j) BY <1>2, <1>3, <1>4, <1>5, <1>6, <1>7 DEF Life!Write, SeenItem, SeenJob
  <1> QED BY <1>8, SeenByJob

LEMMA SeenStep ==
  ASSUME IInv, Taken, NEW p \in Procs, Step(p) \/ Progress(p) \/ Raise(p) \/ DbError(p)
  PROVE  [Life!Next]_(Life!vars)
  <1>0. UNCHANGED <<up, istate, jstate, jitem, written>> => [Life!Next]_(Life!vars)
    BY SeenStutter
  <1>1. TypeOK BY DEF IInv
  <1>2. CASE CreateJob(p) BY <1>2, SeenCreate
  <1>3. CASE SetState(p)
    <2>1. Held(p) /\ pc[p] = "item" BY <1>3 DEF SetState, Held, JobPcs, TryPcs
    <2>2. job[p] \in JobIds /\ job[p] \in RunningJobs BY <2>1, HeldIsUp DEF HandlerPcs
    <2>3. StateOf(stage[p]) \in QueueStates \ {"QUEUED"}
      BY <1>1 DEF TypeOK, Stages, StateOf, QueueStates, ActiveStates, FinalStates
    <2>4. StateOf(stage[p]) = "DONE" => job[p] \in written
      BY <2>1 DEF StateOf, IInv, WriteBeforeDone
    <2> QED BY <1>3, <2>1, <2>2, <2>3, <2>4, SeenWork DEF SetState
  <1>4. CASE Progress(p)
    <2>1. Held(p) /\ pc[p] = "download" BY <1>4 DEF Progress, Held, JobPcs, TryPcs
    <2>2. job[p] \in JobIds /\ job[p] \in RunningJobs BY <2>1, HeldIsUp DEF HandlerPcs
    <2> QED BY <1>4, <2>1, <2>2, SeenWork DEF Progress, QueueStates, ActiveStates
  <1>5. CASE WriteDone(p) BY <1>5, SeenWriteDone
  <1>6. CASE FinishJob(p)
    <2>1. Held(p) /\ pc[p] = "job" /\ stage[p] \in EndStages
      BY <1>6 DEF FinishJob, Held, JobPcs, TryPcs
    <2>2. job[p] \in JobIds /\ job[p] \in RunningJobs BY <2>1, HeldIsUp DEF HandlerPcs
    <2>3. StateOf(stage[p]) \in FinalStates BY <2>1 DEF EndStages, FinalStates, StateOf
    <2>4. StateOf(stage[p]) = "DONE" => job[p] \in written
      BY <2>1 DEF StateOf, IInv, WriteBeforeDone
    <2>5. PastItemWrite(p) BY <2>1 DEF PastItemWrite
    <2>6. /\ jstate' = [jstate EXCEPT ![job[p]] = StateOf(stage[p])]
          /\ UNCHANGED <<up, istate, jitem, written>>
      BY <1>6 DEF FinishJob
    <2> QED BY <2>1, <2>2, <2>3, <2>4, <2>5, <2>6, SeenEnd
  <1>7. CASE HandlerSetState(p)
    <2>1. Held(p) BY <1>7 DEF HandlerSetState, Held, JobPcs, HandlerPcs
    <2>2. /\ up /\ cur[p] \in Items /\ job[p] \in JobIds /\ jitem[job[p]] = cur[p]
          /\ job[p] \notin RunningJobs => jstate[job[p]] = "FAILED"
      BY <2>1, HeldIsUp
    <2>3. /\ istate' = [istate EXCEPT ![cur[p]] = "FAILED"]
          /\ UNCHANGED <<up, jstate, jitem, written>>
      BY <1>7 DEF HandlerSetState
    <2>4. CASE job[p] \in RunningJobs
      BY <2>1, <2>3, <2>4, SeenWork DEF QueueStates, FinalStates
    <2>5. CASE job[p] \notin RunningJobs
      <3>1. SeenItem' = [SeenItem EXCEPT ![jitem[job[p]]] = "FAILED"]
        BY <1>1, <2>2, <2>3, SeenWrite DEF ActiveStates
      <3>2. SeenJob[job[p]] = "FAILED" /\ SeenJob' = SeenJob
        BY <2>2, <2>3, <2>5 DEF SeenJob
      <3>3. PICK j \in JobIds : j = job[p] BY <2>2
      <3>4. Life!StoreFailure(j)
        BY <2>2, <2>3, <3>1, <3>2, <3>3 DEF Life!StoreFailure, SeenItem, SeenJob
      <3> QED BY <3>4, SeenByJob
    <2> QED BY <2>4, <2>5
  <1>8. CASE HandlerUpdateJob(p)
    <2>1. Held(p) /\ PastItemWrite(p)
      BY <1>8 DEF HandlerUpdateJob, Held, JobPcs, HandlerPcs, PastItemWrite
    <2>2. job[p] \in JobIds /\ (job[p] \notin RunningJobs => jstate[job[p]] = "FAILED")
      BY <2>1, HeldIsUp
    <2>3. /\ jstate' = [jstate EXCEPT ![job[p]] = "FAILED"]
          /\ UNCHANGED <<up, istate, jitem, written>>
      BY <1>8 DEF HandlerUpdateJob
    <2>4. CASE job[p] \in RunningJobs
      BY <2>1, <2>3, <2>4, SeenEnd DEF FinalStates
    <2>5. CASE job[p] \notin RunningJobs
      <3>1. jstate' = jstate BY <1>1, <2>2, <2>3, <2>5 DEF TypeOK
      <3> QED BY <1>0, <2>3, <3>1
    <2> QED BY <2>4, <2>5
  <1>9. CASE \/ UpdateJob(p) \/ TicketEvent(p) \/ DownloadDone(p) \/ Decrypt(p) \/ Decide(p)
             \/ HandlerEvent(p) \/ Raise(p) \/ DbError(p)
    <2>1. UNCHANGED <<up, istate, jstate, jitem, written>>
      BY <1>9
      DEF UpdateJob, TicketEvent, DownloadDone, Decrypt, Decide, HandlerEvent, Raise, DbError
    <2> QED BY <1>0, <2>1
  <1> QED
    BY <1>2, <1>3, <1>4, <1>5, <1>6, <1>7, <1>8, <1>9, Zenon DEF Step

LEMMA SeenStartup ==
  ASSUME IInv, Startup
  PROVE  Life!Recover
  <1>1. TypeOK /\ ~up /\ up' = TRUE /\ jitem' = jitem /\ written' = written
    BY DEF IInv, Startup
  <1>2. /\ jstate' = [j \in JobIds |-> IF j \in RunningJobs THEN "FAILED" ELSE jstate[j]]
        /\ istate' = [i \in Items |-> IF i \in Interrupted THEN "FAILED" ELSE istate[i]]
    BY DEF Startup
  <1>3. SeenJob' = [j \in JobIds |-> IF j \in RunningJobs THEN "FAILED" ELSE SeenJob[j]]
    BY <1>1, <1>2 DEF SeenJob, RunningJobs
  <1>4. \A i \in Items :
          i \in Interrupted <=>
            \/ istate[i] \in ActiveStates
            \/ istate[i] = "QUEUED" /\ \E j \in RunningJobs : jitem[j] = i
    BY DEF Interrupted, InProgressQueueStates, IInv, ActiveItemHasPendingJob, Pending, RunningJobs
  <1>5. ASSUME NEW i \in Items
        PROVE  SeenItem'[i] =
                 IF \/ SeenItem[i] = "ACTIVE"
                    \/ SeenItem[i] = "QUEUED" /\ {j \in RunningJobs : jitem[j] = i} # {}
                 THEN "FAILED" ELSE SeenItem[i]
    <2>1. SeenItem[i] = "ACTIVE" <=> istate[i] \in ActiveStates
      BY <1>1 DEF SeenItem, TypeOK, ItemStates, QueueStates, FinalStates, ActiveStates
    <2>2. SeenItem[i] = "QUEUED" <=> istate[i] = "QUEUED"
      BY <1>1 DEF SeenItem, ActiveStates
    <2>3. CASE i \in Interrupted
      BY <1>2, <1>4, <2>1, <2>2, <2>3 DEF SeenItem, ActiveStates
    <2>4. CASE i \notin Interrupted
      BY <1>2, <1>4, <2>1, <2>2, <2>4 DEF SeenItem
    <2> QED BY <2>3, <2>4
  <1>6. SeenItem' =
          [i \in Items |->
             IF \/ SeenItem[i] = "ACTIVE"
                \/ SeenItem[i] = "QUEUED" /\ {j \in RunningJobs : jitem[j] = i} # {}
             THEN "FAILED" ELSE SeenItem[i]]
    BY <1>5 DEF SeenItem
  <1> QED
    BY <1>1, <1>3, <1>6, SeenUnfinished DEF Life!Recover, SeenItem, SeenJob

LEMMA SeenNext == IInv /\ Taken /\ [Next]_vars => [Life!Next]_(Life!vars)
  <1> SUFFICES ASSUME IInv, Taken, [Next]_vars PROVE [Life!Next]_(Life!vars)
    OBVIOUS
  <1>0. TypeOK BY DEF IInv
  <1>1. CASE UNCHANGED vars BY <1>1, SeenStutter DEF vars
  <1>2. ASSUME NEW i \in Items, AddItem(i) PROVE Life!Add(i)
    <2>1. /\ up /\ istate[i] = "ABSENT" /\ istate' = [istate EXCEPT ![i] = "QUEUED"]
          /\ UNCHANGED <<up, jstate, jitem, written>>
      BY <1>2 DEF AddItem, Serving
    <2>2. SeenItem[i] = "ABSENT" BY <2>1 DEF SeenItem, ActiveStates
    <2>3. SeenItem' = [SeenItem EXCEPT ![i] = "QUEUED"]
      BY <1>0, <2>1, SeenWrite DEF ActiveStates
    <2>4. SeenJob' = SeenJob BY <2>1 DEF SeenJob
    <2> QED BY <2>1, <2>2, <2>3, <2>4 DEF Life!Add, SeenItem, SeenJob
  <1>3. CASE Other /\ ~\E i \in Items : AddItem(i)
    <2>1. istate' = istate
      BY <1>3
      DEF Other, StartCheck, StartSpawn, Pause, SetFallback, Execute, LoopStep, LoopHead, Pick,
          PickNothing, Stop
    <2> QED BY <1>0, <1>3, <2>1, OtherHarmless, SeenStutter
  <1>4. ASSUME NEW p \in Procs, Step(p) \/ Progress(p) \/ Raise(p) \/ DbError(p)
        PROVE  [Life!Next]_(Life!vars)
    BY <1>4, SeenStep
  <1>5. CASE Exit BY <1>5 DEF Exit, Life!Exit, Life!Next
  <1>6. CASE Startup BY <1>6, SeenStartup DEF Life!Next
  <1> QED BY <1>1, <1>2, <1>3, <1>4, <1>5, <1>6, NextCases DEF Life!Next

\* Whatever number of threads, requests, failed transactions and restarts cut
\* across each other, the rows keep the promises of ItemLifecycle.
THEOREM LifecycleRefinement == Spec => ImplementsLifecycle
  <1>1. Init => Life!Init BY DEF Init, Life!Init, ActiveStates
  <1>2. Init => Ordered /\ Taken
    BY DEF Init, Ordered, RowsOrdered, OldestFirst, Taken, Procs
  <1> QED
    BY <1>1, <1>2, SeenNext, TakenNext, OrderedNext, Invariance, TypeCorrect, PTL
    DEF Spec, ImplementsLifecycle, Life!Spec
=============================================================================
