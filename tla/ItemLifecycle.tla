----------------------------- MODULE ItemLifecycle -----------------------------
(***************************************************************************)
(* What the queue promises those who look at its items and jobs, whichever  *)
(* threads work on them and wherever those are cut off: an item changes     *)
(* only under a job of its own that has no outcome yet, but for a failure   *)
(* that is stored once more; it is DONE only after such a job has written   *)
(* it; it is left in progress only while another job goes on with it; and a *)
(* restart gives an outcome to what was under way and to nothing else.      *)
(***************************************************************************)

CONSTANTS
  Items, JobIds,
  None  \* no item

VARIABLES
  up,    \* the service is there
  item,  \* Items -> its state; "ACTIVE" is any phase of an install
  job,   \* JobIds -> its state; a job is "WRITTEN" once it has written its item
  of     \* JobIds -> its item

vars == <<up, item, job, of>>

Unfinished == {j \in JobIds : job[j] \in {"RUNNING", "WRITTEN"}}
JobsOf(i) == {j \in Unfinished : of[j] = i}

Init ==
  /\ up = TRUE
  /\ item = [i \in Items |-> "ABSENT"]
  /\ job = [j \in JobIds |-> "ABSENT"]
  /\ of = [j \in JobIds |-> None]

Add(i) ==
  /\ up /\ item[i] = "ABSENT"
  /\ item' = [item EXCEPT ![i] = "QUEUED"]
  /\ UNCHANGED <<up, job, of>>

\* An item may be worked on again in any state, and by several jobs at a time.
Begin(j, i) ==
  /\ up /\ item[i] # "ABSENT" /\ job[j] = "ABSENT"
  /\ job' = [job EXCEPT ![j] = "RUNNING"]
  /\ of' = [of EXCEPT ![j] = i]
  /\ UNCHANGED <<up, item>>

Work(j) ==
  /\ up /\ j \in Unfinished
  /\ \E state \in {"ACTIVE", "FALLBACK_STAGED", "FAILED", "DONE"} :
       /\ state = "DONE" => job[j] = "WRITTEN"
       /\ item' = [item EXCEPT ![of[j]] = state]
  /\ UNCHANGED <<up, job, of>>

Write(j) ==
  /\ up /\ j \in Unfinished
  /\ job' = [job EXCEPT ![j] = "WRITTEN"]
  /\ UNCHANGED <<up, item, of>>

End(j) ==
  /\ up /\ j \in Unfinished
  /\ item[of[j]] = "ACTIVE" => JobsOf(of[j]) # {j}
  /\ \E outcome \in {"DONE", "FAILED"} :
       /\ outcome = "DONE" => job[j] = "WRITTEN"
       /\ job' = [job EXCEPT ![j] = outcome]
  /\ UNCHANGED <<up, item, of>>

\* The error path of a job that has failed already.
StoreFailure(j) ==
  /\ up /\ job[j] = "FAILED"
  /\ item' = [item EXCEPT ![of[j]] = "FAILED"]
  /\ UNCHANGED <<up, job, of>>

Exit == up /\ up' = FALSE /\ UNCHANGED <<item, job, of>>

\* An item that waits for its first job goes on waiting; one that was staged
\* stays staged.
Recover ==
  /\ ~up /\ up' = TRUE
  /\ job' = [j \in JobIds |-> IF j \in Unfinished THEN "FAILED" ELSE job[j]]
  /\ item' = [i \in Items |->
       IF item[i] = "ACTIVE" \/ (item[i] = "QUEUED" /\ JobsOf(i) # {}) THEN "FAILED" ELSE item[i]]
  /\ UNCHANGED of

Next ==
  \/ \E i \in Items : Add(i) \/ \E j \in JobIds : Begin(j, i)
  \/ \E j \in JobIds : Work(j) \/ Write(j) \/ End(j) \/ StoreFailure(j)
  \/ Exit
  \/ Recover

Spec == Init /\ [][Next]_vars
=============================================================================
