---------------------------- MODULE ReadinessProofs ----------------------------
(* Proofs about Readiness, for any sets of requests, keys and devices. *)
EXTENDS Readiness, TLAPS

USE DEF keys, config, disks

-----------------------------------------------------------------------------
(* Type correctness.                                                        *)

LEMMA BootType ==
  ASSUME TypeOK, Boot
  PROVE  /\ container' \in {None, Invalid} \cup Keys
         /\ env' \in {None, Invalid} \cup Keys
         /\ stored' \in {None} \cup Keys
         /\ own' \in BOOLEAN
         /\ backend' \in {"simulated", "native"}
         /\ dryRun' \in BOOLEAN /\ confirmed' \in BOOLEAN
         /\ mounted' \in Devices \cup {None}
         /\ active' \in Devices \cup {None}
  <1>1. PICK given \in {None, Invalid} \cup Keys :
          container' = given /\ env' = Bootstrapped(given, stored) /\ own' = (given # None)
    BY DEF Boot
  <1>2. stored \in {None} \cup Keys /\ active \in Devices \cup {None} BY DEF TypeOK
  <1>3. stored' \in {None} \cup Keys BY <1>2 DEF Boot
  <1>4. env' \in {None, Invalid} \cup Keys BY <1>1, <1>2 DEF Bootstrapped
  <1>5. backend' \in {"simulated", "native"} BY DEF Boot, Built
  <1>6. dryRun' \in BOOLEAN /\ confirmed' \in BOOLEAN BY DEF Boot
  <1>7. PICK option \in Devices \cup {None} : AttachAtStartup(option) BY DEF Boot
  <1>8. mounted' \in Devices \cup {None} /\ active' \in Devices \cup {None}
    BY <1>2, <1>7 DEF AttachAtStartup
  <1>9. own' \in BOOLEAN BY <1>1
  <1> QED BY <1>1, <1>3, <1>4, <1>5, <1>6, <1>8, <1>9

LEMMA RestartType ==
  ASSUME TypeOK, Restart
  PROVE  TypeOK'
  <1>1. Boot BY DEF Restart
  <1>2. /\ pc' \in [Requests -> {"idle", "set", "clear", "attach"} \cup Evaluating]
        /\ arg' \in [Requests -> Keys \cup Devices \cup {None}]
        /\ \A t \in Requests : pc'[t] # "set" /\ pc'[t] # "attach"
        /\ calm' \subseteq Requests
        /\ mixed' \subseteq {"key", "disk"}
    BY DEF Restart
  <1> QED BY <1>1, <1>2, BootType DEF TypeOK

LEMMA RequestType ==
  ASSUME TypeOK, NEW t \in Requests, Request(t)
  PROVE  TypeOK'
  <1> USE DEF TypeOK, Step, Disturb, Evaluating
  <1>1. CASE SetStored(t) BY <1>1 DEF SetStored
  <1>2. CASE SetEnv(t) BY <1>2 DEF SetEnv
  <1>3. CASE ClearStored(t) BY <1>3 DEF ClearStored
  <1>4. CASE ClearEnv(t) BY <1>4 DEF ClearEnv
  <1>5. CASE AttachOpen(t) BY <1>5 DEF AttachOpen
  <1>6. CASE AttachRecord(t) BY <1>6 DEF AttachRecord
  <1>7. CASE AttachDbError(t) BY <1>7 DEF AttachDbError
  <1>8. CASE CheckKey(t) BY <1>8 DEF CheckKey
  <1>9. CASE CheckRecord(t) BY <1>9 DEF CheckRecord
  <1>10. CASE CheckRuntime(t) BY <1>10 DEF CheckRuntime
  <1>11. CASE Answer(t) BY <1>11 DEF Answer
  <1> HIDE DEF TypeOK
  <1> QED
    BY <1>1, <1>2, <1>3, <1>4, <1>5, <1>6, <1>7, <1>8, <1>9, <1>10, <1>11 DEF Request

\* Every variable keeps its type, whatever the requests are and however often
\* the process ends.
THEOREM TypeCorrect == Spec => []TypeOK
  <1>1. Init => TypeOK BY DEF Init, TypeOK
  <1>2. TypeOK /\ [Next]_vars => TypeOK'
    <2> SUFFICES ASSUME TypeOK, [Next]_vars PROVE TypeOK'
      OBVIOUS
    <2>1. CASE Restart BY <2>1, RestartType
    <2>2. ASSUME NEW t \in Requests, Request(t) PROVE TypeOK' BY <2>2, RequestType
    <2>3. CASE UNCHANGED vars BY <2>3 DEF TypeOK, vars
    <2> QED BY <2>1, <2>2, <2>3 DEF Next
  <1> QED BY <1>1, <1>2, PTL DEF Spec

-----------------------------------------------------------------------------
(* The inductive invariant: between its two writes a request still has what *)
(* it wrote first, and what an evaluation found still holds as long as no   *)
(* other request writes.                                                    *)

KeyInv ==
  /\ own => container # None
  /\ "key" \notin mixed =>
       /\ \A t, u \in Requests : pc[t] \in KeyPcs /\ pc[u] \in KeyPcs => t = u
       /\ \A t \in Requests : pc[t] = "set" => arg[t] = stored
       /\ \A t \in Requests : pc[t] = "clear" => stored = None
       /\ (\A t \in Requests : pc[t] \notin KeyPcs) => env = IF own THEN container ELSE stored

DiskInv ==
  "disk" \notin mixed =>
    /\ \A t, u \in Requests : pc[t] = "attach" /\ pc[u] = "attach" => t = u
    /\ \A t \in Requests : pc[t] = "attach" => mounted = arg[t]
    /\ (\A t \in Requests : pc[t] # "attach") => mounted \in {None, active}

CalmInv ==
  /\ calm # {} => Writers = {}
  /\ \A t \in calm :
       /\ pc[t] \in Evaluating
       /\ KeySource # "missing" /\ Gates
       /\ pc[t] = "start" => mounted # None

IInv == TypeOK /\ KeyInv /\ DiskInv /\ CalmInv

LEMMA InitInv == Init => IInv
  <1> SUFFICES ASSUME Init PROVE IInv
    OBVIOUS
  <1>1. TypeOK BY DEF Init, TypeOK
  <1>2. KeyInv BY DEF Init, KeyInv, KeyPcs
  <1>3. DiskInv BY DEF Init, DiskInv
  <1>4. CalmInv BY DEF Init, CalmInv
  <1> QED BY <1>1, <1>2, <1>3, <1>4 DEF IInv

LEMMA RestartInv ==
  ASSUME IInv, Restart
  PROVE  KeyInv' /\ DiskInv' /\ CalmInv'
  <1>1. /\ Boot
        /\ \A t \in Requests : pc'[t] = "idle"
        /\ calm' = {}
    BY DEF Restart
  <1>2. KeyInv'
    <2>1. PICK given \in {None, Invalid} \cup Keys :
            container' = given /\ env' = Bootstrapped(given, stored) /\ own' = (given # None)
      BY <1>1 DEF Boot
    <2>2. stored' = stored BY <1>1 DEF Boot
    <2>3. own' => container' # None BY <2>1
    <2>4. env' = IF own' THEN container' ELSE stored' BY <2>1, <2>2 DEF Bootstrapped
    <2> QED BY <1>1, <2>3, <2>4 DEF KeyInv, KeyPcs
  <1>3. DiskInv'
    <2>1. mounted' \in {None, active'} BY <1>1 DEF Boot, AttachAtStartup
    <2> QED BY <1>1, <2>1 DEF DiskInv
  <1>4. CalmInv' BY <1>1 DEF CalmInv
  <1> QED BY <1>2, <1>3, <1>4

LEMMA RequestKeyInv ==
  ASSUME IInv, NEW t \in Requests, Request(t)
  PROVE  KeyInv'
  <1> TypeOK /\ KeyInv BY DEF IInv
  <1> USE DEF TypeOK, KeyInv, KeyPcs, Step, Disturb
  <1>1. CASE SetStored(t) BY <1>1 DEF SetStored
  <1>2. CASE SetEnv(t) BY <1>2 DEF SetEnv
  <1>3. CASE ClearStored(t) BY <1>3 DEF ClearStored
  <1>4. CASE ClearEnv(t) BY <1>4 DEF ClearEnv
  <1>5. CASE \/ AttachOpen(t) \/ AttachRecord(t) \/ AttachDbError(t)
             \/ CheckKey(t) \/ CheckRecord(t) \/ CheckRuntime(t) \/ Answer(t)
    <2>1. /\ keys' = keys
          /\ "key" \notin mixed' => "key" \notin mixed
          /\ pc[t] \notin KeyPcs
          /\ \A u \in Requests :
               IF u = t THEN pc'[u] \notin KeyPcs ELSE pc'[u] = pc[u] /\ arg'[u] = arg[u]
      BY <1>5 DEF AttachOpen, AttachRecord, AttachDbError, CheckKey, CheckRecord,
                  CheckRuntime, Answer, Evaluating
    <2> QED BY <2>1
  <1> QED BY <1>1, <1>2, <1>3, <1>4, <1>5 DEF Request

LEMMA RequestDiskInv ==
  ASSUME IInv, NEW t \in Requests, Request(t)
  PROVE  DiskInv'
  <1> TypeOK /\ DiskInv BY DEF IInv
  <1> USE DEF TypeOK, DiskInv, Step, Disturb
  <1>1. CASE AttachOpen(t) BY <1>1 DEF AttachOpen
  <1>2. CASE AttachRecord(t) BY <1>2 DEF AttachRecord
  <1>3. CASE AttachDbError(t) BY <1>3 DEF AttachDbError
  <1>4. CASE \/ SetStored(t) \/ SetEnv(t) \/ ClearStored(t) \/ ClearEnv(t)
             \/ CheckKey(t) \/ CheckRecord(t) \/ CheckRuntime(t) \/ Answer(t)
    <2>1. /\ disks' = disks
          /\ "disk" \notin mixed' => "disk" \notin mixed
          /\ pc[t] # "attach"
          /\ \A u \in Requests :
               IF u = t THEN pc'[u] # "attach" ELSE pc'[u] = pc[u] /\ arg'[u] = arg[u]
      BY <1>4 DEF SetStored, SetEnv, ClearStored, ClearEnv, CheckKey, CheckRecord,
                  CheckRuntime, Answer, Evaluating
    <2> QED BY <2>1
  <1> QED BY <1>1, <1>2, <1>3, <1>4 DEF Request

LEMMA RequestCalmInv ==
  ASSUME IInv, NEW t \in Requests, Request(t)
  PROVE  CalmInv'
  <1> TypeOK /\ CalmInv BY DEF IInv
  <1> USE DEF TypeOK, CalmInv, Step
  <1>1. CASE \/ SetStored(t) \/ SetEnv(t) \/ ClearStored(t) \/ ClearEnv(t)
             \/ AttachOpen(t) \/ AttachRecord(t) \/ AttachDbError(t)
    <2>1. calm' = {}
      BY <1>1 DEF SetStored, SetEnv, ClearStored, ClearEnv, AttachOpen,
                  AttachRecord, AttachDbError, Disturb
    <2> QED BY <2>1
  <1>2. CASE CheckKey(t) BY <1>2 DEF CheckKey, Writers, KeySource, Gates, Evaluating, KeyPcs
  <1>3. CASE CheckRecord(t) BY <1>3 DEF CheckRecord, Writers, KeySource, Gates, Evaluating, KeyPcs
  <1>4. CASE CheckRuntime(t) BY <1>4 DEF CheckRuntime, Writers, KeySource, Gates, Evaluating, KeyPcs
  <1>5. CASE Answer(t) BY <1>5 DEF Answer, Writers, KeySource, Gates, Evaluating, KeyPcs
  <1> QED BY <1>1, <1>2, <1>3, <1>4, <1>5 DEF Request

\* IInv holds in every reachable state, for any number of requests and restarts.
THEOREM Invariance == Spec => []IInv
  <1>1. IInv /\ [Next]_vars => IInv'
    <2> SUFFICES ASSUME IInv, [Next]_vars PROVE IInv'
      OBVIOUS
    <2>1. CASE Restart BY <2>1, RestartInv, RestartType DEF IInv
    <2>2. ASSUME NEW t \in Requests, Request(t) PROVE IInv'
      BY <2>2, RequestType, RequestKeyInv, RequestDiskInv, RequestCalmInv DEF IInv
    <2>3. CASE UNCHANGED vars
      BY <2>3 DEF IInv, TypeOK, KeyInv, DiskInv, CalmInv, Writers, KeySource, Gates, vars
    <2> QED BY <2>1, <2>2, <2>3 DEF Next
  <1> QED BY InitInv, <1>1, PTL DEF Spec

-----------------------------------------------------------------------------

\* The next process uses the key of this one, if the container gives it none.
THEOREM KeyIsKept == Spec => []RestartKeepsKey
  <1>1. IInv => RestartKeepsKey BY DEF IInv, KeyInv, RestartKeepsKey
  <1> QED BY <1>1, Invariance, PTL

\* Whenever readiness lets a request start the queue, an install finds the key,
\* the disk and the backend it needs, the named exceptions apart.
THEOREM ReadyIsEnough == Spec => []ReadyCanInstall
  <1>1. IInv => ReadyCanInstall
    <2> SUFFICES ASSUME IInv, NEW t \in Requests, pc[t] = "start", t \in calm
                 PROVE  /\ ("key" \notin mixed /\ ~(own /\ container = Invalid)) => KeyLoads
                        /\ mounted # None /\ ("disk" \notin mixed => mounted = active)
                        /\ dryRun \/ (confirmed /\ backend = "native")
      BY DEF ReadyCanInstall
    <2>1. /\ Writers = {}
          /\ KeySource # "missing" /\ Gates /\ mounted # None
      BY DEF IInv, CalmInv
    <2>2. \A u \in Requests : pc[u] \notin KeyPcs /\ pc[u] # "attach" BY <2>1 DEF Writers
    <2>3. ASSUME "key" \notin mixed, ~(own /\ container = Invalid) PROVE KeyLoads
      <3>1. env = IF own THEN container ELSE stored BY <2>2, <2>3 DEF IInv, KeyInv
      <3>2. CASE own BY <2>3, <3>1, <3>2 DEF IInv, KeyInv, TypeOK, KeyLoads
      <3>3. CASE ~own BY <2>1, <3>1, <3>3 DEF IInv, TypeOK, KeyLoads, KeySource
      <3> QED BY <3>2, <3>3
    <2>4. "disk" \notin mixed => mounted = active BY <2>1, <2>2 DEF IInv, DiskInv
    <2>5. dryRun \/ (confirmed /\ backend = "native") BY <2>1 DEF IInv, TypeOK, Gates
    <2> QED BY <2>1, <2>3, <2>4, <2>5
  <1> QED BY <1>1, Invariance, PTL
=============================================================================
