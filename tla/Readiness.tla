------------------------------- MODULE Readiness -------------------------------
(***************************************************************************)
(* What has to be in place before the queue may run, and who decides that   *)
(* it is: the startup of apps/api/main.py, SettingsService with the common  *)
(* key, the adapter and the disk that are chosen, ReadinessService, and the *)
(* request handlers that change or ask for any of it.                       *)
(*                                                                          *)
(* The key lives in two places, the settings table and the environment of   *)
(* the process, and the disk in two more, the adapter and the table of      *)
(* attachments; each request writes one after the other, and decrypting and *)
(* writing look at one of them only.                                        *)
(***************************************************************************)
EXTENDS Integers, FiniteSets

CONSTANTS
  Requests,  \* the request threads
  Keys,      \* common keys, normalized
  Invalid,   \* a value of WIIU_COMMON_KEY that is no key
  Devices,   \* USB block devices
  None

ASSUME ValuesAssumption ==
  /\ None \notin Keys \cup Devices \cup {Invalid}
  /\ Invalid \notin Keys

VARIABLES
  container,  \* WIIU_COMMON_KEY as the container was started with it
  env,        \* os.environ["WIIU_COMMON_KEY"]
  stored,     \* the setting wiiu_common_key
  backend,    \* the adapter that was built
  dryRun,     \* the settings dry_run and first_write_confirmed, which only
  confirmed,  \* bootstrap_defaults writes
  mounted,    \* the device the adapter has open
  active,     \* the device of the active attachment in the database
  pc,         \* Requests -> where the request is
  arg,        \* Requests -> its key or device
  own,        \* history: env is still what the container gave
  calm,       \* history: the evaluations that no other request has disturbed
  mixed       \* history: what two requests wrote at a time ("key", "disk")

keys == <<container, env, stored, own>>
config == <<backend, dryRun, confirmed>>
disks == <<mounted, active>>
vars == <<keys, config, disks, pc, arg, calm, mixed>>

KeyPcs == {"set", "clear"}
Writers == {t \in Requests : pc[t] \in KeyPcs \cup {"attach"}}
Evaluating == {"record", "runtime", "start"}

Step(t, l, a) == pc' = [pc EXCEPT ![t] = l] /\ arg' = [arg EXCEPT ![t] = a]

-----------------------------------------------------------------------------
(* Startup.                                                                 *)

\* bootstrap_common_key_env; a value that is no key stays where it is.
Bootstrapped(given, kept) == IF given # None THEN given ELSE kept

\* build_wfs_adapter, when it returns at all.
Built(mode, loads, dry) ==
  IF mode = "simulated" THEN {"simulated"}
  ELSE IF loads THEN {"native"}
  ELSE IF mode = "auto" /\ dry THEN {"simulated"} ELSE {}

\* The adapter opens WIIU_DISK, or else the disk of the last attachment, and
\* verifies it; when that fails the record of that attachment stays.
AttachAtStartup(option) ==
  LET d == IF option # None THEN option ELSE active IN
    \/ d # None /\ mounted' = d /\ active' = d
    \/ mounted' = None /\ UNCHANGED active

\* startup, with the settings and the environment it is given.
Boot ==
  /\ \E given \in {None, Invalid} \cup Keys :
       /\ container' = given
       /\ env' = Bootstrapped(given, stored)
       /\ own' = (given # None)
  /\ UNCHANGED stored
  /\ dryRun' \in BOOLEAN /\ confirmed' \in BOOLEAN
  /\ \E mode \in {"simulated", "native", "auto"}, loads \in BOOLEAN :
       backend' \in Built(mode, loads, dryRun')
  /\ \E option \in Devices \cup {None} : AttachAtStartup(option)

Init ==
  /\ container = None /\ env = None /\ stored = None /\ own = FALSE
  /\ backend = "simulated" /\ dryRun = TRUE /\ confirmed = FALSE
  /\ mounted = None /\ active = None
  /\ pc = [t \in Requests |-> "idle"]
  /\ arg = [t \in Requests |-> None]
  /\ calm = {}
  /\ mixed = {}

\* The process ends, with whatever its requests were doing, and the next starts.
Restart ==
  /\ Boot
  /\ pc' = [t \in Requests |-> "idle"]
  /\ arg' = [t \in Requests |-> None]
  /\ calm' = {}
  /\ mixed' = {}

-----------------------------------------------------------------------------
(* The common key.                                                          *)

\* One more request writes to the key, or to the disk.
Disturb(what, pcs) ==
  /\ calm' = {}
  /\ mixed' = IF \E u \in Requests : pc[u] \in pcs THEN mixed \cup {what} ELSE mixed

\* Mutant: whatever is given is stored.
SetStored_Unchecked(t) ==
  /\ pc[t] = "idle"
  /\ \E k \in Keys \cup {Invalid} : stored' = k /\ Step(t, "set", k)
  /\ Disturb("key", KeyPcs)
  /\ UNCHANGED <<container, env, own, config, disks>>

\* set_common_key, of a valid key; any other is refused.
SetStored(t) ==
  /\ pc[t] = "idle"
  /\ \E k \in Keys : stored' = k /\ Step(t, "set", k)
  /\ Disturb("key", KeyPcs)
  /\ UNCHANGED <<container, env, own, config, disks>>

SetEnv(t) ==
  /\ pc[t] = "set"
  /\ env' = arg[t]
  /\ own' = FALSE
  /\ Step(t, "idle", None)
  /\ calm' = {}
  /\ UNCHANGED <<container, stored, config, disks, mixed>>

\* clear_common_key.
ClearStored(t) ==
  /\ pc[t] = "idle"
  /\ stored' = None
  /\ Step(t, "clear", None)
  /\ Disturb("key", KeyPcs)
  /\ UNCHANGED <<container, env, own, config, disks>>

\* Mutant: the key stays in the environment.
ClearEnv_Keep(t) ==
  /\ pc[t] = "clear"
  /\ own' = FALSE
  /\ Step(t, "idle", None)
  /\ calm' = {}
  /\ UNCHANGED <<container, env, stored, config, disks, mixed>>

ClearEnv(t) ==
  /\ pc[t] = "clear"
  /\ env' = None
  /\ own' = FALSE
  /\ Step(t, "idle", None)
  /\ calm' = {}
  /\ UNCHANGED <<container, stored, config, disks, mixed>>

\* common_key_source; the setting is never anything but a key.
KeySource ==
  IF env \in Keys THEN "env" ELSE IF stored # None THEN "stored" ELSE "missing"

\* load_common_key, for a ticket, looks at the environment.
KeyLoads == env \in Keys

-----------------------------------------------------------------------------
(* The disk: attach_device.  The attach of a disk that does not verify       *)
(* raises and changes nothing.                                              *)

AttachOpen(t) ==
  /\ pc[t] = "idle"
  /\ \E d \in Devices : mounted' = d /\ Step(t, "attach", d)
  /\ Disturb("disk", {"attach"})
  /\ UNCHANGED <<keys, config, active>>

AttachRecord(t) ==
  /\ pc[t] = "attach"
  /\ active' = arg[t]
  /\ Step(t, "idle", None)
  /\ calm' = {}
  /\ UNCHANGED <<keys, config, mounted, mixed>>

\* The transaction fails: the disk is open and another one on record.
AttachDbError(t) ==
  /\ pc[t] = "attach"
  /\ mixed' = mixed \cup {"disk"}
  /\ Step(t, "idle", None)
  /\ calm' = {}
  /\ UNCHANGED <<keys, config, disks>>

-----------------------------------------------------------------------------
(* Starting the queue: ReadinessService.evaluate, then worker.start().      *)

Gates == dryRun \/ (backend # "simulated" /\ confirmed)

\* common_key_present; the other settings do not change under an evaluation.
CheckKey(t) ==
  /\ pc[t] = "idle"
  /\ KeySource # "missing" /\ Gates
  /\ Step(t, "record", None)
  /\ calm' = IF Writers = {} THEN calm \cup {t} ELSE calm
  /\ UNCHANGED <<keys, config, disks, mixed>>

\* Only disks that were verified are on record.
CheckRecord(t) ==
  /\ pc[t] = "record"
  /\ active # None
  /\ Step(t, "runtime", None)
  /\ UNCHANGED <<keys, config, disks, calm, mixed>>

\* Mutant: an attachment on record counts as one.
CheckRuntime_RecordOnly(t) ==
  /\ pc[t] = "runtime"
  /\ Step(t, "start", None)
  /\ UNCHANGED <<keys, config, disks, calm, mixed>>

\* runtime_attachment_status: a flush, which needs an open disk.
CheckRuntime(t) ==
  /\ pc[t] = "runtime"
  /\ mounted # None
  /\ Step(t, "start", None)
  /\ UNCHANGED <<keys, config, disks, calm, mixed>>

\* The queue starts, or a check has failed, one of the key files and of the
\* directories included, and the request is answered with 503.
Answer(t) ==
  /\ pc[t] \in Evaluating
  /\ Step(t, "idle", None)
  /\ calm' = calm \ {t}
  /\ UNCHANGED <<keys, config, disks, mixed>>

-----------------------------------------------------------------------------

Request(t) ==
  \/ SetStored(t) \/ SetEnv(t) \/ ClearStored(t) \/ ClearEnv(t)
  \/ AttachOpen(t) \/ AttachRecord(t) \/ AttachDbError(t)
  \/ CheckKey(t) \/ CheckRecord(t) \/ CheckRuntime(t) \/ Answer(t)

Next == Restart \/ \E t \in Requests : Request(t)

Spec == Init /\ [][Next]_vars

-----------------------------------------------------------------------------
(* Properties.                                                              *)

TypeOK ==
  /\ container \in {None, Invalid} \cup Keys
  /\ env \in {None, Invalid} \cup Keys
  /\ stored \in {None} \cup Keys
  /\ own \in BOOLEAN
  /\ backend \in {"simulated", "native"}
  /\ dryRun \in BOOLEAN /\ confirmed \in BOOLEAN
  /\ mounted \in Devices \cup {None}
  /\ active \in Devices \cup {None}
  /\ pc \in [Requests -> {"idle", "set", "clear", "attach"} \cup Evaluating]
  /\ arg \in [Requests -> Keys \cup Devices \cup {None}]
  /\ \A t \in Requests :
       /\ pc[t] = "set" => arg[t] \in Keys
       /\ pc[t] = "attach" => arg[t] \in Devices
  /\ calm \subseteq Requests
  /\ mixed \subseteq {"key", "disk"}

\* The next process uses the key this one does, if the container gives it none:
\* the table and the environment agree whenever no request is between the two,
\* unless two of them have run at a time or the container's own value is used.
RestartKeepsKey ==
  (\A t \in Requests : pc[t] \notin KeyPcs) /\ "key" \notin mixed =>
    env = IF own THEN container ELSE stored

\* A queue that readiness lets start finds what an install needs: a key that
\* load_common_key accepts, the disk of the active attachment open, and a
\* backend that writes to it, or nothing to be written.  Overlapping requests
\* and a container whose own value is no key are the exceptions: then the key
\* in the table counts as available and the one in the environment is used.
ReadyCanInstall ==
  \A t \in Requests : pc[t] = "start" /\ t \in calm =>
    /\ "key" \notin mixed /\ ~(own /\ container = Invalid) => KeyLoads
    /\ mounted # None /\ ("disk" \notin mixed => mounted = active)
    /\ dryRun \/ (confirmed /\ backend = "native")
=============================================================================
