---------------------------- MODULE ServerTasks ----------------------------
(***************************************************************************)
(* The operations of a server node (openstack_plugin/resources/compute/    *)
(* server.py).  Compute requests only start a task; the plugin asks again, *)
(* by raising OperationRetry, until the server shows the status it waits   *)
(* for.  What an operation has already asked for is remembered in flags in *)
(* the runtime properties, which every attempt reads from the store of the *)
(* engine and which are stored again by instance.update() and at the end   *)
(* of each attempt.  A crash loses what was not stored.                    *)
(*                                                                         *)
(* A plain node (no use_external_resource) is modelled; what the decorator *)
(* does around the handlers is in NodeOperation.                           *)
(***************************************************************************)
EXTENDS Naturals, FiniteSets

CONSTANTS Names,      \* names of snapshots
          MaxFaults,  \* a bound on the faults of each kind
          MaxKinds    \* a bound on the kinds that occur in one behaviour

(***************************************************************************)
(* "crash":     the worker dies during an attempt.                         *)
(* "transient": a request fails and has no effect.                         *)
(* "error":     the compute service fails to carry out a task, whichever.  *)
(* "user":      somebody else starts, stops or deletes the server.         *)
(* "giveup":    the engine has retried an operation often enough.          *)
(***************************************************************************)
FaultKinds == {"crash", "transient", "error", "user", "giveup"}

ASSUME FaultsAssumption == MaxFaults \in [FaultKinds -> Nat] /\ MaxKinds \in Nat

VARIABLES
  server,  \* the server: status, task_state, security groups, password
  images,  \* the snapshot images, by name
  store,   \* runtime properties, as the engine keeps them
  rp,      \* runtime properties, the working copy of the attempt
  before,  \* history: store when the operation was started
  quiet,   \* history: whether the server had no task then
  orphaned, \* history: whether a server was made whose id was never stored
  asked,   \* history: the requests made since then, by kind, up to 2
  op,      \* the current operation
  name,    \* its snapshot
  retry,   \* whether retry_number exceeds 0
  phase,   \* the step the attempt is at
  result,  \* outcome of the attempt
  inst,    \* state of the node instance in the workflow
  faults   \* faults so far, by kind

cloud == <<server, images>>
call == <<before, quiet, orphaned, op, name, retry, inst>>
vars == <<cloud, store, rp, asked, call, phase, result, faults>>

Operations == {"create", "configure", "stop", "delete", "reboot", "suspend",
               "resume", "snapshot_create", "snapshot_apply",
               "snapshot_delete"}
Requests == {"stop", "start", "delete", "reboot", "suspend", "resume",
             "rebuild", "backup", "image"}
Flag == {"none", "PENDING", "DONE"}

(***************************************************************************)
(* id, create_server_task .. restore_state of constants.py; groups is what *)
(* the runtime properties say of the security groups of the node: none are *)
(* asked for, they are to be attached ("linked" if ports of the server     *)
(* have some), or they are attached.                                       *)
(***************************************************************************)
Properties == [id : BOOLEAN, stop : Flag, start : Flag, delete : BOOLEAN,
               backup : Flag, restore : Flag \union {"rebuild_done"},
               groups : {"none", "unlinked", "linked", "attached"}]
Cleared == [id |-> FALSE, stop |-> "none", start |-> "none",
            delete |-> FALSE, backup |-> "none", restore |-> "none",
            groups |-> "none"]

Absent == [status |-> "absent", task |-> "none", groups |-> {},
           posted |-> FALSE]

MayFault(kind) ==
  /\ faults[kind] < MaxFaults[kind]
  /\ Cardinality({k \in FaultKinds \ {kind} : faults[k] > 0}) < MaxKinds
Fault(kind) == /\ MayFault(kind)
               /\ faults' = [faults EXCEPT ![kind] = @ + 1]

-----------------------------------------------------------------------------
(***************************************************************************)
(* The compute service: the requests it accepts, and the task each starts. *)
(***************************************************************************)
Accepts(r) ==
  CASE r = "delete" -> server.status # "absent"
    [] r \in {"stop", "suspend"} ->
         server.status = "ACTIVE" /\ server.task = "none"
    [] r = "start" -> server.status = "SHUTOFF" /\ server.task = "none"
    [] r = "resume" -> server.status = "SUSPENDED" /\ server.task = "none"
    [] OTHER -> server.status \in {"ACTIVE", "SHUTOFF"} /\ server.task = "none"

Task(r) == CASE r = "stop" -> "powering-off"
             [] r = "start" -> "powering-on"
             [] r = "delete" -> "deleting"
             [] r = "reboot" -> "rebooting"
             [] r = "suspend" -> "suspending"
             [] r = "resume" -> "resuming"
             [] r = "rebuild" -> "rebuild_spawning"
             [] OTHER -> "image_uploading"

Starts(r) ==
  /\ server' = [server EXCEPT
       !.task = Task(r),
       !.status = CASE r = "rebuild" -> "REBUILD"
                    [] r = "reboot" -> "REBOOT"
                    [] OTHER -> @]
  /\ asked' = [asked EXCEPT ![r] = IF @ < 2 THEN @ + 1 ELSE @]

StatusAfter(task) == CASE task \in {"powering-off", "rebuild_spawning"} -> "SHUTOFF"
                       [] task = "suspending" -> "SUSPENDED"
                       [] OTHER -> "ACTIVE"

ServiceCompletes ==
  /\ server.task # "none"
  /\ CASE server.task = "deleting" ->
            /\ server' = Absent
            /\ images' = [n \in Names |-> IF images[n] = "queued" THEN "absent"
                                                                  ELSE images[n]]
       [] server.task = "image_uploading" ->
            /\ server' = [server EXCEPT !.task = "none"]
            /\ images' = [n \in Names |-> IF images[n] = "queued" THEN "active"
                                                                  ELSE images[n]]
       [] OTHER ->
            /\ server' = [server EXCEPT !.task = "none",
                                        !.status = StatusAfter(server.task)]
            /\ UNCHANGED images
  /\ UNCHANGED <<store, rp, asked, call, phase, result, faults>>

(***************************************************************************)
(* Any task can fail.  The server is then in ERROR, but for an image that  *)
(* cannot be uploaded: the image is removed and the server is as before.   *)
(***************************************************************************)
ServiceFails ==
  /\ server.task # "none"
  /\ IF server.task = "image_uploading"
     THEN /\ server' = [server EXCEPT !.task = "none"]
          /\ images' = [n \in Names |-> IF images[n] = "queued" THEN "absent"
                                                                ELSE images[n]]
     ELSE /\ server' = [server EXCEPT !.task = "none", !.status = "ERROR"]
          /\ UNCHANGED images
  /\ Fault("error")
  /\ UNCHANGED <<store, rp, asked, call, phase, result>>

PasswordPosted ==
  /\ server.status = "ACTIVE" /\ ~server.posted
  /\ server' = [server EXCEPT !.posted = TRUE]
  /\ UNCHANGED <<images, store, rp, asked, call, phase, result, faults>>

ImageRemoved ==
  /\ \E n \in Names : /\ images[n] = "deleting"
                      /\ images' = [images EXCEPT ![n] = "absent"]
  /\ UNCHANGED <<server, store, rp, asked, call, phase, result, faults>>

UserInterferes ==
  /\ Fault("user")
  /\ \/ \E r \in {"stop", "start"} :
          /\ Accepts(r)
          /\ server' = [server EXCEPT !.task = Task(r)]
     \/ server.status # "absent" /\ server' = Absent
  /\ UNCHANGED <<images, store, rp, asked, call, phase, result>>

-----------------------------------------------------------------------------
Init ==
  /\ server = Absent
  /\ images = [n \in Names |-> "absent"]
  /\ store = Cleared /\ rp = Cleared /\ before = Cleared
  /\ quiet = TRUE /\ orphaned = FALSE
  /\ asked = [r \in Requests |-> 0]
  /\ op = "create" /\ name \in Names /\ retry = FALSE
  /\ phase = "idle" /\ result = "ok"
  /\ inst = "uninitialized"
  /\ faults = [k \in FaultKinds |-> 0]

(***************************************************************************)
(* The workflows: install is create and configure, uninstall is stop and   *)
(* delete; the others, and stop, are run on an installed node in any order.*)
(* What fails can be run again.                                            *)
(***************************************************************************)
Permitted(o) ==
  CASE o = "create" -> inst = "uninitialized"
    [] o = "configure" -> inst = "created"
    [] o \in {"stop", "delete"} -> inst # "uninitialized"
    [] OTHER -> inst = "configured"

Begin ==
  /\ phase = "idle"
  /\ op' \in {o \in Operations : Permitted(o)}
  /\ name' \in Names
  /\ before' = store /\ quiet' = (server.task = "none")
  /\ asked' = [r \in Requests |-> 0]
  /\ retry' = FALSE
  /\ phase' = "begin"
  /\ inst' = IF op' = "delete" \/ (op' = "stop" /\ inst = "created")
             THEN "deleting" ELSE inst
  /\ UNCHANGED <<cloud, store, rp, result, faults, orphaned>>

EntryPhase(o) ==
  CASE o \in {"create", "configure", "delete"} -> o
    [] o = "stop" -> "power"
    [] o = "reboot" -> IF retry THEN "reboot_check" ELSE "request"
    [] o \in {"suspend", "resume"} -> "request"
    [] o = "snapshot_create" -> "backup"
    [] o = "snapshot_apply" -> "restore"
    [] o = "snapshot_delete" -> "image"

End(outcome) == phase' = "end" /\ result' = outcome
Goto(p) == phase' = p /\ UNCHANGED result

\* The head of with_openstack_resource: stop and delete of a node without id.
Enter ==
  /\ phase = "begin"
  /\ rp' = store
  /\ IF op \in {"stop", "delete"} /\ ~store.id THEN End("ok")
                                               ELSE Goto(EntryPhase(op))
  /\ UNCHANGED <<cloud, store, asked, call, faults>>

\* A request that fails, and a read of a server that is not there.
RequestRaises ==
  /\ phase \notin {"idle", "begin", "end", "waiting"}
  /\ \/ Fault("transient")
     \/ /\ server.status = "absent"
        /\ phase \in {"configure", "power", "power_check", "backup_check",
                      "rebuild_check", "reboot_check"}
        /\ UNCHANGED faults
  /\ End("failed")
  /\ UNCHANGED <<cloud, store, rp, asked, call>>

(***************************************************************************)
(* A request r, after which the flags become p: update() stores them, and  *)
(* the attempt goes on at the given step.  The worker may die between the  *)
(* request and the update.  A request that is refused fails the operation. *)
(***************************************************************************)
Request(r, p, next) ==
  IF Accepts(r)
  THEN /\ Starts(r)
       /\ \/ rp' = p /\ store' = p /\ Goto(next) /\ UNCHANGED faults
          \/ Fault("crash") /\ Goto("begin") /\ UNCHANGED <<rp, store>>
  ELSE End("failed") /\ UNCHANGED <<server, store, rp, asked, faults>>

-----------------------------------------------------------------------------
(***************************************************************************)
(* What is created has the security groups of its ports, or the default    *)
(* one.  Nobody asks whether this node has made a server before.           *)
(***************************************************************************)
Create ==
  /\ phase = "create"
  /\ \/ /\ \E g \in {"none", "unlinked", "linked"}, b \in BOOLEAN :
             /\ server' = [status |-> "BUILD", task |-> "spawning", posted |-> b,
                           groups |-> {IF g = "linked" THEN "of_ports"
                                                       ELSE "default"}]
             /\ rp' = [rp EXCEPT !.id = TRUE, !.groups = g]
        /\ orphaned' = (orphaned \/ server.status # "absent")
        /\ End("ok")
     \/ End("failed") /\ UNCHANGED <<server, rp, orphaned>>
  /\ UNCHANGED <<images, store, asked, before, quiet, op, name, retry, inst, faults>>

\* configure waits for the server and for its password.
Configure ==
  /\ phase = "configure" /\ server.status # "absent"
  /\ CASE server.status = "ERROR" -> End("failed")
       [] server.status = "ACTIVE" /\ server.posted ->
            IF rp.groups \in {"unlinked", "linked"} THEN Goto("groups")
                                                    ELSE End("ok")
       [] OTHER -> End("retry")
  /\ UNCHANGED <<cloud, store, rp, asked, call, faults>>

\* Mutant: the groups the server was created with are kept.
DropFirstGroup_Never ==
  /\ phase = "groups"
  /\ Goto("groups_add")
  /\ UNCHANGED <<cloud, store, rp, asked, call, faults>>

(***************************************************************************)
(* _handle_connect_security_groups_to_server: without ports that have      *)
(* groups, the first group of the server is removed; then those of the     *)
(* node are added.                                                         *)
(***************************************************************************)
DropFirstGroup ==
  /\ phase = "groups" /\ server.status # "absent"
  /\ IF rp.groups = "linked" \/ server.groups = {}
     THEN UNCHANGED server
     ELSE \E first \in server.groups :
            server' = [server EXCEPT !.groups = @ \ {first}]
  /\ Goto("groups_add")
  /\ UNCHANGED <<images, store, rp, asked, call, faults>>

AddGroups ==
  /\ phase = "groups_add" /\ server.status # "absent"
  /\ server' = [server EXCEPT !.groups = @ \union {"of_node"}]
  /\ rp' = [rp EXCEPT !.groups = "attached"]
  /\ End("ok")
  /\ UNCHANGED <<images, store, asked, call, faults>>

GroupsRaise ==
  /\ phase \in {"groups", "groups_add"} /\ server.status = "absent"
  /\ End("failed")
  /\ UNCHANGED <<cloud, store, rp, asked, call, faults>>

-----------------------------------------------------------------------------
(***************************************************************************)
(* _stop_server and _start_server.  snapshot_apply starts the server after *)
(* the rebuild; everything else that changes its power stops it.           *)
(***************************************************************************)
Verb == IF op = "snapshot_apply" /\ rp.restore = "rebuild_done"
        THEN "start" ELSE "stop"
Target(verb) == IF verb = "start" THEN "ACTIVE" ELSE "SHUTOFF"

(* The end of both: the flag is DONE; _start_server stores it, and         *)
(* snapshot_apply is then over, while after _stop_server it rebuilds.      *)
PowerDone ==
  IF Verb = "start"
  THEN /\ rp' = [rp EXCEPT !.start = "DONE", !.restore = "DONE"]
       /\ store' = rp'
       /\ End("ok")
  ELSE /\ rp' = [rp EXCEPT !.stop = "DONE"]
       /\ IF op = "stop" THEN End("ok") ELSE Goto("rebuild")
       /\ UNCHANGED store

\* Mutant: the start looks at the flag of the stop.
PowerRead_StopFlag ==
  /\ phase = "power" /\ server.status # "absent"
  /\ IF server.status = Target(Verb)
     THEN PowerDone
     ELSE /\ Goto(IF rp.stop = "none" THEN "power_request" ELSE "power_check")
          /\ UNCHANGED <<rp, store>>
  /\ UNCHANGED <<cloud, asked, call, faults>>

PowerRead ==
  /\ phase = "power" /\ server.status # "absent"
  /\ IF server.status = Target(Verb)
     THEN PowerDone
     ELSE /\ Goto(IF rp[Verb] = "none" THEN "power_request" ELSE "power_check")
          /\ UNCHANGED <<rp, store>>
  /\ UNCHANGED <<cloud, asked, call, faults>>

PowerRequest ==
  /\ phase = "power_request"
  /\ Request(Verb, [rp EXCEPT ![Verb] = "PENDING"], "power_check")
  /\ UNCHANGED <<images, call>>

\* Mutant: the status is not looked at again.
PowerCheck_Trusts ==
  /\ phase = "power_check" /\ server.status # "absent"
  /\ PowerDone
  /\ UNCHANGED <<cloud, asked, call, faults>>

\* Mutant: a server that is not off counts as started.
PowerCheck_NotOff ==
  /\ phase = "power_check" /\ server.status # "absent"
  /\ IF server.status = Target(Verb) \/ Verb = "start"
     THEN PowerDone
     ELSE End("retry") /\ UNCHANGED <<rp, store>>
  /\ UNCHANGED <<cloud, asked, call, faults>>

PowerCheck ==
  /\ phase = "power_check" /\ server.status # "absent"
  /\ IF server.status = Target(Verb)
     THEN PowerDone
     ELSE End("retry") /\ UNCHANGED <<rp, store>>
  /\ UNCHANGED <<cloud, asked, call, faults>>

-----------------------------------------------------------------------------
(***************************************************************************)
(* reboot, suspend and resume: only the first attempt makes the request.   *)
(* A status reboot does not expect ends in an AttributeError (the server   *)
(* has no 'state'), which the engine retries like any other exception.     *)
(***************************************************************************)
PlainRequest ==
  /\ phase = "request"
  /\ IF Accepts(op)
     THEN Starts(op) /\ IF op = "reboot" THEN Goto("reboot_check") ELSE End("ok")
     ELSE End("failed") /\ UNCHANGED <<server, asked>>
  /\ UNCHANGED <<images, store, rp, call, faults>>

RebootCheck ==
  /\ phase = "reboot_check" /\ server.status # "absent"
  /\ End(CASE server.status = "ACTIVE" -> "ok"
           [] server.status = "ERROR" -> "failed"
           [] OTHER -> "retry")
  /\ UNCHANGED <<cloud, store, rp, asked, call, faults>>

\* Mutant: delete does not wait for the server to be gone.
Delete_NoWait ==
  /\ phase = "delete"
  /\ IF server.status = "absent" \/ rp.delete
     THEN End(IF rp.delete THEN "ok" ELSE "failed")
     ELSE Goto("delete_request")
  /\ UNCHANGED <<cloud, store, rp, asked, call, faults>>

\* delete is done when the server is not found, and the flag is set.
Delete ==
  /\ phase = "delete"
  /\ IF server.status = "absent"
     THEN End(IF rp.delete THEN "ok" ELSE "failed")
     ELSE IF rp.delete THEN End("retry") ELSE Goto("delete_request")
  /\ UNCHANGED <<cloud, store, rp, asked, call, faults>>

\* The flag is not stored before the attempt ends.
DeleteRequest ==
  /\ phase = "delete_request"
  /\ IF Accepts("delete")
     THEN /\ Starts("delete")
          /\ rp' = [rp EXCEPT !.delete = TRUE]
          /\ End("retry")
     ELSE End("failed") /\ UNCHANGED <<server, asked, rp>>
  /\ UNCHANGED <<images, store, call, faults>>

-----------------------------------------------------------------------------
(***************************************************************************)
(* snapshot_create.  In the first attempt the image must not exist; the    *)
(* flag backup_done decides whether the image is asked for.                *)
(***************************************************************************)
SnapshotCreate ==
  /\ phase = "backup"
  /\ IF ~retry /\ images[name] # "absent"
     THEN End("failed")
     ELSE Goto(IF rp.backup = "none" THEN "backup_request" ELSE "backup_check")
  /\ UNCHANGED <<cloud, store, rp, asked, call, faults>>

\* Mutant: the flag is only set when the upload is finished.
BackupRequest_NoFlag ==
  /\ phase = "backup_request"
  /\ Request("backup", rp, "backup_check")
  /\ images' = IF Accepts("backup") THEN [images EXCEPT ![name] = "queued"]
                                    ELSE images
  /\ UNCHANGED call

BackupRequest ==
  /\ phase = "backup_request"
  /\ Request("backup", [rp EXCEPT !.backup = "PENDING"], "backup_check")
  /\ images' = IF Accepts("backup") THEN [images EXCEPT ![name] = "queued"]
                                    ELSE images
  /\ UNCHANGED call

\* Mutant: an upload that has started counts as finished.
TaskFinished_Uploading(waiting) == server.task \notin waiting \ {"image_uploading"}

\* _check_finished_server_task
TaskFinished(waiting) == server.task \notin waiting

BackupCheck ==
  /\ phase = "backup_check" /\ server.status # "absent"
  /\ IF TaskFinished({"image_uploading"})
     THEN /\ rp' = [rp EXCEPT !.backup = "DONE"]
          /\ store' = rp'
          /\ End("ok")
     ELSE End("retry") /\ UNCHANGED <<rp, store>>
  /\ UNCHANGED <<cloud, asked, call, faults>>

(***************************************************************************)
(* snapshot_apply and _handle_snapshot_restore: stop the server, rebuild   *)
(* it from the image, wait for that, and start it.                         *)
(***************************************************************************)
SnapshotApply ==
  /\ phase = "restore"
  /\ IF images[name] = "absent"
     THEN End("failed")
     ELSE CASE rp.restore = "none" -> Goto("power")
            [] rp.restore # "none" /\ rp.stop = "DONE" -> Goto("rebuild_check")
            [] OTHER -> End("ok")
  /\ UNCHANGED <<cloud, store, rp, asked, call, faults>>

RebuildRequest ==
  /\ phase = "rebuild"
  /\ Request("rebuild", [rp EXCEPT !.restore = "PENDING"], "rebuild_check")
  /\ UNCHANGED <<images, call>>

RebuildCheck ==
  /\ phase = "rebuild_check" /\ server.status # "absent"
  /\ IF TaskFinished({"rebuild_spawning"})
     THEN /\ rp' = [rp EXCEPT !.restore = "rebuild_done"]
          /\ store' = rp'
          /\ Goto("power")
     ELSE End("retry") /\ UNCHANGED <<rp, store>>
  /\ UNCHANGED <<cloud, asked, call, faults>>

(***************************************************************************)
(* snapshot_delete: an active image is deleted; when it is gone the flags  *)
(* of the snapshot operations are removed.                                 *)
(***************************************************************************)
SnapshotDelete ==
  /\ phase = "image"
  /\ CASE images[name] = "absent" -> End("failed") /\ UNCHANGED <<images, asked>>
       [] images[name] = "active" ->
            /\ \E s \in {"absent", "deleting"} :
                 images' = [images EXCEPT ![name] = s]
            /\ asked' = [asked EXCEPT !["image"] = 1]
            /\ Goto("image_check")
       [] OTHER -> Goto("image_check") /\ UNCHANGED <<images, asked>>
  /\ UNCHANGED <<server, store, rp, call, faults>>

SnapshotDeleteCheck ==
  /\ phase = "image_check"
  /\ IF images[name] = "absent"
     THEN /\ rp' = [rp EXCEPT !.backup = "none", !.restore = "none",
                              !.stop = "none", !.start = "none"]
          /\ End("ok")
     ELSE End("retry") /\ UNCHANGED rp
  /\ UNCHANGED <<cloud, store, asked, call, faults>>

-----------------------------------------------------------------------------
\* What the engine does with an attempt that ended; delete clears the
\* runtime properties only when it succeeds.
Finish ==
  /\ phase = "end"
  /\ store' = IF op = "delete" /\ result = "ok" THEN Cleared ELSE rp
  /\ phase' = IF result = "retry" THEN "waiting" ELSE "idle"
  /\ inst' = CASE op = "create" /\ result = "ok" -> "created"
               [] op = "configure" /\ result = "ok" -> "configured"
               [] op = "delete" /\ result = "ok" -> "uninitialized"
               [] OTHER -> inst
  /\ UNCHANGED <<cloud, rp, asked, before, quiet, orphaned, op, name, retry, result,
                 faults>>

Retry ==
  /\ phase = "waiting"
  /\ phase' = "begin" /\ retry' = TRUE
  /\ UNCHANGED <<cloud, store, rp, asked, before, quiet, orphaned, op, name, inst,
                 result, faults>>

GiveUp ==
  /\ phase = "waiting"
  /\ phase' = "idle" /\ result' = "failed"
  /\ Fault("giveup")
  /\ UNCHANGED <<cloud, store, rp, asked, call>>

(***************************************************************************)
(* A resumable operation runs again from its first line, create like any   *)
(* other.  The id of a server is stored when create ends: one that was     *)
(* made by the attempt that died is known to nobody, and out of the reach  *)
(* of every later operation.                                               *)
(***************************************************************************)
Crash ==
  /\ phase \notin {"idle", "begin", "waiting"}
  /\ Fault("crash")
  /\ phase' = "begin"
  /\ IF op = "create" /\ server.status # "absent"
     THEN server' = Absent /\ orphaned' = TRUE
     ELSE UNCHANGED <<server, orphaned>>
  /\ UNCHANGED <<images, store, rp, asked, before, quiet, op, name, retry, inst,
                 result>>

Attempt ==
  \/ Enter \/ RequestRaises \/ Create \/ Configure
  \/ DropFirstGroup \/ AddGroups \/ GroupsRaise
  \/ PowerRead \/ PowerRequest \/ PowerCheck
  \/ PlainRequest \/ RebootCheck \/ Delete \/ DeleteRequest
  \/ SnapshotCreate \/ BackupRequest \/ BackupCheck
  \/ SnapshotApply \/ RebuildRequest \/ RebuildCheck
  \/ SnapshotDelete \/ SnapshotDeleteCheck \/ Finish

Service == ServiceCompletes \/ PasswordPosted \/ ImageRemoved

Next ==
  Begin \/ Attempt \/ Retry \/ GiveUp \/ Crash
  \/ Service \/ ServiceFails \/ UserInterferes

Spec == Init /\ [][Next]_vars

\* The worker goes on, the engine retries, the services finish their tasks.
FairSpec == /\ Spec
            /\ WF_vars(Attempt) /\ WF_vars(Retry)
            /\ WF_vars(ServiceCompletes) /\ WF_vars(PasswordPosted)
            /\ WF_vars(ImageRemoved)

-----------------------------------------------------------------------------
\* Every variable has its type.
ServerStates ==
  [status : {"absent", "BUILD", "ACTIVE", "SHUTOFF", "SUSPENDED", "REBUILD",
             "REBOOT", "ERROR"},
   task : {"none", "spawning", "powering-off", "powering-on", "deleting", "rebooting",
           "suspending", "resuming", "rebuild_spawning", "image_uploading"},
   groups : SUBSET {"default", "of_ports", "of_node"},
   posted : BOOLEAN]
TypeOK ==
  /\ server \in ServerStates
  /\ images \in [Names -> {"absent", "queued", "active", "deleting"}]
  /\ store \in Properties /\ rp \in Properties /\ before \in Properties
  /\ quiet \in BOOLEAN /\ orphaned \in BOOLEAN /\ asked \in [Requests -> 0..2]
  /\ op \in Operations /\ name \in Names /\ retry \in BOOLEAN
  /\ phase \in {"idle", "begin", "waiting", "end", "create", "configure", "groups",
                "groups_add", "power", "power_request", "power_check", "request",
                "reboot_check", "delete", "delete_request", "backup",
                "backup_request", "backup_check", "restore", "rebuild",
                "rebuild_check", "image", "image_check"}
  /\ result \in {"ok", "failed", "retry"}
  /\ inst \in {"uninitialized", "created", "configured", "deleting"}
  /\ faults \in [FaultKinds -> Nat]

NoFault(kinds) == \A k \in kinds : faults[k] = 0
Succeeded(o) == phase = "end" /\ op = o /\ result = "ok"

(***************************************************************************)
(* However often an operation is retried, it makes each of its requests    *)
(* once: the flags stand for the requests of the earlier attempts.  Only a *)
(* worker that died between a request and its flag repeats one.            *)
(***************************************************************************)
RequestedOnce ==
  NoFault({"crash"}) => \A r \in Requests : asked[r] <= 1

(***************************************************************************)
(* A stop that succeeded leaves a server that is off, over retries and     *)
(* crashes, unless somebody else interferes or an earlier operation was    *)
(* abandoned while it was starting the server.                             *)
(***************************************************************************)
StopMeansOff ==
  Succeeded("stop") /\ store.id /\ quiet /\ NoFault({"user"}) =>
    server.status = "SHUTOFF"

(***************************************************************************)
(* When the uninstall is over, the server is gone and no flag of its       *)
(* operations is left to mislead those of the next server.  One server can *)
(* stay behind: that of a create whose worker died before the id was       *)
(* stored, since create is executed again and makes another one.  Nothing  *)
(* but such a crash, no retry and no second install, leaves one.           *)
(***************************************************************************)
UninstallLeavesNothing ==
  phase = "idle" /\ inst = "uninitialized" =>
    /\ server.status = "absent" /\ store = Cleared
    /\ orphaned => ~NoFault({"crash"})

(***************************************************************************)
(* A snapshot taken without flags of an earlier one is complete when       *)
(* snapshot_create succeeds, if the service carries out what it accepts.   *)
(* If the upload of the image fails, it is not: the operation waits for    *)
(* the task of the server to end, never looks at the image, and succeeds.  *)
(***************************************************************************)
SnapshotIsComplete ==
  /\ Succeeded("snapshot_create")
  /\ before.backup = "none" /\ NoFault({"user", "error"})
  => images[name] = "active"

(***************************************************************************)
(* A snapshot_apply that succeeds, and found no flag of an earlier one, has *)
(* rebuilt the server once it was off, and left it running.                *)
(***************************************************************************)
FreshApplyRestores ==
  /\ Succeeded("snapshot_apply")
  /\ before.restore = "none" /\ quiet /\ NoFault({"user"})
  => asked["rebuild"] > 0 /\ server.status = "ACTIVE"

(***************************************************************************)
(* configure replaces the groups of the server by those of the node, also  *)
(* when it is executed again after it was interrupted half way.            *)
(***************************************************************************)
GroupsAreThoseOfNode ==
  /\ Succeeded("configure") /\ rp.groups = "attached"
  /\ before.groups = "unlinked" /\ server.status # "absent"
  => server.groups = {"of_node"}

(***************************************************************************)
(* Operations end: those that wait for the service, if no flag of an       *)
(* earlier operation keeps them from asking it.                            *)
(***************************************************************************)
OperationsEnd ==
  (/\ phase = "begin"
   /\ op \in {"stop", "snapshot_apply"} => store.stop = "none" /\ store.start = "none"
   /\ NoFault({"user", "error"}))
  ~> (phase = "idle" \/ ~NoFault({"user", "error"}))
=============================================================================
