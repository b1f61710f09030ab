---------------------------- MODULE VolumeTasks ----------------------------
(***************************************************************************)
(* The operations of a volume node (openstack_plugin/resources/volume/     *)
(* volume.py) and the copies it makes of its volume: full backups and      *)
(* snapshots.  Copies are created and deleted asynchronously; the id of a  *)
(* copy being made is a runtime property until the copy is available.      *)
(* Deleting the volume first deletes its snapshots.  Retries, crashes and  *)
(* the life of the runtime properties are those of ServerTasks.            *)
(***************************************************************************)
EXTENDS Naturals, FiniteSets

CONSTANTS Copies,     \* identifiers of backups and snapshots
          Names,      \* names of copies, as get_snapshot_name makes them
          None,       \* no copy
          MaxFaults,  \* a bound on the faults of each kind
          MaxKinds    \* a bound on the kinds that occur in one behaviour

(***************************************************************************)
(* "crash":     the worker dies during an attempt.                         *)
(* "transient": a request fails and has no effect.                         *)
(* "error":     the storage service fails to make a volume or a copy.      *)
(* "giveup":    the engine has retried an operation often enough.          *)
(***************************************************************************)
FaultKinds == {"crash", "transient", "error", "giveup"}
Kinds == {"backup", "snapshot"}

ASSUME NoneAssumption == None \notin Copies
ASSUME FaultsAssumption == MaxFaults \in [FaultKinds -> Nat] /\ MaxKinds \in Nat

VARIABLES
  volume,  \* status of the volume
  copies,  \* the copies of all volumes of the tenant
  store,   \* runtime properties, as the engine keeps them
  rp,      \* runtime properties, the working copy of the attempt
  fresh,   \* history: no copy was in the making when it was started
  orphaned, \* history: whether a volume was made whose id was never stored
  op,      \* the current operation
  arg,     \* its kind (snapshot_incremental) and name
  todo,    \* copies still to be deleted by the attempt
  later,   \* ctx.operation.retry() was called in the attempt
  phase,   \* the step the attempt is at
  result,  \* outcome of the attempt
  inst,    \* state of the node instance in the workflow
  faults   \* faults so far, by kind

cloud == <<volume, copies>>
call == <<fresh, orphaned, op, arg, inst>>
attempt == <<rp, todo, later, phase, result>>
vars == <<cloud, store, call, attempt, faults>>

Operations == {"create", "start", "snapshot_create", "snapshot_apply",
               "snapshot_delete", "delete"}

(***************************************************************************)
(* backup and snapshot are the keys backup_id and snapshot_id; the task    *)
(* flags are set and deleted together with them.                           *)
(***************************************************************************)
Properties == [id : BOOLEAN, delete : BOOLEAN,
               backup : Copies \union {None}, snapshot : Copies \union {None}]
Cleared == [id |-> FALSE, delete |-> FALSE, backup |-> None, snapshot |-> None]

\* own: of the volume of this node; the names of others are different.
Copy == [kind : Kinds, name : Names, own : BOOLEAN,
         status : {"creating", "available", "error", "deleting"}]
Absent == [own |-> FALSE, status |-> "absent"]
Exists(c) == copies[c] # Absent
Own(c, kind) == Exists(c) /\ copies[c].own /\ copies[c].kind = kind

MayFault(kind) ==
  /\ faults[kind] < MaxFaults[kind]
  /\ Cardinality({k \in FaultKinds \ {kind} : faults[k] > 0}) < MaxKinds
Fault(kind) == /\ MayFault(kind)
               /\ faults' = [faults EXCEPT ![kind] = @ + 1]

End(outcome) == phase' = "end" /\ result' = outcome
Goto(p) == phase' = p /\ UNCHANGED result

-----------------------------------------------------------------------------
\* The block storage service.
VolumeSettles ==
  /\ volume \in {"creating", "restoring", "deleting"}
  /\ \/ volume' = (IF volume = "deleting" THEN "absent" ELSE "available")
        /\ UNCHANGED faults
     \/ volume' = "error" /\ volume # "deleting" /\ Fault("error")
  /\ UNCHANGED <<copies, store, call, attempt>>

CopySettles ==
  /\ \E c \in Copies :
       \/ /\ copies[c].status = "creating"
          /\ copies' = [copies EXCEPT ![c].status = "available"]
          /\ UNCHANGED faults
       \/ /\ copies[c].status = "deleting"
          /\ copies' = [copies EXCEPT ![c] = Absent]
          /\ UNCHANGED faults
       \/ /\ copies[c].status = "creating"
          /\ copies' = [copies EXCEPT ![c].status = "error"]
          /\ Fault("error")
  /\ UNCHANGED <<volume, store, call, attempt>>

\* A volume that has snapshots is not deleted.
AcceptsDelete ==
  /\ volume \in {"available", "error"}
  /\ ~\E c \in Copies : Own(c, "snapshot")

-----------------------------------------------------------------------------
Init ==
  /\ volume = "absent"
  /\ \E others \in SUBSET Copies, k \in Kinds, n \in Names :
       /\ others # Copies
       /\ copies = [c \in Copies |->
            IF c \in others
            THEN [kind |-> k, name |-> n, own |-> FALSE, status |-> "available"]
            ELSE Absent]
  /\ store = Cleared /\ rp = Cleared
  /\ fresh = TRUE /\ orphaned = FALSE
  /\ op = "create" /\ arg \in [kind : Kinds, name : Names]
  /\ todo = {} /\ later = FALSE /\ phase = "idle" /\ result = "ok"
  /\ inst = "uninitialized"
  /\ faults = [k \in FaultKinds |-> 0]

Permitted(o) == CASE o = "create" -> inst = "uninitialized"
                  [] o = "start" -> inst = "created"
                  [] o = "delete" -> inst # "uninitialized"
                  [] OTHER -> inst = "started"

\* The names of this node's copies hold the id of its volume.
Begin ==
  /\ phase = "idle"
  /\ op' \in {o \in Operations : Permitted(o)}
  /\ arg' \in [kind : Kinds,
               name : {n \in Names : \A c \in Copies :
                         Exists(c) /\ copies[c].name = n => copies[c].own}]
  /\ fresh' = (store[arg'.kind] = None)
  /\ phase' = "begin"
  /\ inst' = IF op' = "delete" THEN "deleting" ELSE inst
  /\ UNCHANGED <<cloud, store, rp, todo, later, result, faults, orphaned>>

EntryPhase(o) == CASE o = "snapshot_create" -> "copy"
                   [] o = "snapshot_apply" -> "restore"
                   [] o \in {"snapshot_delete", "delete"} -> "list"
                   [] OTHER -> o

Enter ==
  /\ phase = "begin"
  /\ rp' = store /\ later' = FALSE /\ todo' = {}
  /\ IF op = "delete" /\ ~store.id THEN End("ok") ELSE Goto(EntryPhase(op))
  /\ UNCHANGED <<cloud, store, call, faults>>

RequestRaises ==
  /\ phase \notin {"idle", "begin", "end", "waiting"}
  /\ Fault("transient")
  /\ End("failed")
  /\ UNCHANGED <<cloud, store, rp, todo, later, call>>

\* Nobody asks whether this node has made a volume before.
Create ==
  /\ phase = "create"
  /\ \/ /\ volume' = "creating"
        /\ rp' = [rp EXCEPT !.id = TRUE]
        /\ orphaned' = (orphaned \/ volume # "absent")
        /\ End("ok")
     \/ End("failed") /\ UNCHANGED <<volume, rp, orphaned>>
  /\ UNCHANGED <<copies, store, todo, later, fresh, op, arg, inst, faults>>

\* get_ready_resource_status and wait_until_status
Ready(status) == CASE status = "available" -> "ok"
                   [] status \in {"error", "absent"} -> "failed"
                   [] OTHER -> "retry"

\* start: wait_until_status
Start ==
  /\ phase = "start"
  /\ End(Ready(volume))
  /\ UNCHANGED <<cloud, store, rp, todo, later, call, faults>>

-----------------------------------------------------------------------------
(***************************************************************************)
(* _create_volume_backup and _create_volume_snapshot: the id stands for a  *)
(* copy that is being made, and is stored by update().  The worker may die *)
(* between the request and the update.                                     *)
(***************************************************************************)
MakeCopy ==
  /\ phase = "copy" /\ rp[arg.kind] = None
  /\ IF volume = "available"
     THEN \E c \in Copies :
            /\ ~Exists(c)
            /\ copies' = [copies EXCEPT ![c] =
                            [kind |-> arg.kind, name |-> arg.name,
                             own |-> TRUE, status |-> "creating"]]
            /\ \/ /\ rp' = [rp EXCEPT ![arg.kind] = c]
                  /\ store' = rp'
                  /\ Goto("copy_check") /\ UNCHANGED faults
               \/ Fault("crash") /\ Goto("begin") /\ UNCHANGED <<rp, store>>
     ELSE End("failed") /\ UNCHANGED <<copies, rp, store, faults>>
  /\ UNCHANGED <<volume, todo, later, call>>

\* No identifier is left, which bounds the copies of a run.
MakeCopyRefused ==
  /\ phase = "copy" /\ rp[arg.kind] = None
  /\ Absent \notin {copies[c] : c \in Copies}
  /\ End("failed")
  /\ UNCHANGED <<cloud, store, rp, todo, later, call, faults>>

CopyAsked ==
  /\ phase = "copy" /\ rp[arg.kind] # None
  /\ Goto("copy_check")
  /\ UNCHANGED <<cloud, store, rp, todo, later, call, faults>>

\* Mutant: a copy that is not in error counts as ready.
CopyCheck_NotError ==
  /\ phase = "copy_check"
  /\ IF copies[rp[arg.kind]].status \in {"error", "absent"}
     THEN End("failed") /\ UNCHANGED rp
     ELSE End("ok") /\ rp' = [rp EXCEPT ![arg.kind] = None]
  /\ UNCHANGED <<cloud, store, todo, later, call, faults>>

CopyCheck ==
  /\ phase = "copy_check"
  /\ LET ready == Ready(copies[rp[arg.kind]].status)
     IN  /\ End(ready)
         /\ rp' = IF ready = "ok" THEN [rp EXCEPT ![arg.kind] = None] ELSE rp
  /\ UNCHANGED <<cloud, store, todo, later, call, faults>>

\* snapshot_apply: the first backup of that name; snapshots are refused.
Restore ==
  /\ phase = "restore"
  /\ IF /\ arg.kind = "backup" /\ volume = "available"
        /\ \E c \in Copies : /\ Exists(c) /\ copies[c].kind = "backup"
                             /\ copies[c].name = arg.name
                             /\ copies[c].status = "available"
     THEN volume' = "restoring" /\ End("ok")
     ELSE End("failed") /\ UNCHANGED volume
  /\ UNCHANGED <<copies, store, rp, todo, later, call, faults>>

-----------------------------------------------------------------------------
\* Mutant: what is listed is not compared with the volume and the name.
Matched_All(kind, named) == {c \in Copies : Exists(c) /\ copies[c].kind = kind}

(***************************************************************************)
(* The copies _clean_volume_backups finds: snapshots are listed by volume  *)
(* and, when it is given, by name; backups cannot be, and                  *)
(* _is_volume_backup_matched takes those of that name or of the volume.    *)
(***************************************************************************)
Matched(kind, named) ==
  {c \in Copies :
     /\ Exists(c) /\ copies[c].kind = kind
     /\ IF kind = "snapshot"
        THEN copies[c].own /\ (named => copies[c].name = arg.name)
        ELSE copies[c].own \/ (named /\ copies[c].name = arg.name)}

Targets == IF op = "delete" THEN Matched("snapshot", FALSE)
                            ELSE Matched(arg.kind, TRUE)

ListCopies ==
  /\ phase = "list"
  /\ todo' = Targets
  /\ Goto("clean")
  /\ UNCHANGED <<cloud, store, rp, later, call, faults>>

\* A copy that is not available or in error may refuse to be deleted.
DeleteCopy ==
  /\ phase = "clean"
  /\ \E c \in todo :
       /\ todo' = todo \ {c}
       /\ CASE copies[c].status \in {"available", "error"} ->
                 copies' = [copies EXCEPT ![c].status = "deleting"] /\ Goto("clean")
            [] copies[c].status = "absent" -> End("failed") /\ UNCHANGED copies
            [] OTHER -> UNCHANGED copies /\ (End("failed") \/ Goto("clean"))
  /\ UNCHANGED <<volume, store, rp, later, call, faults>>

(***************************************************************************)
(* The copies are looked up again; if one is alive the operation will be   *)
(* retried, but only when its function has returned: delete goes on.       *)
(***************************************************************************)
CheckCopies ==
  /\ phase = "clean" /\ todo = {}
  /\ later' = (Targets # {})
  /\ IF op = "delete"
     THEN Goto("delete")
     ELSE End(IF later' THEN "retry" ELSE "ok")
  /\ UNCHANGED <<cloud, store, rp, todo, call, faults>>

DeleteVolume ==
  /\ phase = "delete"
  /\ CASE rp.delete -> Goto("delete_check") /\ UNCHANGED <<volume, rp, store, faults>>
       [] ~rp.delete /\ AcceptsDelete ->
            /\ volume' = "deleting"
            /\ \/ /\ rp' = [rp EXCEPT !.delete = TRUE]
                  /\ store' = rp'
                  /\ Goto("delete_check") /\ UNCHANGED faults
               \/ Fault("crash") /\ Goto("begin") /\ UNCHANGED <<rp, store>>
       [] OTHER -> End("failed") /\ UNCHANGED <<volume, rp, store, faults>>
  /\ UNCHANGED <<copies, todo, later, call>>

\* Mutant: delete does not wait for the volume to be gone.
DeleteCheck_NoWait ==
  /\ phase = "delete_check"
  /\ rp' = Cleared /\ End("ok")
  /\ UNCHANGED <<cloud, store, todo, later, call, faults>>

\* When the volume is gone the decorator clears the runtime properties, also
\* if the operation is to be retried.
DeleteCheck ==
  /\ phase = "delete_check"
  /\ IF volume = "absent"
     THEN rp' = Cleared /\ End(IF later THEN "retry" ELSE "ok")
     ELSE End("retry") /\ UNCHANGED rp
  /\ UNCHANGED <<cloud, store, todo, later, call, faults>>

-----------------------------------------------------------------------------
Finish ==
  /\ phase = "end"
  /\ store' = rp /\ todo' = {} /\ later' = FALSE
  /\ phase' = IF result = "retry" THEN "waiting" ELSE "idle"
  /\ inst' = CASE op = "create" /\ result = "ok" -> "created"
               [] op = "start" /\ result = "ok" -> "started"
               [] op = "delete" /\ result = "ok" -> "uninitialized"
               [] OTHER -> inst
  /\ UNCHANGED <<cloud, rp, fresh, orphaned, op, arg, result, faults>>

Retry ==
  /\ phase = "waiting"
  /\ phase' = "begin"
  /\ UNCHANGED <<cloud, store, rp, todo, later, call, result, faults>>

GiveUp ==
  /\ phase = "waiting"
  /\ phase' = "idle" /\ result' = "failed"
  /\ Fault("giveup")
  /\ UNCHANGED <<cloud, store, rp, todo, later, call>>

(***************************************************************************)
(* create is executed again like any other operation.  Its volume, whose   *)
(* id is stored when it ends, is then out of the reach of the node.        *)
(***************************************************************************)
Crash ==
  /\ phase \notin {"idle", "begin", "waiting"}
  /\ Fault("crash")
  /\ phase' = "begin"
  /\ IF op = "create" /\ volume # "absent"
     THEN volume' = "absent" /\ orphaned' = TRUE
     ELSE UNCHANGED <<volume, orphaned>>
  /\ UNCHANGED <<copies, store, rp, todo, later, fresh, op, arg, inst, result>>

Attempt ==
  \/ Enter \/ RequestRaises \/ Create \/ Start
  \/ MakeCopy \/ MakeCopyRefused \/ CopyAsked \/ CopyCheck \/ Restore
  \/ ListCopies \/ DeleteCopy \/ CheckCopies \/ DeleteVolume \/ DeleteCheck
  \/ Finish

Next == \/ Begin \/ Attempt \/ Retry \/ GiveUp \/ Crash
        \/ VolumeSettles \/ CopySettles

Spec == Init /\ [][Next]_vars
-----------------------------------------------------------------------------
\* Every variable has its type: every id names a copy or is absent.
TypeOK ==
  /\ volume \in {"absent", "creating", "available", "restoring", "deleting",
                 "error"}
  /\ copies \in [Copies -> Copy \union {Absent}]
  /\ store \in Properties /\ rp \in Properties
  /\ fresh \in BOOLEAN /\ orphaned \in BOOLEAN /\ todo \subseteq Copies
  /\ later \in BOOLEAN
  /\ op \in Operations /\ arg \in [kind : Kinds, name : Names]
  /\ result \in {"ok", "failed", "retry"}
  /\ inst \in {"uninitialized", "created", "started", "deleting"}
  /\ faults \in [FaultKinds -> Nat]

NoFault(kinds) == \A k \in kinds : faults[k] = 0
Succeeded(o) == phase = "end" /\ op = o /\ result = "ok"

(***************************************************************************)
(* A backup or snapshot of another volume is never deleted, although       *)
(* backups can only be listed for all volumes at once.                     *)
(***************************************************************************)
OthersAreKept ==
  [][\A c \in Copies : ~copies[c].own => copies'[c].status # "deleting"]_vars

(***************************************************************************)
(* A snapshot_create that succeeds, and found no copy in the making, has   *)
(* left an available copy of the kind and the name it was asked for.       *)
(***************************************************************************)
CopyIsReady ==
  Succeeded("snapshot_create") /\ fresh =>
    \E c \in Copies : copies[c] = [kind |-> arg.kind, name |-> arg.name,
                                   own |-> TRUE, status |-> "available"]

(***************************************************************************)
(* An uninstalled volume is gone and its snapshots with it, and no id of a *)
(* copy is left for the copies of the next volume.  One volume can stay    *)
(* behind: that of a create whose worker died before the id was stored,    *)
(* since create is executed again and makes another one.  Nothing but such *)
(* a crash leaves one.                                                     *)
(***************************************************************************)
UninstallLeavesNothing ==
  phase = "idle" /\ inst = "uninitialized" =>
    /\ volume = "absent" /\ store = Cleared
    /\ ~\E c \in Copies : Own(c, "snapshot")
    /\ orphaned => ~NoFault({"crash"})
=============================================================================
