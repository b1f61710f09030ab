------------------------- MODULE VolumeAttachments -------------------------
(***************************************************************************)
(* attach_volume and detach_volume (openstack_plugin/resources/compute/    *)
(* server.py): the operations of the relationships between volumes and one *)
(* server.  Workflows run those of different volumes concurrently, and     *)
(* all keep their keys in the runtime properties of the server's instance. *)
(*                                                                         *)
(* Every attempt works on a copy of the properties.  An attempt that       *)
(* changed its copy stores it when it ends; this is refused when somebody  *)
(* else stored in the meantime: the changes are lost and the operation is  *)
(* tried again.  So a copy that is stored has the current values of the    *)
(* keys of all others, and the model keeps, for each volume, only its own  *)
(* keys and whether its copy is stale.                                     *)
(***************************************************************************)
EXTENDS Naturals, FiniteSets

CONSTANTS Volumes,         \* the volumes to be attached to the server
          MaxAttachments,  \* a bound on the attachments made for a volume
          MaxFaults,       \* a bound on the events of each kind
          MaxKinds         \* a bound on the kinds that occur in one behaviour

(***************************************************************************)
(* "crash":     the worker dies during an attempt.                         *)
(* "transient": a request fails and has no effect.                         *)
(* "error":     attaching or detaching a volume fails.                     *)
(* "giveup":    the retries of an operation are used up.                   *)
(* "store":     not a fault: another operation of the server stores its    *)
(*              runtime properties.                                        *)
(***************************************************************************)
FaultKinds == {"crash", "transient", "error", "giveup", "store"}

ASSUME BoundsAssumption == /\ MaxAttachments \in Nat
                           /\ MaxFaults \in [FaultKinds -> Nat]
                           /\ MaxKinds \in Nat

VARIABLES
  volume,      \* status of each volume
  attachment,  \* the attachment it has, 0 for none
  made,        \* attachments made for it so far
  store,       \* its keys, as the engine keeps them
  copy,        \* the working copy of an attempt
  op,          \* the operation of its relationship
  phase,       \* the step the operation is at
  result,      \* outcome of its last attempt
  asked,       \* volumes whose attempt has made its request
  dirty,       \* volumes whose copy was changed
  stale,       \* volumes whose copy is older than what is stored
  linked,      \* volumes the workflows have linked
  lost,        \* history: volumes whose copy was lost after the request
  hit,         \* history: volumes that were hit by a fault
  faults       \* events so far, by kind

service == <<volume, attachment, made>>
attempt == <<copy, asked, dirty, stale>>
call == <<op, linked>>
vars == <<service, store, attempt, phase, result, call, lost, hit, faults>>

\* Keys attach_volume_task, detach_volume_task and attachment_id of a volume.
Keys == [attach : BOOLEAN, detach : BOOLEAN, id : Nat]

\* The keys of a volume that was never attached, and of a copy not in use.
NoKeys == [attach |-> FALSE, detach |-> FALSE, id |-> 0]

Event(kind) ==
  /\ faults[kind] < MaxFaults[kind]
  /\ Cardinality({k \in FaultKinds \ {kind} : faults[k] > 0}) < MaxKinds
  /\ faults' = [faults EXCEPT ![kind] = @ + 1]
Fault(kind, v) == Event(kind) /\ hit' = hit \union {v}

Goto(v, p) == phase' = [phase EXCEPT ![v] = p]
End(v, outcome) == /\ Goto(v, "end")
                   /\ result' = [result EXCEPT ![v] = outcome]

\* Between its start and its end an attempt has a copy.
Loaded(v) == phase[v] \notin {"idle", "begin"}

-----------------------------------------------------------------------------
(* Block storage and compute service.                                      *)

Becomes(v, status, a) == /\ volume' = [volume EXCEPT ![v] = status]
                         /\ attachment' = [attachment EXCEPT ![v] = a]

VolumeSettles(v) ==
  /\ \/ volume[v] = "attaching" /\ Becomes(v, "in-use", attachment[v])
     \/ volume[v] = "detaching" /\ Becomes(v, "available", 0)
  /\ UNCHANGED <<made, store, attempt, phase, result, call, lost, hit, faults>>

\* A volume that could not be attached is free again, or broken.
VolumeFails(v) ==
  /\ \/ volume[v] = "attaching" /\ Becomes(v, "available", 0)
     \/ volume[v] \in {"attaching", "detaching"} /\ Becomes(v, "error", attachment[v])
  /\ Fault("error", v)
  /\ UNCHANGED <<made, store, attempt, phase, result, call, lost>>

-----------------------------------------------------------------------------
Init ==
  /\ volume = [v \in Volumes |-> "available"]
  /\ attachment = [v \in Volumes |-> 0] /\ made = [v \in Volumes |-> 0]
  /\ store = [v \in Volumes |-> NoKeys] /\ copy = store
  /\ op = [v \in Volumes |-> "detach"]
  /\ phase = [v \in Volumes |-> "idle"]
  /\ result = [v \in Volumes |-> "ok"]
  /\ asked = {} /\ dirty = {} /\ stale = {}
  /\ linked = {} /\ lost = {} /\ hit = {}
  /\ faults = [k \in FaultKinds |-> 0]

(***************************************************************************)
(* establish and unlink of a relationship.  An establish that failed may   *)
(* be repeated, or unlinked.                                               *)
(***************************************************************************)
Begin(v) ==
  /\ phase[v] = "idle"
  /\ \/ /\ v \notin linked \/ (op[v] = "attach" /\ result[v] = "failed")
        /\ made[v] < MaxAttachments
        /\ op' = [op EXCEPT ![v] = "attach"]
     \/ v \in linked /\ op' = [op EXCEPT ![v] = "detach"]
  /\ Goto(v, "begin") /\ result' = [result EXCEPT ![v] = "ok"]
  /\ linked' = linked \union {v}
  /\ UNCHANGED <<service, store, attempt, lost, hit, faults>>

\* The runtime properties are read, and the server is looked up.
Load(v) ==
  /\ phase[v] = "begin"
  /\ copy' = [copy EXCEPT ![v] = store[v]]
  /\ Goto(v, "request")
  /\ UNCHANGED <<service, store, asked, dirty, stale, result, call, lost, hit, faults>>

\* A request or a read fails: NonRecoverableError.
RequestRaises(v) ==
  /\ phase[v] \in {"request", "wait"}
  /\ Fault("transient", v)
  /\ End(v, "failed")
  /\ UNCHANGED <<service, store, attempt, call, lost>>

-----------------------------------------------------------------------------
\* The request is made, and keys says so.
Asks(v, keys) ==
  /\ copy' = [copy EXCEPT ![v] = keys]
  /\ asked' = asked \union {v} /\ dirty' = dirty \union {v}
  /\ Goto(v, "wait") /\ UNCHANGED <<stale, result>>

Refused(v) == End(v, "failed") /\ UNCHANGED <<service, attempt>>
AskedBefore(v) == Goto(v, "wait") /\ UNCHANGED <<service, attempt, result>>

Attaches(v) ==
  /\ volume[v] = "available"
  /\ made' = [made EXCEPT ![v] = @ + 1]
  /\ Becomes(v, "attaching", made'[v])

\* Mutant: the id of the attachment is not kept.
AttachRequest_NoId(v) ==
  /\ phase[v] = "request" /\ op[v] = "attach"
  /\ \/ copy[v].attach /\ AskedBefore(v)
     \/ ~copy[v].attach /\ Attaches(v) /\ Asks(v, [copy[v] EXCEPT !.attach = TRUE])
     \/ ~copy[v].attach /\ volume[v] # "available" /\ Refused(v)
  /\ UNCHANGED <<store, call, lost, hit, faults>>

\* Mutant: the key of the task is not set.
AttachRequest_NoTask(v) ==
  /\ phase[v] = "request" /\ op[v] = "attach"
  /\ \/ Attaches(v) /\ Asks(v, [copy[v] EXCEPT !.id = made'[v]])
     \/ volume[v] # "available" /\ Refused(v)
  /\ UNCHANGED <<store, call, lost, hit, faults>>

\* attach_volume: only a free volume can be attached.
AttachRequest(v) ==
  /\ phase[v] = "request" /\ op[v] = "attach"
  /\ \/ copy[v].attach /\ AskedBefore(v)
     \/ /\ ~copy[v].attach /\ Attaches(v)
        /\ Asks(v, [copy[v] EXCEPT !.attach = TRUE, !.id = made'[v]])
     \/ ~copy[v].attach /\ volume[v] # "available" /\ Refused(v)
  /\ UNCHANGED <<store, call, lost, hit, faults>>

(***************************************************************************)
(* detach_volume: without an id, or for one that is not that of an         *)
(* attached volume, it fails.  The id stays a runtime property.            *)
(***************************************************************************)
DetachRequest(v) ==
  /\ phase[v] = "request" /\ op[v] = "detach"
  /\ LET attached == volume[v] = "in-use" /\ attachment[v] = copy[v].id IN
     \/ copy[v].id = 0 /\ Refused(v)
     \/ copy[v].id # 0 /\ copy[v].detach /\ AskedBefore(v)
     \/ /\ copy[v].id # 0 /\ ~copy[v].detach /\ attached
        /\ Becomes(v, "detaching", attachment[v]) /\ UNCHANGED made
        /\ Asks(v, [copy[v] EXCEPT !.detach = TRUE])
     \/ copy[v].id # 0 /\ ~copy[v].detach /\ ~attached /\ Refused(v)
  /\ UNCHANGED <<store, call, lost, hit, faults>>

Wanted(v) == IF op[v] = "attach" THEN "in-use" ELSE "available"

\* The volume is as it should be: the key of the task is deleted.
Forget(v) ==
  /\ copy' = [copy EXCEPT ![v] = IF op[v] = "attach" THEN [@ EXCEPT !.attach = FALSE]
                                                     ELSE [@ EXCEPT !.detach = FALSE]]
  /\ dirty' = dirty \union {v}
  /\ End(v, "ok") /\ UNCHANGED <<asked, stale>>

\* Mutant: the status is read and not compared.
Wait_AnyStatus(v) ==
  /\ phase[v] = "wait"
  /\ \/ volume[v] = "error" /\ End(v, "failed") /\ UNCHANGED attempt
     \/ volume[v] # "error" /\ Forget(v)
  /\ UNCHANGED <<service, store, call, lost, hit, faults>>

\* Mutant: both operations wait for the volume to be in use.
Wait_InUse(v) ==
  /\ phase[v] = "wait"
  /\ \/ volume[v] = "error" /\ End(v, "failed") /\ UNCHANGED attempt
     \/ volume[v] = "in-use" /\ Forget(v)
     \/ volume[v] \notin {"error", "in-use"} /\ End(v, "retry") /\ UNCHANGED attempt
  /\ UNCHANGED <<service, store, call, lost, hit, faults>>

\* wait_until_status and what follows it.
Wait(v) ==
  /\ phase[v] = "wait"
  /\ \/ volume[v] = "error" /\ End(v, "failed") /\ UNCHANGED attempt
     \/ volume[v] = Wanted(v) /\ Forget(v)
     \/ volume[v] \notin {"error", Wanted(v)} /\ End(v, "retry") /\ UNCHANGED attempt
  /\ UNCHANGED <<service, store, call, lost, hit, faults>>

-----------------------------------------------------------------------------
\* The copy of an attempt that is over is dropped.
Drop(v) == /\ copy' = [copy EXCEPT ![v] = NoKeys]
           /\ asked' = asked \ {v} /\ dirty' = dirty \ {v}

\* An attempt ends, and its copy is up to date, or was not changed.
Save(v) ==
  /\ phase[v] = "end"
  /\ \/ v \notin dirty /\ UNCHANGED store /\ stale' = stale \ {v}
     \/ /\ v \in dirty /\ v \notin stale
        /\ store' = [store EXCEPT ![v] = copy[v]]
        /\ stale' = {w \in Volumes \ {v} : Loaded(w)}
  /\ Drop(v)
  /\ Goto(v, IF result[v] = "retry" THEN "begin" ELSE "idle")
  /\ linked' = IF result[v] = "ok" /\ op[v] = "detach" THEN linked \ {v} ELSE linked
  /\ UNCHANGED <<service, result, op, lost, hit, faults>>

\* What is lost when the copy of an attempt is lost.
Loses(v) == /\ lost' = IF v \in asked THEN lost \union {v} ELSE lost
            /\ Drop(v) /\ stale' = stale \ {v}
            /\ Goto(v, "begin")

\* Somebody else has stored: the attempt fails and is repeated.
Conflict(v) ==
  /\ phase[v] = "end" /\ v \in dirty /\ v \in stale
  /\ Loses(v)
  /\ result' = [result EXCEPT ![v] = "retry"]
  /\ UNCHANGED <<service, store, call, hit, faults>>

\* The operation is executed again.
Crash(v) ==
  /\ Loaded(v)
  /\ Fault("crash", v)
  /\ Loses(v)
  /\ UNCHANGED <<service, store, result, call>>

\* The operation is not tried again.
GiveUp(v) ==
  /\ phase[v] = "begin" /\ result[v] = "retry"
  /\ Fault("giveup", v)
  /\ Goto(v, "idle") /\ result' = [result EXCEPT ![v] = "failed"]
  /\ UNCHANGED <<service, store, attempt, call, lost>>

OthersStore ==
  /\ Event("store")
  /\ stale' = {v \in Volumes : Loaded(v)}
  /\ UNCHANGED <<service, store, copy, asked, dirty, phase, result, call, lost, hit>>

Attempt(v) == \/ Load(v) \/ AttachRequest(v) \/ DetachRequest(v) \/ Wait(v)
              \/ Save(v) \/ Conflict(v)

Next ==
  \/ \E v \in Volumes :
       \/ Begin(v) \/ Attempt(v) \/ RequestRaises(v) \/ Crash(v) \/ GiveUp(v)
       \/ VolumeSettles(v) \/ VolumeFails(v)
  \/ OthersStore

Spec == Init /\ [][Next]_vars

(***************************************************************************)
(* Workers run, operations that are to be retried are, and the services    *)
(* finish what they started.                                               *)
(***************************************************************************)
FairSpec == /\ Spec
            /\ \A v \in Volumes : WF_vars(Attempt(v)) /\ WF_vars(VolumeSettles(v))

-----------------------------------------------------------------------------
\* Every variable has its type; only an attempt that runs has a copy.
TypeOK ==
  /\ volume \in [Volumes -> {"available", "attaching", "in-use", "detaching", "error"}]
  /\ attachment \in [Volumes -> Nat] /\ made \in [Volumes -> Nat]
  /\ store \in [Volumes -> Keys] /\ copy \in [Volumes -> Keys]
  /\ op \in [Volumes -> {"attach", "detach"}]
  /\ phase \in [Volumes -> {"idle", "begin", "request", "wait", "end"}]
  /\ result \in [Volumes -> {"ok", "failed", "retry"}]
  /\ asked \subseteq dirty /\ dirty \subseteq Volumes /\ stale \subseteq Volumes
  /\ \A v \in Volumes : ~Loaded(v) => copy[v] = NoKeys /\ v \notin dirty \union stale
  /\ linked \subseteq Volumes /\ lost \subseteq Volumes /\ hit \subseteq Volumes
  /\ faults \in [FaultKinds -> Nat]

(***************************************************************************)
(* Between its operations, the attachment of a volume is the one the       *)
(* runtime properties name, however the operations of other volumes        *)
(* interleave and whatever failed, unless a copy was lost after the        *)
(* request: then nothing names it and detach_volume cannot succeed.        *)
(***************************************************************************)
AttachmentsAreKnown ==
  \A v \in Volumes :
    phase[v] = "idle" /\ attachment[v] # 0 /\ v \notin lost =>
      store[v].id = attachment[v]

(***************************************************************************)
(* An establish that succeeded leaves an attached volume, an unlink a free *)
(* one, and neither leaves the key of its task to mislead the next.        *)
(***************************************************************************)
LinksAreReal ==
  \A v \in Volumes :
    phase[v] = "idle" /\ result[v] = "ok" =>
      /\ volume[v] = Wanted(v)
      /\ IF op[v] = "attach" THEN ~store[v].attach ELSE ~store[v].detach

(***************************************************************************)
(* The operations of a relationship fail only after a fault that hit this  *)
(* volume, or a copy it lost; faults of other volumes do not matter.       *)
(***************************************************************************)
FailuresHaveCauses ==
  \A v \in Volumes :
    phase[v] \in {"end", "idle"} /\ result[v] = "failed" => v \in hit \union lost

(***************************************************************************)
(* Operations of volumes that no fault hits end, although those of others  *)
(* make them repeat attempts.  (A volume that fell back from attaching,    *)
(* and the key of an operation given up, make the next one wait for ever.) *)
(***************************************************************************)
OperationsEnd ==
  \A v \in Volumes : (phase[v] = "begin") ~> (phase[v] = "idle" \/ v \in hit)
=============================================================================
