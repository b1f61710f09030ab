--------------------------- MODULE NodeOperation ---------------------------
(***************************************************************************)
(* What every node operation of the plugin has in common: the decorator    *)
(* with_openstack_resource of openstack_plugin/decorators.py and the       *)
(* helpers of openstack_plugin/utils.py it calls, around the plain create  *)
(* and delete handlers of a synchronous resource (network, subnet, router, *)
(* security group, key pair, ...).                                         *)
(*                                                                         *)
(* One node instance is modelled, with the resources of the tenant that    *)
(* carry its name: those of other owners ("foreign") and those that the    *)
(* plugin created.  An operation attempt works on a copy of the runtime    *)
(* properties (rp) that the dispatcher stores when the attempt ends,       *)
(* whatever its outcome; a crash of the worker loses the copy, and the     *)
(* engine executes the resumable operation again from its first line.      *)
(* One action is one request to OpenStack or one step between requests.    *)
(***************************************************************************)
EXTENDS Naturals, FiniteSets

CONSTANTS Ids,        \* identifiers OpenStack may give to resources
          None,       \* no identifier
          MaxFaults,  \* a bound on the faults of each kind
          MaxCycles   \* a bound on the install cycles of the instance

(***************************************************************************)
(* "crash":     the worker dies between two steps of an attempt.           *)
(* "transient": a request fails and has no effect.                         *)
(* "lost":      a request takes effect and its answer is lost.             *)
(* "removal":   somebody else deletes a resource.                          *)
(***************************************************************************)
FaultKinds == {"crash", "transient", "lost", "removal"}

ASSUME NoneAssumption == None \notin Ids
ASSUME FaultsAssumption == MaxFaults \in [FaultKinds -> Nat]
ASSUME CyclesAssumption == MaxCycles \in Nat

VARIABLES
  props,   \* node properties use_external_resource and create_if_missing
  live,    \* resources that exist and carry the node's name
  origin,  \* who created each identifier
  killed,  \* history: what the plugin deleted
  store,   \* runtime properties, as the engine keeps them
  rp,      \* runtime properties, the working copy of the attempt
  res,     \* resource_id of the OpenstackResource of the attempt
  op,      \* the current operation
  heal,    \* whether it runs in a heal workflow
  phase,   \* the step the attempt is at
  result,  \* outcome of the attempt that ends, or of the last one
  inst,    \* state of the node instance in the workflow
  cycles,  \* install cycles started
  faults   \* faults so far, by kind

cloud == <<live, origin, killed>>
attempt == <<rp, res, phase, result>>
flow == <<props, op, heal, inst, cycles>>
vars == <<cloud, store, attempt, flow, faults>>

Operations == {"create", "start", "update", "stop", "delete"}

\* CLOUDIFY_NEW_NODE_OPERATIONS
NewNodeOperations == {"create", "start", "stop", "delete"}

\* The runtime properties 'id', 'conditionally_created', and 'type'/'name'.
Properties == [id : Ids \union {None}, cond : BOOLEAN, typed : BOOLEAN]
Cleared == [id |-> None, cond |-> FALSE, typed |-> FALSE]

(***************************************************************************)
(* OpenstackResource.get(): by resource_id if it is set, otherwise by name;*)
(* no match and several matches are both an SDKException.                  *)
(***************************************************************************)
Matches(id) == IF id = None THEN live ELSE live \intersect {id}
IsFound(id) == \E i \in Ids : Matches(id) = {i}
Found(id) == CHOOSE i \in Ids : Matches(id) = {i}

MayFault(kind) == faults[kind] < MaxFaults[kind]
Fault(kind) == /\ MayFault(kind)
               /\ faults' = [faults EXCEPT ![kind] = @ + 1]

\* A read that raises: nothing or too much is there, or the request fails.
GetRaises(id) == \/ ~IsFound(id) /\ UNCHANGED faults
                 \/ IsFound(id) /\ Fault("transient")

\* Mutant: the runtime properties are already cleared by stop.
TaskProperties_ClearOnStop(o, p) ==
  CASE o = "create" -> [p EXCEPT !.typed = TRUE]
    [] o \in {"stop", "delete"} -> Cleared
    [] OTHER -> p

\* Mutant: delete keeps the runtime properties.
TaskProperties_KeepOnDelete(o, p) ==
  IF o = "create" THEN [p EXCEPT !.typed = TRUE] ELSE p

\* update_runtime_properties_for_operation_task
TaskProperties(o, p) ==
  CASE o = "create" -> [p EXCEPT !.typed = TRUE]
    [] o = "delete" -> Cleared
    [] OTHER -> p

End(outcome) == phase' = "end" /\ result' = outcome

-----------------------------------------------------------------------------
Init ==
  /\ props \in [external : BOOLEAN, cim : BOOLEAN]
  /\ \E foreign \in SUBSET Ids :
       /\ live = foreign
       /\ origin = [i \in Ids |-> IF i \in foreign THEN "foreign" ELSE "unborn"]
  /\ killed = {}
  /\ store = Cleared /\ rp = Cleared /\ res = None
  /\ op = "create" /\ heal = FALSE
  /\ phase = "idle" /\ result = "ok"
  /\ inst = "uninitialized" /\ cycles = 0
  /\ faults = [k \in FaultKinds |-> 0]

(***************************************************************************)
(* The workflows: install (create, start), execute_operation (update),     *)
(* uninstall (stop, delete) and heal, which is an uninstall and an install *)
(* with 'heal' in their workflow_id.  An operation that fails fails the    *)
(* workflow; the next one is an uninstall.                                 *)
(***************************************************************************)
Begin(o, h, from, to) ==
  /\ phase = "idle"
  /\ inst \in from
  /\ inst' = to
  /\ op' = o /\ heal' = h
  /\ phase' = "start"
  /\ UNCHANGED <<cloud, store, rp, res, result, props, faults>>

BeginCreate ==
  /\ cycles < MaxCycles
  /\ cycles' = cycles + 1
  /\ \E h \in BOOLEAN : /\ h => cycles > 0
                        /\ Begin("create", h, {"uninitialized"}, "creating")

BeginOther ==
  /\ UNCHANGED cycles
  /\ \/ Begin("start", FALSE, {"created"}, "created")
     \/ Begin("update", FALSE, {"created"}, "created")
     \/ Begin("stop", FALSE, {"creating", "created", "deleting"}, "deleting")
     \/ Begin("delete", FALSE, {"creating", "created", "deleting"}, "deleting")

(***************************************************************************)
(* The head of wrapper_inner: in a heal workflow create drops every        *)
(* runtime property; prepare_resource_instance hands 'id' to the resource. *)
(***************************************************************************)
Prepare ==
  /\ phase = "start"
  /\ rp' = IF heal /\ op = "create" THEN Cleared ELSE store
  /\ res' = rp'.id
  /\ phase' = IF props.external THEN "lookup" ELSE "guard"
  /\ UNCHANGED <<cloud, store, result, flow, faults>>

\* Mutant: create_if_missing is not looked at.
LookupRaises_AnyNode ==
  /\ phase = "lookup"
  /\ GetRaises(res)
  /\ rp' = [rp EXCEPT !.cond = TRUE]
  /\ res' = None
  /\ phase' = "guard"
  /\ UNCHANGED <<cloud, store, result, flow>>

\* Mutant: the conditionally_created mark is not set.
LookupRaises_MarkLost ==
  /\ phase = "lookup"
  /\ GetRaises(res)
  /\ IF props.cim
     THEN res' = None /\ phase' = "guard" /\ UNCHANGED <<rp, result>>
     ELSE End("failed") /\ UNCHANGED <<rp, res>>
  /\ UNCHANGED <<cloud, store, flow>>

(***************************************************************************)
(* lookup_remote_resource.  Any SDKException of a create_if_missing node   *)
(* marks it conditionally created and forgets the id of the resource       *)
(* object; for another external node it fails the operation.               *)
(***************************************************************************)
LookupFinds ==
  /\ phase = "lookup" /\ IsFound(res)
  /\ phase' = "record"
  /\ UNCHANGED <<cloud, store, rp, res, result, flow, faults>>

LookupRaises ==
  /\ phase = "lookup"
  /\ GetRaises(res)
  /\ IF props.cim
     THEN /\ rp' = [rp EXCEPT !.cond = TRUE]
          /\ res' = None
          /\ phase' = "guard"
          /\ UNCHANGED result
     ELSE End("failed") /\ UNCHANGED <<rp, res>>
  /\ UNCHANGED <<cloud, store, flow>>

(***************************************************************************)
(* set_external_resource reads the resource a second time, whatever the    *)
(* operation, then use_external_resource decides.  A conditionally created *)
(* node runs its handler.  Otherwise the existing resource is recorded by  *)
(* create, the existing_resource_handler may refuse it, and only the       *)
(* operations that are not those of a new node go on to their handler.     *)
(***************************************************************************)
RecordRaises ==
  /\ phase = "record"
  /\ GetRaises(res)
  /\ End("failed")
  /\ UNCHANGED <<cloud, store, rp, res, flow>>

UseExternal ==
  /\ phase = "record" /\ IsFound(res)
  /\ IF rp.cond
     THEN phase' = "guard" /\ UNCHANGED <<rp, res, result>>
     ELSE LET found == Found(res)
              known == IF op = "create" THEN [rp EXCEPT !.id = found] ELSE rp
          IN  /\ res' = found
              /\ \/ rp' = known /\ End("failed")
                 \/ /\ op \notin NewNodeOperations
                    /\ rp' = known /\ phase' = "guard" /\ UNCHANGED result
                 \/ /\ op \in NewNodeOperations
                    /\ rp' = TaskProperties(op, known) /\ End("ok")
  /\ UNCHANGED <<cloud, store, flow, faults>>

\* Mutant: delete does not look whether the instance has an id.
Guard_NoIdCheck ==
  /\ phase = "guard"
  /\ phase' = "handler"
  /\ UNCHANGED <<cloud, store, rp, res, result, flow, faults>>

\* stop and delete of an instance that has no id end at once.
Guard ==
  /\ phase = "guard"
  /\ IF op \in {"stop", "delete"} /\ rp.id = None
     THEN End("ok")
     ELSE phase' = "handler" /\ UNCHANGED result
  /\ UNCHANGED <<cloud, store, rp, res, flow, faults>>

\* After the handler of an external node its resource is read once more.
HandlerReturns(p) ==
  /\ rp' = TaskProperties(op, p)
  /\ IF props.external THEN phase' = "post" /\ UNCHANGED result ELSE End("ok")

\* create: one request, then the id becomes a runtime property.
HandleCreate ==
  /\ phase = "handler" /\ op = "create"
  /\ \E i \in Ids :
       /\ origin[i] = "unborn"
       /\ origin' = [origin EXCEPT ![i] = "plugin"]
       /\ live' = live \union {i}
       /\ \/ HandlerReturns([rp EXCEPT !.id = i]) /\ UNCHANGED faults
          \/ End("failed") /\ UNCHANGED rp /\ Fault("lost")
  /\ UNCHANGED <<killed, store, res, flow>>

\* delete: the resource is read, then deleted.
HandleDelete ==
  /\ phase = "handler" /\ op = "delete" /\ IsFound(res)
  /\ live' = live \ {Found(res)}
  /\ killed' = killed \union {Found(res)}
  /\ \/ HandlerReturns(rp) /\ UNCHANGED faults
     \/ End("failed") /\ UNCHANGED rp /\ Fault("lost")
  /\ UNCHANGED <<origin, store, res, flow>>

\* The other handlers only read or modify the resource.
HandleOther ==
  /\ phase = "handler" /\ op \notin {"create", "delete"} /\ IsFound(res)
  /\ HandlerReturns(rp)
  /\ UNCHANGED <<cloud, store, res, flow, faults>>

\* A create may be refused at any time (quota, conflict, bad configuration).
HandlerRaises ==
  /\ phase = "handler"
  /\ IF op = "create" THEN UNCHANGED faults ELSE GetRaises(res)
  /\ End("failed")
  /\ UNCHANGED <<cloud, store, rp, res, flow>>

PostReturns ==
  /\ phase = "post" /\ IsFound(res)
  /\ End("ok")
  /\ UNCHANGED <<cloud, store, rp, res, flow, faults>>

PostRaises ==
  /\ phase = "post"
  /\ GetRaises(res)
  /\ End("failed")
  /\ UNCHANGED <<cloud, store, rp, res, flow>>

\* The dispatcher stores the runtime properties of the attempt in any case.
Finish ==
  /\ phase = "end"
  /\ phase' = "idle"
  /\ store' = rp
  /\ inst' = CASE op = "create" /\ result = "ok" -> "created"
               [] op = "delete" /\ result = "ok" -> "uninitialized"
               [] OTHER -> inst
  /\ UNCHANGED <<cloud, rp, res, result, props, op, heal, cycles, faults>>

-----------------------------------------------------------------------------
Crash ==
  /\ phase \notin {"idle", "start"}
  /\ Fault("crash")
  /\ phase' = "start"
  /\ UNCHANGED <<cloud, store, rp, res, result, flow>>

\* Somebody else creates a resource with the node's name, or deletes one.
ForeignAppears ==
  /\ \E i \in Ids : /\ origin[i] = "unborn"
                    /\ origin' = [origin EXCEPT ![i] = "foreign"]
                    /\ live' = live \union {i}
  /\ UNCHANGED <<killed, store, attempt, flow, faults>>

Removed ==
  /\ \E i \in live : live' = live \ {i}
  /\ Fault("removal")
  /\ UNCHANGED <<origin, killed, store, attempt, flow>>

Attempt ==
  \/ Prepare \/ LookupFinds \/ LookupRaises \/ RecordRaises \/ UseExternal
  \/ Guard \/ HandleCreate \/ HandleDelete \/ HandleOther \/ HandlerRaises
  \/ PostReturns \/ PostRaises \/ Finish

Environment == Crash \/ ForeignAppears \/ Removed

Next == BeginCreate \/ BeginOther \/ Attempt \/ Environment

Spec == Init /\ [][Next]_vars

-----------------------------------------------------------------------------
\* Every variable has its type: a runtime property id is an identifier or absent.
TypeOK ==
  /\ props \in [external : BOOLEAN, cim : BOOLEAN]
  /\ live \subseteq Ids
  /\ origin \in [Ids -> {"unborn", "foreign", "plugin"}]
  /\ killed \subseteq Ids
  /\ store \in Properties /\ rp \in Properties
  /\ res \in Ids \union {None}
  /\ op \in Operations /\ heal \in BOOLEAN
  /\ phase \in {"idle", "start", "lookup", "record", "guard", "handler",
                "post", "end"}
  /\ result \in {"ok", "failed"}
  /\ inst \in {"uninitialized", "creating", "created", "deleting"}
  /\ cycles \in 0 .. MaxCycles
  /\ faults \in [FaultKinds -> Nat]

Owned == {i \in live : origin[i] = "plugin"}
NoFault(kinds) == \A k \in kinds : faults[k] = 0

(***************************************************************************)
(* The plugin never deletes a resource it did not create: delete of an     *)
(* external node returns before its handler, and the handler of any other  *)
(* node deletes by the recorded id.  The exception is a create_if_missing  *)
(* node after a fault: lookup_remote_resource then makes its delete run by *)
(* name.                                                                   *)
(***************************************************************************)
ForeignSurvives ==
  (\E i \in killed : origin[i] = "foreign") =>
    props.external /\ props.cim /\ ~NoFault(FaultKinds)

(***************************************************************************)
(* Between operations the stored runtime properties name every resource    *)
(* the plugin created and has not deleted, as long as no create was cut    *)
(* short between its request and the dispatcher's save.                    *)
(***************************************************************************)
NoOrphan ==
  phase = "idle" /\ NoFault({"crash", "lost"}) => Owned \subseteq {store.id}

(***************************************************************************)
(* An uninstall that reached its end forgets the id, and has left nothing  *)
(* of the node behind; an install that reached its end has recorded what   *)
(* the dependent nodes look up: id and type.                               *)
(***************************************************************************)
WorkflowsComplete ==
  phase = "idle" =>
    /\ inst = "created" => store.id # None /\ store.typed
    /\ inst = "uninitialized" => store.id = None
    /\ inst = "uninitialized" /\ NoFault({"crash", "lost"}) => Owned = {}

(***************************************************************************)
(* What the plugin creates for an external node stays marked               *)
(* conditionally_created as long as it exists, over failed operations and  *)
(* repeated uninstalls: without the mark its delete would spare it.        *)
(***************************************************************************)
CreatedStaysDeletable ==
  props.external /\ NoFault({"crash", "lost"}) =>
    \A p \in {store, rp} : p.id \in Owned => p.cond

(***************************************************************************)
(* The wrapper keeps the promise of OwnedResource, with two exceptions: a  *)
(* create that was cut short may leave a resource nobody owns, and after a *)
(* fault a create_if_missing node may take what belongs to others.         *)
(***************************************************************************)
Taken == IF props.external /\ props.cim /\ ~NoFault(FaultKinds) THEN {} ELSE killed
Abstract == INSTANCE OwnedResource WITH
  owned <- IF NoFault({"crash", "lost"}) THEN Owned ELSE {},
  foreign <- {i \in Ids : origin[i] = "foreign"} \ Taken
ImplementsOwnedResource == Abstract!Spec
=============================================================================
