--------------------------- MODULE HostAggregate ---------------------------
(***************************************************************************)
(* The operations of a host aggregate node (openstack_plugin/resources/    *)
(* compute/host_aggregate.py).  The aggregate is changed one host at a     *)
(* time, while the runtime property 'hosts', by which delete empties the   *)
(* aggregate, is changed for all hosts at once, except in delete, which    *)
(* stores it after each host.  The module is about what is left when such  *)
(* a loop is cut short.  The life of the runtime properties is that of     *)
(* NodeOperation.                                                          *)
(***************************************************************************)
EXTENDS Naturals

CONSTANTS Hosts,      \* the hosts of the tenant
          NodeHosts,  \* those of the node property 'hosts'
          MaxFaults   \* a bound on the faults of each kind

(***************************************************************************)
(* "crash":     the worker dies during an attempt.                         *)
(* "transient": a request fails and has no effect.                         *)
(* "lost":      a request takes effect and its answer is lost.             *)
(***************************************************************************)
FaultKinds == {"crash", "transient", "lost"}

ASSUME NodeHostsAssumption == NodeHosts \subseteq Hosts
ASSUME FaultsAssumption == MaxFaults \in [FaultKinds -> Nat]

VARIABLES
  exists,  \* whether the aggregate exists
  hosts,   \* its hosts
  stored,  \* runtime property 'hosts', as the engine keeps it
  hasKey,  \* whether the engine keeps it at all: it may be the empty list
  known,   \* the working copy of stored in the attempt
  keyed,   \* the working copy of hasKey
  op,      \* the current operation
  arg,     \* its hosts
  todo,    \* hosts the loop has still to process
  phase,   \* the step the attempt is at
  result,  \* outcome of the attempt
  inst,    \* state of the node instance in the workflow
  cut,     \* history: which loops of this aggregate were cut short
  faults   \* faults so far, by kind

cloud == <<exists, hosts>>
engine == <<stored, hasKey>>
attempt == <<known, keyed, todo, phase, result>>
call == <<op, arg, inst>>
vars == <<cloud, engine, attempt, call, cut, faults>>

Operations ==
  {"create", "configure", "update", "add_hosts", "remove_hosts", "delete"}
Phases == {"idle", "begin", "metadata", "add", "remove", "delete", "end"}

MayFault(kind) == faults[kind] < MaxFaults[kind]
Fault(kind) == /\ MayFault(kind)
               /\ faults' = [faults EXCEPT ![kind] = @ + 1]

End(outcome) == phase' = "end" /\ result' = outcome
Goto(p) == phase' = p /\ UNCHANGED result

\* A loop over hosts that ends, or is lost, with some of them processed and
\* others not stored.  delete stores what it does as it goes.
CutShort(loop) ==
  cut' = IF op = "delete" \/ todo = arg THEN cut ELSE cut \union {loop}

-----------------------------------------------------------------------------
Init ==
  /\ exists = FALSE /\ hosts = {}
  /\ stored = {} /\ hasKey = FALSE /\ known = {} /\ keyed = FALSE
  /\ op = "create" /\ arg = {} /\ todo = {}
  /\ phase = "idle" /\ result = "ok"
  /\ inst = "uninitialized" /\ cut = {}
  /\ faults = [k \in FaultKinds |-> 0]

Permitted(o) == CASE o = "create" -> inst = "uninitialized"
                  [] o = "configure" -> inst = "created"
                  [] o = "delete" -> inst # "uninitialized"
                  [] OTHER -> inst = "configured"

Begin ==
  /\ phase = "idle"
  /\ op' \in {o \in Operations : Permitted(o)}
  /\ arg' \in CASE op' = "configure" -> {NodeHosts}
                [] op' \in {"add_hosts", "remove_hosts"} -> SUBSET Hosts
                [] OTHER -> {{}}
  /\ phase' = "begin"
  /\ inst' = IF op' = "delete" THEN "deleting" ELSE inst
  /\ UNCHANGED <<cloud, engine, known, keyed, todo, result, cut, faults>>

\* create: one request; a lost answer leaves an aggregate nobody knows, see
\* NodeOperation.
Create ==
  /\ phase = "begin" /\ op = "create"
  /\ \/ exists' = TRUE /\ End("ok")
     \/ UNCHANGED exists /\ End("failed")
  /\ known' = {} /\ keyed' = FALSE /\ todo' = {}
  /\ UNCHANGED <<hosts, engine, call, cut, faults>>

Load == known' = stored /\ keyed' = hasKey

\* Mutant: delete does not look at the hosts.
Enter_NoHosts ==
  /\ phase = "begin" /\ op # "create"
  /\ Load /\ todo' = arg
  /\ Goto(CASE op \in {"configure", "update"} -> "metadata"
            [] op = "add_hosts" -> "add"
            [] op = "remove_hosts" -> "remove"
            [] op = "delete" -> "delete")
  /\ UNCHANGED <<cloud, engine, call, cut, faults>>

Enter ==
  /\ phase = "begin" /\ op # "create"
  /\ Load
  /\ todo' = IF op = "delete" THEN stored ELSE arg
  /\ Goto(CASE op \in {"configure", "update"} -> "metadata"
            [] op = "add_hosts" -> "add"
            [] op = "remove_hosts" -> "remove"
            [] op = "delete" -> IF stored = {} THEN "delete" ELSE "remove")
  /\ UNCHANGED <<cloud, engine, call, cut, faults>>

\* set_metadata comes before the hosts.  update has no hosts.
Metadata ==
  /\ phase = "metadata"
  /\ IF arg = {} THEN End("ok") ELSE Goto("add")
  /\ UNCHANGED <<cloud, engine, known, keyed, todo, call, cut, faults>>

RequestRaises ==
  /\ \/ phase \in {"metadata", "delete"} /\ UNCHANGED cut
     \/ phase \in {"add", "remove"} /\ todo # {} /\ CutShort(phase)
  /\ Fault("transient")
  /\ End("failed")
  /\ UNCHANGED <<cloud, engine, known, keyed, todo, call>>

-----------------------------------------------------------------------------
\* _add_hosts: a host that is already in the aggregate is refused.
AddHost ==
  /\ phase = "add"
  /\ \E h \in todo :
       IF h \in hosts
       THEN End("failed") /\ CutShort("add") /\ UNCHANGED <<hosts, todo, faults>>
       ELSE /\ hosts' = hosts \union {h}
            /\ todo' = todo \ {h}
            /\ \/ Goto("add") /\ UNCHANGED <<cut, faults>>
               \/ End("failed") /\ cut' = cut \union {"add"} /\ Fault("lost")
  /\ UNCHANGED <<exists, engine, known, keyed, call>>

AddDone ==
  /\ phase = "add" /\ todo = {}
  /\ known' = arg \union known /\ keyed' = TRUE
  /\ End("ok")
  /\ UNCHANGED <<cloud, engine, todo, call, cut, faults>>

(***************************************************************************)
(* _remove_hosts: a host that is not in the aggregate is refused.  delete  *)
(* (update_on_remove) stores the hosts that are left after each request.   *)
(***************************************************************************)
RemoveHost ==
  /\ phase = "remove"
  /\ \E h \in todo :
       IF h \notin hosts
       THEN /\ End("failed") /\ CutShort("remove")
            /\ UNCHANGED <<hosts, engine, known, keyed, todo, faults>>
       ELSE /\ hosts' = hosts \ {h}
            /\ todo' = todo \ {h}
            /\ \/ /\ Goto("remove") /\ UNCHANGED <<cut, faults>>
                  /\ IF op = "delete"
                     THEN /\ known' = todo' /\ keyed' = TRUE
                          /\ stored' = todo' /\ hasKey' = TRUE
                     ELSE UNCHANGED <<known, keyed, engine>>
               \/ /\ \/ End("failed") /\ Fault("lost")
                     \/ Goto("begin") /\ Fault("crash")
                  /\ cut' = cut \union {"remove"}
                  /\ UNCHANGED <<known, keyed, engine>>
  /\ UNCHANGED <<exists, call>>

\* Mutant: the hosts that were removed stay known.
RemoveDone_Keeps ==
  /\ phase = "remove" /\ todo = {}
  /\ IF op = "delete" THEN Goto("delete") ELSE End("ok")
  /\ UNCHANGED <<cloud, engine, known, keyed, todo, call, cut, faults>>

\* When no host is left the key is deleted; without the key that raises a
\* KeyError, after all the requests.
RemoveDone ==
  /\ phase = "remove" /\ todo = {}
  /\ known' = known \ arg
  /\ keyed' = (known' # {})
  /\ IF known' = {} /\ ~keyed
     THEN End("failed") /\ CutShort("remove")
     ELSE /\ IF op = "delete" THEN Goto("delete") ELSE End("ok")
          /\ UNCHANGED cut
  /\ UNCHANGED <<cloud, engine, todo, call, faults>>

\* An aggregate that has hosts is not deleted.
Delete ==
  /\ phase = "delete"
  /\ IF exists /\ hosts = {}
     THEN /\ exists' = FALSE
          /\ \/ End("ok") /\ UNCHANGED <<cut, faults>>
             \/ End("failed") /\ Fault("lost") /\ cut' = cut \union {"delete"}
     ELSE End("failed") /\ UNCHANGED <<exists, cut, faults>>
  /\ UNCHANGED <<hosts, engine, known, keyed, todo, call>>

\* The dispatcher stores the working copy of an attempt that returns or
\* raises; a delete that succeeds clears it.
Finish ==
  /\ phase = "end"
  /\ phase' = "idle"
  /\ IF op = "delete" /\ result = "ok"
     THEN stored' = {} /\ hasKey' = FALSE /\ cut' = {}
     ELSE stored' = known /\ hasKey' = keyed /\ UNCHANGED cut
  /\ inst' = CASE op = "create" /\ result = "ok" -> "created"
               [] op = "configure" /\ result = "ok" -> "configured"
               [] op = "delete" /\ result = "ok" -> "uninitialized"
               [] OTHER -> inst
  /\ UNCHANGED <<cloud, known, keyed, todo, result, op, arg, faults>>

\* The working copy is lost and the operation is run again.
Crash ==
  /\ phase \notin {"idle", "begin"} /\ op # "create"
  /\ Fault("crash")
  /\ \/ op \in {"configure", "update", "add_hosts"} /\ CutShort("add")
     \/ op = "remove_hosts" /\ CutShort("remove")
     \/ /\ op = "delete"
        /\ cut' = IF phase = "end" /\ ~exists THEN cut \union {"delete"} ELSE cut
  /\ phase' = "begin"
  /\ UNCHANGED <<cloud, engine, known, keyed, todo, result, call>>

Next ==
  \/ Begin \/ Create \/ Enter \/ Metadata \/ RequestRaises
  \/ AddHost \/ AddDone \/ RemoveHost \/ RemoveDone \/ Delete
  \/ Finish \/ Crash

Spec == Init /\ [][Next]_vars

-----------------------------------------------------------------------------
\* Every variable has its type; a key that is not there stands for no host.
TypeOK ==
  /\ exists \in BOOLEAN /\ hosts \subseteq Hosts
  /\ stored \subseteq Hosts /\ hasKey \in BOOLEAN
  /\ known \subseteq Hosts /\ keyed \in BOOLEAN
  /\ op \in Operations /\ arg \subseteq Hosts /\ todo \subseteq Hosts
  /\ phase \in Phases /\ result \in {"ok", "failed"}
  /\ inst \in {"uninitialized", "created", "configured", "deleting"}
  /\ cut \subseteq {"add", "remove", "delete"}
  /\ faults \in [FaultKinds -> Nat]
  /\ (~exists => hosts = {}) /\ (~hasKey => stored = {}) /\ (~keyed => known = {})

(***************************************************************************)
(* Between operations, the runtime properties name every host that was     *)
(* put into the aggregate (so that delete can take it out again), unless   *)
(* an _add_hosts ended after some of its hosts: what it added before is    *)
(* recorded nowhere.                                                       *)
(***************************************************************************)
HostsAreRecorded == phase = "idle" /\ "add" \notin cut => hosts \subseteq stored

(***************************************************************************)
(* Between operations, every host the runtime properties name is in the    *)
(* aggregate, unless a _remove_hosts ended after some of its hosts: delete *)
(* asks for the others again and is refused.                               *)
(***************************************************************************)
RecordedAreThere == phase = "idle" /\ "remove" \notin cut => stored \subseteq hosts

(***************************************************************************)
(* delete succeeds, also after it was itself interrupted by a crash        *)
(* between two hosts, as long as no loop was cut short, its last request   *)
(* was answered and remembered, and no request of it failed.               *)
(***************************************************************************)
DeleteSucceeds ==
  phase = "end" /\ op = "delete" /\ result = "failed" =>
    cut # {} \/ faults["transient"] > 0
=============================================================================
