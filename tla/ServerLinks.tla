---------------------------- MODULE ServerLinks ----------------------------
(***************************************************************************)
(* The relationships of a server with security groups and ports:           *)
(* connect_security_group and disconnect_security_group of                 *)
(* openstack_plugin/resources/compute/server.py, detach of                 *)
(* openstack_plugin/resources/network/port.py.                             *)
(*                                                                         *)
(* A security group is a property of ports.  Nova adds it to, and removes  *)
(* it from, all the ports of a server in one request.  Disconnecting also  *)
(* takes it off every port that the server was created with, by reading    *)
(* the groups of the port and writing them back without it.  A workflow    *)
(* runs the operations of different relationships concurrently.            *)
(***************************************************************************)
EXTENDS Naturals, FiniteSets

CONSTANTS Related,   \* security groups the server has a relationship with
          Others,    \* security groups it gets from elsewhere
          Ports,     \* ports
          MaxFailures  \* a bound on the failures of each kind

ASSUME GroupsAssumption == Related \intersect Others = {}

\* "crash": the worker dies; "transient": a request fails without effect.
FailureKinds == {"crash", "transient"}
ASSUME FailuresAssumption == MaxFailures \in [FailureKinds -> Nat]

VARIABLES
  groups,    \* the security groups of each port
  bound,     \* the ports whose device is the server
  payload,   \* the ports in the server's stored payload
  stage,     \* "establish" or "unlink": which operations the workflow runs
  serial,    \* whether it runs them one at a time
  step,      \* where the operation of each related group is
  seen,      \* the groups of a port, as an operation read them
  todo,      \* the ports an operation has still to write
  origin,    \* history: the groups of each port from elsewhere
  failures   \* failures so far, by kind

network == <<groups, bound>>
given == <<payload, serial, origin>>
locals == <<seen, todo>>
linksVars == <<network, given, stage, step, locals, failures>>

Groups == Related \union Others
Resting == {"off", "on", "unlinked", "failed"}
Steps == Resting \union {"add", "remove", "clean"}

\* A step is the port being written, or one of these.
ASSUME PortsAssumption == Ports \intersect Steps = {}

(***************************************************************************)
(* When the operations start, create and configure have attached either    *)
(* all the related groups to all the ports of the server, or, if the       *)
(* relationships were added to a server that is running, none of them.     *)
(***************************************************************************)
LinksInit ==
  /\ bound \in SUBSET Ports
  /\ payload \in SUBSET bound
  /\ origin \in [Ports -> SUBSET Others]
  /\ \E attached \in {{}, Related} :
       groups = [p \in Ports |-> origin[p] \union
                                 IF p \in bound THEN attached ELSE {}]
  /\ stage = "establish"
  /\ serial \in BOOLEAN
  /\ step = [g \in Related |-> "off"]
  /\ seen = [g \in Related |-> {}]
  /\ todo = [g \in Related |-> {}]
  /\ failures = [k \in FailureKinds |-> 0]

StepTo(g, p) == step' = [step EXCEPT ![g] = p]
Failure(kind) == /\ failures[kind] < MaxFailures[kind]
               /\ failures' = [failures EXCEPT ![kind] = @ + 1]

\* Whether the workflow may begin an operation now.
MayBegin == serial => \A g \in Related : step[g] \in Resting

\* The security groups Nova shows for the server: those of its ports.
ServerGroups == UNION {groups[p] : p \in bound}

-----------------------------------------------------------------------------
\* Mutant: the presence check looks for any group at all.
Connect_AnyGroup(g) ==
  /\ stage = "establish" /\ step[g] = "off" /\ MayBegin
  /\ StepTo(g, IF ServerGroups # {} THEN "on" ELSE "add")
  /\ UNCHANGED <<network, given, stage, locals, failures>>

\* connect_security_group asks whether the server has the group already.
Connect(g) ==
  /\ stage = "establish" /\ step[g] = "off" /\ MayBegin
  /\ StepTo(g, IF g \in ServerGroups THEN "on" ELSE "add")
  /\ UNCHANGED <<network, given, stage, locals, failures>>

\* It adds the group to the server, that is, to all its ports.
Add(g) ==
  /\ step[g] = "add"
  /\ groups' = [p \in Ports |-> IF p \in bound THEN groups[p] \union {g}
                                ELSE groups[p]]
  /\ StepTo(g, "on")
  /\ UNCHANGED <<bound, given, stage, locals, failures>>

\* The workflow that unlinks runs when the one that establishes has ended.
Unlink ==
  /\ stage = "establish"
  /\ \A g \in Related : step[g] \in {"on", "failed"}
  /\ stage' = "unlink"
  /\ UNCHANGED <<network, given, step, locals, failures>>

\* detach of a port that the server was created with.
DetachPort(p) ==
  /\ stage = "unlink" /\ MayBegin
  /\ p \in payload \intersect bound
  /\ bound' = bound \ {p}
  /\ UNCHANGED <<groups, given, stage, step, locals, failures>>

\* disconnect_security_group lists the ports of the server.
Disconnect(g) ==
  /\ stage = "unlink" /\ step[g] = "on" /\ MayBegin
  /\ todo' = [todo EXCEPT ![g] = payload]
  /\ StepTo(g, IF bound # {} THEN "remove" ELSE "clean")
  /\ UNCHANGED <<network, given, stage, seen, failures>>

(***************************************************************************)
(* If there are any it asks Nova to remove the group from them all, which  *)
(* is an error, and the end of the operation, if none has it any more.     *)
(***************************************************************************)
RemoveFromServer(g) ==
  /\ step[g] = "remove"
  /\ \/ /\ g \in ServerGroups
        /\ groups' = [p \in Ports |-> IF p \in bound THEN groups[p] \ {g}
                                      ELSE groups[p]]
        /\ StepTo(g, "clean")
     \/ /\ g \notin ServerGroups
        /\ StepTo(g, "failed")
        /\ UNCHANGED groups
  /\ UNCHANGED <<bound, given, stage, locals, failures>>

\* Mutant: all the groups of the server are taken for those of the port.
ReadPort_OfServer(g) ==
  /\ step[g] = "clean"
  /\ \E p \in todo[g] :
       /\ todo' = [todo EXCEPT ![g] = @ \ {p}]
       /\ seen' = [seen EXCEPT ![g] = ServerGroups]
       /\ StepTo(g, p)
  /\ UNCHANGED <<network, given, stage, failures>>

(***************************************************************************)
(* _disconnect_security_group_from_server_ports: a port is read, and its   *)
(* groups are written back without this one.                               *)
(***************************************************************************)
ReadPort(g) ==
  /\ step[g] = "clean"
  /\ \E p \in todo[g] :
       /\ todo' = [todo EXCEPT ![g] = @ \ {p}]
       /\ seen' = [seen EXCEPT ![g] = groups[p]]
       /\ StepTo(g, p)
  /\ UNCHANGED <<network, given, stage, failures>>

\* Mutant: the list is written back as it was read.
WritePort_AsRead(g) ==
  /\ step[g] \in Ports
  /\ groups' = [groups EXCEPT ![step[g]] = seen[g]]
  /\ seen' = [seen EXCEPT ![g] = {}]
  /\ StepTo(g, "clean")
  /\ UNCHANGED <<bound, given, stage, todo, failures>>

WritePort(g) ==
  /\ step[g] \in Ports
  /\ groups' = [groups EXCEPT ![step[g]] = seen[g] \ {g}]
  /\ seen' = [seen EXCEPT ![g] = {}]
  /\ StepTo(g, "clean")
  /\ UNCHANGED <<bound, given, stage, todo, failures>>

EndDisconnect(g) ==
  /\ step[g] = "clean" /\ todo[g] = {}
  /\ StepTo(g, "unlinked")
  /\ UNCHANGED <<network, given, stage, locals, failures>>

\* What an attempt knew is gone when it breaks off.
Forget(g) == /\ seen' = [seen EXCEPT ![g] = {}]
             /\ todo' = [todo EXCEPT ![g] = {}]

\* A request that fails is the end of the operation.
Fail(g) ==
  /\ step[g] \notin Resting
  /\ Failure("transient")
  /\ StepTo(g, "failed")
  /\ Forget(g)
  /\ UNCHANGED <<network, given, stage>>

\* After a crash the operation is executed again from its first line.
WorkerDies(g) ==
  /\ step[g] \notin Resting
  /\ Failure("crash")
  /\ StepTo(g, IF stage = "establish" THEN "off" ELSE "on")
  /\ Forget(g)
  /\ UNCHANGED <<network, given, stage>>

-----------------------------------------------------------------------------
Handler(g) == \/ Connect(g) \/ Add(g)
              \/ Disconnect(g) \/ RemoveFromServer(g)
              \/ ReadPort(g) \/ WritePort(g) \/ EndDisconnect(g)

LinksNext == \/ \E g \in Related : Handler(g) \/ Fail(g) \/ WorkerDies(g)
        \/ Unlink
        \/ \E p \in Ports : DetachPort(p)

LinksSpec == LinksInit /\ [][LinksNext]_linksVars

-----------------------------------------------------------------------------
(* Type invariant: a related group is at a step of its operation.          *)
LinksTypeOK ==
  /\ groups \in [Ports -> SUBSET Groups] /\ bound \subseteq Ports
  /\ payload \subseteq Ports /\ origin \in [Ports -> SUBSET Others]
  /\ stage \in {"establish", "unlink"} /\ serial \in BOOLEAN
  /\ step \in [Related -> Steps \union Ports]
  /\ seen \in [Related -> SUBSET Groups]
  /\ todo \in [Related -> SUBSET Ports]
  /\ \A k \in FailureKinds : failures[k] \in 0..MaxFailures[k]

(***************************************************************************)
(* A related group whose connect operation succeeded is on every port of   *)
(* the server, whatever operations of other groups run at the same time,   *)
(* until something is unlinked.                                            *)
(***************************************************************************)
LinkedIsOn ==
  stage = "establish" =>
    \A g \in Related, p \in bound : step[g] = "on" => g \in groups[p]

(***************************************************************************)
(* Disconnecting groups, even several at the same time from the same       *)
(* ports, takes nothing from a port that it has from elsewhere, and adds   *)
(* nothing from elsewhere to it.                                           *)
(***************************************************************************)
OthersAreKept == \A p \in Ports : groups[p] \intersect Others = origin[p]

(***************************************************************************)
(* If relationship operations run one at a time, a group that was          *)
(* disconnected is off every port of the server and every port the server  *)
(* was created with, and stays off: the group's node may be deleted.       *)
(***************************************************************************)
Unlinked(g) == step[g] = "unlinked" =>
                 \A p \in bound \union payload : g \notin groups[p]
SerialUnlinkedIsOff == serial => \A g \in Related : Unlinked(g)
=============================================================================
