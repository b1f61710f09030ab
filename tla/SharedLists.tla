---------------------------- MODULE SharedLists ----------------------------
(***************************************************************************)
(* Lists on the cloud that several nodes write, and others too:            *)
(*   "routes"  the static routes of a router: start and stop of a router,  *)
(*             which are create and delete of a Routes node of version 2   *)
(*   "pairs"   the allowed address pairs of an existing port: create and   *)
(*             delete of a port node with use_external_resource            *)
(*                                                                         *)
(* The services only replace a whole list.  An install writes the entries  *)
(* of its node and nothing else; an uninstall reads the list and writes it *)
(* back without them.  Workflows run the nodes concurrently, and nothing   *)
(* protects the list between two requests of one operation.                *)
(***************************************************************************)
EXTENDS Naturals, FiniteSets

CONSTANTS Nodes,          \* nodes that share the list
          Entries,        \* <<key, detail>>: a destination and its next hop,
                          \* or an address and its MAC address
          PortDetail,     \* the MAC address of the port itself
          Wants,          \* the sets of entries a node may be given
          OthersEntries,  \* those that others may put on the list
          Misplaced,      \* nodes related to a network that is not the port's
          MaxInstalls,    \* a bound on the installs of a node
          MaxEvents,      \* a bound on the events of each kind
          MaxKinds        \* a bound on the kinds that occur in one behaviour

(***************************************************************************)
(* "crash":     the worker dies during an operation.                       *)
(* "transient": a request fails and has no effect.                         *)
(* "add", "remove": not faults: others change the list.                    *)
(***************************************************************************)
EventKinds == {"crash", "transient", "add", "remove"}

ASSUME EntriesAssumption ==
  /\ \A e \in Entries : e = <<e[1], e[2]>> /\ <<e[1], PortDetail>> \in Entries
  /\ Wants \subseteq SUBSET Entries /\ OthersEntries \subseteq Entries
  /\ Misplaced \subseteq Nodes
ASSUME BoundsAssumption == /\ MaxInstalls \in Nat /\ MaxKinds \in Nat
                           /\ MaxEvents \in [EventKinds -> Nat]

VARIABLES
  kind,       \* what the list is
  wanted,     \* the entries of each node
  list,       \* the list on the cloud
  op,         \* the operation of each node
  phase,      \* the step it is at
  result,     \* outcome of its last operation
  copy,       \* the list as its uninstall read it
  stored,     \* nodes whose routes are runtime properties
  installs,   \* installs of each node so far
  missed,     \* history: nodes that wrote since the uninstall of this one read
  harmed,     \* history: nodes whose last write was undone by such a write
  orphaned,   \* history: nodes that wrote routes and could not store them
  had,        \* history: all that others ever put on the list
  kept,       \* history: entries of others that all installs and all reads
              \* of the list came before
  events      \* events so far, by kind

inputs == <<kind, wanted>>
history == <<missed, harmed, orphaned, had, kept, events>>
vars == <<inputs, list, op, phase, result, copy, stored, installs, history>>

Event(k) == /\ events[k] < MaxEvents[k]
            /\ Cardinality({j \in EventKinds \ {k} : events[j] > 0}) < MaxKinds
            /\ events' = [events EXCEPT ![k] = @ + 1]

KeysOf(entries) == {e[1] : e \in entries}
Goto(n, p) == phase' = [phase EXCEPT ![n] = p]
Ends(n, outcome) == Goto(n, "end") /\ result' = [result EXCEPT ![n] = outcome]

\* An uninstall of n that has the list in its hands.
Reading(n) == op[n] = "uninstall" /\ phase[n] = "write"

-----------------------------------------------------------------------------
\* Others may have put something on the list before.
Init ==
  /\ kind \in {"routes", "pairs"}
  /\ wanted \in [Nodes -> Wants]
  /\ list \in {{}} \union {{e} : e \in OthersEntries}
  /\ op = [n \in Nodes |-> "uninstall"] /\ phase = [n \in Nodes |-> "idle"]
  /\ result = [n \in Nodes |-> "ok"]
  /\ copy = [n \in Nodes |-> {}] /\ stored = {}
  /\ installs = [n \in Nodes |-> 0]
  /\ missed = [n \in Nodes |-> {}]
  /\ harmed = {} /\ orphaned = {}
  /\ had = list /\ kept = list
  /\ events = [k \in EventKinds |-> 0]

\* The first step: start of a router does not read the list.
First(operation) ==
  IF kind = "routes" /\ operation = "install" THEN "write" ELSE "read"

Begins(n, operation) ==
  /\ phase[n] = "idle"
  /\ op' = [op EXCEPT ![n] = operation]
  /\ Goto(n, First(operation))
  /\ UNCHANGED <<inputs, list, result, copy, stored, history>>

BeginInstall(n) ==
  /\ op[n] = "uninstall" /\ result[n] = "ok"
  /\ installs[n] < MaxInstalls
  /\ installs' = [installs EXCEPT ![n] = @ + 1]
  /\ Begins(n, "install")

\* What was installed, or failed to be, is uninstalled; and so is what failed
\* to be uninstalled.
BeginUninstall(n) ==
  /\ op[n] = "install" \/ result[n] = "failed"
  /\ Begins(n, "uninstall") /\ UNCHANGED installs

-----------------------------------------------------------------------------
\* _update_external_port refuses addresses that the port has.
CheckAddresses(n) ==
  /\ op[n] = "install" /\ phase[n] = "read"
  /\ IF KeysOf(list) \intersect KeysOf(wanted[n]) # {}
     THEN Ends(n, "failed")
     ELSE Goto(n, "write") /\ UNCHANGED result
  /\ UNCHANGED <<inputs, list, op, copy, stored, installs, history>>

\* What a write of n does to the others' view of the list.
Wrote(n) ==
  /\ missed' = [m \in Nodes |-> IF m = n THEN {}
                                ELSE IF Reading(m) THEN missed[m] \union {n}
                                ELSE missed[m]]
  /\ harmed' = (harmed \union missed[n]) \ {n}
  /\ UNCHANGED <<orphaned, had, events>>

\* start, or create of an external port: the list is replaced.
WriteWanted(n) ==
  /\ op[n] = "install" /\ phase[n] = "write"
  /\ list' = wanted[n]
  /\ Wrote(n) /\ kept' = {}
  /\ IF kind = "pairs" THEN Goto(n, "check") /\ UNCHANGED result
                       ELSE Ends(n, "ok")
  /\ UNCHANGED <<inputs, op, copy, stored, installs>>

(***************************************************************************)
(* Only then create compares the network of the port with the related one. *)
(***************************************************************************)
CheckNetwork(n) ==
  /\ phase[n] = "check"
  /\ Ends(n, IF n \in Misplaced THEN "failed" ELSE "ok")
  /\ UNCHANGED <<inputs, list, op, copy, stored, installs, history>>

-----------------------------------------------------------------------------
\* stop without routes in the runtime properties does nothing.
NothingToRemove(n) == kind = "routes" /\ n \notin stored

ReadList(n) ==
  /\ op[n] = "uninstall" /\ phase[n] = "read"
  /\ IF NothingToRemove(n)
     THEN Ends(n, "ok") /\ UNCHANGED copy
     ELSE /\ copy' = [copy EXCEPT ![n] = list]
          /\ Goto(n, "write") /\ UNCHANGED result
  /\ UNCHANGED <<inputs, list, op, stored, installs, history>>

\* Mutant: addresses are matched with their MAC addresses.
Remaining_Pairs(n) ==
  LET left == copy[n] \ wanted[n]
  IN IF kind = "routes" THEN left ELSE KeysOf(left) \X {PortDetail}

\* Mutant: the list is emptied.
Remaining_None(n) == {}

(***************************************************************************)
(* stop compares whole routes.  _clean_addresses_from_external_port        *)
(* compares addresses, and writes back addresses only: the service gives   *)
(* such a pair the MAC address of the port.                                *)
(***************************************************************************)
Remaining(n) ==
  IF kind = "routes" THEN copy[n] \ wanted[n]
  ELSE (KeysOf(copy[n]) \ KeysOf(wanted[n])) \X {PortDetail}

WriteRemaining(n) ==
  /\ Reading(n)
  /\ list' = Remaining(n)
  /\ Wrote(n) /\ UNCHANGED kept
  /\ Ends(n, "ok")
  /\ copy' = [copy EXCEPT ![n] = {}]
  /\ UNCHANGED <<inputs, op, stored, installs>>

-----------------------------------------------------------------------------
(***************************************************************************)
(* start sets the runtime property before its request; what an attempt set *)
(* is stored when it ends, however it ends.  delete clears the properties. *)
(***************************************************************************)
StoredAfter(n) ==
  IF kind = "routes" /\ op[n] = "install" THEN stored \union {n}
  ELSE IF result[n] = "ok" THEN stored \ {n} ELSE stored

Store(n) ==
  /\ phase[n] = "end"
  /\ stored' = StoredAfter(n)
  /\ Goto(n, "idle")
  /\ UNCHANGED <<inputs, list, op, result, copy, installs, history>>

Dropped(n) == /\ copy' = [copy EXCEPT ![n] = {}]
              /\ missed' = [missed EXCEPT ![n] = {}]

\* A request fails: NonRecoverableError.
RequestRaises(n) ==
  /\ phase[n] \in {"read", "write", "check"}
  /\ Event("transient")
  /\ Ends(n, "failed") /\ Dropped(n)
  /\ UNCHANGED <<inputs, list, op, stored, installs, harmed, orphaned, had, kept>>

(***************************************************************************)
(* The worker dies: the operation is executed again, or its workflow is    *)
(* given up.  Routes that were written are then in no runtime property.    *)
(***************************************************************************)
Crash(n) ==
  /\ phase[n] # "idle"
  /\ Event("crash")
  /\ Dropped(n)
  /\ \/ Goto(n, First(op[n])) /\ UNCHANGED <<result, orphaned>>
     \/ /\ Goto(n, "idle") /\ result' = [result EXCEPT ![n] = "failed"]
        /\ orphaned' = IF op[n] = "install" THEN orphaned \union {n} ELSE orphaned
  /\ UNCHANGED <<inputs, list, op, stored, installs, harmed, had, kept>>

\* An entry that is added while somebody is about to write is not safe.
OthersAdd ==
  /\ Event("add")
  /\ \E e \in OthersEntries \ list :
       /\ list' = list \union {e}
       /\ had' = had \union {e}
       /\ kept' = IF \E n \in Nodes : Reading(n) THEN kept ELSE kept \union {e}
  /\ UNCHANGED <<inputs, op, phase, result, copy, stored, installs,
                 missed, harmed, orphaned>>

OthersRemove ==
  /\ Event("remove")
  /\ \E e \in list \intersect had :
       list' = list \ {e} /\ kept' = {k \in kept : k[1] # e[1]}
  /\ UNCHANGED <<inputs, op, phase, result, copy, stored, installs,
                 missed, harmed, orphaned, had>>

Operation(n) ==
  \/ CheckAddresses(n) \/ WriteWanted(n) \/ CheckNetwork(n)
  \/ ReadList(n) \/ WriteRemaining(n) \/ Store(n)

Next ==
  \/ \E n \in Nodes : \/ BeginInstall(n) \/ BeginUninstall(n) \/ Operation(n)
                      \/ RequestRaises(n) \/ Crash(n)
  \/ OthersAdd \/ OthersRemove

Spec == Init /\ [][Next]_vars

-----------------------------------------------------------------------------
\* Every variable has its type; only an uninstall that has read has a copy.
TypeOK ==
  /\ kind \in {"routes", "pairs"} /\ wanted \in [Nodes -> SUBSET Entries]
  /\ list \subseteq Entries
  /\ op \in [Nodes -> {"install", "uninstall"}]
  /\ phase \in [Nodes -> {"idle", "read", "write", "check", "end"}]
  /\ result \in [Nodes -> {"ok", "failed"}]
  /\ copy \in [Nodes -> SUBSET Entries]
  /\ stored \subseteq Nodes /\ installs \in [Nodes -> Nat]
  /\ missed \in [Nodes -> SUBSET Nodes]
  /\ \A n \in Nodes : ~Reading(n) => missed[n] = {}
  /\ harmed \subseteq Nodes /\ orphaned \subseteq Nodes
  /\ had \subseteq Entries /\ kept \subseteq had
  /\ events \in [EventKinds -> Nat]

\* Somebody else has, or had, an entry with a key of n.
Contested(n) ==
  \/ KeysOf(had) \intersect KeysOf(wanted[n]) # {}
  \/ \E m \in Nodes \ {n} : KeysOf(wanted[m]) \intersect KeysOf(wanted[n]) # {}

Finished(n, operation) ==
  phase[n] = "idle" /\ op[n] = operation /\ result[n] = "ok"

(***************************************************************************)
(* After a stop, or a delete, that succeeded no entry of the node is on    *)
(* the list, although other nodes write it back from what they read        *)
(* earlier: only one that read before this node wrote can bring an entry   *)
(* back, and only routes of an install given up can be missed.             *)
(***************************************************************************)
UninstalledAreGone ==
  \A n \in Nodes :
    Finished(n, "uninstall") /\ n \notin harmed \union orphaned /\ ~Contested(n) =>
      KeysOf(list) \intersect KeysOf(wanted[n]) = {}

(***************************************************************************)
(* An uninstall, also one of a node whose create was refused, leaves the   *)
(* entries of others on the list, unless they came after its read, or are  *)
(* its own too.  (A pair keeps its address only.)                          *)
(***************************************************************************)
OthersAreKept ==
  \A e \in kept :
    \/ e \in list
    \/ kind = "pairs" /\ e[1] \in KeysOf(list)
    \/ \E n \in Nodes : e[1] \in KeysOf(wanted[n])
=============================================================================
