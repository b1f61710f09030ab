------------------------ MODULE HostAggregateProofs ------------------------
(***************************************************************************)
(* Proofs about HostAggregate, for every set of hosts and every bound on   *)
(* the faults.                                                             *)
(***************************************************************************)
EXTENDS HostAggregate, TLAPS

USE NodeHostsAssumption, FaultsAssumption

(* What the step an attempt is at says of the operation and its copies.    *)
Attempts ==
  /\ phase = "metadata" => op \in {"configure", "update"} /\ known = stored /\ todo = arg
  /\ phase = "add" => op \in {"configure", "add_hosts"} /\ known = stored
  /\ phase = "remove" => op \in {"remove_hosts", "delete"} /\ known = stored
  /\ phase = "remove" /\ op = "delete" => known = todo /\ keyed
  /\ phase = "delete" => op = "delete" /\ known = {}
  /\ phase # "idle" /\ op \in {"delete", "update"} => arg = {}
  /\ phase \notin {"idle", "begin"} /\ op # "delete" => todo \subseteq arg

(* The aggregate exists as long as the node instance does.                 *)
Alive ==
  /\ inst = "uninitialized" => hosts = {}
  /\ phase # "idle" =>
       /\ op = "create" => inst = "uninitialized"
       /\ op = "delete" => inst = "deleting"
       /\ op \notin {"create", "delete"} => inst \in {"created", "configured"}
  /\ op = "create" => phase \in {"idle", "begin", "end"}
  /\ phase = "end" /\ op = "create" /\ result = "ok" => exists
  /\ phase = "end" /\ op = "delete" /\ result = "ok" => hosts = {}
  /\ "delete" \in cut => inst = "deleting"
  /\ inst # "uninitialized" /\ "delete" \notin cut =>
       exists \/ (phase = "end" /\ op = "delete" /\ result = "ok")

(* Hosts the current operation has added to, or removed from, the cloud's  *)
(* list before it recorded that.                                           *)
Added == IF op \in {"configure", "add_hosts"} /\ phase \in {"add", "end"}
         THEN arg \ todo ELSE {}
Removed == IF op = "remove_hosts" /\ phase \in {"remove", "end"}
           THEN arg \ todo ELSE {}

(* HostsAreRecorded, at every step of an operation.                        *)
Recorded ==
  "add" \notin cut =>
    /\ hosts \subseteq stored \union Added
    /\ phase \in {"delete", "end"} => hosts \subseteq known
    /\ phase = "remove" /\ op = "remove_hosts" => hosts \intersect (arg \ todo) = {}

(* RecordedAreThere, at every step of an operation.                        *)
There ==
  "remove" \notin cut =>
    /\ stored \subseteq hosts \union Removed
    /\ phase \in {"delete", "end"} => known \subseteq hosts
    /\ phase = "add" => arg \ todo \subseteq hosts

Inv == TypeOK /\ Attempts /\ Alive /\ Recorded /\ There /\ DeleteSucceeds

LEMMA InvInit == Init => Inv
<1> SUFFICES ASSUME Init PROVE Inv
  OBVIOUS
<1>1. TypeOK
  BY DEF Init, TypeOK, Operations, Phases
<1>2. Attempts /\ Alive /\ DeleteSucceeds
  BY DEF Init, Attempts, Alive, DeleteSucceeds, Phases
<1>3. Recorded /\ There
  BY DEF Init, Recorded, There, Added, Removed
<1> QED
  BY <1>1, <1>2, <1>3 DEF Inv

(* Counting a fault keeps the counters.                                    *)
LEMMA FaultTyped ==
  ASSUME faults \in [FaultKinds -> Nat], NEW kind \in FaultKinds, Fault(kind)
  PROVE  faults' \in [FaultKinds -> Nat]
BY DEF Fault

(* Every step of a node keeps the invariant. *)
LEMMA InvStep == Inv /\ [Next]_vars => Inv'
<1> SUFFICES ASSUME Inv, [Next]_vars PROVE Inv'
  OBVIOUS
<1> USE DEF Inv, cloud, engine, call
<1>1. CASE Begin
  <2>1. TypeOK'
    BY <1>1 DEF Begin, Permitted, TypeOK, Operations, Phases, FaultKinds
  <2>2. Attempts'
    BY <1>1 DEF Begin, Permitted, TypeOK, Attempts, Operations
  <2>3. Alive'
    BY <1>1 DEF Begin, Permitted, TypeOK, Attempts, Alive, Operations, Phases
  <2>4. Recorded'
    BY <1>1 DEF Begin, Permitted, TypeOK, Attempts, Alive, Recorded, Added
  <2>5. There'
    BY <1>1 DEF Begin, Permitted, TypeOK, Attempts, Alive, There, Removed
  <2>6. DeleteSucceeds'
    BY <1>1 DEF Begin, Permitted, TypeOK, Attempts, Alive, Recorded, Added, There, Removed, DeleteSucceeds, FaultKinds
  <2> QED
    BY <2>1, <2>2, <2>3, <2>4, <2>5, <2>6
<1>2. CASE Create
  <2>1. TypeOK'
    BY <1>2 DEF Create, End, TypeOK, Operations, Phases, FaultKinds
  <2>2. Attempts'
    BY <1>2 DEF Create, End, TypeOK, Attempts, Operations
  <2>3. Alive'
    BY <1>2 DEF Create, End, TypeOK, Attempts, Alive, Operations, Phases
  <2>4. Recorded'
    BY <1>2 DEF Create, End, TypeOK, Attempts, Alive, Recorded, Added
  <2>5. There'
    BY <1>2 DEF Create, End, TypeOK, Attempts, Alive, There, Removed
  <2>6. DeleteSucceeds'
    BY <1>2 DEF Create, End, TypeOK, Attempts, Alive, Recorded, Added, There, Removed, DeleteSucceeds, FaultKinds
  <2> QED
    BY <2>1, <2>2, <2>3, <2>4, <2>5, <2>6
<1>3. CASE Enter
  <2>1. TypeOK'
    BY <1>3 DEF Enter, Load, Goto, TypeOK, Operations, Phases, FaultKinds
  <2>2. Attempts'
    BY <1>3 DEF Enter, Load, Goto, TypeOK, Attempts, Operations
  <2>3. Alive'
    BY <1>3 DEF Enter, Load, Goto, TypeOK, Attempts, Alive, Operations, Phases
  <2>4. Recorded'
    BY <1>3 DEF Enter, Load, Goto, TypeOK, Attempts, Alive, Recorded, Added
  <2>5. There'
    BY <1>3 DEF Enter, Load, Goto, TypeOK, Attempts, Alive, There, Removed
  <2>6. DeleteSucceeds'
    BY <1>3 DEF Enter, Load, Goto, TypeOK, Attempts, Alive, Recorded, Added, There, Removed, DeleteSucceeds, FaultKinds
  <2> QED
    BY <2>1, <2>2, <2>3, <2>4, <2>5, <2>6
<1>4. CASE Metadata
  <2>1. TypeOK'
    BY <1>4 DEF Metadata, End, Goto, TypeOK, Operations, Phases, FaultKinds
  <2>2. Attempts'
    BY <1>4 DEF Metadata, End, Goto, TypeOK, Attempts, Operations
  <2>3. Alive'
    BY <1>4 DEF Metadata, End, Goto, TypeOK, Attempts, Alive, Operations, Phases
  <2>4. Recorded'
    BY <1>4 DEF Metadata, End, Goto, TypeOK, Attempts, Alive, Recorded, Added
  <2>5. There'
    BY <1>4 DEF Metadata, End, Goto, TypeOK, Attempts, Alive, There, Removed
  <2>6. DeleteSucceeds'
    BY <1>4 DEF Metadata, End, Goto, TypeOK, Attempts, Alive, Recorded, Added, There, Removed, DeleteSucceeds, FaultKinds
  <2> QED
    BY <2>1, <2>2, <2>3, <2>4, <2>5, <2>6
<1>5. CASE RequestRaises
  <2>1. TypeOK'
    BY <1>5, FaultTyped DEF RequestRaises, End, CutShort, TypeOK, Operations, Phases, FaultKinds
  <2>2. Attempts'
    BY <1>5 DEF RequestRaises, Fault, MayFault, End, CutShort, TypeOK, Attempts, Operations
  <2>3. Alive'
    BY <1>5 DEF RequestRaises, Fault, MayFault, End, CutShort, TypeOK, Attempts, Alive, Operations, Phases
  <2>4. Recorded'
    BY <1>5 DEF RequestRaises, Fault, MayFault, End, CutShort, TypeOK, Attempts, Alive, Recorded, Added
  <2>5. There'
    BY <1>5 DEF RequestRaises, Fault, MayFault, End, CutShort, TypeOK, Attempts, Alive, There, Removed
  <2>6. DeleteSucceeds'
    BY <1>5 DEF RequestRaises, Fault, MayFault, End, CutShort, TypeOK, Attempts, Alive, Recorded, Added, There, Removed, DeleteSucceeds, FaultKinds
  <2> QED
    BY <2>1, <2>2, <2>3, <2>4, <2>5, <2>6
<1>6. CASE AddHost
  <2>1. TypeOK'
    <3>1. faults' \in [FaultKinds -> Nat]
      BY <1>6, FaultTyped DEF AddHost, TypeOK, FaultKinds
    <3>2. exists' = exists /\ hosts' \subseteq Hosts /\ (~exists' => hosts' = {})
      BY <1>6 DEF AddHost, TypeOK, Attempts, Alive
    <3> QED
      BY <1>6, <3>1, <3>2 DEF AddHost, End, Goto, CutShort, Phases, TypeOK, Operations
  <2>2. Attempts'
    BY <1>6 DEF AddHost, End, Goto, CutShort, Fault, MayFault, TypeOK, Attempts, Operations
  <2>3. Alive'
    BY <1>6 DEF AddHost, End, Goto, CutShort, Fault, MayFault, TypeOK, Attempts, Alive, Operations, Phases
  <2>4. Recorded'
    BY <1>6 DEF AddHost, End, Goto, CutShort, Fault, MayFault, TypeOK, Attempts, Alive, Recorded, Added
  <2>5. There'
    BY <1>6 DEF AddHost, End, Goto, CutShort, Fault, MayFault, TypeOK, Attempts, Alive, There, Removed
  <2>6. DeleteSucceeds'
    BY <1>6 DEF AddHost, End, Goto, CutShort, Fault, MayFault, TypeOK, Attempts, Alive, Recorded, Added, There, Removed, DeleteSucceeds, FaultKinds
  <2> QED
    BY <2>1, <2>2, <2>3, <2>4, <2>5, <2>6
<1>7. CASE AddDone
  <2>1. TypeOK'
    BY <1>7 DEF AddDone, End, TypeOK, Operations, Phases, FaultKinds
  <2>2. Attempts'
    BY <1>7 DEF AddDone, End, TypeOK, Attempts, Operations
  <2>3. Alive'
    BY <1>7 DEF AddDone, End, TypeOK, Attempts, Alive, Operations, Phases
  <2>4. Recorded'
    BY <1>7 DEF AddDone, End, TypeOK, Attempts, Alive, Recorded, Added
  <2>5. There'
    BY <1>7 DEF AddDone, End, TypeOK, Attempts, Alive, There, Removed
  <2>6. DeleteSucceeds'
    BY <1>7 DEF AddDone, End, TypeOK, Attempts, Alive, Recorded, Added, There, Removed, DeleteSucceeds, FaultKinds
  <2> QED
    BY <2>1, <2>2, <2>3, <2>4, <2>5, <2>6
<1>8. CASE RemoveHost
  <2>1. TypeOK'
    <3>1. faults' \in [FaultKinds -> Nat]
      BY <1>8, FaultTyped DEF RemoveHost, TypeOK, FaultKinds
    <3>2. exists' = exists /\ hosts' \subseteq Hosts /\ (~exists' => hosts' = {})
      BY <1>8 DEF RemoveHost, TypeOK, Attempts, Alive
    <3>3. /\ phase' \in Phases /\ result' \in {"ok", "failed"}
          /\ cut' \subseteq {"add", "remove", "delete"}
      BY <1>8 DEF RemoveHost, End, Goto, CutShort, Phases, TypeOK
    <3>4. todo' \subseteq Hosts
      BY <1>8 DEF RemoveHost, TypeOK
    <3>5. \/ UNCHANGED <<known, keyed, stored, hasKey>>
          \/ known' = todo' /\ keyed' = TRUE /\ stored' = todo' /\ hasKey' = TRUE
      BY <1>8 DEF RemoveHost
    <3>6. /\ known' \subseteq Hosts /\ keyed' \in BOOLEAN /\ (~keyed' => known' = {})
          /\ stored' \subseteq Hosts /\ hasKey' \in BOOLEAN /\ (~hasKey' => stored' = {})
      BY <3>4, <3>5 DEF TypeOK
    <3> QED
      BY <1>8, <3>1, <3>2, <3>3, <3>4, <3>6 DEF RemoveHost, TypeOK
  <2>2. Attempts'
    BY <1>8 DEF RemoveHost, End, Goto, CutShort, Fault, MayFault, TypeOK, Attempts, Operations
  <2>3. Alive'
    BY <1>8 DEF RemoveHost, End, Goto, CutShort, Fault, MayFault, TypeOK, Attempts, Alive, Operations, Phases
  <2>4. Recorded'
    BY <1>8 DEF RemoveHost, End, Goto, CutShort, Fault, MayFault, TypeOK, Attempts, Alive, Recorded, Added
  <2>5. There'
    BY <1>8 DEF RemoveHost, End, Goto, CutShort, Fault, MayFault, TypeOK, Attempts, Alive, There, Removed
  <2>6. DeleteSucceeds'
    BY <1>8 DEF RemoveHost, End, Goto, CutShort, Fault, MayFault, TypeOK, Attempts, Alive, Recorded, Added, There, Removed, DeleteSucceeds, FaultKinds
  <2> QED
    BY <2>1, <2>2, <2>3, <2>4, <2>5, <2>6
<1>9. CASE RemoveDone
  <2>1. TypeOK'
    BY <1>9 DEF RemoveDone, End, Goto, CutShort, TypeOK, Operations, Phases, FaultKinds
  <2>2. Attempts'
    BY <1>9 DEF RemoveDone, End, Goto, CutShort, TypeOK, Attempts, Operations
  <2>3. Alive'
    BY <1>9 DEF RemoveDone, End, Goto, CutShort, TypeOK, Attempts, Alive, Operations, Phases
  <2>4. Recorded'
    BY <1>9 DEF RemoveDone, End, Goto, CutShort, TypeOK, Attempts, Alive, Recorded, Added
  <2>5. There'
    BY <1>9 DEF RemoveDone, End, Goto, CutShort, TypeOK, Attempts, Alive, There, Removed
  <2>6. DeleteSucceeds'
    BY <1>9 DEF RemoveDone, End, Goto, CutShort, TypeOK, Attempts, Alive, Recorded, Added, There, Removed, DeleteSucceeds, FaultKinds
  <2> QED
    BY <2>1, <2>2, <2>3, <2>4, <2>5, <2>6
<1>10. CASE Delete
  <2>1. TypeOK'
    BY <1>10, FaultTyped DEF Delete, End, TypeOK, Operations, Phases, FaultKinds
  <2>2. Attempts'
    BY <1>10 DEF Delete, End, Fault, MayFault, TypeOK, Attempts, Operations
  <2>3. Alive'
    BY <1>10 DEF Delete, End, Fault, MayFault, TypeOK, Attempts, Alive, Operations, Phases
  <2>4. Recorded'
    BY <1>10 DEF Delete, End, Fault, MayFault, TypeOK, Attempts, Alive, Recorded, Added
  <2>5. There'
    BY <1>10 DEF Delete, End, Fault, MayFault, TypeOK, Attempts, Alive, There, Removed
  <2>6. DeleteSucceeds'
    BY <1>10 DEF Delete, End, Fault, MayFault, TypeOK, Attempts, Alive, Recorded, Added, There, Removed, DeleteSucceeds, FaultKinds
  <2> QED
    BY <2>1, <2>2, <2>3, <2>4, <2>5, <2>6
<1>11. CASE Finish
  <2>1. TypeOK'
    BY <1>11 DEF Finish, TypeOK, Operations, Phases, FaultKinds
  <2>2. Attempts'
    BY <1>11 DEF Finish, TypeOK, Attempts, Operations
  <2>3. Alive'
    BY <1>11 DEF Finish, TypeOK, Attempts, Alive, Operations, Phases
  <2>4. Recorded'
    BY <1>11 DEF Finish, TypeOK, Attempts, Alive, Recorded, Added
  <2>5. There'
    BY <1>11 DEF Finish, TypeOK, Attempts, Alive, There, Removed
  <2>6. DeleteSucceeds'
    BY <1>11 DEF Finish, TypeOK, Attempts, Alive, Recorded, Added, There, Removed, DeleteSucceeds, FaultKinds
  <2> QED
    BY <2>1, <2>2, <2>3, <2>4, <2>5, <2>6
<1>12. CASE Crash
  <2>1. TypeOK'
    BY <1>12, FaultTyped DEF Crash, CutShort, TypeOK, Operations, Phases, FaultKinds
  <2>2. Attempts'
    BY <1>12 DEF Crash, Fault, MayFault, CutShort, TypeOK, Attempts, Operations
  <2>3. Alive'
    BY <1>12 DEF Crash, Fault, MayFault, CutShort, TypeOK, Attempts, Alive, Operations, Phases
  <2>4. Recorded'
    BY <1>12 DEF Crash, Fault, MayFault, CutShort, TypeOK, Attempts, Alive, Recorded, Added
  <2>5. There'
    BY <1>12 DEF Crash, Fault, MayFault, CutShort, TypeOK, Attempts, Alive, There, Removed
  <2>6. DeleteSucceeds'
    BY <1>12 DEF Crash, Fault, MayFault, CutShort, TypeOK, Attempts, Alive, Recorded, Added, There, Removed, DeleteSucceeds, FaultKinds
  <2> QED
    BY <2>1, <2>2, <2>3, <2>4, <2>5, <2>6
<1>13. CASE UNCHANGED vars
  BY <1>13 DEF vars, attempt, TypeOK, Attempts, Alive, Recorded, There, Added, Removed, DeleteSucceeds, Phases
<1> QED
  BY <1>1, <1>2, <1>3, <1>4, <1>5, <1>6, <1>7, <1>8, <1>9, <1>10, <1>11, <1>12, <1>13 DEF Next

THEOREM Invariance == Spec => []Inv
BY InvInit, InvStep, PTL DEF Spec

(* The variables of a host aggregate node keep their types.                *)
THEOREM TypeCorrect == Spec => []TypeOK
BY Invariance, PTL DEF Inv

(* No host is left in the aggregate unrecorded unless an addition was cut  *)
(* short: delete empties the aggregate.                                    *)
THEOREM AllRecorded == Spec => []HostsAreRecorded
<1>1. Inv => HostsAreRecorded
  BY DEF Inv, Recorded, Added, HostsAreRecorded
<1> QED
  BY <1>1, Invariance, PTL

(* No host is recorded that is not in the aggregate unless a removal was   *)
(* cut short: delete is not refused.                                       *)
THEOREM AllThere == Spec => []RecordedAreThere
<1>1. Inv => RecordedAreThere
  BY DEF Inv, There, Removed, RecordedAreThere
<1> QED
  BY <1>1, Invariance, PTL

(* delete of an aggregate none of whose loops was cut short fails only     *)
(* when one of its requests does, for any number of crashes.               *)
THEOREM DeleteDoesNotFail == Spec => []DeleteSucceeds
BY Invariance, PTL DEF Inv
=============================================================================
