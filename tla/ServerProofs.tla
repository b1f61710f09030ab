---------------------------- MODULE ServerProofs ----------------------------
(***************************************************************************)
(* Proofs about a server: its relationships with security groups and ports *)
(* (ServerLinks), for any number of groups, ports and failures, and its    *)
(* operations (ServerTasks), for any number of snapshots and faults.  The  *)
(* two share nothing but this module.                                      *)
(***************************************************************************)
EXTENDS ServerLinks, ServerTasks, TLAPS

-----------------------------------------------------------------------------
(***************************************************************************)
(* ServerLinks.  OthersAreKept is not inductive: WritePort writes what an  *)
(* earlier step read.  It becomes so with the fact that the groups from    *)
(* elsewhere in what was read are still those of the port when it is       *)
(* written.  For the related groups this holds only if operations run one  *)
(* at a time; then the ports that may still carry a group are those an     *)
(* operation still has to write.                                           *)
(***************************************************************************)

\* What an operation read of the port it is at is what others gave the port.
ReadIsCurrent ==
  \A g \in Related : step[g] \in Ports => seen[g] \intersect Others = origin[step[g]]

IInv == LinksTypeOK /\ OthersAreKept /\ ReadIsCurrent

\* The operations each workflow has.
Stages ==
  /\ stage = "establish" => \A g \in Related : step[g] \in {"off", "add", "on", "failed"}
  /\ stage = "unlink" => \A g \in Related : step[g] \notin {"off", "add"}

\* While groups are connected, each is on all ports of the server or on none.
AllOrNone ==
  stage = "establish" =>
    \A g \in Related : \/ \A p \in bound : g \in groups[p]
                       \/ \A p \in bound : g \notin groups[p]

LinkInv == Stages /\ AllOrNone /\ LinkedIsOn

\* A serial workflow runs one operation at a time.
OneAtATime ==
  serial => \A g, h \in Related : step[g] \notin Resting /\ step[h] \notin Resting => g = h

\* So nobody writes a port between its being read and written.
ReadIsWhole ==
  serial => \A g \in Related : step[g] \in Ports => seen[g] = groups[step[g]]

\* An operation that is to ask Nova has not written a port yet.
ListIsWhole == \A g \in Related : step[g] = "remove" => todo[g] = payload

\* The ports that may still carry a group are still to be written.
RestIsToDo ==
  serial => \A g \in Related, p \in bound \union payload :
    step[g] \in Ports \union {"clean"} /\ g \in groups[p]
    => p \in todo[g] \/ p = step[g]

SerialInv == OneAtATime /\ ReadIsWhole /\ ListIsWhole /\ RestIsToDo /\ SerialUnlinkedIsOff

\* A step is resting or not, and "clean" is no port.
LEMMA StepsApart == \A s \in Steps : s \notin Ports
BY PortsAssumption

LEMMA FailureTyped ==
  ASSUME LinksTypeOK, NEW k \in FailureKinds, Failure(k)
  PROVE  \A j \in FailureKinds : failures'[j] \in 0..MaxFailures[j]
BY FailuresAssumption DEF LinksTypeOK, Failure, FailureKinds

\* The initial states: ports have their own groups and perhaps related ones.
LEMMA InitIInv == LinksInit => IInv
<1> SUFFICES ASSUME LinksInit PROVE IInv
    OBVIOUS
<1>1. PICK attached \in {{}, Related} :
        groups = [p \in Ports |-> origin[p] \union
                                  IF p \in bound THEN attached ELSE {}]
      BY DEF LinksInit
<1>2. LinksTypeOK
  <2>1. groups \in [Ports -> SUBSET Groups]
        BY <1>1 DEF LinksInit, Groups
  <2>2. step \in [Related -> Steps \union Ports]
        BY DEF LinksInit, Steps, Resting
  <2>3. \A k \in FailureKinds : failures[k] \in 0..MaxFailures[k]
        BY FailuresAssumption DEF LinksInit, FailureKinds
  <2> QED BY <2>1, <2>2, <2>3 DEF LinksInit, LinksTypeOK
<1>3. OthersAreKept
      BY <1>1, GroupsAssumption DEF LinksInit, OthersAreKept
<1>4. ReadIsCurrent
      BY StepsApart DEF LinksInit, ReadIsCurrent, Steps, Resting
<1> QED BY <1>2, <1>3, <1>4 DEF IInv

-----------------------------------------------------------------------------
(* One lemma for each step of an operation.                                *)

LEMMA ConnectIInv == ASSUME IInv, NEW g \in Related, Connect(g) PROVE IInv'
BY StepsApart DEF IInv, Connect, StepTo, network, given, locals,
   LinksTypeOK, OthersAreKept, ReadIsCurrent, Steps, Resting

LEMMA AddIInv == ASSUME IInv, NEW g \in Related, Add(g) PROVE IInv'
<1>1. LinksTypeOK'
      BY DEF IInv, Add, StepTo, given, locals, LinksTypeOK, Groups, Steps, Resting
<1>2. OthersAreKept'
      BY GroupsAssumption DEF IInv, Add, given, LinksTypeOK, OthersAreKept
<1>3. ReadIsCurrent'
      BY StepsApart DEF IInv, Add, StepTo, given, locals, LinksTypeOK, ReadIsCurrent, Steps, Resting
<1> QED BY <1>1, <1>2, <1>3 DEF IInv

LEMMA DisconnectIInv == ASSUME IInv, NEW g \in Related, Disconnect(g) PROVE IInv'
<1>1. LinksTypeOK'
      BY DEF IInv, Disconnect, StepTo, network, given, LinksTypeOK, Steps
<1>2. OthersAreKept'
      BY DEF IInv, Disconnect, network, given, OthersAreKept
<1>3. ReadIsCurrent'
      BY StepsApart DEF IInv, Disconnect, StepTo, given, LinksTypeOK, ReadIsCurrent, Steps
<1> QED BY <1>1, <1>2, <1>3 DEF IInv

LEMMA RemoveIInv == ASSUME IInv, NEW g \in Related, RemoveFromServer(g) PROVE IInv'
<1>1. LinksTypeOK'
      BY DEF IInv, RemoveFromServer, StepTo, given, locals, LinksTypeOK, Steps, Resting
<1>2. OthersAreKept'
      BY GroupsAssumption DEF IInv, RemoveFromServer, given, LinksTypeOK, OthersAreKept
<1>3. ReadIsCurrent'
      BY StepsApart DEF IInv, RemoveFromServer, StepTo, given, locals, LinksTypeOK,
         ReadIsCurrent, Steps, Resting
<1> QED BY <1>1, <1>2, <1>3 DEF IInv

LEMMA ReadIInv == ASSUME IInv, NEW g \in Related, ReadPort(g) PROVE IInv'
<1>1. PICK p \in todo[g] : /\ todo' = [todo EXCEPT ![g] = @ \ {p}]
                           /\ seen' = [seen EXCEPT ![g] = groups[p]]
                           /\ step' = [step EXCEPT ![g] = p]
      BY DEF ReadPort, StepTo
<1>2. p \in Ports /\ groups[p] \in SUBSET Groups
      BY DEF IInv, LinksTypeOK
<1>3. LinksTypeOK'
      BY <1>1, <1>2 DEF IInv, ReadPort, network, given, LinksTypeOK
<1>4. OthersAreKept'
      BY DEF IInv, ReadPort, network, given, OthersAreKept
<1>5. ReadIsCurrent'
      BY <1>1, <1>2 DEF IInv, ReadPort, given, LinksTypeOK, OthersAreKept, ReadIsCurrent
<1> QED BY <1>3, <1>4, <1>5 DEF IInv

\* The group that is left out when a port is written is not one of others.
LEMMA WriteIInv == ASSUME IInv, NEW g \in Related, WritePort(g) PROVE IInv'
<1>1. step[g] \in Ports /\ seen[g] \in SUBSET Groups
      BY DEF IInv, LinksTypeOK, WritePort
<1>2. LinksTypeOK'
      BY <1>1 DEF IInv, WritePort, StepTo, given, LinksTypeOK, Steps
<1>3. OthersAreKept'
  <2>1. (seen[g] \ {g}) \intersect Others = origin[step[g]]
        BY <1>1, GroupsAssumption DEF IInv, ReadIsCurrent
  <2> QED BY <1>1, <2>1 DEF IInv, WritePort, given, LinksTypeOK, OthersAreKept
<1>4. ReadIsCurrent'
      BY StepsApart DEF IInv, WritePort, StepTo, given, LinksTypeOK, ReadIsCurrent, Steps
<1> QED BY <1>2, <1>3, <1>4 DEF IInv

LEMMA EndIInv == ASSUME IInv, NEW g \in Related, EndDisconnect(g) PROVE IInv'
BY StepsApart DEF IInv, EndDisconnect, StepTo, network, given, locals,
   LinksTypeOK, OthersAreKept, ReadIsCurrent, Steps, Resting

\* An attempt that breaks off rests, or is where it began.
LEMMA BreakIInv ==
  ASSUME IInv, NEW g \in Related, Fail(g) \/ WorkerDies(g)
  PROVE  IInv'
<1>1. PICK k \in FailureKinds, s \in Resting : Failure(k) /\ StepTo(g, s)
      BY DEF Fail, WorkerDies, FailureKinds, Resting
<1>2. UNCHANGED <<network, given, stage>> /\ Forget(g)
      BY DEF Fail, WorkerDies
<1>3. LinksTypeOK'
  <2>1. \A j \in FailureKinds : failures'[j] \in 0..MaxFailures[j]
        BY <1>1, FailureTyped DEF IInv
  <2> QED BY <1>1, <1>2, <2>1 DEF IInv, StepTo, Forget, network, given, LinksTypeOK, Steps
<1>4. OthersAreKept'
      BY <1>2 DEF IInv, network, given, OthersAreKept
<1>5. ReadIsCurrent'
      BY <1>1, <1>2, StepsApart DEF IInv, StepTo, Forget, given, LinksTypeOK, ReadIsCurrent, Steps
<1> QED BY <1>3, <1>4, <1>5 DEF IInv

-----------------------------------------------------------------------------
\* Every step, and every stuttering step, preserves the invariant.
LEMMA NextIInv == IInv /\ [LinksNext]_linksVars => IInv'
<1> SUFFICES ASSUME IInv, [LinksNext]_linksVars PROVE IInv'
    OBVIOUS
<1>1. ASSUME NEW g \in Related, Handler(g) PROVE IInv'
      BY <1>1, ConnectIInv, AddIInv, DisconnectIInv, RemoveIInv, ReadIInv, WriteIInv,
         EndIInv DEF Handler
<1>2. ASSUME NEW g \in Related, Fail(g) \/ WorkerDies(g) PROVE IInv'
      BY <1>2, BreakIInv
<1>3. CASE Unlink
      BY <1>3 DEF IInv, Unlink, network, given, locals, LinksTypeOK, OthersAreKept, ReadIsCurrent
<1>4. ASSUME NEW p \in Ports, DetachPort(p) PROVE IInv'
      BY <1>4 DEF IInv, DetachPort, given, locals, LinksTypeOK, OthersAreKept, ReadIsCurrent
<1>5. CASE UNCHANGED linksVars
      BY <1>5 DEF IInv, linksVars, network, given, locals, LinksTypeOK, OthersAreKept, ReadIsCurrent
<1> QED BY <1>1, <1>2, <1>3, <1>4, <1>5 DEF LinksNext

\* Types: whatever the operations of the relationships do at the same time, a
\* port has known groups and an operation is at a step of its own.
THEOREM LinksTypeCorrect == LinksSpec => []LinksTypeOK
<1>1. IInv => LinksTypeOK
      BY DEF IInv
<1> QED BY <1>1, InitIInv, NextIInv, PTL DEF LinksSpec

(***************************************************************************)
(* disconnect_security_group reads the groups of a port and writes them    *)
(* back; however many of these run at the same time, with crashes,         *)
(* failures and ports detached in between, no port loses or gains a group  *)
(* that it has from elsewhere.                                             *)
(***************************************************************************)
THEOREM OthersKept == LinksSpec => []OthersAreKept
<1>1. IInv => OthersAreKept
      BY DEF IInv
<1> QED BY <1>1, InitIInv, NextIInv, PTL DEF LinksSpec
-----------------------------------------------------------------------------
(* Connecting: all ports or none.                                          *)

LEMMA InitLink == LinksInit => LinkInv
<1> SUFFICES ASSUME LinksInit PROVE LinkInv
    OBVIOUS
<1>1. PICK attached \in {{}, Related} :
        groups = [p \in Ports |-> origin[p] \union
                                  IF p \in bound THEN attached ELSE {}]
      BY DEF LinksInit
<1>2. Stages /\ LinkedIsOn
      BY DEF LinksInit, Stages, LinkedIsOn
<1>3. \A g \in Related, p \in bound : g \in groups[p] <=> g \in attached
      BY <1>1, GroupsAssumption DEF LinksInit
<1>4. AllOrNone
      BY <1>3 DEF AllOrNone
<1> QED BY <1>2, <1>4 DEF LinkInv

\* A group that is on one port of the server is on all of them.
LEMMA ConnectLink == ASSUME IInv, LinkInv, NEW g \in Related, Connect(g) PROVE LinkInv'
<1>1. g \in ServerGroups => \A p \in bound : g \in groups[p]
      BY DEF LinkInv, AllOrNone, Connect, ServerGroups
<1>2. UNCHANGED <<network, given, stage>> /\ stage = "establish"
      BY DEF Connect
<1>3. step' = [step EXCEPT ![g] = IF g \in ServerGroups THEN "on" ELSE "add"]
      BY DEF Connect, StepTo
<1>4. Stages'
      BY <1>2, <1>3 DEF IInv, LinksTypeOK, LinkInv, Stages
<1>5. AllOrNone'
      BY <1>2 DEF LinkInv, AllOrNone, network
<1>6. LinkedIsOn'
      BY <1>1, <1>2, <1>3 DEF IInv, LinksTypeOK, LinkInv, LinkedIsOn, network
<1> QED BY <1>4, <1>5, <1>6 DEF LinkInv

LEMMA AddLink == ASSUME IInv, LinkInv, NEW g \in Related, Add(g) PROVE LinkInv'
<1>1. stage = "establish"
      BY DEF IInv, LinksTypeOK, LinkInv, Stages, Add
<1>2. \A h \in Related, p \in bound : h \in groups'[p] <=> h = g \/ h \in groups[p]
      BY DEF IInv, LinksTypeOK, Add
<1>3. /\ stage' = stage /\ bound' = bound
      /\ step' = [step EXCEPT ![g] = "on"]
      BY DEF Add, StepTo
<1>4. Stages'
      BY <1>1, <1>3 DEF IInv, LinksTypeOK, LinkInv, Stages
<1>5. AllOrNone'
      BY <1>2, <1>3 DEF LinkInv, AllOrNone
<1>6. LinkedIsOn'
      BY <1>2, <1>3 DEF IInv, LinksTypeOK, LinkInv, LinkedIsOn
<1> QED BY <1>4, <1>5, <1>6 DEF LinkInv

\* The steps of disconnect belong to the other workflow.
LEMMA DisconnectLink ==
  ASSUME IInv, LinkInv, NEW g \in Related,
         Disconnect(g) \/ RemoveFromServer(g) \/ ReadPort(g) \/ WritePort(g) \/ EndDisconnect(g)
  PROVE  LinkInv'
<1>1. stage = "unlink"
  <2>1. CASE Disconnect(g)
        BY <2>1 DEF Disconnect
  <2>2. CASE ~Disconnect(g)
    <3>1. step[g] \in {"remove", "clean"} \union Ports
          BY <2>2 DEF RemoveFromServer, ReadPort, WritePort, EndDisconnect
    <3>2. step[g] \notin {"off", "add", "on", "failed"}
          BY <3>1, StepsApart DEF Steps, Resting
    <3> QED BY <3>2 DEF IInv, LinksTypeOK, LinkInv, Stages
  <2> QED BY <2>1, <2>2
<1>2. stage' = stage
      BY DEF Disconnect, RemoveFromServer, ReadPort, WritePort, EndDisconnect
<1>3. PICK s \in (Steps \union Ports) \ {"off", "add"} : step' = [step EXCEPT ![g] = s]
  <2>1. \A p \in Ports : p \notin {"off", "add"}
        BY StepsApart DEF Steps, Resting
  <2>2. ReadPort(g) => \E p \in Ports : step' = [step EXCEPT ![g] = p]
        BY DEF ReadPort, StepTo, IInv, LinksTypeOK
  <2> QED BY <2>1, <2>2 DEF Disconnect, RemoveFromServer, WritePort, EndDisconnect, StepTo,
             Steps, Resting
<1>4. Stages'
      BY <1>1, <1>2, <1>3 DEF IInv, LinksTypeOK, LinkInv, Stages
<1> QED BY <1>1, <1>2, <1>4 DEF LinkInv, AllOrNone, LinkedIsOn

LEMMA BreakLink ==
  ASSUME IInv, LinkInv, NEW g \in Related, Fail(g) \/ WorkerDies(g)
  PROVE  LinkInv'
<1>1. UNCHANGED <<network, stage>> /\ stage \in {"establish", "unlink"}
      BY DEF Fail, WorkerDies, IInv, LinksTypeOK
<1>2. PICK s : /\ step' = [step EXCEPT ![g] = s]
               /\ stage = "establish" => s \in {"off", "failed"}
               /\ stage = "unlink" => s \in {"on", "failed"}
      BY <1>1 DEF Fail, WorkerDies, StepTo
<1>3. Stages'
      BY <1>1, <1>2 DEF IInv, LinksTypeOK, LinkInv, Stages
<1>4. AllOrNone'
      BY <1>1 DEF LinkInv, AllOrNone, network
<1>5. LinkedIsOn'
      BY <1>1, <1>2 DEF IInv, LinksTypeOK, LinkInv, LinkedIsOn, network
<1> QED BY <1>3, <1>4, <1>5 DEF LinkInv

LEMMA NextLink == IInv /\ LinkInv /\ [LinksNext]_linksVars => LinkInv'
<1> SUFFICES ASSUME IInv, LinkInv, [LinksNext]_linksVars PROVE LinkInv'
    OBVIOUS
<1>1. ASSUME NEW g \in Related, Handler(g) PROVE LinkInv'
      BY <1>1, ConnectLink, AddLink, DisconnectLink DEF Handler
<1>2. ASSUME NEW g \in Related, Fail(g) \/ WorkerDies(g) PROVE LinkInv'
      BY <1>2, BreakLink
<1>3. CASE Unlink
  <2>1. \A g \in Related : step[g] \notin {"off", "add"}
        BY <1>3 DEF Unlink
  <2> QED BY <1>3, <2>1 DEF Unlink, LinkInv, Stages, AllOrNone, LinkedIsOn
<1>4. ASSUME NEW p \in Ports, DetachPort(p) PROVE LinkInv'
      BY <1>4 DEF DetachPort, LinkInv, Stages, AllOrNone, LinkedIsOn
<1>5. CASE UNCHANGED linksVars
      BY <1>5 DEF linksVars, network, LinkInv, Stages, AllOrNone, LinkedIsOn
<1> QED BY <1>1, <1>2, <1>3, <1>4, <1>5 DEF LinksNext

(***************************************************************************)
(* A related group whose connect_security_group succeeded is on every port *)
(* of the server until something is unlinked, although the operation asks  *)
(* Nova only whether some port has it, and whatever the operations of      *)
(* other groups do.                                                        *)
(***************************************************************************)
THEOREM LinkedOn == LinksSpec => []LinkedIsOn
<1>1. LinkInv => LinkedIsOn
      BY DEF LinkInv
<1> QED BY <1>1, InitIInv, InitLink, NextIInv, NextLink, PTL DEF LinksSpec

-----------------------------------------------------------------------------
(* Disconnecting one group at a time.                                      *)

LEMMA InitSerial == LinksInit => SerialInv
BY StepsApart DEF LinksInit, SerialInv, OneAtATime, ReadIsWhole, ListIsWhole,
   RestIsToDo, SerialUnlinkedIsOff, Unlinked, Steps, Resting

\* Nothing but the step of a group at rest, or of the only one that is not,
\* says who is at work.
LEMMA StepSerial ==
  ASSUME IInv, SerialInv, NEW g \in Related, NEW s,
         UNCHANGED serial, StepTo(g, s), step[g] \in Resting => MayBegin
  PROVE  OneAtATime'
<1>1. ASSUME serial PROVE \A h \in Related \ {g} : step[h] \in Resting
      BY <1>1 DEF MayBegin, SerialInv, OneAtATime
<1> QED BY <1>1 DEF StepTo, OneAtATime, IInv, LinksTypeOK

\* Steps of connect: no group is being disconnected then.
LEMMA ConnectSerial ==
  ASSUME IInv, LinkInv, SerialInv, NEW g \in Related, Connect(g) \/ Add(g)
  PROVE  SerialInv'
<1>1. PICK s \in {"on", "add"} : StepTo(g, s)
      BY DEF Connect, Add
<1>2. UNCHANGED <<bound, given, stage, locals>> /\ stage = "establish"
      BY DEF Connect, Add, network, IInv, LinksTypeOK, LinkInv, Stages
<1>3. \A h \in Related : step'[h] \in {"off", "add", "on", "failed"}
      BY <1>1, <1>2 DEF StepTo, IInv, LinksTypeOK, LinkInv, Stages
<1>4. OneAtATime'
  <2>1. step[g] \in Resting => MayBegin
        BY DEF Connect, Add, Resting
  <2> QED BY <1>1, <1>2, <2>1, StepSerial DEF given
<1>5. \A h \in Related : step'[h] \notin Ports \union {"clean", "remove", "unlinked"}
      BY <1>3, StepsApart DEF Steps, Resting
<1> QED BY <1>4, <1>5 DEF SerialInv, ReadIsWhole, ListIsWhole, RestIsToDo,
      SerialUnlinkedIsOff, Unlinked

LEMMA DisconnectSerial ==
  ASSUME IInv, SerialInv, NEW g \in Related, Disconnect(g)
  PROVE  SerialInv'
<1>1. PICK s \in {"remove", "clean"} : StepTo(g, s) /\ (s = "clean" => bound = {})
      BY DEF Disconnect
<1>2. UNCHANGED <<network, given, seen>> /\ todo' = [todo EXCEPT ![g] = payload]
      BY DEF Disconnect
<1>3. OneAtATime'
      BY <1>1, <1>2, StepSerial DEF Disconnect, given
<1>4. ReadIsWhole'
      BY <1>1, <1>2, StepsApart DEF IInv, LinksTypeOK, SerialInv, ReadIsWhole, StepTo, network,
         given, Steps
<1>5. ListIsWhole' /\ RestIsToDo'
      BY <1>1, <1>2, StepsApart DEF IInv, LinksTypeOK, SerialInv, ListIsWhole, RestIsToDo, StepTo,
         network, given, Steps
<1>6. SerialUnlinkedIsOff'
      BY <1>1, <1>2 DEF IInv, LinksTypeOK, SerialInv, SerialUnlinkedIsOff, Unlinked, StepTo,
         network, given
<1> QED BY <1>3, <1>4, <1>5, <1>6 DEF SerialInv

\* Nova takes the group off the ports of the server; what is left is to do.
LEMMA RemoveSerial ==
  ASSUME IInv, SerialInv, NEW g \in Related, RemoveFromServer(g)
  PROVE  SerialInv'
<1>1. PICK s \in {"clean", "failed"} : /\ StepTo(g, s)
                                       /\ s = "clean" => \A p \in bound : g \notin groups'[p]
      BY DEF RemoveFromServer, IInv, LinksTypeOK
<1>2. UNCHANGED <<bound, given, locals>> /\ step[g] = "remove"
      BY DEF RemoveFromServer
<1>3. \A p \in Ports : groups'[p] \subseteq groups[p]
      BY DEF RemoveFromServer, IInv, LinksTypeOK
<1>4. OneAtATime'
      BY <1>1, <1>2, StepSerial DEF given, Resting
<1>5. serial => \A h \in Related \ {g} : step[h] \in Resting
      BY <1>2 DEF SerialInv, OneAtATime, Resting
<1>6. ReadIsWhole' /\ ListIsWhole' /\ RestIsToDo'
      BY <1>1, <1>2, <1>3, <1>5, StepsApart DEF IInv, LinksTypeOK, SerialInv, ReadIsWhole,
         ListIsWhole, RestIsToDo, StepTo, given, locals, Steps, Resting
<1>7. SerialUnlinkedIsOff'
      BY <1>1, <1>2, <1>3 DEF IInv, LinksTypeOK, SerialInv, SerialUnlinkedIsOff, Unlinked, StepTo, given
<1> QED BY <1>4, <1>6, <1>7 DEF SerialInv

LEMMA ReadSerial ==
  ASSUME IInv, SerialInv, NEW g \in Related, ReadPort(g)
  PROVE  SerialInv'
<1>1. PICK p \in todo[g] : /\ todo' = [todo EXCEPT ![g] = @ \ {p}]
                           /\ seen' = [seen EXCEPT ![g] = groups[p]]
                           /\ StepTo(g, p)
      BY DEF ReadPort
<1>2. p \in Ports /\ p \notin Steps
      BY StepsApart DEF IInv, LinksTypeOK
<1>3. UNCHANGED <<network, given>> /\ step[g] = "clean"
      BY DEF ReadPort
<1>4. OneAtATime'
      BY <1>1, <1>3, StepSerial DEF given, Resting
<1>5. ReadIsWhole' /\ ListIsWhole'
      BY <1>1, <1>2, <1>3 DEF IInv, LinksTypeOK, SerialInv, ReadIsWhole, ListIsWhole, StepTo,
         network, given, Steps
<1>6. RestIsToDo'
  <2> SUFFICES ASSUME serial', NEW h \in Related, NEW r \in bound \union payload,
                      step'[h] \in Ports \union {"clean"}, h \in groups[r]
               PROVE  r \in todo'[h] \/ r = step'[h]
      BY <1>3 DEF RestIsToDo, network, given
  <2>1. CASE h = g
    <3>1. r \in todo[g]
          BY <1>3, <2>1, StepsApart DEF IInv, LinksTypeOK, SerialInv, RestIsToDo, given, Steps
    <3> QED BY <1>1, <2>1, <3>1 DEF IInv, LinksTypeOK, StepTo
  <2>2. CASE h # g
        BY <1>1, <1>3, <2>2 DEF IInv, LinksTypeOK, SerialInv, RestIsToDo, StepTo, given
  <2> QED BY <2>1, <2>2
<1>7. SerialUnlinkedIsOff'
      BY <1>1, <1>2, <1>3 DEF IInv, LinksTypeOK, SerialInv, SerialUnlinkedIsOff, Unlinked, StepTo,
         network, given, Steps, Resting
<1> QED BY <1>4, <1>5, <1>6, <1>7 DEF SerialInv

\* What is written back is what the port has, without the group.
LEMMA WriteSerial ==
  ASSUME IInv, SerialInv, NEW g \in Related, WritePort(g)
  PROVE  SerialInv'
<1> DEFINE q == step[g]
<1>1. /\ q \in Ports /\ q \notin Steps /\ StepTo(g, "clean")
      /\ groups' = [groups EXCEPT ![q] = seen[g] \ {g}]
      /\ seen' = [seen EXCEPT ![g] = {}]
      /\ UNCHANGED <<bound, given, todo>>
      BY StepsApart DEF WritePort
<1>2. serial => /\ \A p \in Ports : groups'[p] \subseteq groups[p]
                /\ g \notin groups'[q]
      BY <1>1 DEF IInv, LinksTypeOK, SerialInv, ReadIsWhole
<1>3. OneAtATime'
      BY <1>1, StepSerial DEF given, Steps
<1>4. serial => \A h \in Related \ {g} : step[h] \in Resting
      BY <1>1 DEF SerialInv, OneAtATime, Steps
<1>5. ReadIsWhole' /\ ListIsWhole'
      BY <1>1, <1>4, StepsApart DEF IInv, LinksTypeOK, SerialInv, ReadIsWhole, ListIsWhole, StepTo,
         given, Steps, Resting
<1>6. RestIsToDo'
      BY <1>1, <1>2, <1>4, StepsApart DEF IInv, LinksTypeOK, SerialInv, RestIsToDo, StepTo, given,
         Steps, Resting
<1>7. SerialUnlinkedIsOff'
      BY <1>1, <1>2 DEF IInv, LinksTypeOK, SerialInv, SerialUnlinkedIsOff, Unlinked, StepTo, given
<1> QED BY <1>3, <1>5, <1>6, <1>7 DEF SerialInv

LEMMA EndSerial ==
  ASSUME IInv, SerialInv, NEW g \in Related, EndDisconnect(g)
  PROVE  SerialInv'
<1>1. /\ step[g] = "clean" /\ todo[g] = {} /\ StepTo(g, "unlinked")
      /\ UNCHANGED <<network, given, locals>>
      BY DEF EndDisconnect
<1>2. OneAtATime'
      BY <1>1, StepSerial DEF given, Resting
<1>3. ReadIsWhole' /\ ListIsWhole' /\ RestIsToDo'
      BY <1>1, StepsApart DEF IInv, LinksTypeOK, SerialInv, ReadIsWhole, ListIsWhole, RestIsToDo,
         StepTo, network, given, locals, Steps, Resting
<1>4. serial => \A p \in bound \union payload : g \notin groups[p]
      BY <1>1, StepsApart DEF SerialInv, RestIsToDo, IInv, LinksTypeOK, Steps
<1>5. SerialUnlinkedIsOff'
      BY <1>1, <1>4 DEF IInv, LinksTypeOK, SerialInv, SerialUnlinkedIsOff, Unlinked, StepTo, network,
         given
<1> QED BY <1>2, <1>3, <1>5 DEF SerialInv

LEMMA BreakSerial ==
  ASSUME IInv, SerialInv, NEW g \in Related, Fail(g) \/ WorkerDies(g)
  PROVE  SerialInv'
<1>1. PICK s \in {"off", "on", "failed"} : StepTo(g, s)
      BY DEF Fail, WorkerDies
<1>2. UNCHANGED <<network, given>> /\ Forget(g) /\ step[g] \notin Resting
      BY DEF Fail, WorkerDies
<1>3. OneAtATime'
      BY <1>1, <1>2, StepSerial DEF given
<1>4. ReadIsWhole' /\ ListIsWhole' /\ RestIsToDo'
      BY <1>1, <1>2, StepsApart DEF IInv, LinksTypeOK, SerialInv, ReadIsWhole, ListIsWhole,
         RestIsToDo, StepTo, Forget, network, given, Steps, Resting
<1>5. SerialUnlinkedIsOff'
      BY <1>1, <1>2 DEF IInv, LinksTypeOK, SerialInv, SerialUnlinkedIsOff, Unlinked, StepTo, network,
         given
<1> QED BY <1>3, <1>4, <1>5 DEF SerialInv

LEMMA NextSerial == IInv /\ LinkInv /\ SerialInv /\ [LinksNext]_linksVars => SerialInv'
<1> SUFFICES ASSUME IInv, LinkInv, SerialInv, [LinksNext]_linksVars PROVE SerialInv'
    OBVIOUS
<1>1. ASSUME NEW g \in Related, Handler(g) PROVE SerialInv'
      BY <1>1, ConnectSerial, DisconnectSerial, RemoveSerial, ReadSerial, WriteSerial,
         EndSerial DEF Handler
<1>2. ASSUME NEW g \in Related, Fail(g) \/ WorkerDies(g) PROVE SerialInv'
      BY <1>2, BreakSerial
<1>3. CASE Unlink
      BY <1>3 DEF Unlink, network, given, locals, SerialInv, OneAtATime, ReadIsWhole,
         ListIsWhole, RestIsToDo, SerialUnlinkedIsOff, Unlinked
<1>4. ASSUME NEW p \in Ports, DetachPort(p) PROVE SerialInv'
      BY <1>4 DEF DetachPort, given, locals, SerialInv, OneAtATime, ReadIsWhole,
         ListIsWhole, RestIsToDo, SerialUnlinkedIsOff, Unlinked
<1>5. CASE UNCHANGED linksVars
      BY <1>5 DEF linksVars, network, given, locals, SerialInv, OneAtATime, ReadIsWhole,
         ListIsWhole, RestIsToDo, SerialUnlinkedIsOff, Unlinked
<1> QED BY <1>1, <1>2, <1>3, <1>4, <1>5 DEF LinksNext

(***************************************************************************)
(* Where the relationship operations of a server run one at a time, a      *)
(* group that disconnect_security_group reported disconnected is on none   *)
(* of the ports the server has or was created with, whatever crashed,      *)
(* failed or was detached before or since.                                 *)
(***************************************************************************)
THEOREM SerialUnlinkedOff == LinksSpec => []SerialUnlinkedIsOff
<1>1. SerialInv => SerialUnlinkedIsOff
      BY DEF SerialInv
<1> QED BY <1>1, InitIInv, InitLink, InitSerial, NextIInv, NextLink, NextSerial, PTL DEF LinksSpec

-----------------------------------------------------------------------------
(***************************************************************************)
(* ServerTasks.  None of its properties is inductive: each speaks of the   *)
(* end of an operation, and what holds there was decided several attempts  *)
(* and crashes before.  They follow from what is true at every step: which *)
(* flags an operation has where (PhaseFits), that an attempt has stored    *)
(* what it knows (CopyFits), that a request has its flag (AskedFit), and   *)
(* what becomes of the server, its image and its groups on the way from    *)
(* the request to the end (StopCalm, ImageComes, RestoreCalm, GroupsFit).  *)
(***************************************************************************)

\* The steps of an attempt, and the properties it goes by: its own copy, and
\* between attempts what is stored.
Active == phase \notin {"idle", "begin", "waiting"}
Now == IF Active THEN rp ELSE store

\* Only the operation that has a step is at it, and what its flags are there.
PhaseFits ==
  /\ phase = "create" => op = "create"
  /\ phase \in {"configure", "groups", "groups_add"} => op = "configure"
  /\ phase \in {"power", "power_request", "power_check"} =>
       op \in {"stop", "snapshot_apply"}
  /\ phase \in {"delete", "delete_request"} => op = "delete"
  /\ phase = "request" => op \in {"reboot", "suspend", "resume"}
  /\ phase = "reboot_check" => op = "reboot"
  /\ phase \in {"backup", "backup_request", "backup_check"} => op = "snapshot_create"
  /\ phase \in {"restore", "rebuild", "rebuild_check"} => op = "snapshot_apply"
  /\ phase \in {"image", "image_check"} => op = "snapshot_delete"
  /\ phase = "waiting" => result = "retry"
  /\ phase = "power_request" => rp[Verb] = "none"
  /\ phase = "delete_request" => ~rp.delete
  /\ phase = "backup_request" => rp.backup = "none"
  /\ phase = "backup_check" => rp.backup # "none"
  /\ phase = "rebuild" => rp.restore = "none"
  /\ phase = "rebuild_check" => rp.restore # "none" /\ rp.stop = "DONE"
  /\ op = "snapshot_apply" /\ phase \in {"power", "power_request", "power_check"} =>
       rp.restore \in {"none", "rebuild_done"}

\* Until it ends, an attempt has stored what it knows, but for a server that
\* snapshot_apply found stopped.
CopyFits ==
  /\ Active /\ phase \notin {"rebuild", "end"} => rp = store
  /\ phase = "rebuild" => rp = [store EXCEPT !.stop = "DONE"]
  /\ phase = "end" /\ op = "snapshot_create" => rp = store
  /\ phase = "end" /\ op = "snapshot_apply" =>
       rp = store \/ (rp = [store EXCEPT !.stop = "DONE"] /\ rp.restore = "none"
                                                          /\ result = "failed")

\* The requests that were made are those of the operation.
AskedOf ==
  phase # "idle" =>
    /\ asked["stop"] > 0 => op \in {"stop", "snapshot_apply"}
    /\ asked["start"] > 0 \/ asked["rebuild"] > 0 => op = "snapshot_apply"
    /\ asked["delete"] > 0 => op = "delete"
    /\ asked["backup"] > 0 => op = "snapshot_create"
    /\ asked["reboot"] > 0 => op = "reboot"

\* A request that was made has its flag, if no worker has died.
Once == \A r \in Requests : asked[r] <= 1
Flagged ==
  phase # "idle" =>
    /\ asked["stop"] > 0 => Now.stop # "none"
    /\ asked["start"] > 0 => Now.start # "none"
    /\ asked["delete"] > 0 => Now.delete
    /\ asked["backup"] > 0 => Now.backup # "none"
    /\ asked["rebuild"] > 0 => Now.restore # "none"
    /\ asked["reboot"] > 0 => \/ phase \in {"reboot_check", "end", "waiting"}
                              \/ phase = "begin" /\ retry
    /\ asked["suspend"] > 0 \/ asked["resume"] > 0 => phase = "end" /\ result = "ok"
AskedFit == NoFault({"crash"}) => Once /\ Flagged

\* Without an id there is no server, and no flag.
JustCreated == phase = "end" /\ op = "create" /\ result = "ok" /\ rp.id
IdsFit ==
  /\ ~store.id => store = Cleared /\ (server = Absent \/ JustCreated)
  /\ phase = "rebuild" => store.id
  /\ phase = "end" => /\ ~rp.id => rp = Cleared
                      /\ op = "create" => result # "retry" /\ (result # "ok" => ~rp.id)
                      /\ op # "create" => rp.id = store.id
                      /\ op = "delete" /\ result = "ok" => server = Absent
  /\ op = "create" /\ phase # "idle" => ~store.id /\ phase # "waiting"
  /\ inst = "uninitialized" => ~store.id /\ (phase # "idle" => op = "create")
  /\ server.status = "absent" => server = Absent

\* What becomes of a server that had no task when it was to be stopped.
StopCalm ==
  op = "stop" /\ phase # "idle" /\ quiet /\ NoFault({"user"}) =>
    /\ \/ server.task = "none"
       \/ server.task = "powering-off" /\ server.status = "ACTIVE"
    /\ phase = "end" /\ result = "ok" /\ store.id => server.status = "SHUTOFF"

\* The image that a snapshot without earlier flags has asked for.
ImageComes ==
  /\ op = "snapshot_create" /\ phase # "idle"
  /\ before.backup = "none" /\ NoFault({"user", "error"})
  => /\ Now.backup # "none" =>
          \/ images[name] = "active"
          \/ images[name] = "queued" /\ server.task = "image_uploading"
     /\ phase = "end" /\ result = "ok" => images[name] = "active"

\* A server that is restored has been rebuilt when it was off.
RestoreCalm ==
  /\ op = "snapshot_apply" /\ phase # "idle"
  /\ before.restore = "none" /\ quiet /\ NoFault({"user"})
  => /\ \/ server.task = "none"
        \/ server.task = "powering-off" /\ server.status = "ACTIVE"
        \/ server.task = "rebuild_spawning" /\ server.status = "REBUILD"
        \/ server.task = "powering-on" /\ server.status = "SHUTOFF"
     /\ Now.restore # "none" => /\ Now.stop = "DONE" /\ asked["rebuild"] > 0
                                /\ server.status = "ACTIVE" => server.task = "none"
     /\ phase = "end" /\ result = "ok" =>
          Now.restore # "none" /\ server.status = "ACTIVE"

\* The groups of a server whose groups are still to be attached.
One(some) == some \in {{}, {"default"}, {"of_node"}}
GroupsFit ==
  /\ store.groups = "unlinked" \/ (JustCreated /\ rp.groups = "unlinked") =>
       One(server.groups)
  /\ op = "configure" /\ phase # "idle" => store.groups = before.groups
  /\ phase = "end" /\ op # "create" =>
       \/ rp.groups = store.groups
       \/ rp.groups = "attached" /\ op = "configure" /\ result = "ok"
  /\ op = "configure" /\ before.groups = "unlinked" /\ server.status # "absent" =>
       /\ phase = "groups_add" => server.groups = {}
       /\ phase = "end" /\ rp.groups = "attached" => server.groups = {"of_node"}

\* Only a create that was cut short leaves a server that has no id.
OrphanFits == orphaned => ~NoFault({"crash"})

Inv == /\ TypeOK /\ PhaseFits /\ CopyFits /\ AskedOf /\ AskedFit /\ IdsFit /\ OrphanFits
       /\ StopCalm /\ ImageComes /\ RestoreCalm /\ GroupsFit

-----------------------------------------------------------------------------
\* A fault is counted.
LEMMA FaultTyped ==
  ASSUME faults \in [FaultKinds -> Nat], NEW k \in FaultKinds, Fault(k)
  PROVE  faults' \in [FaultKinds -> Nat]
BY DEF Fault

\* The service starts a task.
LEMMA StartsTyped ==
  ASSUME server \in ServerStates, asked \in [Requests -> 0..2], NEW r \in Requests, Starts(r)
  PROVE  server' \in ServerStates /\ asked' \in [Requests -> 0..2]
<1>1. server' \in ServerStates
  BY DEF Starts, ServerStates, Task
<1>2. asked' \in [Requests -> 0..2]
  BY DEF Starts
<1> QED
  BY <1>1, <1>2

\* What the service makes of a server.
LEMMA ServerTyped ==
  ASSUME NEW s \in ServerStates,
         NEW t \in {"none", "powering-off", "powering-on"},
         NEW u \in {"ACTIVE", "SHUTOFF", "SUSPENDED", "ERROR"}
  PROVE  /\ Absent \in ServerStates /\ [s EXCEPT !.task = t] \in ServerStates
         /\ [s EXCEPT !.task = t, !.status = u] \in ServerStates
<1>1. Absent \in ServerStates
  BY DEF Absent, ServerStates
<1> QED
  BY <1>1 DEF ServerStates

\* What the operations make of the properties.
LEMMA ChangesTyped ==
  ASSUME NEW p \in Properties, NEW f \in Flag
  PROVE  /\ [p EXCEPT !.stop = f] \in Properties /\ [p EXCEPT !.start = f] \in Properties
         /\ [p EXCEPT !.backup = f] \in Properties /\ [p EXCEPT !.restore = f] \in Properties
         /\ [p EXCEPT !.start = "DONE", !.restore = "DONE"] \in Properties
         /\ [p EXCEPT !.restore = "rebuild_done"] \in Properties
         /\ [p EXCEPT !.delete = TRUE] \in Properties
         /\ [p EXCEPT !.groups = "attached"] \in Properties
         /\ [p EXCEPT !.backup = "none", !.restore = "none",
                      !.stop = "none", !.start = "none"] \in Properties
         /\ Cleared \in Properties
BY DEF Properties, Flag, Cleared

\* A request that is accepted, or refused, or made by a worker that dies.
LEMMA RequestTyped ==
  ASSUME TypeOK, NEW r \in Requests, NEW p \in Properties, NEW next, Request(r, p, next)
  PROVE  /\ server' \in ServerStates /\ asked' \in [Requests -> 0..2]
         /\ rp' \in Properties /\ store' \in Properties
         /\ result' \in {"ok", "failed", "retry"} /\ faults' \in [FaultKinds -> Nat]
         /\ phase' \in {next, "begin", "end"}
<1>1. "crash" \in FaultKinds
  BY DEF FaultKinds
<1>2. CASE Accepts(r)
  BY <1>1, <1>2, FaultTyped, StartsTyped DEF TypeOK, Request, Goto
<1>3. CASE ~Accepts(r)
  BY <1>3 DEF TypeOK, Request, End
<1> QED
  BY <1>2, <1>3

LEMMA TypeStep ==
  ASSUME TypeOK, PhaseFits, [Next]_vars
  PROVE  TypeOK'
<1>1. CASE Begin
  <2>1. quiet' \in BOOLEAN
    BY <1>1 DEF Begin
  <2>2. op' \in Operations /\ asked' \in [Requests -> 0..2]
    BY <1>1 DEF Begin
  <2>3. inst' \in {inst, "deleting"}
    BY <1>1 DEF Begin
  <2> QED
    BY <1>1, <2>1, <2>2, <2>3 DEF TypeOK, Begin, cloud
<1>2. CASE Enter
  BY <1>2 DEF TypeOK, Enter, EntryPhase, End, Goto, Operations, cloud, call
<1>3. CASE RequestRaises
  <2>1. "transient" \in FaultKinds
    BY DEF FaultKinds
  <2>2. faults' \in [FaultKinds -> Nat]
    BY <1>3, <2>1, FaultTyped DEF TypeOK, RequestRaises
  <2> QED
    BY <1>3, <2>2 DEF TypeOK, RequestRaises, End, cloud, call
<1>4. CASE Create
  <2>1. server' \in ServerStates
    BY <1>4 DEF TypeOK, Create, ServerStates
  <2>2. rp' \in Properties
    BY <1>4 DEF TypeOK, Create, Properties
  <2> QED
    BY <1>4, <2>1, <2>2 DEF TypeOK, Create, End, call
<1>5. CASE Configure
  BY <1>5 DEF TypeOK, Configure, End, Goto, cloud, call
<1>6. CASE DropFirstGroup
  BY <1>6 DEF TypeOK, DropFirstGroup, Goto, ServerStates, call
<1>7. CASE AddGroups
  <2>1. server' \in ServerStates
    BY <1>7 DEF TypeOK, AddGroups, ServerStates
  <2> QED
    BY <1>7, <2>1, ChangesTyped DEF TypeOK, AddGroups, End, call, Flag
<1>8. CASE GroupsRaise
  BY <1>8 DEF TypeOK, GroupsRaise, End, cloud, call
<1>9. CASE PowerRead
  <2>1. rp' \in Properties /\ store' \in Properties
    BY <1>9, ChangesTyped DEF TypeOK, PowerRead, PowerDone, Flag
  <2> QED
    BY <1>9, <2>1 DEF TypeOK, PowerRead, PowerDone, End, Goto, cloud, call
<1>10. CASE PowerRequest
  <2>1. Verb \in Requests /\ [rp EXCEPT ![Verb] = "PENDING"] \in Properties
    BY ChangesTyped DEF TypeOK, Verb, Requests, Flag
  <2> QED
    BY <1>10, <2>1, RequestTyped DEF TypeOK, PowerRequest, call
<1>11. CASE PowerCheck
  <2>1. rp' \in Properties /\ store' \in Properties
    BY <1>11, ChangesTyped DEF TypeOK, PowerCheck, PowerDone, Flag
  <2> QED
    BY <1>11, <2>1 DEF TypeOK, PowerCheck, PowerDone, End, cloud, Goto, call
<1>12. CASE PlainRequest
  <2>1. op \in {"reboot", "suspend", "resume"}
    BY <1>12 DEF TypeOK, PhaseFits, PlainRequest
  <2>2. CASE Accepts(op)
    BY <1>12, <2>1, <2>2, StartsTyped DEF TypeOK, PlainRequest, End, Goto, Requests,
       call
  <2>3. CASE ~Accepts(op)
    BY <1>12, <2>3 DEF TypeOK, PlainRequest, End, call
  <2> QED
    BY <2>2, <2>3
<1>13. CASE RebootCheck
  BY <1>13 DEF TypeOK, RebootCheck, End, cloud, call
<1>14. CASE Delete
  BY <1>14 DEF TypeOK, Delete, End, Goto, cloud, call
<1>15. CASE DeleteRequest
  <2>1. "delete" \in Requests
    BY DEF Requests
  <2>2. CASE Accepts("delete")
    BY <1>15, <2>1, <2>2, StartsTyped, ChangesTyped DEF TypeOK, DeleteRequest, End,
       call, Flag
  <2>3. CASE ~Accepts("delete")
    BY <1>15, <2>3 DEF TypeOK, DeleteRequest, End, call
  <2> QED
    BY <2>2, <2>3
<1>16. CASE SnapshotCreate
  BY <1>16 DEF TypeOK, SnapshotCreate, End, Goto, cloud, call
<1>17. CASE BackupRequest
  <2>1. "backup" \in Requests /\ [rp EXCEPT !.backup = "PENDING"] \in Properties
    BY ChangesTyped DEF TypeOK, Requests, Flag
  <2> QED
    BY <1>17, <2>1, RequestTyped DEF TypeOK, BackupRequest, call
<1>18. CASE BackupCheck
  BY <1>18, ChangesTyped DEF TypeOK, BackupCheck, End, cloud, call, Flag
<1>19. CASE SnapshotApply
  BY <1>19 DEF TypeOK, SnapshotApply, End, Goto, cloud, call
<1>20. CASE RebuildRequest
  <2>1. "rebuild" \in Requests /\ [rp EXCEPT !.restore = "PENDING"] \in Properties
    BY ChangesTyped DEF TypeOK, Requests, Flag
  <2> QED
    BY <1>20, <2>1, RequestTyped DEF TypeOK, RebuildRequest, call
<1>21. CASE RebuildCheck
  BY <1>21, ChangesTyped DEF TypeOK, RebuildCheck, End, Goto, cloud, call, Flag
<1>22. CASE SnapshotDelete
  BY <1>22 DEF TypeOK, SnapshotDelete, End, Goto, call, Requests
<1>23. CASE SnapshotDeleteCheck
  BY <1>23, ChangesTyped DEF TypeOK, SnapshotDeleteCheck, End, cloud, call, Flag
<1>24. CASE Finish
  BY <1>24, ChangesTyped DEF TypeOK, Finish, cloud, Flag
<1>25. CASE Retry
  BY <1>25 DEF TypeOK, Retry, cloud
<1>26. CASE GiveUp
  <2>1. "giveup" \in FaultKinds
    BY DEF FaultKinds
  <2> QED
    BY <1>26, <2>1, FaultTyped DEF TypeOK, GiveUp, cloud, call
<1>27. CASE Crash
  <2>1. "crash" \in FaultKinds
    BY DEF FaultKinds
  <2> QED
    BY <1>27, <2>1, FaultTyped, ServerTyped DEF TypeOK, Crash
<1>28. CASE ServiceCompletes
  <2>1. server' \in ServerStates
    <3>1. StatusAfter(server.task) \in {"ACTIVE", "SHUTOFF", "SUSPENDED"}
      BY DEF StatusAfter
    <3> QED
      BY <1>28, <3>1, ServerTyped DEF TypeOK, ServiceCompletes
  <2>2. images' \in [Names -> {"absent", "queued", "active", "deleting"}]
    BY <1>28 DEF TypeOK, ServiceCompletes
  <2> QED
    BY <1>28, <2>1, <2>2 DEF TypeOK, ServiceCompletes, call
<1>29. CASE PasswordPosted
  BY <1>29 DEF TypeOK, PasswordPosted, ServerStates, call
<1>30. CASE ImageRemoved
  BY <1>30 DEF TypeOK, ImageRemoved, call
<1>31. CASE ServiceFails
  <2>1. "error" \in FaultKinds
    BY DEF FaultKinds
  <2>2. server' \in ServerStates
    BY <1>31, ServerTyped DEF TypeOK, ServiceFails
  <2>3. images' \in [Names -> {"absent", "queued", "active", "deleting"}]
    BY <1>31 DEF TypeOK, ServiceFails
  <2> QED
    BY <1>31, <2>1, <2>2, <2>3, FaultTyped DEF TypeOK, ServiceFails, call
<1>32. CASE UserInterferes
  <2>1. "user" \in FaultKinds
    BY DEF FaultKinds
  <2>2. server' \in ServerStates
    BY <1>32, ServerTyped DEF TypeOK, UserInterferes, Task
  <2> QED
    BY <1>32, <2>1, <2>2, FaultTyped DEF TypeOK, UserInterferes, call
<1>33. CASE UNCHANGED vars
  BY <1>33 DEF TypeOK, vars, cloud, call
<1> QED
  BY <1>1, <1>2, <1>3, <1>4, <1>5, <1>6, <1>7, <1>8, <1>9, <1>10, <1>11, <1>12,
     <1>13, <1>14, <1>15, <1>16, <1>17, <1>18, <1>19, <1>20, <1>21, <1>22, <1>23,
     <1>24, <1>25, <1>26, <1>27, <1>28, <1>29, <1>30, <1>31, <1>32, <1>33
     DEF Next, Attempt, Service

LEMMA PhaseStep ==
  ASSUME TypeOK, PhaseFits, CopyFits, [Next]_vars
  PROVE  PhaseFits'
<1>1. CASE Begin
  BY <1>1 DEF PhaseFits, Verb, Begin, Permitted, cloud
<1>2. CASE Enter
  BY <1>2 DEF PhaseFits, Verb, Enter, EntryPhase, End, Goto, TypeOK, Operations,
     cloud, call
<1>3. CASE RequestRaises
  BY <1>3 DEF PhaseFits, Verb, RequestRaises, End, cloud, call
<1>4. CASE Create
  BY <1>4 DEF PhaseFits, Verb, Create, End, call
<1>5. CASE Configure
  BY <1>5 DEF PhaseFits, Verb, Configure, End, Goto, cloud, call
<1>6. CASE DropFirstGroup
  BY <1>6 DEF PhaseFits, Verb, DropFirstGroup, Goto, call
<1>7. CASE AddGroups
  BY <1>7 DEF PhaseFits, Verb, AddGroups, End, call
<1>8. CASE GroupsRaise
  BY <1>8 DEF PhaseFits, Verb, GroupsRaise, End, cloud, call
<1>9. CASE PowerRead
  <2>1. Verb \in {"stop", "start"} /\ (op = "stop" => Verb = "stop")
    BY DEF Verb
  <2>2. CASE Verb = "stop"
    BY <1>9, <2>1, <2>2 DEF TypeOK, Properties, PhaseFits, PowerRead, PowerDone,
       End, Goto, call, Verb
  <2>3. CASE Verb = "start"
    BY <1>9, <2>1, <2>3 DEF TypeOK, Properties, PhaseFits, PowerRead, PowerDone,
       End, Goto, call, Verb
  <2> QED
    BY <2>1, <2>2, <2>3
<1>10. CASE PowerRequest
  <2>1. Verb \in {"stop", "start"} /\ (op = "stop" => Verb = "stop")
    BY DEF Verb
  <2>2. CASE Verb = "stop"
    BY <1>10, <2>1, <2>2 DEF TypeOK, Properties, PhaseFits, PowerRequest, Request,
       End, Goto, call, Verb
  <2>3. CASE Verb = "start"
    BY <1>10, <2>1, <2>3 DEF TypeOK, Properties, PhaseFits, PowerRequest, Request,
       End, Goto, call, Verb
  <2> QED
    BY <2>1, <2>2, <2>3
<1>11. CASE PowerCheck
  <2>1. Verb \in {"stop", "start"} /\ (op = "stop" => Verb = "stop")
    BY DEF Verb
  <2>2. CASE Verb = "stop"
    BY <1>11, <2>1, <2>2 DEF TypeOK, Properties, PhaseFits, PowerCheck, PowerDone,
       End, Goto, call, Verb
  <2>3. CASE Verb = "start"
    BY <1>11, <2>1, <2>3 DEF TypeOK, Properties, PhaseFits, PowerCheck, PowerDone,
       End, Goto, call, Verb
  <2> QED
    BY <2>1, <2>2, <2>3
<1>12. CASE PlainRequest
  BY <1>12 DEF PhaseFits, Verb, PlainRequest, Starts, Accepts, Task, End, Goto, call
<1>13. CASE RebootCheck
  BY <1>13 DEF PhaseFits, Verb, RebootCheck, End, cloud, call
<1>14. CASE Delete
  BY <1>14 DEF PhaseFits, Verb, Delete, End, Goto, cloud, call
<1>15. CASE DeleteRequest
  BY <1>15 DEF PhaseFits, Verb, DeleteRequest, Starts, Accepts, Task, End, call
<1>16. CASE SnapshotCreate
  BY <1>16 DEF PhaseFits, Verb, SnapshotCreate, End, Goto, cloud, call
<1>17. CASE BackupRequest
  BY <1>17 DEF PhaseFits, Verb, BackupRequest, Request, Starts, Accepts, Task, End,
     Goto, TypeOK, Properties, call
<1>18. CASE BackupCheck
  BY <1>18 DEF PhaseFits, Verb, BackupCheck, TaskFinished, End, cloud, call
<1>19. CASE SnapshotApply
  BY <1>19 DEF PhaseFits, Verb, SnapshotApply, End, Goto, cloud, call
<1>20. CASE RebuildRequest
  <2>1. rp.stop = "DONE" /\ [rp EXCEPT !.restore = "PENDING"].stop = "DONE"
        /\ [rp EXCEPT !.restore = "PENDING"].restore = "PENDING"
    BY <1>20 DEF RebuildRequest, CopyFits, TypeOK, Properties
  <2> QED
    BY <1>20, <2>1 DEF PhaseFits, RebuildRequest, Request, End, Goto, call
<1>21. CASE RebuildCheck
  <2>1. [rp EXCEPT !.restore = "rebuild_done"].restore = "rebuild_done"
    BY DEF TypeOK, Properties
  <2> QED
    BY <1>21, <2>1 DEF PhaseFits, RebuildCheck, End, Goto, Verb, call
<1>22. CASE SnapshotDelete
  BY <1>22 DEF PhaseFits, Verb, SnapshotDelete, End, Goto, call
<1>23. CASE SnapshotDeleteCheck
  BY <1>23 DEF PhaseFits, Verb, SnapshotDeleteCheck, End, cloud, call
<1>24. CASE Finish
  BY <1>24 DEF PhaseFits, Verb, Finish, TypeOK, cloud
<1>25. CASE Retry
  BY <1>25 DEF PhaseFits, Verb, Retry, cloud
<1>26. CASE GiveUp
  BY <1>26 DEF PhaseFits, Verb, GiveUp, cloud, call
<1>27. CASE Crash
  BY <1>27 DEF PhaseFits, Verb, Crash, cloud, call
<1>28. CASE ServiceCompletes
  BY <1>28 DEF PhaseFits, Verb, ServiceCompletes, StatusAfter, call
<1>29. CASE PasswordPosted
  BY <1>29 DEF PhaseFits, Verb, PasswordPosted, call
<1>30. CASE ImageRemoved
  BY <1>30 DEF PhaseFits, Verb, ImageRemoved, call
<1>31. CASE ServiceFails
  BY <1>31 DEF PhaseFits, Verb, ServiceFails, call
<1>32. CASE UserInterferes
  BY <1>32 DEF PhaseFits, Verb, UserInterferes, Accepts, Task, call
<1>33. CASE UNCHANGED vars
  BY <1>33 DEF PhaseFits, Verb, vars, cloud, call
<1> QED
  BY <1>1, <1>2, <1>3, <1>4, <1>5, <1>6, <1>7, <1>8, <1>9, <1>10, <1>11, <1>12,
     <1>13, <1>14, <1>15, <1>16, <1>17, <1>18, <1>19, <1>20, <1>21, <1>22, <1>23,
     <1>24, <1>25, <1>26, <1>27, <1>28, <1>29, <1>30, <1>31, <1>32, <1>33
     DEF Next, Attempt, Service

LEMMA CopyStep ==
  ASSUME TypeOK, PhaseFits, CopyFits, [Next]_vars
  PROVE  CopyFits'
<1>1. CASE Begin
  BY <1>1 DEF PhaseFits, CopyFits, Active, Verb, Begin, Permitted, cloud
<1>2. CASE Enter
  BY <1>2 DEF PhaseFits, CopyFits, Active, Verb, Enter, EntryPhase, End, Goto,
     TypeOK, Operations, cloud, call
<1>3. CASE RequestRaises
  BY <1>3 DEF PhaseFits, CopyFits, Active, Verb, RequestRaises, End, cloud, call
<1>4. CASE Create
  BY <1>4 DEF PhaseFits, CopyFits, Active, Verb, Create, End, call
<1>5. CASE Configure
  BY <1>5 DEF PhaseFits, CopyFits, Active, Verb, Configure, End, Goto, cloud, call
<1>6. CASE DropFirstGroup
  BY <1>6 DEF PhaseFits, CopyFits, Active, Verb, DropFirstGroup, Goto, call
<1>7. CASE AddGroups
  BY <1>7 DEF PhaseFits, CopyFits, Active, Verb, AddGroups, End, call
<1>8. CASE GroupsRaise
  BY <1>8 DEF PhaseFits, CopyFits, Active, Verb, GroupsRaise, End, cloud, call
<1>9. CASE PowerRead
  BY <1>9 DEF PhaseFits, CopyFits, Active, Verb, PowerRead, PowerDone, End, Goto,
     cloud, call
<1>10. CASE PowerRequest
  BY <1>10 DEF PhaseFits, CopyFits, Active, Verb, PowerRequest, Request, Starts,
     Accepts, Task, End, Goto, call
<1>11. CASE PowerCheck
  BY <1>11 DEF PhaseFits, CopyFits, Active, Verb, PowerCheck, PowerDone, End, Goto,
     cloud, call
<1>12. CASE PlainRequest
  BY <1>12 DEF PhaseFits, CopyFits, Active, Verb, PlainRequest, Starts, Accepts,
     Task, End, Goto, call
<1>13. CASE RebootCheck
  BY <1>13 DEF PhaseFits, CopyFits, Active, Verb, RebootCheck, End, cloud, call
<1>14. CASE Delete
  BY <1>14 DEF PhaseFits, CopyFits, Active, Verb, Delete, End, Goto, cloud, call
<1>15. CASE DeleteRequest
  BY <1>15 DEF PhaseFits, CopyFits, Active, Verb, DeleteRequest, Starts, Accepts,
     Task, End, call
<1>16. CASE SnapshotCreate
  BY <1>16 DEF PhaseFits, CopyFits, Active, Verb, SnapshotCreate, End, Goto, cloud,
     call
<1>17. CASE BackupRequest
  BY <1>17 DEF PhaseFits, CopyFits, Active, Verb, BackupRequest, Request, Starts,
     Accepts, Task, End, Goto, call
<1>18. CASE BackupCheck
  BY <1>18 DEF PhaseFits, CopyFits, Active, Verb, BackupCheck, TaskFinished, End,
     cloud, call
<1>19. CASE SnapshotApply
  BY <1>19 DEF PhaseFits, CopyFits, Active, Verb, SnapshotApply, End, Goto, cloud,
     call
<1>20. CASE RebuildRequest
  BY <1>20 DEF PhaseFits, CopyFits, Active, Verb, RebuildRequest, Request, Starts,
     Accepts, Task, End, Goto, call
<1>21. CASE RebuildCheck
  BY <1>21 DEF PhaseFits, CopyFits, Active, Verb, RebuildCheck, TaskFinished, End,
     Goto, cloud, call
<1>22. CASE SnapshotDelete
  BY <1>22 DEF PhaseFits, CopyFits, Active, Verb, SnapshotDelete, End, Goto, call
<1>23. CASE SnapshotDeleteCheck
  BY <1>23 DEF PhaseFits, CopyFits, Active, Verb, SnapshotDeleteCheck, End, cloud,
     call
<1>24. CASE Finish
  BY <1>24 DEF PhaseFits, CopyFits, Active, Verb, Finish, cloud
<1>25. CASE Retry
  BY <1>25 DEF PhaseFits, CopyFits, Active, Verb, Retry, cloud
<1>26. CASE GiveUp
  BY <1>26 DEF PhaseFits, CopyFits, Active, Verb, GiveUp, cloud, call
<1>27. CASE Crash
  BY <1>27 DEF PhaseFits, CopyFits, Active, Verb, Crash, cloud, call
<1>28. CASE ServiceCompletes
  BY <1>28 DEF PhaseFits, CopyFits, Active, Verb, ServiceCompletes, StatusAfter,
     call
<1>29. CASE PasswordPosted
  BY <1>29 DEF PhaseFits, CopyFits, Active, Verb, PasswordPosted, call
<1>30. CASE ImageRemoved
  BY <1>30 DEF PhaseFits, CopyFits, Active, Verb, ImageRemoved, call
<1>31. CASE ServiceFails
  BY <1>31 DEF PhaseFits, CopyFits, Active, Verb, ServiceFails, call
<1>32. CASE UserInterferes
  BY <1>32 DEF PhaseFits, CopyFits, Active, Verb, UserInterferes, Accepts, Task,
     call
<1>33. CASE UNCHANGED vars
  BY <1>33 DEF PhaseFits, CopyFits, Active, Verb, vars, cloud, call
<1> QED
  BY <1>1, <1>2, <1>3, <1>4, <1>5, <1>6, <1>7, <1>8, <1>9, <1>10, <1>11, <1>12,
     <1>13, <1>14, <1>15, <1>16, <1>17, <1>18, <1>19, <1>20, <1>21, <1>22, <1>23,
     <1>24, <1>25, <1>26, <1>27, <1>28, <1>29, <1>30, <1>31, <1>32, <1>33
     DEF Next, Attempt, Service

\* No fault is forgotten, and each is counted.
LEMMA FaultCounts ==
  ASSUME TypeOK, NEW k \in FaultKinds, Fault(k)
  PROVE  /\ faults'[k] # 0
         /\ \A j \in FaultKinds : faults'[j] = 0 => faults[j] = 0
BY DEF TypeOK, Fault

LEMMA FaultsStay ==
  ASSUME TypeOK, [Next]_vars, NEW j \in FaultKinds, faults'[j] = 0
  PROVE  faults[j] = 0
<1>1. CASE \E k \in FaultKinds : Fault(k)
  BY <1>1, FaultCounts
<1>2. CASE UNCHANGED faults
  BY <1>2
<1>3. (\E k \in FaultKinds : Fault(k)) \/ UNCHANGED faults
  <2>1. {"crash", "transient", "error", "user", "giveup"} \subseteq FaultKinds
    BY DEF FaultKinds
  <2> QED
    BY <2>1 DEF Next, Attempt, Service, vars, Begin, Enter, RequestRaises, Create,
       Configure, DropFirstGroup, AddGroups, GroupsRaise, PowerRead, PowerRequest,
       PowerCheck, PlainRequest, RebootCheck, Delete, DeleteRequest, SnapshotCreate,
       BackupRequest, BackupCheck, SnapshotApply, RebuildRequest, RebuildCheck,
       SnapshotDelete, SnapshotDeleteCheck, Finish, Retry, GiveUp, Crash,
       ServiceCompletes, PasswordPosted, ImageRemoved, ServiceFails, UserInterferes,
       Request
<1> QED
  BY <1>1, <1>2, <1>3

LEMMA AskedOfStep ==
  ASSUME TypeOK, PhaseFits, AskedOf, [Next]_vars
  PROVE  AskedOf'
<1>a. asked \in [Requests -> 0..2]
  BY DEF TypeOK
<1>1. CASE Begin
  BY <1>a, <1>1 DEF AskedOf, PhaseFits, Requests, Verb, Begin, Permitted, cloud
<1>2. CASE Enter
  BY <1>a, <1>2 DEF AskedOf, PhaseFits, Requests, Verb, Enter, EntryPhase, End,
     Goto, cloud, call
<1>3. CASE RequestRaises
  BY <1>a, <1>3 DEF AskedOf, PhaseFits, Requests, Verb, RequestRaises, End, cloud,
     call
<1>4. CASE Create
  BY <1>a, <1>4 DEF AskedOf, PhaseFits, Requests, Verb, Create, End, call
<1>5. CASE Configure
  BY <1>a, <1>5 DEF AskedOf, PhaseFits, Requests, Verb, Configure, End, Goto, cloud,
     call
<1>6. CASE DropFirstGroup
  BY <1>a, <1>6 DEF AskedOf, PhaseFits, Requests, Verb, DropFirstGroup, Goto, call
<1>7. CASE AddGroups
  BY <1>a, <1>7 DEF AskedOf, PhaseFits, Requests, Verb, AddGroups, End, call
<1>8. CASE GroupsRaise
  BY <1>a, <1>8 DEF AskedOf, PhaseFits, Requests, Verb, GroupsRaise, End, cloud,
     call
<1>9. CASE PowerRead
  BY <1>a, <1>9 DEF AskedOf, PhaseFits, Requests, Verb, PowerRead, PowerDone, End,
     Goto, cloud, call
<1>10. CASE PowerRequest
  BY <1>a, <1>10 DEF AskedOf, PhaseFits, Requests, Verb, PowerRequest, Request,
     Starts, Accepts, Task, End, Goto, call
<1>11. CASE PowerCheck
  BY <1>a, <1>11 DEF AskedOf, PhaseFits, Requests, Verb, PowerCheck, PowerDone, End,
     Goto, cloud, call
<1>12. CASE PlainRequest
  BY <1>a, <1>12 DEF AskedOf, PhaseFits, Requests, Verb, PlainRequest, Starts,
     Accepts, Task, End, Goto, call
<1>13. CASE RebootCheck
  BY <1>a, <1>13 DEF AskedOf, PhaseFits, Requests, Verb, RebootCheck, End, cloud,
     call
<1>14. CASE Delete
  BY <1>a, <1>14 DEF AskedOf, PhaseFits, Requests, Verb, Delete, End, Goto, cloud,
     call
<1>15. CASE DeleteRequest
  BY <1>a, <1>15 DEF AskedOf, PhaseFits, Requests, Verb, DeleteRequest, Starts,
     Accepts, Task, End, call
<1>16. CASE SnapshotCreate
  BY <1>a, <1>16 DEF AskedOf, PhaseFits, Requests, Verb, SnapshotCreate, End, Goto,
     cloud, call
<1>17. CASE BackupRequest
  BY <1>a, <1>17 DEF AskedOf, PhaseFits, Requests, Verb, BackupRequest, Request,
     Starts, Accepts, Task, End, Goto, call
<1>18. CASE BackupCheck
  BY <1>a, <1>18 DEF AskedOf, PhaseFits, Requests, Verb, BackupCheck, TaskFinished,
     End, cloud, call
<1>19. CASE SnapshotApply
  BY <1>a, <1>19 DEF AskedOf, PhaseFits, Requests, Verb, SnapshotApply, End, Goto,
     cloud, call
<1>20. CASE RebuildRequest
  BY <1>a, <1>20 DEF AskedOf, PhaseFits, Requests, Verb, RebuildRequest, Request,
     Starts, Accepts, Task, End, Goto, call
<1>21. CASE RebuildCheck
  BY <1>a, <1>21 DEF AskedOf, PhaseFits, Requests, Verb, RebuildCheck, TaskFinished,
     End, Goto, cloud, call
<1>22. CASE SnapshotDelete
  BY <1>a, <1>22 DEF AskedOf, PhaseFits, Requests, Verb, SnapshotDelete, End, Goto,
     call
<1>23. CASE SnapshotDeleteCheck
  BY <1>a, <1>23 DEF AskedOf, PhaseFits, Requests, Verb, SnapshotDeleteCheck, End,
     cloud, call
<1>24. CASE Finish
  BY <1>a, <1>24 DEF AskedOf, PhaseFits, Requests, Verb, Finish, cloud
<1>25. CASE Retry
  BY <1>a, <1>25 DEF AskedOf, PhaseFits, Requests, Verb, Retry, cloud
<1>26. CASE GiveUp
  BY <1>a, <1>26 DEF AskedOf, PhaseFits, Requests, Verb, GiveUp, cloud, call
<1>27. CASE Crash
  BY <1>a, <1>27 DEF AskedOf, PhaseFits, Requests, Verb, Crash, cloud, call
<1>28. CASE ServiceCompletes
  BY <1>a, <1>28 DEF AskedOf, PhaseFits, Requests, Verb, ServiceCompletes,
     StatusAfter, call
<1>29. CASE PasswordPosted
  BY <1>a, <1>29 DEF AskedOf, PhaseFits, Requests, Verb, PasswordPosted, call
<1>30. CASE ImageRemoved
  BY <1>a, <1>30 DEF AskedOf, PhaseFits, Requests, Verb, ImageRemoved, call
<1>31. CASE ServiceFails
  BY <1>a, <1>31 DEF AskedOf, PhaseFits, Requests, Verb, ServiceFails, call
<1>32. CASE UserInterferes
  BY <1>a, <1>32 DEF AskedOf, PhaseFits, Requests, Verb, UserInterferes, Accepts,
     Task, call
<1>33. CASE UNCHANGED vars
  BY <1>a, <1>33 DEF AskedOf, PhaseFits, Requests, Verb, vars, cloud, call
<1> QED
  BY <1>1, <1>2, <1>3, <1>4, <1>5, <1>6, <1>7, <1>8, <1>9, <1>10, <1>11, <1>12,
     <1>13, <1>14, <1>15, <1>16, <1>17, <1>18, <1>19, <1>20, <1>21, <1>22, <1>23,
     <1>24, <1>25, <1>26, <1>27, <1>28, <1>29, <1>30, <1>31, <1>32, <1>33
     DEF Next, Attempt, Service

LEMMA AskedStep ==
  ASSUME TypeOK, PhaseFits, CopyFits, AskedOf, AskedFit, [Next]_vars
  PROVE  AskedFit'
<1> SUFFICES ASSUME NoFault({"crash"})' PROVE (Once /\ Flagged)'
  BY DEF AskedFit
<1>a. "crash" \in FaultKinds /\ faults'["crash"] = 0
  BY DEF FaultKinds, NoFault
<1>b. Once /\ Flagged
  BY <1>a, FaultsStay DEF AskedFit, NoFault
<1>c. ~Fault("crash")
  BY <1>a, FaultCounts
<1>d. asked \in [Requests -> 0..2] /\ rp \in Properties /\ store \in Properties
  BY DEF TypeOK
<1>1. CASE Begin
  BY <1>b, <1>c, <1>d, <1>1 DEF Flagged, Once, Now, Active, PhaseFits, AskedOf,
     Requests, Properties, Verb, Begin, Permitted, cloud
<1>2. CASE Enter
  BY <1>b, <1>c, <1>d, <1>2 DEF Flagged, Once, Now, Active, PhaseFits, AskedOf,
     Requests, Properties, Verb, Enter, EntryPhase, End, Goto, CopyFits, cloud, call
<1>3. CASE RequestRaises
  BY <1>b, <1>c, <1>d, <1>3 DEF Flagged, Once, Now, Active, PhaseFits, AskedOf,
     Requests, Properties, Verb, RequestRaises, End, cloud, call
<1>4. CASE Create
  BY <1>b, <1>c, <1>d, <1>4 DEF Flagged, Once, Now, Active, PhaseFits, AskedOf,
     Requests, Properties, Verb, Create, End, call
<1>5. CASE Configure
  BY <1>b, <1>c, <1>d, <1>5 DEF Flagged, Once, Now, Active, PhaseFits, AskedOf,
     Requests, Properties, Verb, Configure, End, Goto, cloud, call
<1>6. CASE DropFirstGroup
  BY <1>b, <1>c, <1>d, <1>6 DEF Flagged, Once, Now, Active, PhaseFits, AskedOf,
     Requests, Properties, Verb, DropFirstGroup, Goto, call
<1>7. CASE AddGroups
  BY <1>b, <1>c, <1>d, <1>7 DEF Flagged, Once, Now, Active, PhaseFits, AskedOf,
     Requests, Properties, Verb, AddGroups, End, call
<1>8. CASE GroupsRaise
  BY <1>b, <1>c, <1>d, <1>8 DEF Flagged, Once, Now, Active, PhaseFits, AskedOf,
     Requests, Properties, Verb, GroupsRaise, End, cloud, call
<1>9. CASE PowerRead
  BY <1>b, <1>c, <1>d, <1>9 DEF Flagged, Once, Now, Active, PhaseFits, AskedOf,
     Requests, Properties, Verb, PowerRead, PowerDone, End, Goto, cloud, call
<1>10. CASE PowerRequest
  BY <1>b, <1>c, <1>d, <1>10 DEF Flagged, Once, Now, Active, PhaseFits, AskedOf,
     Requests, Properties, Verb, PowerRequest, Request, Starts, Accepts, Task, End,
     Goto, call
<1>11. CASE PowerCheck
  BY <1>b, <1>c, <1>d, <1>11 DEF Flagged, Once, Now, Active, PhaseFits, AskedOf,
     Requests, Properties, Verb, PowerCheck, PowerDone, End, Goto, cloud, call
<1>12. CASE PlainRequest
  BY <1>b, <1>c, <1>d, <1>12 DEF Flagged, Once, Now, Active, PhaseFits, AskedOf,
     Requests, Properties, Verb, PlainRequest, Starts, Accepts, Task, End, Goto,
     TypeOK, Operations, call
<1>13. CASE RebootCheck
  BY <1>b, <1>c, <1>d, <1>13 DEF Flagged, Once, Now, Active, PhaseFits, AskedOf,
     Requests, Properties, Verb, RebootCheck, End, cloud, call
<1>14. CASE Delete
  BY <1>b, <1>c, <1>d, <1>14 DEF Flagged, Once, Now, Active, PhaseFits, AskedOf,
     Requests, Properties, Verb, Delete, End, Goto, cloud, call
<1>15. CASE DeleteRequest
  BY <1>b, <1>c, <1>d, <1>15 DEF Flagged, Once, Now, Active, PhaseFits, AskedOf,
     Requests, Properties, Verb, DeleteRequest, Starts, Accepts, Task, End, call
<1>16. CASE SnapshotCreate
  BY <1>b, <1>c, <1>d, <1>16 DEF Flagged, Once, Now, Active, PhaseFits, AskedOf,
     Requests, Properties, Verb, SnapshotCreate, End, Goto, cloud, call
<1>17. CASE BackupRequest
  BY <1>b, <1>c, <1>d, <1>17 DEF Flagged, Once, Now, Active, PhaseFits, AskedOf,
     Requests, Properties, Verb, BackupRequest, Request, Starts, Accepts, Task, End,
     Goto, call
<1>18. CASE BackupCheck
  BY <1>b, <1>c, <1>d, <1>18 DEF Flagged, Once, Now, Active, PhaseFits, AskedOf,
     Requests, Properties, Verb, BackupCheck, TaskFinished, End, cloud, call
<1>19. CASE SnapshotApply
  BY <1>b, <1>c, <1>d, <1>19 DEF Flagged, Once, Now, Active, PhaseFits, AskedOf,
     Requests, Properties, Verb, SnapshotApply, End, Goto, cloud, call
<1>20. CASE RebuildRequest
  BY <1>b, <1>c, <1>d, <1>20 DEF Flagged, Once, Now, Active, PhaseFits, AskedOf,
     Requests, Properties, Verb, RebuildRequest, Request, Starts, Accepts, Task,
     End, Goto, CopyFits, call
<1>21. CASE RebuildCheck
  BY <1>b, <1>c, <1>d, <1>21 DEF Flagged, Once, Now, Active, PhaseFits, AskedOf,
     Requests, Properties, Verb, RebuildCheck, TaskFinished, End, Goto, cloud, call
<1>22. CASE SnapshotDelete
  BY <1>b, <1>c, <1>d, <1>22 DEF Flagged, Once, Now, Active, PhaseFits, AskedOf,
     Requests, Properties, Verb, SnapshotDelete, End, Goto, call
<1>23. CASE SnapshotDeleteCheck
  BY <1>b, <1>c, <1>d, <1>23 DEF Flagged, Once, Now, Active, PhaseFits, AskedOf,
     Requests, Properties, Verb, SnapshotDeleteCheck, End, cloud, call
<1>24. CASE Finish
  BY <1>b, <1>c, <1>d, <1>24 DEF Flagged, Once, Now, Active, PhaseFits, AskedOf,
     Requests, Properties, Verb, Finish, cloud
<1>25. CASE Retry
  BY <1>b, <1>c, <1>d, <1>25 DEF Flagged, Once, Now, Active, PhaseFits, AskedOf,
     Requests, Properties, Verb, Retry, cloud
<1>26. CASE GiveUp
  BY <1>b, <1>c, <1>d, <1>26 DEF Flagged, Once, Now, Active, PhaseFits, AskedOf,
     Requests, Properties, Verb, GiveUp, cloud, call
<1>27. CASE Crash
  BY <1>b, <1>c, <1>d, <1>27 DEF Flagged, Once, Now, Active, PhaseFits, AskedOf,
     Requests, Properties, Verb, Crash, cloud, call
<1>28. CASE ServiceCompletes
  BY <1>b, <1>c, <1>d, <1>28 DEF Flagged, Once, Now, Active, PhaseFits, AskedOf,
     Requests, Properties, Verb, ServiceCompletes, StatusAfter, call
<1>29. CASE PasswordPosted
  BY <1>b, <1>c, <1>d, <1>29 DEF Flagged, Once, Now, Active, PhaseFits, AskedOf,
     Requests, Properties, Verb, PasswordPosted, call
<1>30. CASE ImageRemoved
  BY <1>b, <1>c, <1>d, <1>30 DEF Flagged, Once, Now, Active, PhaseFits, AskedOf,
     Requests, Properties, Verb, ImageRemoved, call
<1>31. CASE ServiceFails
  BY <1>b, <1>c, <1>d, <1>31 DEF Flagged, Once, Now, Active, PhaseFits, AskedOf,
     Requests, Properties, Verb, ServiceFails, call
<1>32. CASE UserInterferes
  BY <1>b, <1>c, <1>d, <1>32 DEF Flagged, Once, Now, Active, PhaseFits, AskedOf,
     Requests, Properties, Verb, UserInterferes, Accepts, Task, call
<1>33. CASE UNCHANGED vars
  BY <1>b, <1>c, <1>d, <1>33 DEF Flagged, Once, Now, Active, PhaseFits, AskedOf,
     Requests, Properties, Verb, vars, cloud, call
<1> QED
  BY <1>1, <1>2, <1>3, <1>4, <1>5, <1>6, <1>7, <1>8, <1>9, <1>10, <1>11, <1>12,
     <1>13, <1>14, <1>15, <1>16, <1>17, <1>18, <1>19, <1>20, <1>21, <1>22, <1>23,
     <1>24, <1>25, <1>26, <1>27, <1>28, <1>29, <1>30, <1>31, <1>32, <1>33
     DEF Next, Attempt, Service

\* A request leaves the server there, with its groups.
LEMMA StartsKeeps ==
  ASSUME TypeOK, NEW r \in Requests, Accepts(r), Starts(r)
  PROVE  /\ server.status # "absent" /\ server'.status # "absent"
         /\ server'.groups = server.groups
BY DEF TypeOK, ServerStates, Accepts, Starts

\* What the operations leave alone in the properties.
LEMMA ChangesKeep ==
  ASSUME NEW p \in Properties, NEW f \in Flag
  PROVE  /\ [p EXCEPT !.stop = f].id = p.id /\ [p EXCEPT !.stop = f].groups = p.groups
         /\ [p EXCEPT !.start = f].id = p.id /\ [p EXCEPT !.start = f].groups = p.groups
         /\ [p EXCEPT !.backup = f].id = p.id /\ [p EXCEPT !.backup = f].groups = p.groups
         /\ [p EXCEPT !.restore = f].id = p.id
         /\ [p EXCEPT !.restore = f].groups = p.groups
         /\ [p EXCEPT !.start = "DONE", !.restore = "DONE"].id = p.id
         /\ [p EXCEPT !.start = "DONE", !.restore = "DONE"].groups = p.groups
         /\ [p EXCEPT !.restore = "rebuild_done"].id = p.id
         /\ [p EXCEPT !.delete = TRUE].id = p.id
BY DEF Properties, Flag

\* A request keeps what an id and a server say of each other.
LEMMA RequestIds ==
  ASSUME TypeOK, CopyFits, IdsFit, NEW r \in Requests, NEW p, p.id = rp.id,
         NEW next \in {"power_check", "backup_check", "rebuild_check"},
         phase \in {"power_request", "backup_request", "rebuild"},
         op \notin {"create", "delete"}, Request(r, p, next), UNCHANGED call
  PROVE  IdsFit'
<1>a. rp \in Properties /\ store \in Properties
  BY DEF TypeOK
<1>b. rp.id = store.id
  BY <1>a, ChangesKeep DEF CopyFits, Active, Flag
<1>1. CASE Accepts(r)
  <2>1. server.status # "absent" /\ server'.status # "absent"
    BY <1>1, StartsKeeps DEF Request
  <2>2. store.id
    BY <2>1 DEF IdsFit, JustCreated, Absent
  <2> QED
    BY <1>1, <1>b, <2>1, <2>2 DEF Request, IdsFit, Goto, call, JustCreated
<1>2. CASE ~Accepts(r)
  <2>1. phase # "rebuild" => rp = store
    BY DEF CopyFits, Active
  <2>3. phase = "rebuild" => store.id
    BY DEF IdsFit
  <2>2. ~rp.id => rp = Cleared
    BY <1>b, <2>1, <2>3 DEF IdsFit
  <2> QED
    BY <1>2, <1>b, <2>2 DEF Request, IdsFit, End, call, JustCreated
<1> QED
  BY <1>1, <1>2

\* A request keeps what is said of the groups.
LEMMA RequestGroups ==
  ASSUME TypeOK, CopyFits, GroupsFit, NEW r \in Requests, NEW p, p.groups = rp.groups,
         NEW next \in {"power_check", "backup_check", "rebuild_check"},
         phase \in {"power_request", "backup_request", "rebuild"},
         op \notin {"create", "configure"}, Request(r, p, next), UNCHANGED call
  PROVE  GroupsFit'
<1>a. rp \in Properties /\ store \in Properties
  BY DEF TypeOK
<1>b. rp.groups = store.groups
  BY <1>a, ChangesKeep DEF CopyFits, Active, Flag
<1>1. CASE Accepts(r)
  <2>1. server'.groups = server.groups
    BY <1>1, StartsKeeps DEF Request
  <2> QED
    BY <1>1, <1>b, <2>1 DEF Request, GroupsFit, Goto, call, JustCreated
<1>2. CASE ~Accepts(r)
  BY <1>2, <1>b DEF Request, GroupsFit, End, call, JustCreated
<1> QED
  BY <1>1, <1>2

LEMMA IdsStep ==
  ASSUME TypeOK, PhaseFits, CopyFits, IdsFit, [Next]_vars
  PROVE  IdsFit'
<1>a. rp \in Properties /\ store \in Properties /\ server \in ServerStates
      /\ Cleared \in Properties /\ ~Cleared.id
      /\ "DONE" \in Flag /\ "PENDING" \in Flag
      /\ op \in Operations
  BY DEF TypeOK, Properties, Cleared, Flag
<1>1. CASE Begin
  BY <1>a, <1>1 DEF IdsFit, PhaseFits, CopyFits, JustCreated, Active, Verb,
     Properties, ServerStates, Absent, Begin, Permitted, Operations, cloud
<1>2. CASE Enter
  BY <1>a, <1>2 DEF IdsFit, PhaseFits, CopyFits, JustCreated, Active, Verb,
     Properties, ServerStates, Absent, Enter, EntryPhase, End, Goto, Operations,
     cloud, call
<1>3. CASE RequestRaises
  <2>1. phase # "rebuild" => rp = store
    BY <1>3 DEF RequestRaises, CopyFits, Active
  <2>2. phase = "rebuild" => rp.id = store.id /\ op = "snapshot_apply"
    BY <1>a, ChangesKeep DEF CopyFits, Flag, PhaseFits
  <2>3. ~rp.id => rp = Cleared
    <3>1. phase = "rebuild" => store.id
      BY DEF IdsFit
    <3> QED
      BY <2>1, <2>2, <3>1 DEF IdsFit
  <2> QED
    BY <1>3, <2>1, <2>2, <2>3 DEF RequestRaises, IdsFit, JustCreated, End, cloud,
       call, PhaseFits
<1>4. CASE Create
  <2>1. rp = store /\ op = "create" /\ ~rp.id /\ rp = Cleared
    BY <1>4 DEF Create, CopyFits, Active, PhaseFits, IdsFit
  <2>2. CASE result' = "ok"
    <3>1. server'.status # "absent"
      BY <1>4, <2>2 DEF Create, End
    <3>2. rp'.id
      BY <1>4, <1>a, <2>2 DEF Create, End, Properties
    <3> QED
      BY <1>4, <2>1, <2>2, <3>1, <3>2 DEF Create, IdsFit, JustCreated, End, call
  <2>3. CASE result' # "ok"
    BY <1>4, <2>1, <2>3 DEF Create, IdsFit, JustCreated, End, call
  <2> QED
    BY <2>2, <2>3
<1>5. CASE Configure
  BY <1>a, <1>5 DEF IdsFit, PhaseFits, CopyFits, JustCreated, Active, Verb,
     Properties, ServerStates, Absent, Configure, End, Goto, cloud, call
<1>6. CASE DropFirstGroup
  BY <1>a, <1>6 DEF IdsFit, PhaseFits, CopyFits, JustCreated, Active, Verb,
     Properties, ServerStates, Absent, DropFirstGroup, Goto, call
<1>7. CASE AddGroups
  BY <1>a, <1>7 DEF IdsFit, PhaseFits, CopyFits, JustCreated, Active, Verb,
     Properties, ServerStates, Absent, AddGroups, End, call
<1>8. CASE GroupsRaise
  BY <1>a, <1>8 DEF IdsFit, PhaseFits, CopyFits, JustCreated, Active, Verb,
     Properties, ServerStates, Absent, GroupsRaise, End, cloud, call
<1>9. CASE PowerRead
  <2>1. store.id /\ rp = store /\ op \notin {"create", "delete"}
    BY <1>9 DEF PowerRead, IdsFit, CopyFits, Active, PhaseFits, JustCreated, Absent
  <2>2. rp'.id = rp.id /\ store'.id = store.id
    <3>1. CASE PowerDone
      <4>1. /\ [rp EXCEPT !.start = "DONE", !.restore = "DONE"].id = rp.id
            /\ [rp EXCEPT !.stop = "DONE"].id = rp.id
        BY <1>a DEF Properties
      <4> QED
        BY <2>1, <3>1, <4>1 DEF PowerDone
    <3> QED
      BY <1>9, <3>1 DEF PowerRead
  <2> QED
    BY <1>9, <2>1, <2>2 DEF PowerRead, PowerDone, End, Goto, IdsFit, JustCreated,
       cloud, call
<1>10. CASE PowerRequest
  <2>1. /\ Verb \in Requests
        /\ [rp EXCEPT ![Verb] = "PENDING"].id = rp.id
        /\ [rp EXCEPT ![Verb] = "PENDING"].groups = rp.groups
    BY <1>a, ChangesKeep DEF Verb, Requests, Flag
  <2> QED
    BY <1>10, <2>1, RequestIds DEF PowerRequest, PhaseFits
<1>11. CASE PowerCheck
  <2>1. store.id /\ rp = store /\ op \notin {"create", "delete"}
    BY <1>11 DEF PowerCheck, IdsFit, CopyFits, Active, PhaseFits, JustCreated,
       Absent
  <2>2. rp'.id = rp.id /\ store'.id = store.id
    <3>1. CASE PowerDone
      <4>1. /\ [rp EXCEPT !.start = "DONE", !.restore = "DONE"].id = rp.id
            /\ [rp EXCEPT !.stop = "DONE"].id = rp.id
        BY <1>a DEF Properties
      <4> QED
        BY <2>1, <3>1, <4>1 DEF PowerDone
    <3> QED
      BY <1>11, <3>1 DEF PowerCheck
  <2> QED
    BY <1>11, <2>1, <2>2 DEF PowerCheck, PowerDone, End, Goto, IdsFit, JustCreated,
       cloud, call
<1>12. CASE PlainRequest
  <2>1. op \in Requests /\ op \notin {"create", "delete"} /\ rp = store
    BY <1>12 DEF PlainRequest, PhaseFits, Requests, CopyFits, Active
  <2>2. CASE Accepts(op)
    <3>1. server.status # "absent" /\ server'.status # "absent"
      BY <1>12, <2>1, <2>2, StartsKeeps DEF PlainRequest
    <3> QED
      BY <1>12, <2>1, <2>2, <3>1 DEF PlainRequest, IdsFit, JustCreated, End, Goto,
         call, Absent
  <2>3. CASE ~Accepts(op)
    BY <1>12, <2>1, <2>3 DEF PlainRequest, IdsFit, JustCreated, End, call
  <2> QED
    BY <2>2, <2>3
<1>13. CASE RebootCheck
  BY <1>a, <1>13 DEF IdsFit, PhaseFits, CopyFits, JustCreated, Active, Verb,
     Properties, ServerStates, Absent, RebootCheck, End, cloud, call
<1>14. CASE Delete
  BY <1>a, <1>14 DEF IdsFit, PhaseFits, CopyFits, JustCreated, Active, Verb,
     Properties, ServerStates, Absent, Delete, End, Goto, cloud, call
<1>15. CASE DeleteRequest
  <2>1. op = "delete" /\ rp = store /\ "delete" \in Requests
    BY <1>15 DEF DeleteRequest, PhaseFits, CopyFits, Active, Requests
  <2>2. CASE Accepts("delete")
    <3>1. server.status # "absent" /\ server'.status # "absent"
      BY <1>15, <2>1, <2>2, StartsKeeps DEF DeleteRequest
    <3>2. store.id
      BY <1>a, <2>1, <3>1 DEF IdsFit, JustCreated, Absent
    <3>3. rp'.id = rp.id
      BY <1>15, <1>a, <2>2, ChangesKeep DEF DeleteRequest
    <3> QED
      BY <1>15, <2>1, <2>2, <3>1, <3>2, <3>3 DEF DeleteRequest, IdsFit, JustCreated,
         End, call
  <2>3. CASE ~Accepts("delete")
    BY <1>15, <2>1, <2>3 DEF DeleteRequest, IdsFit, JustCreated, End, call
  <2> QED
    BY <2>2, <2>3
<1>16. CASE SnapshotCreate
  BY <1>a, <1>16 DEF IdsFit, PhaseFits, CopyFits, JustCreated, Active, Verb,
     Properties, ServerStates, Absent, SnapshotCreate, End, Goto, cloud, call
<1>17. CASE BackupRequest
  <2>1. /\ "backup" \in Requests
        /\ [rp EXCEPT !.backup = "PENDING"].id = rp.id
        /\ [rp EXCEPT !.backup = "PENDING"].groups = rp.groups
    BY <1>a, ChangesKeep DEF Requests, Flag
  <2> QED
    BY <1>17, <2>1, RequestIds DEF BackupRequest, PhaseFits
<1>18. CASE BackupCheck
  BY <1>a, <1>18 DEF IdsFit, PhaseFits, CopyFits, JustCreated, Active, Verb,
     Properties, ServerStates, Absent, BackupCheck, TaskFinished, End, cloud, call
<1>19. CASE SnapshotApply
  BY <1>a, <1>19 DEF IdsFit, PhaseFits, CopyFits, JustCreated, Active, Verb,
     Properties, ServerStates, Absent, SnapshotApply, End, Goto, cloud, call
<1>20. CASE RebuildRequest
  <2>1. /\ "rebuild" \in Requests
        /\ [rp EXCEPT !.restore = "PENDING"].id = rp.id
        /\ [rp EXCEPT !.restore = "PENDING"].groups = rp.groups
    BY <1>a, ChangesKeep DEF Requests, Flag
  <2> QED
    BY <1>20, <2>1, RequestIds DEF RebuildRequest, PhaseFits
<1>21. CASE RebuildCheck
  BY <1>a, <1>21 DEF IdsFit, PhaseFits, CopyFits, JustCreated, Active, Verb,
     Properties, ServerStates, Absent, RebuildCheck, TaskFinished, End, Goto, cloud,
     call
<1>22. CASE SnapshotDelete
  BY <1>a, <1>22 DEF IdsFit, PhaseFits, CopyFits, JustCreated, Active, Verb,
     Properties, ServerStates, Absent, SnapshotDelete, End, Goto, call
<1>23. CASE SnapshotDeleteCheck
  <2>1. rp = store /\ op = "snapshot_delete"
    BY <1>23 DEF SnapshotDeleteCheck, CopyFits, Active, PhaseFits
  <2>2. rp'.id = rp.id /\ (rp = Cleared => rp' = Cleared)
    BY <1>23, <1>a DEF SnapshotDeleteCheck, Properties, Cleared
  <2> QED
    BY <1>23, <2>1, <2>2 DEF SnapshotDeleteCheck, IdsFit, JustCreated, End, cloud,
       call
<1>24. CASE Finish
  BY <1>a, <1>24 DEF IdsFit, PhaseFits, CopyFits, JustCreated, Active, Verb,
     Properties, ServerStates, Absent, Finish, cloud
<1>25. CASE Retry
  BY <1>a, <1>25 DEF IdsFit, PhaseFits, CopyFits, JustCreated, Active, Verb,
     Properties, ServerStates, Absent, Retry, cloud
<1>26. CASE GiveUp
  BY <1>a, <1>26 DEF IdsFit, PhaseFits, CopyFits, JustCreated, Active, Verb,
     Properties, ServerStates, Absent, GiveUp, cloud, call
<1>27. CASE Crash
  BY <1>a, <1>27 DEF IdsFit, PhaseFits, CopyFits, JustCreated, Active, Verb,
     Properties, ServerStates, Absent, Crash, cloud, call
<1>28. CASE ServiceCompletes
  <2>1. server # Absent
    BY <1>28 DEF ServiceCompletes, Absent
  <2>2. server' = Absent \/ server'.status # "absent"
    BY <1>28, <1>a, <2>1 DEF ServiceCompletes, StatusAfter, IdsFit, ServerStates
  <2> QED
    BY <1>28, <2>1, <2>2 DEF ServiceCompletes, IdsFit, JustCreated, call
<1>29. CASE PasswordPosted
  BY <1>a, <1>29 DEF IdsFit, PhaseFits, CopyFits, JustCreated, Active, Verb,
     Properties, ServerStates, Absent, PasswordPosted, call
<1>30. CASE ImageRemoved
  BY <1>a, <1>30 DEF IdsFit, PhaseFits, CopyFits, JustCreated, Active, Verb,
     Properties, ServerStates, Absent, ImageRemoved, call
<1>31. CASE ServiceFails
  <2>1. server # Absent
    BY <1>31 DEF ServiceFails, Absent
  <2>2. server'.status # "absent"
    BY <1>31, <1>a, <2>1 DEF ServiceFails, IdsFit, ServerStates
  <2> QED
    BY <1>31, <2>1, <2>2 DEF ServiceFails, IdsFit, JustCreated, call
<1>32. CASE UserInterferes
  BY <1>a, <1>32 DEF IdsFit, PhaseFits, CopyFits, JustCreated, Active, Verb,
     Properties, ServerStates, Absent, UserInterferes, Accepts, Task, call
<1>33. CASE UNCHANGED vars
  BY <1>a, <1>33 DEF IdsFit, PhaseFits, CopyFits, JustCreated, Active, Verb,
     Properties, ServerStates, Absent, vars, cloud, call
<1> QED
  BY <1>1, <1>2, <1>3, <1>4, <1>5, <1>6, <1>7, <1>8, <1>9, <1>10, <1>11, <1>12,
     <1>13, <1>14, <1>15, <1>16, <1>17, <1>18, <1>19, <1>20, <1>21, <1>22, <1>23,
     <1>24, <1>25, <1>26, <1>27, <1>28, <1>29, <1>30, <1>31, <1>32, <1>33
     DEF Next, Attempt, Service

\* While create has not made its server there is none, and no crash is forgotten.
LEMMA OrphanStep ==
  ASSUME TypeOK, PhaseFits, IdsFit, OrphanFits, [Next]_vars
  PROVE  OrphanFits'
<1>a. "crash" \in FaultKinds
  BY DEF FaultKinds
<1>b. NoFault({"crash"})' => NoFault({"crash"})
  BY <1>a, FaultsStay DEF NoFault
<1>1. CASE Create
  <2>1. server.status = "absent"
    BY <1>1 DEF Create, PhaseFits, IdsFit, JustCreated, Absent
  <2> QED
    BY <1>1, <1>b, <2>1 DEF Create, OrphanFits
<1>2. CASE Crash
  <2>1. ~NoFault({"crash"})'
    BY <1>2, <1>a, FaultCounts DEF Crash, NoFault
  <2> QED
    BY <2>1 DEF OrphanFits
<1>3. CASE UNCHANGED orphaned
  BY <1>3, <1>b DEF OrphanFits
<1>4. Create \/ Crash \/ UNCHANGED orphaned
  BY DEF Next, Attempt, Service, vars, call, Begin, Enter, RequestRaises, Configure,
     DropFirstGroup, AddGroups, GroupsRaise, PowerRead, PowerRequest, PowerCheck,
     PlainRequest, RebootCheck, Delete, DeleteRequest, SnapshotCreate, BackupRequest,
     BackupCheck, SnapshotApply, RebuildRequest, RebuildCheck, SnapshotDelete,
     SnapshotDeleteCheck, Finish, Retry, GiveUp, ServiceCompletes, PasswordPosted,
     ImageRemoved, ServiceFails, UserInterferes
<1> QED
  BY <1>1, <1>2, <1>3, <1>4

LEMMA StopStep ==
  ASSUME TypeOK, PhaseFits, CopyFits, StopCalm, [Next]_vars
  PROVE  StopCalm'
<1>a. "user" \in FaultKinds
  BY DEF FaultKinds
<1>b. NoFault({"user"})' => NoFault({"user"}) /\ ~Fault("user")
  BY <1>a, FaultsStay, FaultCounts DEF NoFault
<1>c. rp \in Properties /\ store \in Properties /\ server \in ServerStates
  BY DEF TypeOK
<1>1. CASE Begin
  BY <1>b, <1>c, <1>1 DEF StopCalm, PhaseFits, ServerStates, Properties, Verb,
     Begin, Permitted, cloud
<1>2. CASE Enter
  BY <1>b, <1>c, <1>2 DEF StopCalm, PhaseFits, ServerStates, Properties, Verb,
     Enter, EntryPhase, End, Goto, cloud, call
<1>3. CASE RequestRaises
  BY <1>b, <1>c, <1>3 DEF StopCalm, PhaseFits, ServerStates, Properties, Verb,
     RequestRaises, End, cloud, call
<1>4. CASE Create
  BY <1>b, <1>c, <1>4 DEF StopCalm, PhaseFits, ServerStates, Properties, Verb,
     Create, End, call
<1>5. CASE Configure
  BY <1>b, <1>c, <1>5 DEF StopCalm, PhaseFits, ServerStates, Properties, Verb,
     Configure, End, Goto, cloud, call
<1>6. CASE DropFirstGroup
  BY <1>b, <1>c, <1>6 DEF StopCalm, PhaseFits, ServerStates, Properties, Verb,
     DropFirstGroup, Goto, call
<1>7. CASE AddGroups
  BY <1>b, <1>c, <1>7 DEF StopCalm, PhaseFits, ServerStates, Properties, Verb,
     AddGroups, End, call
<1>8. CASE GroupsRaise
  BY <1>b, <1>c, <1>8 DEF StopCalm, PhaseFits, ServerStates, Properties, Verb,
     GroupsRaise, End, cloud, call
<1>9. CASE PowerRead
  BY <1>b, <1>c, <1>9 DEF StopCalm, PhaseFits, ServerStates, Properties, Verb,
     Target, PowerRead, PowerDone, End, Goto, cloud, call
<1>10. CASE PowerRequest
  BY <1>b, <1>c, <1>10 DEF StopCalm, PhaseFits, ServerStates, Properties, Verb,
     PowerRequest, Request, Starts, Accepts, Task, End, Goto, call
<1>11. CASE PowerCheck
  BY <1>b, <1>c, <1>11 DEF StopCalm, PhaseFits, ServerStates, Properties, Verb,
     Target, PowerCheck, PowerDone, End, Goto, cloud, call
<1>12. CASE PlainRequest
  BY <1>b, <1>c, <1>12 DEF StopCalm, PhaseFits, ServerStates, Properties, Verb,
     PlainRequest, Starts, Accepts, Task, End, Goto, call
<1>13. CASE RebootCheck
  BY <1>b, <1>c, <1>13 DEF StopCalm, PhaseFits, ServerStates, Properties, Verb,
     RebootCheck, End, cloud, call
<1>14. CASE Delete
  BY <1>b, <1>c, <1>14 DEF StopCalm, PhaseFits, ServerStates, Properties, Verb,
     Delete, End, Goto, cloud, call
<1>15. CASE DeleteRequest
  BY <1>b, <1>c, <1>15 DEF StopCalm, PhaseFits, ServerStates, Properties, Verb,
     DeleteRequest, Starts, Accepts, Task, End, call
<1>16. CASE SnapshotCreate
  BY <1>b, <1>c, <1>16 DEF StopCalm, PhaseFits, ServerStates, Properties, Verb,
     SnapshotCreate, End, Goto, cloud, call
<1>17. CASE BackupRequest
  BY <1>b, <1>c, <1>17 DEF StopCalm, PhaseFits, ServerStates, Properties, Verb,
     BackupRequest, Request, Starts, Accepts, Task, End, Goto, call
<1>18. CASE BackupCheck
  BY <1>b, <1>c, <1>18 DEF StopCalm, PhaseFits, ServerStates, Properties, Verb,
     BackupCheck, TaskFinished, End, cloud, call
<1>19. CASE SnapshotApply
  BY <1>b, <1>c, <1>19 DEF StopCalm, PhaseFits, ServerStates, Properties, Verb,
     SnapshotApply, End, Goto, cloud, call
<1>20. CASE RebuildRequest
  BY <1>b, <1>c, <1>20 DEF StopCalm, PhaseFits, ServerStates, Properties, Verb,
     RebuildRequest, Request, Starts, Accepts, Task, End, Goto, call
<1>21. CASE RebuildCheck
  BY <1>b, <1>c, <1>21 DEF StopCalm, PhaseFits, ServerStates, Properties, Verb,
     RebuildCheck, TaskFinished, End, Goto, cloud, call
<1>22. CASE SnapshotDelete
  BY <1>b, <1>c, <1>22 DEF StopCalm, PhaseFits, ServerStates, Properties, Verb,
     SnapshotDelete, End, Goto, call
<1>23. CASE SnapshotDeleteCheck
  BY <1>b, <1>c, <1>23 DEF StopCalm, PhaseFits, ServerStates, Properties, Verb,
     SnapshotDeleteCheck, End, cloud, call
<1>24. CASE Finish
  BY <1>b, <1>c, <1>24 DEF StopCalm, PhaseFits, ServerStates, Properties, Verb,
     Finish, cloud
<1>25. CASE Retry
  BY <1>b, <1>c, <1>25 DEF StopCalm, PhaseFits, ServerStates, Properties, Verb,
     Retry, cloud
<1>26. CASE GiveUp
  BY <1>b, <1>c, <1>26 DEF StopCalm, PhaseFits, ServerStates, Properties, Verb,
     GiveUp, cloud, call
<1>27. CASE Crash
  BY <1>b, <1>c, <1>27 DEF StopCalm, PhaseFits, ServerStates, Properties, Verb,
     Crash, cloud, call
<1>28. CASE ServiceCompletes
  BY <1>b, <1>c, <1>28 DEF StopCalm, PhaseFits, ServerStates, Properties, Verb,
     ServiceCompletes, StatusAfter, call
<1>29. CASE PasswordPosted
  BY <1>b, <1>c, <1>29 DEF StopCalm, PhaseFits, ServerStates, Properties, Verb,
     PasswordPosted, call
<1>30. CASE ImageRemoved
  BY <1>b, <1>c, <1>30 DEF StopCalm, PhaseFits, ServerStates, Properties, Verb,
     ImageRemoved, call
<1>31. CASE ServiceFails
  BY <1>b, <1>c, <1>31 DEF StopCalm, PhaseFits, ServerStates, Properties, Verb,
     ServiceFails, call
<1>32. CASE UserInterferes
  BY <1>b, <1>c, <1>32 DEF StopCalm, PhaseFits, ServerStates, Properties, Verb,
     UserInterferes, Accepts, Task, call
<1>33. CASE UNCHANGED vars
  BY <1>b, <1>c, <1>33 DEF StopCalm, PhaseFits, ServerStates, Properties, Verb,
     vars, cloud, call
<1> QED
  BY <1>1, <1>2, <1>3, <1>4, <1>5, <1>6, <1>7, <1>8, <1>9, <1>10, <1>11, <1>12,
     <1>13, <1>14, <1>15, <1>16, <1>17, <1>18, <1>19, <1>20, <1>21, <1>22, <1>23,
     <1>24, <1>25, <1>26, <1>27, <1>28, <1>29, <1>30, <1>31, <1>32, <1>33
     DEF Next, Attempt, Service

LEMMA ImageStep ==
  ASSUME TypeOK, PhaseFits, CopyFits, ImageComes, [Next]_vars
  PROVE  ImageComes'
<1>a. "user" \in FaultKinds /\ "error" \in FaultKinds
  BY DEF FaultKinds
<1>b. NoFault({"user", "error"})' =>
        NoFault({"user", "error"}) /\ ~Fault("user") /\ ~Fault("error")
  BY <1>a, FaultsStay, FaultCounts DEF NoFault
<1>c. rp \in Properties /\ store \in Properties /\ server \in ServerStates
  BY DEF TypeOK
<1>d. name \in Names /\ images \in [Names -> {"absent", "queued", "active", "deleting"}]
  BY DEF TypeOK
<1>1. CASE Begin
  BY <1>b, <1>c, <1>d, <1>1 DEF ImageComes, Now, Active, PhaseFits, CopyFits,
     ServerStates, Properties, Verb, Begin, Permitted, cloud
<1>2. CASE Enter
  BY <1>b, <1>c, <1>d, <1>2 DEF ImageComes, Now, Active, PhaseFits, CopyFits,
     ServerStates, Properties, Verb, Enter, EntryPhase, End, Goto, cloud, call
<1>3. CASE RequestRaises
  BY <1>b, <1>c, <1>d, <1>3 DEF ImageComes, Now, Active, PhaseFits, CopyFits,
     ServerStates, Properties, Verb, RequestRaises, End, cloud, call
<1>4. CASE Create
  BY <1>b, <1>c, <1>d, <1>4 DEF ImageComes, Now, Active, PhaseFits, CopyFits,
     ServerStates, Properties, Verb, Create, End, call
<1>5. CASE Configure
  BY <1>b, <1>c, <1>d, <1>5 DEF ImageComes, Now, Active, PhaseFits, CopyFits,
     ServerStates, Properties, Verb, Configure, End, Goto, cloud, call
<1>6. CASE DropFirstGroup
  BY <1>b, <1>c, <1>d, <1>6 DEF ImageComes, Now, Active, PhaseFits, CopyFits,
     ServerStates, Properties, Verb, DropFirstGroup, Goto, call
<1>7. CASE AddGroups
  BY <1>b, <1>c, <1>d, <1>7 DEF ImageComes, Now, Active, PhaseFits, CopyFits,
     ServerStates, Properties, Verb, AddGroups, End, call
<1>8. CASE GroupsRaise
  BY <1>b, <1>c, <1>d, <1>8 DEF ImageComes, Now, Active, PhaseFits, CopyFits,
     ServerStates, Properties, Verb, GroupsRaise, End, cloud, call
<1>9. CASE PowerRead
  BY <1>b, <1>c, <1>d, <1>9 DEF ImageComes, Now, Active, PhaseFits, CopyFits,
     ServerStates, Properties, Verb, PowerRead, PowerDone, End, Goto, cloud, call
<1>10. CASE PowerRequest
  BY <1>b, <1>c, <1>d, <1>10 DEF ImageComes, Now, Active, PhaseFits, CopyFits,
     ServerStates, Properties, Verb, PowerRequest, Request, Starts, Accepts, Task,
     End, Goto, call
<1>11. CASE PowerCheck
  BY <1>b, <1>c, <1>d, <1>11 DEF ImageComes, Now, Active, PhaseFits, CopyFits,
     ServerStates, Properties, Verb, PowerCheck, PowerDone, End, Goto, cloud, call
<1>12. CASE PlainRequest
  BY <1>b, <1>c, <1>d, <1>12 DEF ImageComes, Now, Active, PhaseFits, CopyFits,
     ServerStates, Properties, Verb, PlainRequest, Starts, Accepts, Task, End, Goto,
     call
<1>13. CASE RebootCheck
  BY <1>b, <1>c, <1>d, <1>13 DEF ImageComes, Now, Active, PhaseFits, CopyFits,
     ServerStates, Properties, Verb, RebootCheck, End, cloud, call
<1>14. CASE Delete
  BY <1>b, <1>c, <1>d, <1>14 DEF ImageComes, Now, Active, PhaseFits, CopyFits,
     ServerStates, Properties, Verb, Delete, End, Goto, cloud, call
<1>15. CASE DeleteRequest
  BY <1>b, <1>c, <1>d, <1>15 DEF ImageComes, Now, Active, PhaseFits, CopyFits,
     ServerStates, Properties, Verb, DeleteRequest, Starts, Accepts, Task, End, call
<1>16. CASE SnapshotCreate
  BY <1>b, <1>c, <1>d, <1>16 DEF ImageComes, Now, Active, PhaseFits, CopyFits,
     ServerStates, Properties, Verb, SnapshotCreate, End, Goto, cloud, call
<1>17. CASE BackupRequest
  BY <1>b, <1>c, <1>d, <1>17 DEF ImageComes, Now, Active, PhaseFits, CopyFits,
     ServerStates, Properties, Verb, BackupRequest, Request, Starts, Accepts, Task,
     End, Goto, call
<1>18. CASE BackupCheck
  BY <1>b, <1>c, <1>d, <1>18 DEF ImageComes, Now, Active, PhaseFits, CopyFits,
     ServerStates, Properties, Verb, BackupCheck, TaskFinished, End, cloud, call
<1>19. CASE SnapshotApply
  BY <1>b, <1>c, <1>d, <1>19 DEF ImageComes, Now, Active, PhaseFits, CopyFits,
     ServerStates, Properties, Verb, SnapshotApply, End, Goto, cloud, call
<1>20. CASE RebuildRequest
  BY <1>b, <1>c, <1>d, <1>20 DEF ImageComes, Now, Active, PhaseFits, CopyFits,
     ServerStates, Properties, Verb, RebuildRequest, Request, Starts, Accepts, Task,
     End, Goto, call
<1>21. CASE RebuildCheck
  BY <1>b, <1>c, <1>d, <1>21 DEF ImageComes, Now, Active, PhaseFits, CopyFits,
     ServerStates, Properties, Verb, RebuildCheck, TaskFinished, End, Goto, cloud,
     call
<1>22. CASE SnapshotDelete
  BY <1>b, <1>c, <1>d, <1>22 DEF ImageComes, Now, Active, PhaseFits, CopyFits,
     ServerStates, Properties, Verb, SnapshotDelete, End, Goto, call
<1>23. CASE SnapshotDeleteCheck
  BY <1>b, <1>c, <1>d, <1>23 DEF ImageComes, Now, Active, PhaseFits, CopyFits,
     ServerStates, Properties, Verb, SnapshotDeleteCheck, End, cloud, call
<1>24. CASE Finish
  BY <1>b, <1>c, <1>d, <1>24 DEF ImageComes, Now, Active, PhaseFits, CopyFits,
     ServerStates, Properties, Verb, Finish, cloud
<1>25. CASE Retry
  BY <1>b, <1>c, <1>d, <1>25 DEF ImageComes, Now, Active, PhaseFits, CopyFits,
     ServerStates, Properties, Verb, Retry, cloud
<1>26. CASE GiveUp
  BY <1>b, <1>c, <1>d, <1>26 DEF ImageComes, Now, Active, PhaseFits, CopyFits,
     ServerStates, Properties, Verb, GiveUp, cloud, call
<1>27. CASE Crash
  BY <1>b, <1>c, <1>d, <1>27 DEF ImageComes, Now, Active, PhaseFits, CopyFits,
     ServerStates, Properties, Verb, Crash, cloud, call
<1>28. CASE ServiceCompletes
  BY <1>b, <1>c, <1>d, <1>28 DEF ImageComes, Now, Active, PhaseFits, CopyFits,
     ServerStates, Properties, Verb, ServiceCompletes, StatusAfter, call
<1>29. CASE PasswordPosted
  BY <1>b, <1>c, <1>d, <1>29 DEF ImageComes, Now, Active, PhaseFits, CopyFits,
     ServerStates, Properties, Verb, PasswordPosted, call
<1>30. CASE ImageRemoved
  BY <1>b, <1>c, <1>d, <1>30 DEF ImageComes, Now, Active, PhaseFits, CopyFits,
     ServerStates, Properties, Verb, ImageRemoved, call
<1>31. CASE ServiceFails
  BY <1>b, <1>c, <1>d, <1>31 DEF ImageComes, Now, Active, PhaseFits, CopyFits,
     ServerStates, Properties, Verb, ServiceFails, call
<1>32. CASE UserInterferes
  BY <1>b, <1>c, <1>d, <1>32 DEF ImageComes, Now, Active, PhaseFits, CopyFits,
     ServerStates, Properties, Verb, UserInterferes, Accepts, Task, call
<1>33. CASE UNCHANGED vars
  BY <1>b, <1>c, <1>d, <1>33 DEF ImageComes, Now, Active, PhaseFits, CopyFits,
     ServerStates, Properties, Verb, vars, cloud, call
<1> QED
  BY <1>1, <1>2, <1>3, <1>4, <1>5, <1>6, <1>7, <1>8, <1>9, <1>10, <1>11, <1>12,
     <1>13, <1>14, <1>15, <1>16, <1>17, <1>18, <1>19, <1>20, <1>21, <1>22, <1>23,
     <1>24, <1>25, <1>26, <1>27, <1>28, <1>29, <1>30, <1>31, <1>32, <1>33
     DEF Next, Attempt, Service

LEMMA RestoreStep ==
  ASSUME TypeOK, PhaseFits, CopyFits, RestoreCalm, [Next]_vars
  PROVE  RestoreCalm'
<1>a. "user" \in FaultKinds
  BY DEF FaultKinds
<1>b. NoFault({"user"})' => NoFault({"user"}) /\ ~Fault("user")
  BY <1>a, FaultsStay, FaultCounts DEF NoFault
<1>c. rp \in Properties /\ store \in Properties /\ server \in ServerStates
  BY DEF TypeOK
<1>d. asked \in [Requests -> 0..2]
  BY DEF TypeOK
<1>1. CASE Begin
  BY <1>b, <1>c, <1>d, <1>1 DEF RestoreCalm, Now, Active, PhaseFits, CopyFits,
     ServerStates, Properties, Requests, Verb, Begin, Permitted, cloud
<1>2. CASE Enter
  BY <1>b, <1>c, <1>d, <1>2 DEF RestoreCalm, Now, Active, PhaseFits, CopyFits,
     ServerStates, Properties, Requests, Verb, Enter, EntryPhase, End, Goto, cloud,
     call
<1>3. CASE RequestRaises
  BY <1>b, <1>c, <1>d, <1>3 DEF RestoreCalm, Now, Active, PhaseFits, CopyFits,
     ServerStates, Properties, Requests, Verb, RequestRaises, End, cloud, call
<1>4. CASE Create
  BY <1>b, <1>c, <1>d, <1>4 DEF RestoreCalm, Now, Active, PhaseFits, CopyFits,
     ServerStates, Properties, Requests, Verb, Create, End, call
<1>5. CASE Configure
  BY <1>b, <1>c, <1>d, <1>5 DEF RestoreCalm, Now, Active, PhaseFits, CopyFits,
     ServerStates, Properties, Requests, Verb, Configure, End, Goto, cloud, call
<1>6. CASE DropFirstGroup
  BY <1>b, <1>c, <1>d, <1>6 DEF RestoreCalm, Now, Active, PhaseFits, CopyFits,
     ServerStates, Properties, Requests, Verb, DropFirstGroup, Goto, call
<1>7. CASE AddGroups
  BY <1>b, <1>c, <1>d, <1>7 DEF RestoreCalm, Now, Active, PhaseFits, CopyFits,
     ServerStates, Properties, Requests, Verb, AddGroups, End, call
<1>8. CASE GroupsRaise
  BY <1>b, <1>c, <1>d, <1>8 DEF RestoreCalm, Now, Active, PhaseFits, CopyFits,
     ServerStates, Properties, Requests, Verb, GroupsRaise, End, cloud, call
<1>9. CASE PowerRead
  BY <1>b, <1>c, <1>d, <1>9 DEF RestoreCalm, Now, Active, PhaseFits, CopyFits,
     ServerStates, Properties, Requests, Verb, Target, PowerRead, PowerDone, End,
     Goto, cloud, call
<1>10. CASE PowerRequest
  <2>1. rp = store /\ (rp.restore = "none" => Verb = "stop")
        /\ (rp.restore # "none" /\ op = "snapshot_apply" => Verb = "start")
    BY <1>10 DEF PowerRequest, CopyFits, Active, PhaseFits, Verb
  <2>2. CASE Verb = "stop"
    <3>1. /\ [rp EXCEPT !.stop = "PENDING"].restore = rp.restore
          /\ [rp EXCEPT ![Verb] = "PENDING"] = [rp EXCEPT !.stop = "PENDING"]
      BY <1>c, <2>2 DEF Properties
    <3>2. CASE Accepts("stop")
      BY <1>10, <1>b, <1>c, <1>d, <2>1, <2>2, <3>1, <3>2 DEF RestoreCalm, Now,
         Active, PhaseFits, ServerStates, Requests, PowerRequest, Request, Starts,
         Accepts, Task, Goto, call
    <3>3. CASE ~Accepts("stop")
      BY <1>10, <1>b, <2>1, <2>2, <3>3 DEF RestoreCalm, Now, Active, PhaseFits,
         PowerRequest, Request, End, call
    <3> QED
      BY <3>2, <3>3
  <2>3. CASE Verb = "start"
    <3>1. /\ [rp EXCEPT !.start = "PENDING"].restore = rp.restore
          /\ [rp EXCEPT !.start = "PENDING"].stop = rp.stop
          /\ [rp EXCEPT ![Verb] = "PENDING"] = [rp EXCEPT !.start = "PENDING"]
      BY <1>c, <2>3 DEF Properties
    <3>2. CASE Accepts("start")
      <4>1. /\ server' = [server EXCEPT !.task = "powering-on"] /\ server.status = "SHUTOFF"
            /\ asked'["rebuild"] = asked["rebuild"]
        BY <1>10, <1>c, <1>d, <2>3, <3>2 DEF PowerRequest, Request, Starts, Accepts,
           Task, ServerStates, Requests
      <4>2. server'.task = "powering-on" /\ server'.status = "SHUTOFF"
        BY <1>c, <4>1 DEF ServerStates
      <4>3. phase' \in {"begin", "power_check"} /\ UNCHANGED call
        BY <1>10, <2>3, <3>2 DEF PowerRequest, Request, Goto
      <4>4. Now = rp /\ Now'.restore = rp.restore /\ Now'.stop = rp.stop
        BY <1>10, <2>1, <2>3, <3>1, <3>2 DEF Now, Active, PowerRequest, Request,
           Goto
      <4> QED
        BY <1>10, <1>b, <4>1, <4>2, <4>3, <4>4 DEF RestoreCalm, PowerRequest, call
    <3>3. CASE ~Accepts("start")
      BY <1>10, <1>b, <2>1, <2>3, <3>3 DEF RestoreCalm, Now, Active, PhaseFits,
         PowerRequest, Request, End, call
    <3> QED
      BY <3>2, <3>3
  <2> QED
    BY <2>2, <2>3 DEF Verb
<1>11. CASE PowerCheck
  BY <1>b, <1>c, <1>d, <1>11 DEF RestoreCalm, Now, Active, PhaseFits, CopyFits,
     ServerStates, Properties, Requests, Verb, Target, PowerCheck, PowerDone, End,
     Goto, cloud, call
<1>12. CASE PlainRequest
  BY <1>b, <1>c, <1>d, <1>12 DEF RestoreCalm, Now, Active, PhaseFits, CopyFits,
     ServerStates, Properties, Requests, Verb, PlainRequest, Starts, Accepts, Task,
     End, Goto, call
<1>13. CASE RebootCheck
  BY <1>b, <1>c, <1>d, <1>13 DEF RestoreCalm, Now, Active, PhaseFits, CopyFits,
     ServerStates, Properties, Requests, Verb, RebootCheck, End, cloud, call
<1>14. CASE Delete
  BY <1>b, <1>c, <1>d, <1>14 DEF RestoreCalm, Now, Active, PhaseFits, CopyFits,
     ServerStates, Properties, Requests, Verb, Delete, End, Goto, cloud, call
<1>15. CASE DeleteRequest
  BY <1>b, <1>c, <1>d, <1>15 DEF RestoreCalm, Now, Active, PhaseFits, CopyFits,
     ServerStates, Properties, Requests, Verb, DeleteRequest, Starts, Accepts, Task,
     End, call
<1>16. CASE SnapshotCreate
  BY <1>b, <1>c, <1>d, <1>16 DEF RestoreCalm, Now, Active, PhaseFits, CopyFits,
     ServerStates, Properties, Requests, Verb, SnapshotCreate, End, Goto, cloud,
     call
<1>17. CASE BackupRequest
  BY <1>b, <1>c, <1>d, <1>17 DEF RestoreCalm, Now, Active, PhaseFits, CopyFits,
     ServerStates, Properties, Requests, Verb, BackupRequest, Request, Starts,
     Accepts, Task, End, Goto, call
<1>18. CASE BackupCheck
  BY <1>b, <1>c, <1>d, <1>18 DEF RestoreCalm, Now, Active, PhaseFits, CopyFits,
     ServerStates, Properties, Requests, Verb, BackupCheck, TaskFinished, End,
     cloud, call
<1>19. CASE SnapshotApply
  BY <1>b, <1>c, <1>d, <1>19 DEF RestoreCalm, Now, Active, PhaseFits, CopyFits,
     ServerStates, Properties, Requests, Verb, SnapshotApply, End, Goto, cloud, call
<1>20. CASE RebuildRequest
  <2>1. rp.stop = "DONE" /\ rp.restore = "none" /\ store.restore = "none"
    BY <1>20, <1>c DEF RebuildRequest, CopyFits, PhaseFits, Properties
  <2>2. [rp EXCEPT !.restore = "PENDING"].stop = "DONE"
    BY <1>c, <2>1 DEF Properties
  <2>3. CASE Accepts("rebuild")
    <3>1. server'.task = "rebuild_spawning" /\ server'.status = "REBUILD" /\ asked'["rebuild"] > 0
      <4>1. server' = [server EXCEPT !.task = "rebuild_spawning", !.status = "REBUILD"]
        BY <1>20, <2>3 DEF RebuildRequest, Request, Starts, Task
      <4>2. asked'["rebuild"] > 0
        BY <1>20, <1>d, <2>3 DEF RebuildRequest, Request, Starts, Requests
      <4> QED
        BY <1>c, <4>1, <4>2 DEF ServerStates
    <3> QED
      BY <1>20, <1>b, <2>1, <2>2, <2>3, <3>1 DEF RestoreCalm, Now, Active,
         RebuildRequest, Request, Goto, call
  <2>4. CASE ~Accepts("rebuild")
    BY <1>20, <1>b, <2>1, <2>4 DEF RestoreCalm, Now, Active, RebuildRequest,
       Request, End, call
  <2> QED
    BY <2>3, <2>4
<1>21. CASE RebuildCheck
  BY <1>b, <1>c, <1>d, <1>21 DEF RestoreCalm, Now, Active, PhaseFits, CopyFits,
     ServerStates, Properties, Requests, Verb, RebuildCheck, TaskFinished, End,
     Goto, cloud, call
<1>22. CASE SnapshotDelete
  BY <1>b, <1>c, <1>d, <1>22 DEF RestoreCalm, Now, Active, PhaseFits, CopyFits,
     ServerStates, Properties, Requests, Verb, SnapshotDelete, End, Goto, call
<1>23. CASE SnapshotDeleteCheck
  BY <1>b, <1>c, <1>d, <1>23 DEF RestoreCalm, Now, Active, PhaseFits, CopyFits,
     ServerStates, Properties, Requests, Verb, SnapshotDeleteCheck, End, cloud, call
<1>24. CASE Finish
  BY <1>b, <1>c, <1>d, <1>24 DEF RestoreCalm, Now, Active, PhaseFits, CopyFits,
     ServerStates, Properties, Requests, Verb, Finish, cloud
<1>25. CASE Retry
  BY <1>b, <1>c, <1>d, <1>25 DEF RestoreCalm, Now, Active, PhaseFits, CopyFits,
     ServerStates, Properties, Requests, Verb, Retry, cloud
<1>26. CASE GiveUp
  BY <1>b, <1>c, <1>d, <1>26 DEF RestoreCalm, Now, Active, PhaseFits, CopyFits,
     ServerStates, Properties, Requests, Verb, GiveUp, cloud, call
<1>27. CASE Crash
  BY <1>b, <1>c, <1>d, <1>27 DEF RestoreCalm, Now, Active, PhaseFits, CopyFits,
     ServerStates, Properties, Requests, Verb, Crash, cloud, call
<1>28. CASE ServiceCompletes
  BY <1>b, <1>c, <1>d, <1>28 DEF RestoreCalm, Now, Active, PhaseFits, CopyFits,
     ServerStates, Properties, Requests, Verb, ServiceCompletes, StatusAfter, call
<1>29. CASE PasswordPosted
  BY <1>b, <1>c, <1>d, <1>29 DEF RestoreCalm, Now, Active, PhaseFits, CopyFits,
     ServerStates, Properties, Requests, Verb, PasswordPosted, call
<1>30. CASE ImageRemoved
  BY <1>b, <1>c, <1>d, <1>30 DEF RestoreCalm, Now, Active, PhaseFits, CopyFits,
     ServerStates, Properties, Requests, Verb, ImageRemoved, call
<1>31. CASE ServiceFails
  BY <1>b, <1>c, <1>d, <1>31 DEF RestoreCalm, Now, Active, PhaseFits, CopyFits,
     ServerStates, Properties, Requests, Verb, ServiceFails, call
<1>32. CASE UserInterferes
  BY <1>b, <1>c, <1>d, <1>32 DEF RestoreCalm, Now, Active, PhaseFits, CopyFits,
     ServerStates, Properties, Requests, Verb, UserInterferes, Accepts, Task, call
<1>33. CASE UNCHANGED vars
  BY <1>b, <1>c, <1>d, <1>33 DEF RestoreCalm, Now, Active, PhaseFits, CopyFits,
     ServerStates, Properties, Requests, Verb, vars, cloud, call
<1> QED
  BY <1>1, <1>2, <1>3, <1>4, <1>5, <1>6, <1>7, <1>8, <1>9, <1>10, <1>11, <1>12,
     <1>13, <1>14, <1>15, <1>16, <1>17, <1>18, <1>19, <1>20, <1>21, <1>22, <1>23,
     <1>24, <1>25, <1>26, <1>27, <1>28, <1>29, <1>30, <1>31, <1>32, <1>33
     DEF Next, Attempt, Service

LEMMA GroupsStep ==
  ASSUME TypeOK, PhaseFits, CopyFits, IdsFit, GroupsFit, [Next]_vars
  PROVE  GroupsFit'
<1>a. rp \in Properties /\ store \in Properties /\ server \in ServerStates
      /\ "DONE" \in Flag /\ "PENDING" \in Flag
  BY DEF TypeOK, Flag
<1>1. CASE Begin
  BY <1>a, <1>1 DEF GroupsFit, One, IdsFit, JustCreated, Active, PhaseFits,
     CopyFits, ServerStates, Properties, Verb, Absent, Cleared, Begin, Permitted,
     cloud
<1>2. CASE Enter
  BY <1>a, <1>2 DEF GroupsFit, One, IdsFit, JustCreated, Active, PhaseFits,
     CopyFits, ServerStates, Properties, Verb, Absent, Cleared, Enter, EntryPhase,
     End, Goto, cloud, call
<1>3. CASE RequestRaises
  BY <1>a, <1>3 DEF GroupsFit, One, IdsFit, JustCreated, Active, PhaseFits,
     CopyFits, ServerStates, Properties, Verb, Absent, Cleared, RequestRaises, End,
     cloud, call
<1>4. CASE Create
  <2>1. rp = store /\ op = "create" /\ store = Cleared
    BY <1>4 DEF Create, CopyFits, Active, PhaseFits, IdsFit
  <2>2. store'.groups # "unlinked"
    BY <1>4, <2>1 DEF Create, Cleared
  <2>3. CASE result' = "ok"
    <3>1. rp'.groups = "unlinked" => server'.groups = {"default"}
      <4>1. PICK g \in {"none", "unlinked", "linked"}, b \in BOOLEAN :
              /\ server' = [status |-> "BUILD", task |-> "spawning", posted |-> b,
                            groups |-> {IF g = "linked" THEN "of_ports" ELSE "default"}]
              /\ rp' = [rp EXCEPT !.id = TRUE, !.groups = g]
        BY <1>4, <2>3 DEF Create, End
      <4> QED
        BY <1>a, <4>1 DEF Properties
    <3> QED
      BY <1>4, <2>1, <2>2, <2>3, <3>1 DEF Create, GroupsFit, One, JustCreated, End,
         call
  <2>4. CASE result' # "ok"
    BY <1>4, <2>1, <2>2, <2>4 DEF Create, GroupsFit, JustCreated, End, call
  <2> QED
    BY <2>3, <2>4
<1>5. CASE Configure
  BY <1>a, <1>5 DEF GroupsFit, One, IdsFit, JustCreated, Active, PhaseFits,
     CopyFits, ServerStates, Properties, Verb, Absent, Cleared, Configure, End,
     Goto, cloud, call
<1>6. CASE DropFirstGroup
  BY <1>a, <1>6 DEF GroupsFit, One, IdsFit, JustCreated, Active, PhaseFits,
     CopyFits, ServerStates, Properties, Verb, Absent, Cleared, DropFirstGroup,
     Goto, call
<1>7. CASE AddGroups
  BY <1>a, <1>7 DEF GroupsFit, One, IdsFit, JustCreated, Active, PhaseFits,
     CopyFits, ServerStates, Properties, Verb, Absent, Cleared, AddGroups, End, call
<1>8. CASE GroupsRaise
  BY <1>a, <1>8 DEF GroupsFit, One, IdsFit, JustCreated, Active, PhaseFits,
     CopyFits, ServerStates, Properties, Verb, Absent, Cleared, GroupsRaise, End,
     cloud, call
<1>9. CASE PowerRead
  <2>1. rp = store /\ op \notin {"create", "configure"}
    BY <1>9 DEF PowerRead, CopyFits, Active, PhaseFits
  <2>2. rp'.groups = rp.groups /\ store'.groups = store.groups
    <3>1. CASE PowerDone
      <4>1. /\ [rp EXCEPT !.start = "DONE", !.restore = "DONE"].groups = rp.groups
            /\ [rp EXCEPT !.stop = "DONE"].groups = rp.groups
        BY <1>a DEF Properties
      <4> QED
        BY <2>1, <3>1, <4>1 DEF PowerDone
    <3> QED
      BY <1>9, <3>1 DEF PowerRead
  <2> QED
    BY <1>9, <2>1, <2>2 DEF PowerRead, PowerDone, End, Goto, GroupsFit, JustCreated,
       cloud, call
<1>10. CASE PowerRequest
  <2>1. /\ Verb \in Requests
        /\ [rp EXCEPT ![Verb] = "PENDING"].id = rp.id
        /\ [rp EXCEPT ![Verb] = "PENDING"].groups = rp.groups
    BY <1>a, ChangesKeep DEF Verb, Requests, Flag
  <2> QED
    BY <1>10, <2>1, RequestGroups DEF PowerRequest, PhaseFits
<1>11. CASE PowerCheck
  <2>1. rp = store /\ op \notin {"create", "configure"}
    BY <1>11 DEF PowerCheck, CopyFits, Active, PhaseFits
  <2>2. rp'.groups = rp.groups /\ store'.groups = store.groups
    <3>1. CASE PowerDone
      <4>1. /\ [rp EXCEPT !.start = "DONE", !.restore = "DONE"].groups = rp.groups
            /\ [rp EXCEPT !.stop = "DONE"].groups = rp.groups
        BY <1>a DEF Properties
      <4> QED
        BY <2>1, <3>1, <4>1 DEF PowerDone
    <3> QED
      BY <1>11, <3>1 DEF PowerCheck
  <2> QED
    BY <1>11, <2>1, <2>2 DEF PowerCheck, PowerDone, End, Goto, GroupsFit,
       JustCreated, cloud, call
<1>12. CASE PlainRequest
  BY <1>a, <1>12 DEF GroupsFit, One, IdsFit, JustCreated, Active, PhaseFits,
     CopyFits, ServerStates, Properties, Verb, Absent, Cleared, PlainRequest,
     Starts, Accepts, Task, End, Goto, call
<1>13. CASE RebootCheck
  BY <1>a, <1>13 DEF GroupsFit, One, IdsFit, JustCreated, Active, PhaseFits,
     CopyFits, ServerStates, Properties, Verb, Absent, Cleared, RebootCheck, End,
     cloud, call
<1>14. CASE Delete
  BY <1>a, <1>14 DEF GroupsFit, One, IdsFit, JustCreated, Active, PhaseFits,
     CopyFits, ServerStates, Properties, Verb, Absent, Cleared, Delete, End, Goto,
     cloud, call
<1>15. CASE DeleteRequest
  BY <1>a, <1>15 DEF GroupsFit, One, IdsFit, JustCreated, Active, PhaseFits,
     CopyFits, ServerStates, Properties, Verb, Absent, Cleared, DeleteRequest,
     Starts, Accepts, Task, End, call
<1>16. CASE SnapshotCreate
  BY <1>a, <1>16 DEF GroupsFit, One, IdsFit, JustCreated, Active, PhaseFits,
     CopyFits, ServerStates, Properties, Verb, Absent, Cleared, SnapshotCreate, End,
     Goto, cloud, call
<1>17. CASE BackupRequest
  <2>1. /\ "backup" \in Requests
        /\ [rp EXCEPT !.backup = "PENDING"].id = rp.id
        /\ [rp EXCEPT !.backup = "PENDING"].groups = rp.groups
    BY <1>a, ChangesKeep DEF Requests, Flag
  <2> QED
    BY <1>17, <2>1, RequestGroups DEF BackupRequest, PhaseFits
<1>18. CASE BackupCheck
  BY <1>a, <1>18 DEF GroupsFit, One, IdsFit, JustCreated, Active, PhaseFits,
     CopyFits, ServerStates, Properties, Verb, Absent, Cleared, BackupCheck,
     TaskFinished, End, cloud, call
<1>19. CASE SnapshotApply
  BY <1>a, <1>19 DEF GroupsFit, One, IdsFit, JustCreated, Active, PhaseFits,
     CopyFits, ServerStates, Properties, Verb, Absent, Cleared, SnapshotApply, End,
     Goto, cloud, call
<1>20. CASE RebuildRequest
  <2>1. /\ "rebuild" \in Requests
        /\ [rp EXCEPT !.restore = "PENDING"].id = rp.id
        /\ [rp EXCEPT !.restore = "PENDING"].groups = rp.groups
    BY <1>a, ChangesKeep DEF Requests, Flag
  <2> QED
    BY <1>20, <2>1, RequestGroups DEF RebuildRequest, PhaseFits
<1>21. CASE RebuildCheck
  BY <1>a, <1>21 DEF GroupsFit, One, IdsFit, JustCreated, Active, PhaseFits,
     CopyFits, ServerStates, Properties, Verb, Absent, Cleared, RebuildCheck,
     TaskFinished, End, Goto, cloud, call
<1>22. CASE SnapshotDelete
  BY <1>a, <1>22 DEF GroupsFit, One, IdsFit, JustCreated, Active, PhaseFits,
     CopyFits, ServerStates, Properties, Verb, Absent, Cleared, SnapshotDelete, End,
     Goto, call
<1>23. CASE SnapshotDeleteCheck
  BY <1>a, <1>23 DEF GroupsFit, One, IdsFit, JustCreated, Active, PhaseFits,
     CopyFits, ServerStates, Properties, Verb, Absent, Cleared, SnapshotDeleteCheck,
     End, cloud, call
<1>24. CASE Finish
  BY <1>a, <1>24 DEF GroupsFit, One, IdsFit, JustCreated, Active, PhaseFits,
     CopyFits, ServerStates, Properties, Verb, Absent, Cleared, Finish, cloud
<1>25. CASE Retry
  BY <1>a, <1>25 DEF GroupsFit, One, IdsFit, JustCreated, Active, PhaseFits,
     CopyFits, ServerStates, Properties, Verb, Absent, Cleared, Retry, cloud
<1>26. CASE GiveUp
  BY <1>a, <1>26 DEF GroupsFit, One, IdsFit, JustCreated, Active, PhaseFits,
     CopyFits, ServerStates, Properties, Verb, Absent, Cleared, GiveUp, cloud, call
<1>27. CASE Crash
  BY <1>a, <1>27 DEF GroupsFit, One, IdsFit, JustCreated, Active, PhaseFits,
     CopyFits, ServerStates, Properties, Verb, Absent, Cleared, Crash, cloud, call
<1>28. CASE ServiceCompletes
  <2>0. \/ server' = Absent
        \/ server' = [server EXCEPT !.task = "none"]
        \/ server' = [server EXCEPT !.task = "none", !.status = StatusAfter(server.task)]
    BY <1>28 DEF ServiceCompletes
  <2>1. server'.groups = server.groups \/ (server'.groups = {} /\ server'.status = "absent")
    <3>1. CASE server' = Absent
      BY <3>1 DEF Absent
    <3>2. CASE server' = [server EXCEPT !.task = "none"]
      BY <1>a, <3>2 DEF ServerStates
    <3>3. CASE server' = [server EXCEPT !.task = "none", !.status = StatusAfter(server.task)]
      BY <1>a, <3>3 DEF ServerStates
    <3> QED
      BY <2>0, <3>1, <3>2, <3>3
  <2>2. server.status # "absent"
    BY <1>28 DEF ServiceCompletes, IdsFit, Absent
  <2> QED
    BY <1>28, <2>1, <2>2 DEF ServiceCompletes, GroupsFit, One, JustCreated, call
<1>29. CASE PasswordPosted
  BY <1>a, <1>29 DEF GroupsFit, One, IdsFit, JustCreated, Active, PhaseFits,
     CopyFits, ServerStates, Properties, Verb, Absent, Cleared, PasswordPosted, call
<1>30. CASE ImageRemoved
  BY <1>a, <1>30 DEF GroupsFit, One, IdsFit, JustCreated, Active, PhaseFits,
     CopyFits, ServerStates, Properties, Verb, Absent, Cleared, ImageRemoved, call
<1>31. CASE ServiceFails
  <2>1. server'.groups = server.groups
    BY <1>31, <1>a DEF ServiceFails, ServerStates
  <2>2. server.status # "absent"
    BY <1>31 DEF ServiceFails, IdsFit, Absent
  <2> QED
    BY <1>31, <2>1, <2>2 DEF ServiceFails, GroupsFit, One, JustCreated, call
<1>32. CASE UserInterferes
  BY <1>a, <1>32 DEF GroupsFit, One, IdsFit, JustCreated, Active, PhaseFits,
     CopyFits, ServerStates, Properties, Verb, Absent, Cleared, UserInterferes,
     Accepts, Task, call
<1>33. CASE UNCHANGED vars
  BY <1>a, <1>33 DEF GroupsFit, One, IdsFit, JustCreated, Active, PhaseFits,
     CopyFits, ServerStates, Properties, Verb, Absent, Cleared, vars, cloud, call
<1> QED
  BY <1>1, <1>2, <1>3, <1>4, <1>5, <1>6, <1>7, <1>8, <1>9, <1>10, <1>11, <1>12,
     <1>13, <1>14, <1>15, <1>16, <1>17, <1>18, <1>19, <1>20, <1>21, <1>22, <1>23,
     <1>24, <1>25, <1>26, <1>27, <1>28, <1>29, <1>30, <1>31, <1>32, <1>33
     DEF Next, Attempt, Service

-----------------------------------------------------------------------------
LEMMA InvInit == Init => Inv
<1> SUFFICES ASSUME Init PROVE Inv
  OBVIOUS
<1>1. TypeOK
  <2>1. Cleared \in Properties /\ Absent \in ServerStates /\ "create" \in Operations
    BY DEF Properties, Cleared, Flag, ServerStates, Absent, Operations
  <2>2. server \in ServerStates /\ store \in Properties /\ rp \in Properties
        /\ before \in Properties /\ op \in Operations
    BY <2>1 DEF Init
  <2>3. /\ asked \in [Requests -> 0..2] /\ faults \in [FaultKinds -> Nat]
        /\ images \in [Names -> {"absent", "queued", "active", "deleting"}]
    BY DEF Init
  <2> QED
    BY <2>2, <2>3 DEF Init, TypeOK
<1>2. PhaseFits /\ CopyFits /\ AskedOf /\ AskedFit
  BY DEF Init, PhaseFits, CopyFits, AskedOf, AskedFit, Once, Flagged, Requests,
     Active
<1>3. IdsFit /\ GroupsFit
  BY DEF Init, IdsFit, GroupsFit, One, JustCreated, Cleared, Absent
<1>4. StopCalm /\ ImageComes /\ RestoreCalm /\ OrphanFits
  BY DEF Init, StopCalm, ImageComes, RestoreCalm, OrphanFits
<1> QED
  BY <1>1, <1>2, <1>3, <1>4 DEF Inv

LEMMA InvStep == Inv /\ [Next]_vars => Inv'
<1> SUFFICES ASSUME Inv, [Next]_vars PROVE Inv'
  OBVIOUS
<1> QED
  BY TypeStep, PhaseStep, CopyStep, AskedOfStep, AskedStep, IdsStep, OrphanStep,
     StopStep, ImageStep, RestoreStep, GroupsStep DEF Inv

LEMMA Invariant == Spec => []Inv
  BY InvInit, InvStep, PTL DEF Spec

\* Every variable keeps its type: the server has a status and a task of the
\* compute service, and the flags are none, PENDING or DONE.
THEOREM TypeCorrect == Spec => []TypeOK
<1>1. Inv => TypeOK
  BY DEF Inv
<1> QED
  BY <1>1, Invariant, PTL

\* Without a crash no operation makes a request twice, however often it is
\* retried: what it asked for is in its flags (server.py, _stop_server to
\* snapshot_apply).
THEOREM RequestsAreMadeOnce == Spec => []RequestedOnce
<1>1. Inv => RequestedOnce
  BY DEF Inv, AskedFit, Once, RequestedOnce
<1> QED
  BY <1>1, Invariant, PTL

\* stop ends with a server that is off, when it had no task and nobody else
\* interferes (server.py, _stop_server).
THEOREM StopsWhenDone == Spec => []StopMeansOff
<1>1. Inv => StopMeansOff
  BY DEF Inv, StopCalm, StopMeansOff, Succeeded
<1> QED
  BY <1>1, Invariant, PTL

\* After the uninstall there is no server, and the runtime properties are
\* cleared (server.py, delete; decorators.py, the cleanup after delete).  Another
\* server stays behind only after a crash, of a create that was then executed
\* again (decorators.py, operation(resumable=True); server.py, create).
THEOREM UninstallCleans == Spec => []UninstallLeavesNothing
<1>1. Inv => UninstallLeavesNothing
  BY DEF Inv, IdsFit, JustCreated, OrphanFits, UninstallLeavesNothing, Absent
<1> QED
  BY <1>1, Invariant, PTL

\* snapshot_create ends when its image is active, unless it found the flag of
\* an earlier snapshot or the compute service failed to carry out a task
\* (server.py, snapshot_create, _check_finished_server_task).
THEOREM SnapshotsComplete == Spec => []SnapshotIsComplete
<1>1. Inv => SnapshotIsComplete
  BY DEF Inv, ImageComes, SnapshotIsComplete, Succeeded
<1> QED
  BY <1>1, Invariant, PTL

\* snapshot_apply without flags of an earlier one rebuilds a server that is
\* off and starts it (server.py, snapshot_apply, _handle_snapshot_restore).
THEOREM ApplyRestores == Spec => []FreshApplyRestores
<1>1. Inv => FreshApplyRestores
  BY DEF Inv, RestoreCalm, FreshApplyRestores, Succeeded, Now, Active
<1> QED
  BY <1>1, Invariant, PTL

\* configure leaves the groups of the node and no others, also when it was cut
\* short between the removal and the addition (server.py,
\* _handle_connect_security_groups_to_server).
THEOREM GroupsAreReplaced == Spec => []GroupsAreThoseOfNode
<1>1. Inv => GroupsAreThoseOfNode
  BY DEF Inv, GroupsFit, GroupsAreThoseOfNode, Succeeded
<1> QED
  BY <1>1, Invariant, PTL
=============================================================================
