----------------------------- MODULE FileShares -----------------------------
(***************************************************************************)
(* Shares and the share network they use: create and delete of their       *)
(* nodes.  Manila creates and deletes shares in the background; the        *)
(* operations keep no flags and look at the share itself, in requests of   *)
(* their own, between which it may change.  Unlike those of other          *)
(* services, errors of its client make an operation run again.             *)
(***************************************************************************)
EXTENDS Naturals, FiniteSets

CONSTANTS ShareNodes,   \* nodes of shares
          Network,      \* the node of their share network
          MaxInstalls,  \* a bound on the installs of a node
          MaxEvents,    \* a bound on the events of each kind
          MaxKinds      \* a bound on the kinds that occur in one behaviour

(***************************************************************************)
(* "crash":     the worker dies during an operation.                       *)
(* "transient": a request fails and has no effect, or a share disappears   *)
(*              between the two reads that one look at its status takes.   *)
(* "error":     a share ends in an error status, or a request is bad.      *)
(* "giveup":    the engine has retried an operation often enough.          *)
(* "remove":    not a fault: others delete a share or a network.           *)
(***************************************************************************)
EventKinds == {"crash", "transient", "error", "giveup", "remove"}

ASSUME NodesAssumption == Network \notin ShareNodes
ASSUME BoundsAssumption == /\ MaxInstalls \in Nat /\ MaxKinds \in Nat
                           /\ MaxEvents \in [EventKinds -> Nat]

Nodes == ShareNodes \union {Network}

\* A node makes one resource in an install, and one more after each crash.
Serials == 1 .. (MaxInstalls + MaxEvents["crash"])
NoId == 0
Ids == Serials \union {NoId}

VARIABLES
  status,    \* of every share and network: "gone" if it is not there
  uses,      \* the network of each share
  made,      \* how many each node has made
  store,     \* the id in the runtime properties of each node
  known,     \* the id its attempt has
  op, phase, \* the operation of each node, and the step it is at
  result,    \* outcome of its last attempt
  installs,  \* installs of each node so far
  lost,      \* history: nodes with a resource whose id was never stored
  events     \* events so far, by kind

resources == <<status, uses, made>>
vars == <<resources, store, known, op, phase, result, installs, lost, events>>

Statuses == {"creating", "available", "error", "deleting", "error_deleting", "gone"}

Event(k) == /\ events[k] < MaxEvents[k]
            /\ Cardinality({j \in EventKinds \ {k} : events[j] > 0}) < MaxKinds
            /\ events' = [events EXCEPT ![k] = @ + 1]

Goto(n, p) == phase' = [phase EXCEPT ![n] = p] /\ UNCHANGED result
Ends(n, outcome) == /\ phase' = [phase EXCEPT ![n] = "end"]
                    /\ result' = [result EXCEPT ![n] = outcome]
At(n, operation, p) == op[n] = operation /\ phase[n] = p
Mine(n) == IF known[n] = NoId THEN "gone" ELSE status[<<n, known[n]>>]
MineIs(n, s) == status' = [status EXCEPT ![<<n, known[n]>>] = s]

-----------------------------------------------------------------------------
Init ==
  /\ status = [r \in Nodes \X Serials |-> "gone"]
  /\ uses = [r \in Nodes \X Serials |-> NoId]
  /\ made = [n \in Nodes |-> 0] /\ installs = [n \in Nodes |-> 0]
  /\ store = [n \in Nodes |-> NoId] /\ known = [n \in Nodes |-> NoId]
  /\ op = [n \in Nodes |-> "delete"] /\ phase = [n \in Nodes |-> "idle"]
  /\ result = [n \in Nodes |-> "ok"]
  /\ lost = {} /\ events = [k \in EventKinds |-> 0]

Begins(n, operation) ==
  /\ phase[n] = "idle"
  /\ op' = [op EXCEPT ![n] = operation]
  /\ phase' = [phase EXCEPT ![n] = "begin"]
  /\ result' = [result EXCEPT ![n] = "ok"]
  /\ UNCHANGED <<resources, store, known, lost, events>>

Created(n) == op[n] = "create" /\ phase[n] = "idle" /\ result[n] = "ok"

\* A share is installed after its network.
BeginCreate(n) ==
  /\ op[n] = "delete" /\ result[n] = "ok"
  /\ n \in ShareNodes => Created(Network)
  /\ installs[n] < MaxInstalls
  /\ installs' = [installs EXCEPT ![n] = @ + 1]
  /\ Begins(n, "create")

\* The network is uninstalled after the shares, also if one of them failed.
BeginDelete(n) ==
  /\ op[n] = "create" \/ result[n] = "failed"
  /\ n = Network => \A s \in ShareNodes : op[s] = "delete" /\ phase[s] = "idle"
  /\ Begins(n, "delete") /\ UNCHANGED installs

(***************************************************************************)
(* An attempt has the id that was stored.  The wrapper does not call       *)
(* delete without one.                                                     *)
(***************************************************************************)
Prepare(n) ==
  /\ phase[n] = "begin"
  /\ known' = [known EXCEPT ![n] = store[n]]
  /\ CASE op[n] = "delete" /\ store[n] = NoId -> Ends(n, "ok")
       [] op[n] = "delete" /\ store[n] # NoId /\ n \in ShareNodes -> Goto(n, "ready")
       [] op[n] = "create" /\ n = Network -> Goto(n, "request")
       [] OTHER -> Goto(n, "lookup")
  /\ UNCHANGED <<resources, store, op, installs, lost, events>>

-----------------------------------------------------------------------------
(***************************************************************************)
(* create of a share.  A share that was made by an earlier attempt and is  *)
(* gone is asked for again with its id, which the client refuses.          *)
(***************************************************************************)
LookupShare(n) ==
  /\ n \in ShareNodes /\ At(n, "create", "lookup")
  /\ CASE known[n] = NoId -> Goto(n, "request")
       [] known[n] # NoId /\ Mine(n) = "gone" -> Ends(n, "retry")
       [] OTHER -> Goto(n, "error")
  /\ UNCHANGED <<resources, store, known, op, installs, lost, events>>

\* The request of either create, or its refusal.
Makes(n, s) ==
  LET id == made[n] + 1 IN
  /\ made' = [made EXCEPT ![n] = id]
  /\ status' = [status EXCEPT ![<<n, id>>] = s]
  /\ uses' = [uses EXCEPT ![<<n, id>>] = IF n = Network THEN NoId ELSE store[Network]]
  /\ known' = [known EXCEPT ![n] = id]

\* Mutant: the id is not kept unless the share is ready.
MakeShare_NoId(n) ==
  /\ n \in ShareNodes /\ At(n, "create", "request") /\ made[n] + 1 \in Serials
  /\ made' = [made EXCEPT ![n] = @ + 1]
  /\ status' = [status EXCEPT ![<<n, made[n] + 1>>] = "creating"]
  /\ uses' = [uses EXCEPT ![<<n, made[n] + 1>>] = store[Network]]
  /\ Ends(n, "retry")
  /\ UNCHANGED <<store, known, op, installs, lost, events>>

(***************************************************************************)
(* The attempt that makes a share looks for it by its name, finds nothing, *)
(* and is executed again.                                                  *)
(***************************************************************************)
MakeShare(n) ==
  /\ n \in ShareNodes /\ At(n, "create", "request")
  /\ Makes(n, "creating")
  /\ Ends(n, "retry")
  /\ UNCHANGED <<store, op, installs, lost, events>>

MakeNetwork ==
  /\ At(Network, "create", "request")
  /\ Makes(Network, "available")
  /\ Ends(Network, "ok")
  /\ UNCHANGED <<store, op, installs, lost, events>>

\* BadRequest: NonRecoverableError.
Refuse(n) ==
  /\ At(n, "create", "request")
  /\ Event("error")
  /\ Ends(n, "failed")
  /\ UNCHANGED <<resources, store, known, op, installs, lost>>

CheckError(n) ==
  /\ phase[n] = "error"
  /\ IF Mine(n) = "error" THEN Ends(n, "failed") ELSE Goto(n, "available")
  /\ UNCHANGED <<resources, store, known, op, installs, lost, events>>

CheckAvailable(n) ==
  /\ phase[n] = "available"
  /\ Ends(n, IF Mine(n) = "available" THEN "ok" ELSE "retry")
  /\ UNCHANGED <<resources, store, known, op, installs, lost, events>>

-----------------------------------------------------------------------------
\* delete of a share: asks only for one that is available, then looks for an
\* error, and then whether it is gone.
CheckReady(n) ==
  /\ phase[n] = "ready"
  /\ Goto(n, IF Mine(n) = "available" THEN "request" ELSE "failed")
  /\ UNCHANGED <<resources, store, known, op, installs, lost, events>>

DeleteShare(n) ==
  /\ n \in ShareNodes /\ At(n, "delete", "request")
  /\ IF Mine(n) = "available" THEN MineIs(n, "deleting") ELSE UNCHANGED status
  /\ Goto(n, "failed")
  /\ UNCHANGED <<uses, made, store, known, op, installs, lost, events>>

CheckFailed(n) ==
  /\ phase[n] = "failed"
  /\ IF Mine(n) = "error_deleting" THEN Ends(n, "failed") ELSE Goto(n, "gone")
  /\ UNCHANGED <<resources, store, known, op, installs, lost, events>>

CheckGone(n) ==
  /\ phase[n] = "gone"
  /\ Ends(n, IF Mine(n) = "gone" THEN "ok" ELSE "retry")
  /\ UNCHANGED <<resources, store, known, op, installs, lost, events>>

\* Mutant: delete of a network does not look for it first.
LookupNetwork_Never ==
  /\ At(Network, "delete", "lookup")
  /\ Goto(Network, "request")
  /\ UNCHANGED <<resources, store, known, op, installs, lost, events>>

LookupNetwork ==
  /\ At(Network, "delete", "lookup")
  /\ IF Mine(Network) = "gone" THEN Ends(Network, "ok") ELSE Goto(Network, "request")
  /\ UNCHANGED <<resources, store, known, op, installs, lost, events>>

InUse(id) == \E s \in ShareNodes, k \in Serials :
               status[<<s, k>>] # "gone" /\ uses[<<s, k>>] = id

\* A network in use is refused; either way delete is executed again.
DeleteNetwork ==
  /\ At(Network, "delete", "request")
  /\ IF InUse(known[Network]) THEN UNCHANGED status ELSE MineIs(Network, "gone")
  /\ Ends(Network, "retry")
  /\ UNCHANGED <<uses, made, store, known, op, installs, lost, events>>

-----------------------------------------------------------------------------
\* What an attempt knows is stored when it ends, however it ends.
Store(n) ==
  /\ phase[n] = "end"
  /\ store' = [store EXCEPT ![n] =
                 IF op[n] = "delete" /\ result[n] = "ok" THEN NoId ELSE known[n]]
  /\ known' = [known EXCEPT ![n] = NoId]
  /\ Goto(n, IF result[n] = "retry" THEN "begin" ELSE "idle")
  /\ UNCHANGED <<resources, op, installs, lost, events>>

RequestRaises(n) ==
  /\ phase[n] \notin {"idle", "begin", "end"}
  /\ Event("transient")
  /\ Ends(n, "retry")
  /\ UNCHANGED <<resources, store, known, op, installs, lost>>

GiveUp(n) ==
  /\ phase[n] = "begin" /\ result[n] = "retry"
  /\ Event("giveup")
  /\ phase' = [phase EXCEPT ![n] = "idle"]
  /\ result' = [result EXCEPT ![n] = "failed"]
  /\ UNCHANGED <<resources, store, known, op, installs, lost>>

\* The operation is executed again with what was stored.
Crash(n) ==
  /\ phase[n] \notin {"idle", "begin"}
  /\ Event("crash")
  /\ phase' = [phase EXCEPT ![n] = "begin"]
  /\ result' = [result EXCEPT ![n] = "retry"]
  /\ lost' = IF known[n] # store[n] THEN lost \union {n} ELSE lost
  /\ known' = [known EXCEPT ![n] = NoId]
  /\ UNCHANGED <<resources, store, op, installs>>

-----------------------------------------------------------------------------
\* The service ends what it has begun.
Becomes(r, s) == status' = [status EXCEPT ![r] = s]
ServiceCompletes(r) ==
  /\ \/ status[r] = "creating" /\ Becomes(r, "available")
     \/ status[r] = "deleting" /\ Becomes(r, "gone")
  /\ UNCHANGED <<uses, made, store, known, op, phase, result, installs, lost, events>>

ServiceFails(r) ==
  /\ Event("error")
  /\ \/ status[r] = "creating" /\ Becomes(r, "error")
     \/ status[r] = "deleting" /\ Becomes(r, "error_deleting")
  /\ UNCHANGED <<uses, made, store, known, op, phase, result, installs, lost>>

OthersRemove(r) ==
  /\ Event("remove")
  /\ status[r] # "gone" /\ ~(r[1] = Network /\ InUse(r[2]))
  /\ Becomes(r, "gone")
  /\ UNCHANGED <<uses, made, store, known, op, phase, result, installs, lost>>

Attempt(n) ==
  \/ Prepare(n) \/ Store(n)
  \/ LookupShare(n) \/ MakeShare(n) \/ CheckError(n) \/ CheckAvailable(n)
  \/ CheckReady(n) \/ DeleteShare(n) \/ CheckFailed(n) \/ CheckGone(n)
  \/ n = Network /\ (MakeNetwork \/ LookupNetwork \/ DeleteNetwork)

Next ==
  \/ \E n \in Nodes : \/ BeginCreate(n) \/ BeginDelete(n) \/ Attempt(n)
                      \/ Refuse(n) \/ RequestRaises(n) \/ GiveUp(n) \/ Crash(n)
  \/ \E r \in Nodes \X Serials :
       ServiceCompletes(r) \/ ServiceFails(r) \/ OthersRemove(r)

Spec == Init /\ [][Next]_vars

\* A retry is always executed, and a task of the service always ends.
FairSpec == /\ Spec
            /\ \A n \in Nodes : WF_vars(Attempt(n))
            /\ \A r \in Nodes \X Serials : WF_vars(ServiceCompletes(r))

-----------------------------------------------------------------------------
\* Every variable has its type: an id is one that the node has made.
TypeOK ==
  /\ status \in [Nodes \X Serials -> Statuses]
  /\ uses \in [Nodes \X Serials -> Ids]
  /\ made \in [Nodes -> Nat] /\ installs \in [Nodes -> Nat]
  /\ store \in [Nodes -> Ids] /\ known \in [Nodes -> Ids]
  /\ \A n \in Nodes : store[n] <= made[n] /\ known[n] <= made[n]
  /\ op \in [Nodes -> {"create", "delete"}]
  /\ phase \in [Nodes -> {"idle", "begin", "lookup", "request", "error", "available",
                          "ready", "failed", "gone", "end"}]
  /\ result \in [Nodes -> {"ok", "failed", "retry"}]
  /\ lost \subseteq Nodes /\ events \in [EventKinds -> Nat]

(***************************************************************************)
(* After a delete that succeeded nothing is left of the node, neither a    *)
(* share nor one in deletion, whatever was created by how many attempts,   *)
(* unless a worker died between a request and the end of its attempt.      *)
(***************************************************************************)
DeletedIsGone ==
  \A n \in Nodes \ lost :
    op[n] = "delete" /\ result[n] = "ok" /\ phase[n] = "idle" =>
      \A k \in Serials : status[<<n, k>>] = "gone"

(***************************************************************************)
(* What no number of retries ends: delete waits for a share whose creation *)
(* failed, which it has not asked to delete; delete of a network waits     *)
(* while a share that could not be deleted uses it; create asks for a      *)
(* share that somebody deleted with its old id.                            *)
(***************************************************************************)
Waits(n) ==
  LET mine == IF store[n] = NoId THEN "gone" ELSE status[<<n, store[n]>>] IN
  \/ n \in ShareNodes /\ op[n] = "delete" /\ mine = "error"
  \/ n = Network /\ op[n] = "delete" /\ InUse(store[n])
  \/ n \in ShareNodes /\ op[n] = "create" /\ store[n] # NoId /\ mine = "gone"

(***************************************************************************)
(* Every other operation ends, retried often enough, although it has no    *)
(* flag to tell whether an earlier attempt has made its request.           *)
(***************************************************************************)
OperationsEnd == \A n \in Nodes : phase[n] # "idle" ~> phase[n] = "idle" \/ Waits(n)
=============================================================================
