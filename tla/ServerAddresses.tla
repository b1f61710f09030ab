-------------------------- MODULE ServerAddresses --------------------------
(***************************************************************************)
(* Floating addresses of one server: create of their nodes, configure of   *)
(* the server, and connect_floating_ip and disconnect_floating_ip, the     *)
(* operations of the relationships between them.                           *)
(*                                                                         *)
(* All floating addresses share three runtime properties of the server.    *)
(* Every operation works on a copy of them, which is stored when it ends   *)
(* unless somebody else stored in the meantime: then the changes are lost  *)
(* and the operation is executed again, as it is after a crash.            *)
(***************************************************************************)
EXTENDS Naturals, FiniteSets

CONSTANTS Floats,     \* floating addresses related to the server
          Existing,   \* those whose nodes have use_external_resource
          Private,    \* the fixed address of the server
          None,       \* no address
          MaxRounds,  \* a bound on the connects of a floating address
          MaxEvents,  \* a bound on the events of each kind
          MaxKinds    \* a bound on the kinds that occur in one behaviour

(***************************************************************************)
(* "crash":     the worker dies during an operation, or before its end is  *)
(*              reported.                                                  *)
(* "transient": a request fails and has no effect.                         *)
(* "store":     not a fault: another operation of the server stores its    *)
(*              runtime properties.                                        *)
(* "move":      not a fault: others associate a floating address.          *)
(***************************************************************************)
EventKinds == {"crash", "transient", "store", "move"}

ASSUME AddressesAssumption ==
  Existing \subseteq Floats /\ Private \notin Floats /\ None \notin Floats \union {Private}
ASSUME BoundsAssumption == /\ MaxRounds \in Nat /\ MaxKinds \in Nat
                           /\ MaxEvents \in [EventKinds -> Nat]

VARIABLES
  use_public_ip,       \* property of the server
  use_external,        \* property of the server: it exists
  allow_reallocation,  \* floating addresses that may be taken from others
  holder,      \* what each floating address is associated with
  ready,       \* those whose create has succeeded
  store,       \* the address properties of the server
  copy,        \* the copy of each operation
  op, phase,   \* the operation of a relationship, and the step it is at
  result,      \* outcome of its last attempt
  dirty,       \* operations that changed their copies
  stale,       \* operations whose copy is older than the store
  linked,      \* floating addresses the workflows have connected
  rounds,      \* connects of each so far
  mixed,       \* history: two floating addresses were in use at a time
  lost,        \* history: those of which a change was made and is not stored:
               \* a disconnect, or a connect whose repetition failed
  repeated,    \* history: those whose connect was executed again after it
               \* had been stored
  moved,       \* history: those that others moved
  late,        \* history: those moved after the create of their nodes
  events       \* events so far, by kind

inputs == <<use_public_ip, use_external, allow_reallocation>>
attempt == <<copy, dirty, stale>>
call == <<op, linked, rounds>>
history == <<mixed, lost, repeated, moved, late, events>>
vars == <<inputs, holder, ready, store, attempt, phase, result, call, history>>

(***************************************************************************)
(* ip, public_ip, last_ip, public_ip_address; ip is None before configure, *)
(* and when disconnect_floating_ip has no last_ip to put there.            *)
(***************************************************************************)
Address == Floats \union {Private, None}
Properties == [ip : Address, public : Floats \union {None},
               last : Address, recorded : Floats \union {None}]
NoProperties == [ip |-> None, public |-> None, last |-> None, recorded |-> None]

Event(k) == /\ events[k] < MaxEvents[k]
            /\ Cardinality({j \in EventKinds \ {k} : events[j] > 0}) < MaxKinds
            /\ events' = [events EXCEPT ![k] = @ + 1]

Goto(f, p) == phase' = [phase EXCEPT ![f] = p]
Ends(f, outcome) == Goto(f, "end") /\ result' = [result EXCEPT ![f] = outcome]
Loaded(f) == phase[f] \in {"request", "end"}

\* The server is configured before its relationships are established.
Configured == store.ip # None \/ rounds # [f \in Floats |-> 0]

-----------------------------------------------------------------------------
Init ==
  /\ use_public_ip \in BOOLEAN /\ use_external \in BOOLEAN
  /\ allow_reallocation \in SUBSET Existing
  /\ holder \in [Floats -> {"none", "server", "other"}]
  /\ \A f \in Floats \ Existing : holder[f] = "none"
  /\ ready = {} /\ store = NoProperties
  /\ copy = [f \in Floats |-> NoProperties]
  /\ op = [f \in Floats |-> "disconnect"] /\ phase = [f \in Floats |-> "idle"]
  /\ result = [f \in Floats |-> "ok"]
  /\ dirty = {} /\ stale = {} /\ linked = {} /\ rounds = [f \in Floats |-> 0]
  /\ mixed = FALSE /\ lost = {} /\ repeated = {} /\ moved = {} /\ late = {}
  /\ events = [k \in EventKinds |-> 0]

\* Mutant: the status of the address does not matter.
Available_Any(f) == TRUE

\* use_external_floating_ip: an ACTIVE address must be one to reallocate.
Available(f) ==
  f \in Existing => holder[f] = "none" \/ f \in allow_reallocation

\* create of a floating address; one that is not available is tried again.
Create(f) ==
  /\ f \notin ready /\ Available(f)
  /\ ready' = ready \union {f}
  /\ UNCHANGED <<inputs, holder, store, attempt, phase, result, call, history>>

(***************************************************************************)
(* _set_server_ips_runtime_properties: the first floating address that the *)
(* server has is recorded, and is its address if use_public_ip is set.     *)
(***************************************************************************)
Configure ==
  /\ ~Configured
  /\ LET has == {f \in Floats : holder[f] = "server"} IN
     \E first \in IF has = {} THEN {None} ELSE has :
       LET shown == use_public_ip /\ first # None IN
       /\ store' = [ip |-> IF shown THEN first ELSE Private,
                    public |-> IF shown THEN first ELSE None,
                    last |-> None, recorded |-> first]
       /\ mixed' = (first # None)
  /\ UNCHANGED <<inputs, holder, ready, attempt, phase, result, call,
                 lost, repeated, moved, late, events>>

-----------------------------------------------------------------------------
(***************************************************************************)
(* establish and unlink.  An establish that failed may be repeated, or     *)
(* unlinked.                                                               *)
(***************************************************************************)
Begin(f) ==
  /\ Configured /\ f \in ready /\ phase[f] = "idle"
  /\ \/ /\ f \notin linked \/ (op[f] = "connect" /\ result[f] = "failed")
        /\ rounds[f] < MaxRounds
        /\ op' = [op EXCEPT ![f] = "connect"]
        /\ rounds' = [rounds EXCEPT ![f] = @ + 1]
        /\ mixed' = (mixed \/ linked \ {f} # {})
     \/ /\ f \in linked
        /\ op' = [op EXCEPT ![f] = "disconnect"]
        /\ UNCHANGED <<rounds, mixed>>
  /\ linked' = linked \union {f}
  /\ Goto(f, "begin") /\ result' = [result EXCEPT ![f] = "ok"]
  /\ UNCHANGED <<inputs, holder, ready, store, attempt, lost, repeated,
                 moved, late, events>>

Load(f) ==
  /\ phase[f] = "begin"
  /\ copy' = [copy EXCEPT ![f] = store]
  /\ Goto(f, "request")
  /\ UNCHANGED <<inputs, holder, ready, store, dirty, stale, result, call, history>>

\* Nothing is changed between a server and an address that both exist.
OnlyValidated(f) == use_external /\ f \in Existing

(***************************************************************************)
(* _validate_external_floating_ip_connection compares with the address     *)
(* that configure recorded; its counterpart for unlink only logs.          *)
(***************************************************************************)
Validate(f) ==
  /\ phase[f] = "request" /\ OnlyValidated(f)
  /\ Ends(f, IF op[f] = "disconnect" \/ copy[f].recorded = f THEN "ok" ELSE "failed")
  /\ UNCHANGED <<inputs, holder, ready, store, attempt, call, history>>

\* Mutant: last_ip is not set.
Shown_NoLast(properties, f) ==
  IF use_public_ip THEN [properties EXCEPT !.public = f, !.ip = f]
                   ELSE [properties EXCEPT !.public = f]

\* Mutant: public_ip is left.
Hidden_KeepsPublic(properties) ==
  IF use_public_ip THEN [properties EXCEPT !.ip = properties.last, !.last = None]
  ELSE properties

Shown(properties, f) ==
  IF use_public_ip
  THEN [properties EXCEPT !.public = f, !.last = properties.ip, !.ip = f]
  ELSE [properties EXCEPT !.public = f]

Hidden(properties) ==
  IF use_public_ip
  THEN [properties EXCEPT !.public = None, !.ip = properties.last, !.last = None]
  ELSE [properties EXCEPT !.public = None]

Changes(f, properties) == /\ copy' = [copy EXCEPT ![f] = properties]
                          /\ dirty' = dirty \union {f} /\ UNCHANGED stale

(***************************************************************************)
(* connect_floating_ip.  The service takes an address that is associated   *)
(* with another server from it.                                            *)
(***************************************************************************)
Connect(f) ==
  /\ phase[f] = "request" /\ op[f] = "connect" /\ ~OnlyValidated(f)
  /\ holder' = [holder EXCEPT ![f] = "server"]
  /\ Changes(f, Shown(copy[f], f))
  /\ Ends(f, "ok")
  /\ UNCHANGED <<inputs, ready, store, call, history>>

(***************************************************************************)
(* disconnect_floating_ip.  The service refuses to remove an address that  *)
(* the server does not have: NonRecoverableError.                          *)
(***************************************************************************)
Disconnect(f) ==
  /\ phase[f] = "request" /\ op[f] = "disconnect" /\ ~OnlyValidated(f)
  /\ \/ /\ holder[f] = "server"
        /\ holder' = [holder EXCEPT ![f] = "none"]
        /\ Changes(f, Hidden(copy[f]))
        /\ Ends(f, "ok")
     \/ /\ holder[f] # "server"
        /\ Ends(f, "failed") /\ UNCHANGED <<holder, attempt>>
  /\ UNCHANGED <<inputs, ready, store, call, history>>

RequestRaises(f) ==
  /\ phase[f] = "request" /\ Event("transient")
  /\ Ends(f, "failed")
  /\ lost' = IF op[f] = "connect" /\ holder[f] = "server" THEN lost \union {f} ELSE lost
  /\ UNCHANGED <<inputs, holder, ready, store, attempt, call, mixed, repeated,
                 moved, late>>

-----------------------------------------------------------------------------
Drop(f) == copy' = [copy EXCEPT ![f] = NoProperties] /\ dirty' = dirty \ {f}

\* An attempt ends, and its copy is up to date, or was not changed.
Save(f) ==
  /\ phase[f] = "end"
  /\ \/ f \notin dirty /\ UNCHANGED store /\ stale' = stale \ {f}
     \/ /\ f \in dirty \ stale
        /\ store' = copy[f]
        /\ stale' = {g \in Floats \ {f} : Loaded(g)}
  /\ Drop(f) /\ Goto(f, "stored")
  /\ UNCHANGED <<inputs, holder, ready, result, call, history>>

\* The workflow takes notice of the result.
Report(f) ==
  /\ phase[f] = "stored"
  /\ Goto(f, "idle")
  /\ linked' = IF result[f] = "ok" /\ op[f] = "disconnect" THEN linked \ {f} ELSE linked
  /\ UNCHANGED <<inputs, holder, ready, store, attempt, result, op, rounds, history>>

\* Executed again: what was changed is lost, or will be changed again.
Again(f) == /\ Drop(f) /\ stale' = stale \ {f}
            /\ Goto(f, "begin")
            /\ result' = [result EXCEPT ![f] = "ok"]

Conflict(f) ==
  /\ phase[f] = "end" /\ f \in dirty \intersect stale
  /\ Again(f) /\ lost' = IF op[f] = "disconnect" THEN lost \union {f} ELSE lost
  /\ UNCHANGED <<inputs, holder, ready, store, call, mixed, repeated, moved,
                 late, events>>

Crash(f) ==
  /\ phase[f] \in {"request", "end", "stored"} /\ Event("crash")
  /\ Again(f)
  /\ lost' = IF f \in dirty /\ op[f] = "disconnect" THEN lost \union {f} ELSE lost
  /\ repeated' = IF phase[f] = "stored" /\ op[f] = "connect" /\ result[f] = "ok"
                 THEN repeated \union {f} ELSE repeated
  /\ UNCHANGED <<inputs, holder, ready, store, call, mixed, moved, late>>

\* Volumes and groups of the server store its runtime properties too.
OthersStore ==
  /\ Event("store")
  /\ stale' = {f \in Floats : Loaded(f)}
  /\ UNCHANGED <<inputs, holder, ready, store, copy, dirty, phase, result, call,
                 mixed, lost, repeated, moved, late>>

\* Others associate an address, or end its association.
OthersMove ==
  /\ Event("move")
  /\ \E f \in Existing \union ready : \E h \in {"none", "server", "other"} \ {holder[f]} :
       holder' = [holder EXCEPT ![f] = h]
       /\ moved' = moved \union {f}
       /\ late' = IF f \in ready THEN late \union {f} ELSE late
  /\ UNCHANGED <<inputs, ready, store, attempt, phase, result, call, mixed, lost,
                 repeated>>

Attempt(f) == \/ Load(f) \/ Validate(f) \/ Connect(f) \/ Disconnect(f)
              \/ Save(f) \/ Report(f) \/ Conflict(f)

Next ==
  \/ Configure
  \/ \E f \in Floats : \/ Create(f) \/ Begin(f) \/ Attempt(f)
                       \/ RequestRaises(f) \/ Crash(f)
  \/ OthersStore \/ OthersMove

Spec == Init /\ [][Next]_vars

-----------------------------------------------------------------------------
\* Every variable has its type; only an attempt has a copy.
TypeOK ==
  /\ use_public_ip \in BOOLEAN /\ use_external \in BOOLEAN
  /\ allow_reallocation \subseteq Existing /\ ready \subseteq Floats
  /\ holder \in [Floats -> {"none", "server", "other"}]
  /\ store \in Properties /\ copy \in [Floats -> Properties]
  /\ op \in [Floats -> {"connect", "disconnect"}]
  /\ phase \in [Floats -> {"idle", "begin", "request", "end", "stored"}]
  /\ result \in [Floats -> {"ok", "failed"}]
  /\ dirty \subseteq Floats /\ stale \subseteq Floats
  /\ \A f \in dirty : phase[f] = "end"
  /\ linked \subseteq Floats /\ rounds \in [Floats -> Nat]
  /\ mixed \in BOOLEAN /\ lost \subseteq Floats /\ repeated \subseteq Floats
  /\ late \subseteq moved /\ moved \subseteq Floats
  /\ events \in [EventKinds -> Nat]

Quiet(f) == phase[f] = "idle" /\ f \notin lost \union moved

(***************************************************************************)
(* The public_ip of the server is a floating address it has, however many  *)
(* there are and however their operations interleave.  Left out (Quiet)    *)
(* are addresses that others moved, and those that are lost: a disconnect  *)
(* that is executed again after its request, and before what it changed is *)
(* stored, fails; and so may a connect.                                    *)
(***************************************************************************)
PublicIsConnected ==
  \A f \in Floats : Quiet(f) /\ store.public = f => holder[f] = "server"

(***************************************************************************)
(* While one floating address at most is in use, the ip of the server is   *)
(* that address while it is connected and use_public_ip is set, and its    *)
(* fixed address otherwise, however often the operations are executed      *)
(* again before they are stored.  A connect that is executed again after   *)
(* that saves the floating address as last_ip: from then on the ip of a    *)
(* server without one is such an address, which disconnect_floating_ip     *)
(* puts back.  Left out besides those of Quiet are addresses whose last    *)
(* operation failed.  (With a second address in use, disconnect puts a     *)
(* floating address back too, or leaves no ip at all.)                     *)
(***************************************************************************)
AddressFollows ==
  ~mixed /\ Configured /\ (\A f \in Floats : Quiet(f))
    /\ (\A f \in linked : result[f] = "ok") =>
    CASE use_public_ip /\ linked # {} -> store.ip \in linked
      [] use_public_ip /\ linked = {} /\ repeated # {} -> store.ip \in repeated
      [] OTHER -> store.ip = Private

(***************************************************************************)
(* A floating address is taken from another server only with               *)
(* allow_reallocation, or if it was free when its node was created.        *)
(***************************************************************************)
TakenOnlyIfAllowed ==
  [][\A f \in Floats :
       holder[f] = "other" /\ holder'[f] = "server" /\ phase'[f] = "end"
         => f \in allow_reallocation \union late]_vars
=============================================================================
