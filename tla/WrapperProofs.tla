--------------------------- MODULE WrapperProofs ---------------------------
(***************************************************************************)
(* Proofs about NodeOperation, for every set of identifiers and every      *)
(* bound on faults and install cycles, and about Translation, for any      *)
(* names, settings and rules.  The two components share this module, not   *)
(* state.                                                                  *)
(*                                                                         *)
(* Translation refuses and translates along one chain of steps.  Its       *)
(* invariants say what each step has made of what was given: RequestInv    *)
(* until the inputs are merged, InputsFit and CreatedFits afterwards, key  *)
(* by key of the settings.  They are inductive because what was given, and *)
(* what the cloud has, stays (situation).                                  *)
(***************************************************************************)
EXTENDS NodeOperation, Translation, TLAPS

(***************************************************************************)
(* The resource an OpenstackResource object finds is the one that matches. *)
(***************************************************************************)
LEMMA FoundMatches ==
  ASSUME NEW id, IsFound(id)
  PROVE  Found(id) \in Ids /\ Matches(id) = {Found(id)}
BY DEF IsFound, Found

(* How the steps of an attempt change the runtime properties, by field. *)
LEMMA PropertiesFields ==
  ASSUME NEW p \in Properties, NEW i \in Ids \union {None}
  PROVE  /\ p.id \in Ids \union {None}
         /\ [p EXCEPT !.id = i] \in Properties
         /\ [p EXCEPT !.id = i].id = i
         /\ [p EXCEPT !.id = i].cond = p.cond
         /\ [p EXCEPT !.id = i].typed = p.typed
         /\ [p EXCEPT !.cond = TRUE] \in Properties
         /\ [p EXCEPT !.cond = TRUE].id = p.id
         /\ [p EXCEPT !.cond = TRUE].cond
         /\ [p EXCEPT !.cond = TRUE].typed = p.typed
         /\ [p EXCEPT !.typed = TRUE] \in Properties
         /\ [p EXCEPT !.typed = TRUE].id = p.id
         /\ [p EXCEPT !.typed = TRUE].cond = p.cond
         /\ [p EXCEPT !.typed = TRUE].typed
BY DEF Properties

(* unset_runtime_properties_from_instance leaves nothing. *)
LEMMA ClearedFields ==
  /\ Cleared \in Properties
  /\ Cleared.id = None /\ ~Cleared.cond /\ ~Cleared.typed
BY DEF Cleared, Properties

(* What the tail of an operation does to the runtime properties. *)
LEMMA TaskFields ==
  ASSUME NEW p \in Properties, NEW o
  PROVE  /\ TaskProperties(o, p) \in Properties
         /\ o = "create" => /\ TaskProperties(o, p).id = p.id
                            /\ TaskProperties(o, p).cond = p.cond
                            /\ TaskProperties(o, p).typed
         /\ o = "delete" => TaskProperties(o, p) = Cleared
         /\ o \notin {"create", "delete"} => TaskProperties(o, p) = p
<1>1. CASE o = "create"
  <2>1. TaskProperties(o, p) = [p EXCEPT !.typed = TRUE]
    BY <1>1, Zenon DEF TaskProperties
  <2> QED
    BY <1>1, <2>1, PropertiesFields
<1>2. CASE o = "delete"
  BY <1>2, ClearedFields DEF TaskProperties
<1>3. CASE o \notin {"create", "delete"}
  BY <1>3 DEF TaskProperties
<1> QED
  BY <1>1, <1>2, <1>3

(***************************************************************************)
(* Type correctness of the wrapper: the runtime properties keep the shape  *)
(* their readers expect, through every failure and re-execution.           *)
(***************************************************************************)
THEOREM TypeCorrect == Spec => []TypeOK
<1>1. Init => TypeOK
  <2> SUFFICES ASSUME Init PROVE TypeOK
    OBVIOUS
  <2>1. PICK f \in SUBSET Ids :
          /\ live = f
          /\ origin = [i \in Ids |-> IF i \in f THEN "foreign" ELSE "unborn"]
    BY DEF Init
  <2>2. origin \in [Ids -> {"unborn", "foreign", "plugin"}]
    BY <2>1
  <2>3. cycles \in 0 .. MaxCycles /\ faults \in [FaultKinds -> Nat]
    BY CyclesAssumption DEF Init
  <2> QED
    BY <2>1, <2>2, <2>3, ClearedFields DEF Init, TypeOK, Operations
<1>2. ASSUME TypeOK, [Next]_vars PROVE TypeOK'
  <2> USE <1>2, NoneAssumption, FaultsAssumption, CyclesAssumption
  <2> USE DEF TypeOK, Operations, FaultKinds, cloud, attempt, flow
  <2>1. CASE BeginCreate
    BY <2>1 DEF BeginCreate, Begin
  <2>2. CASE BeginOther
    BY <2>2 DEF BeginOther, Begin
  <2>3. CASE Prepare
    <3>1. rp' \in Properties
      BY <2>3, ClearedFields DEF Prepare
    <3> QED
      BY <2>3, <3>1, PropertiesFields DEF Prepare
  <2>4. CASE LookupFinds
    BY <2>4 DEF LookupFinds
  <2>5. CASE LookupRaises
    <3>1. [rp EXCEPT !.cond = TRUE] \in Properties
      BY PropertiesFields
    <3>2. rp' \in Properties
      BY <2>5, <3>1 DEF LookupRaises
    <3> QED
      BY <2>5, <3>2 DEF LookupRaises, GetRaises, Fault, MayFault, End
  <2>6. CASE RecordRaises
    BY <2>6 DEF RecordRaises, GetRaises, Fault, MayFault, End
  <2>7. CASE UseExternal
    <3>1. Found(res) \in Ids
      BY <2>7, FoundMatches DEF UseExternal
    <3>2. [rp EXCEPT !.id = Found(res)] \in Properties
      BY <3>1, PropertiesFields
    <3>3. rp' \in Properties
      BY <2>7, <3>2, TaskFields DEF UseExternal
    <3> QED
      BY <2>7, <3>1, <3>3 DEF UseExternal, End
  <2>8. CASE Guard
    BY <2>8 DEF Guard, End
  <2>9. CASE HandleCreate
    <3>1. PICK i \in Ids :
            /\ origin' = [origin EXCEPT ![i] = "plugin"]
            /\ live' = live \union {i}
            /\ \/ HandlerReturns([rp EXCEPT !.id = i]) /\ UNCHANGED faults
               \/ End("failed") /\ UNCHANGED rp /\ Fault("lost")
      BY <2>9 DEF HandleCreate
    <3>2. [rp EXCEPT !.id = i] \in Properties
      BY PropertiesFields
    <3>3. rp' \in Properties
      BY <3>1, <3>2, TaskFields DEF HandlerReturns
    <3> QED
      BY <2>9, <3>1, <3>3 DEF HandleCreate, HandlerReturns, End, Fault, MayFault
  <2>10. CASE HandleDelete
    <3>1. rp' \in Properties
      BY <2>10, TaskFields DEF HandleDelete, HandlerReturns
    <3> QED
      BY <2>10, <3>1, FoundMatches
      DEF HandleDelete, HandlerReturns, End, Fault, MayFault
  <2>11. CASE HandleOther
    BY <2>11, TaskFields DEF HandleOther, HandlerReturns, End
  <2>12. CASE HandlerRaises
    BY <2>12 DEF HandlerRaises, GetRaises, Fault, MayFault, End
  <2>13. CASE PostReturns
    BY <2>13 DEF PostReturns, End
  <2>14. CASE PostRaises
    BY <2>14 DEF PostRaises, GetRaises, Fault, MayFault, End
  <2>15. CASE Finish
    BY <2>15, Zenon DEF Finish
  <2>16. CASE Crash
    BY <2>16 DEF Crash, Fault, MayFault
  <2>17. CASE ForeignAppears
    BY <2>17 DEF ForeignAppears
  <2>18. CASE Removed
    BY <2>18 DEF Removed, Fault, MayFault
  <2>19. CASE UNCHANGED vars
    BY <2>19 DEF vars
  <2> QED
    BY <2>1, <2>2, <2>3, <2>4, <2>5, <2>6, <2>7, <2>8, <2>9, <2>10, <2>11,
       <2>12, <2>13, <2>14, <2>15, <2>16, <2>17, <2>18, <2>19
    DEF Next, Attempt, Environment
<1> QED
  BY <1>1, <1>2, PTL DEF Spec

-----------------------------------------------------------------------------
(***************************************************************************)
(* Why foreign resources survive.  The invariant follows the three kinds   *)
(* of nodes: a node that is not external only ever records ids of its own  *)
(* resources and deletes by id; an external node without create_if_missing *)
(* never runs the handler of a new node's operation; a create_if_missing   *)
(* node, as long as no fault happened, finds what it recorded, so that     *)
(* 'conditionally_created' still says who made it.                         *)
(***************************************************************************)
BeforeHandler == {"lookup", "record", "guard", "handler"}
Own(p) == p.id = None \/ origin[p.id] = "plugin"
Clean == NoFault(FaultKinds)

PlainInv == ~props.external =>
  /\ Own(store) /\ Own(rp)
  /\ phase \notin {"lookup", "record", "post"}
  /\ phase \in {"guard", "handler"} => res = rp.id

ExternalInv == props.external /\ ~props.cim =>
  /\ ~store.cond /\ ~rp.cond
  /\ phase \in {"guard", "handler", "post"} => op = "update"

ConditionalInv == props.external /\ props.cim /\ Clean =>
  /\ store.cond => Own(store)
  /\ rp.cond => Own(rp)
  /\ phase \in BeforeHandler \union {"idle", "start"} =>
       store.id \in live \union {None}
  /\ phase \notin {"idle", "start"} => rp.id \in live \union {None}
  /\ phase \in {"lookup", "record"} => res = rp.id
  /\ phase \in {"guard", "handler"} /\ op = "delete" =>
       rp.cond /\ (res = rp.id \/ rp.id = None)

DeleteInv == phase = "handler" /\ op = "delete" => rp.id # None

BornInv == \A i \in live \union killed : origin[i] # "unborn"

ForeignInv == /\ BornInv /\ PlainInv /\ ExternalInv /\ ConditionalInv /\ DeleteInv
              /\ ForeignSurvives

(* Fault counters only grow, and a fault is counted. *)
LEMMA FaultsAreCounted ==
  ASSUME TypeOK, NEW K \in SUBSET FaultKinds
  PROVE  /\ UNCHANGED faults => (NoFault(K)' <=> NoFault(K))
         /\ \A k \in FaultKinds : Fault(k) => (NoFault(K)' => NoFault(K))
         /\ \A k \in K : Fault(k) => ~NoFault(K)'
BY DEF TypeOK, Fault, NoFault

(* The invariant about ownership holds of every behaviour. *)
LEMMA ForeignInvariant == Spec => []ForeignInv
<1>1. Init => ForeignInv
  BY ClearedFields
  DEF Init, ForeignInv, BornInv, PlainInv, ExternalInv, ConditionalInv, DeleteInv,
      ForeignSurvives, Own, BeforeHandler
<1>2. ASSUME TypeOK, TypeOK', ForeignInv, [Next]_vars PROVE ForeignInv'
  <2> USE <1>2, NoneAssumption
  <2> USE DEF ForeignInv, BornInv, PlainInv, ExternalInv, ConditionalInv, DeleteInv,
              ForeignSurvives, Own, BeforeHandler, Clean, cloud, attempt, flow
  <2>0. /\ UNCHANGED faults => (Clean' <=> Clean)
        /\ \A k \in FaultKinds : Fault(k) => (Clean' => Clean) /\ ~Clean'
        /\ {"crash", "transient", "lost", "removal"} = FaultKinds
    BY FaultsAreCounted DEF FaultKinds
  <2>t. /\ store \in Properties /\ rp \in Properties /\ live \subseteq Ids
        /\ origin \in [Ids -> {"unborn", "foreign", "plugin"}]
        /\ rp' \in Properties /\ store' \in Properties
    BY DEF TypeOK
  <2>1. CASE BeginCreate
    BY <2>0, <2>t, <2>1 DEF BeginCreate, Begin
  <2>2. CASE BeginOther
    BY <2>0, <2>t, <2>2 DEF BeginOther, Begin
  <2>3. CASE Prepare
    BY <2>0, <2>t, <2>3, PropertiesFields, ClearedFields DEF Prepare
  <2>4. CASE LookupFinds
    BY <2>0, <2>t, <2>4 DEF LookupFinds
  <2>5. CASE LookupRaises
    <3> USE <2>5 DEF LookupRaises, End
    <3>1. CASE ~props.cim
      BY <2>0, <2>t, <3>1 DEF GetRaises
    <3>2. CASE props.cim
      <4>1. rp' = [rp EXCEPT !.cond = TRUE] /\ res' = None /\ phase' = "guard"
        BY <3>2
      <4>2. rp'.id = rp.id /\ rp'.cond
        BY <2>t, <4>1, PropertiesFields
      <4>3. Clean /\ Clean' /\ props.external /\ rp.id \in live => FALSE
        BY <2>0, <2>t, <3>2, TypeOK DEF GetRaises, IsFound, Matches
      <4> QED
        BY <2>0, <2>t, <3>2, <4>1, <4>2, <4>3 DEF GetRaises
    <3> QED
      BY <3>1, <3>2
  <2>6. CASE RecordRaises
    BY <2>0, <2>t, <2>6 DEF RecordRaises, GetRaises, End, IsFound, Matches
  <2>7. CASE UseExternal
    <3> USE <2>7 DEF UseExternal, End
    <3>1. CASE rp.cond
      BY <2>0, <2>t, <3>1 DEF NewNodeOperations
    <3>2. CASE ~rp.cond
      <4> DEFINE known == IF op = "create"
                          THEN [rp EXCEPT !.id = Found(res)] ELSE rp
      <4>1. Found(res) \in live /\ Found(res) \in Ids
        BY <2>t, FoundMatches DEF Matches
      <4>2. /\ known \in Properties /\ known.cond = rp.cond
            /\ known.id \in {rp.id, Found(res)}
        BY <2>t, <4>1, PropertiesFields
      <4>3. rp' = known \/ rp' = TaskProperties(op, known)
        BY <3>2
      <4>4. ~rp'.cond /\ rp'.id \in {None, rp.id, Found(res)}
        <5> HIDE DEF known
        <5> QED
          BY <3>2, <4>2, <4>3, TaskFields, ClearedFields
      <4>5. phase' = "end" \/ (phase' = "guard" /\ op \notin NewNodeOperations)
        BY <3>2
      <4> QED
        BY <2>0, <2>t, <3>2, <4>1, <4>4, <4>5 DEF NewNodeOperations, TypeOK, Operations
    <3> QED
      BY <3>1, <3>2
  <2>8. CASE Guard
    BY <2>0, <2>t, <2>8 DEF Guard, End
  <2>9. CASE HandleCreate
    <3>1. PICK i \in Ids :
            /\ origin[i] = "unborn"
            /\ origin' = [origin EXCEPT ![i] = "plugin"]
            /\ live' = live \union {i}
            /\ \/ HandlerReturns([rp EXCEPT !.id = i]) /\ UNCHANGED faults
               \/ End("failed") /\ UNCHANGED rp /\ Fault("lost")
      BY <2>9 DEF HandleCreate
    <3>2. op = "create" /\ phase = "handler"
      BY <2>9 DEF HandleCreate
    <3>3. \/ rp'.id = i /\ rp'.cond = rp.cond /\ UNCHANGED faults
          \/ rp' = rp /\ Fault("lost") /\ phase' = "end"
      <4> DEFINE q == [rp EXCEPT !.id = i]
      <4>1. q \in Properties /\ q.id = i /\ q.cond = rp.cond
        BY <2>t, PropertiesFields
      <4>2. \/ rp' = TaskProperties("create", q) /\ UNCHANGED faults
            \/ rp' = rp /\ Fault("lost") /\ phase' = "end"
        BY <3>1, <3>2 DEF HandlerReturns, End
      <4> HIDE DEF q
      <4> QED
        BY <4>1, <4>2, TaskFields
    <3>4. \A j \in Ids : /\ origin'[j] = "foreign" => origin[j] = "foreign"
                        /\ origin[j] = "plugin" => origin'[j] = "plugin"
      BY <2>t, <3>1
    <3>5. origin'[i] = "plugin"
      BY <2>t, <3>1
    <3>6. killed \subseteq Ids
      BY DEF TypeOK
    <3>7. /\ phase' \in {"post", "end"}
          /\ phase' = "post" => props.external
      BY <3>1 DEF HandlerReturns, End
    <3>8. UNCHANGED <<killed, store, props, op, res>>
      BY <2>9 DEF HandleCreate
    <3>9. /\ rp.id \in Ids \union {None} /\ store.id \in Ids \union {None}
      BY <2>t, PropertiesFields
    <3>10. ForeignSurvives'
      BY <2>0, <3>4, <3>6, <3>8, <3>1
    <3> QED
      BY <2>0, <2>t, <3>1, <3>2, <3>3, <3>4, <3>5, <3>7, <3>8, <3>9, <3>10
  <2>10. CASE HandleDelete
    BY <2>0, <2>t, <2>10, FoundMatches, TaskFields, PropertiesFields, ClearedFields DEF HandleDelete, HandlerReturns, End, IsFound, Matches
  <2>11. CASE HandleOther
    BY <2>0, <2>t, <2>11, FoundMatches, TaskFields, PropertiesFields, ClearedFields DEF HandleOther, HandlerReturns, End
  <2>12. CASE HandlerRaises
    BY <2>0, <2>t, <2>12 DEF HandlerRaises, GetRaises, End, IsFound, Matches
  <2>13. CASE PostReturns
    BY <2>0, <2>t, <2>13 DEF PostReturns, End
  <2>14. CASE PostRaises
    BY <2>0, <2>t, <2>14 DEF PostRaises, GetRaises, End
  <2>15. CASE Finish
    BY <2>0, <2>t, <2>15 DEF Finish
  <2>16. CASE Crash
    BY <2>0, <2>t, <2>16 DEF Crash
  <2>17. CASE ForeignAppears
    <3>1. PICK i \in Ids : /\ origin[i] = "unborn"
                         /\ origin' = [origin EXCEPT ![i] = "foreign"]
                         /\ live' = live \union {i}
      BY <2>17 DEF ForeignAppears
    <3>2. \A j \in Ids : /\ origin[j] = "plugin" => origin'[j] = "plugin"
                        /\ origin'[j] = "foreign" => j = i \/ origin[j] = "foreign"
      BY <2>t, <3>1
    <3>3. i \notin killed
      BY <3>1
    <3>4. rp.id \in Ids \union {None} /\ store.id \in Ids \union {None}
      BY <2>t, PropertiesFields
    <3> QED
      BY <2>0, <2>t, <2>17, <3>1, <3>2, <3>3, <3>4 DEF ForeignAppears, TypeOK
  <2>18. CASE Removed
    BY <2>0, <2>t, <2>18 DEF Removed
  <2>19. CASE UNCHANGED vars
    BY <2>0, <2>19 DEF vars
  <2> QED
    BY <2>1, <2>2, <2>3, <2>4, <2>5, <2>6, <2>7, <2>8, <2>9, <2>10, <2>11, <2>12, <2>13, <2>14, <2>15, <2>16, <2>17, <2>18, <2>19
    DEF Next, Attempt, Environment
<1> QED
  BY <1>1, <1>2, TypeCorrect, PTL DEF Spec

(***************************************************************************)
(* The plugin deletes no resource of somebody else, but for a              *)
(* create_if_missing node after a fault.                                   *)
(***************************************************************************)
THEOREM ForeignSafe == Spec => []ForeignSurvives
BY ForeignInvariant, PTL DEF ForeignInv

-----------------------------------------------------------------------------
(***************************************************************************)
(* Why the plugin loses nothing.  FlowInv ties the recorded id to the      *)
(* state of the instance, IdInv the id the resource object works with to   *)
(* the recorded one; together they make the handler of delete remove       *)
(* exactly what is owned, and create run only when nothing is.             *)
(***************************************************************************)
FlowInv ==
  /\ inst = "uninitialized" => phase = "idle" /\ store.id = None
  /\ phase # "idle" /\ op = "create" => store.id = None /\ inst = "creating"
  /\ phase \in BeforeHandler /\ op = "create" => rp.id = None
  /\ phase = "post" \/ (phase = "end" /\ result = "ok") =>
       /\ op = "create" => rp.id # None /\ rp.typed
       /\ op = "delete" => rp.id = None
  /\ inst = "created" =>
       /\ store.id # None /\ store.typed
       /\ phase \notin {"idle", "start"} => rp.id # None /\ rp.typed
       /\ phase # "idle" => op \in {"start", "update"}
  /\ phase # "idle" /\ op = "delete" => inst = "deleting"

IdInv ==
  /\ phase \in {"lookup", "record", "post"} => props.external
  /\ phase \in {"lookup", "record"} => res = rp.id
  /\ phase \in {"guard", "handler"} /\ op \in NewNodeOperations =>
       /\ res \in {rp.id, None}
       /\ props.external => rp.cond

Steady == NoFault({"crash", "lost"})

OwnedInv == Steady =>
  /\ phase \in {"idle", "start"} => Owned \subseteq {store.id}
  /\ phase \notin {"idle", "start"} => Owned \subseteq {rp.id}
  /\ props.external => /\ store.id \in Owned => store.cond
                       /\ rp.id \in Owned => rp.cond

BookInv == FlowInv /\ IdInv /\ OwnedInv

(* The step from which the theorems below follow. *)
LEMMA BookInductive ==
  ASSUME TypeOK, TypeOK', BookInv, [Next]_vars
  PROVE  BookInv'
<1> USE NoneAssumption
<1> USE DEF BookInv, FlowInv, IdInv, OwnedInv, Steady, BeforeHandler,
            NewNodeOperations, cloud, attempt, flow
<1>0. /\ UNCHANGED faults => (Steady' <=> Steady)
      /\ \A k \in {"crash", "transient", "lost", "removal"} :
           Fault(k) => (Steady' => Steady)
      /\ \A k \in {"crash", "lost"} : Fault(k) => ~Steady'
  BY FaultsAreCounted DEF FaultKinds
<1>t. /\ store \in Properties /\ rp \in Properties /\ live \subseteq Ids
      /\ origin \in [Ids -> {"unborn", "foreign", "plugin"}]
      /\ rp' \in Properties /\ store' \in Properties
      /\ op \in {"create", "start", "update", "stop", "delete"}
  BY DEF TypeOK, Operations
<1>o. UNCHANGED <<live, origin>> => Owned' = Owned
  BY DEF Owned
<1>1. CASE BeginCreate
  BY <1>0, <1>t, <1>o, <1>1 DEF BeginCreate, Begin
<1>2. CASE BeginOther
  BY <1>0, <1>t, <1>o, <1>2 DEF BeginOther, Begin
<1>3. CASE Prepare
  <2>1. rp'.id = store.id /\ (op # "create" => rp' = store)
    BY <1>3, ClearedFields DEF Prepare
  <2>2. op = "create" => rp'.id = None /\ (Steady => Owned = {})
    BY <1>t, <1>3, <2>1 DEF Prepare, Owned
  <2> QED
    BY <1>0, <1>t, <1>o, <1>3, <2>1, <2>2 DEF Prepare, TypeOK
<1>4. CASE LookupFinds
  BY <1>0, <1>t, <1>o, <1>4 DEF LookupFinds
<1>5. CASE LookupRaises
  <2>1. [rp EXCEPT !.cond = TRUE].id = rp.id
        /\ [rp EXCEPT !.cond = TRUE].cond
        /\ [rp EXCEPT !.cond = TRUE].typed = rp.typed
    BY <1>t, PropertiesFields
  <2>2. /\ rp'.id = rp.id /\ rp'.typed = rp.typed
        /\ rp' = rp \/ rp'.cond
        /\ \/ phase' = "guard" /\ res' = None /\ rp'.cond
           \/ phase' = "end" /\ result' = "failed" /\ rp' = rp
        /\ phase = "lookup" /\ UNCHANGED <<cloud, store, flow>>
    BY <1>5, <2>1 DEF LookupRaises, End
  <2>3. Steady' => Steady
    BY <1>0, <1>5 DEF LookupRaises, GetRaises
  <2> QED
    BY <1>t, <1>o, <2>2, <2>3
<1>6. CASE RecordRaises
  BY <1>0, <1>t, <1>o, <1>6 DEF RecordRaises, GetRaises, End
<1>7. CASE UseExternal
  <2> USE <1>7 DEF UseExternal, End
  <2>1. CASE rp.cond
    BY <1>0, <1>t, <1>o, <2>1
  <2>2. CASE ~rp.cond
    <3> DEFINE known == IF op = "create"
                        THEN [rp EXCEPT !.id = Found(res)] ELSE rp
    <3>1. Found(res) \in Ids
      BY FoundMatches
    <3>2. /\ known \in Properties /\ known.typed = rp.typed
          /\ op = "create" => known.id = Found(res)
          /\ op # "create" => known = rp
      BY <1>t, <3>1, PropertiesFields
    <3>3. /\ \/ phase' = "end" /\ result' = "failed" /\ rp' = known
             \/ phase' = "guard" /\ op \notin NewNodeOperations /\ rp' = known
             \/ /\ phase' = "end" /\ result' = "ok"
                /\ rp' = TaskProperties(op, known)
          /\ phase = "record" /\ UNCHANGED <<cloud, store, flow, faults>>
      BY <2>2
    <3>4. /\ op = "create" => rp'.id = Found(res)
          /\ op = "create" /\ phase' = "end" /\ result' = "ok" => rp'.typed
          /\ op = "delete" => rp'.id = None \/ rp' = rp
          /\ op = "delete" /\ phase' = "end" /\ result' = "ok" => rp'.id = None
          /\ op \notin {"create", "delete"} => rp' = rp
      <4> HIDE DEF known
      <4> QED
        BY <2>2, <3>2, <3>3, TaskFields, ClearedFields
    <3>5. Steady => Owned = {}
      BY <1>t, <2>2, <3>3 DEF Owned
    <3> QED
      BY <1>0, <1>t, <1>o, <2>2, <3>1, <3>3, <3>4, <3>5
  <2> QED
    BY <2>1, <2>2
<1>8. CASE Guard
  BY <1>0, <1>t, <1>o, <1>8 DEF Guard, End
<1>9. CASE HandleCreate
  <2>1. PICK i \in Ids :
          /\ origin' = [origin EXCEPT ![i] = "plugin"]
          /\ live' = live \union {i}
          /\ \/ HandlerReturns([rp EXCEPT !.id = i]) /\ UNCHANGED faults
             \/ End("failed") /\ UNCHANGED rp /\ Fault("lost")
    BY <1>9 DEF HandleCreate
  <2>2. /\ op = "create" /\ phase = "handler" /\ rp.id = None
        /\ UNCHANGED <<store, res, flow>>
    BY <1>9 DEF HandleCreate
  <2>3. \/ /\ rp'.id = i /\ rp'.cond = rp.cond /\ rp'.typed
           /\ phase' \in {"post", "end"} /\ UNCHANGED faults
           /\ phase' = "post" => props.external
        \/ rp' = rp /\ Fault("lost") /\ phase' = "end" /\ result' = "failed"
    <3> DEFINE q == [rp EXCEPT !.id = i]
    <3>1. q \in Properties /\ q.id = i /\ q.cond = rp.cond
      BY <1>t, PropertiesFields
    <3>2. \/ /\ rp' = TaskProperties("create", q) /\ UNCHANGED faults
             /\ phase' \in {"post", "end"} /\ (phase' = "post" => props.external)
          \/ rp' = rp /\ Fault("lost") /\ phase' = "end" /\ result' = "failed"
      BY <2>1, <2>2 DEF HandlerReturns, End
    <3> HIDE DEF q
    <3> QED
      BY <3>1, <3>2, TaskFields
  <2>4. Steady => Owned = {}
    BY <1>t, <2>2 DEF Owned
  <2>5. Owned' \subseteq Owned \union {i}
    BY <1>t, <2>1 DEF Owned
  <2>6. store.id = None /\ None \notin Owned'
    BY <1>t, <2>2 DEF Owned, TypeOK
  <2> QED
    BY <1>0, <1>t, <2>2, <2>3, <2>4, <2>5, <2>6
<1>10. CASE HandleDelete
  BY <1>0, <1>t, <1>o, <1>10, FoundMatches, TaskFields, PropertiesFields, ClearedFields DEF HandleDelete, HandlerReturns, End, Matches, Owned
<1>11. CASE HandleOther
  BY <1>0, <1>t, <1>o, <1>11, FoundMatches, TaskFields, PropertiesFields, ClearedFields DEF HandleOther, HandlerReturns, End
<1>12. CASE HandlerRaises
  BY <1>0, <1>t, <1>o, <1>12 DEF HandlerRaises, GetRaises, End
<1>13. CASE PostReturns
  BY <1>0, <1>t, <1>o, <1>13 DEF PostReturns, End
<1>14. CASE PostRaises
  BY <1>0, <1>t, <1>o, <1>14 DEF PostRaises, GetRaises, End
<1>15. CASE Finish
  BY <1>0, <1>t, <1>o, <1>15 DEF Finish
<1>16. CASE Crash
  BY <1>0, <1>t, <1>o, <1>16 DEF Crash
<1>17. CASE ForeignAppears
  BY <1>0, <1>t, <1>o, <1>17 DEF ForeignAppears, Matches, Owned
<1>18. CASE Removed
  BY <1>0, <1>t, <1>o, <1>18 DEF Removed, Matches, Owned
<1>19. CASE UNCHANGED vars
  BY <1>0, <1>o, <1>19 DEF vars
<1> QED
  BY <1>1, <1>2, <1>3, <1>4, <1>5, <1>6, <1>7, <1>8, <1>9, <1>10, <1>11, <1>12, <1>13, <1>14, <1>15, <1>16, <1>17, <1>18, <1>19
  DEF Next, Attempt, Environment

(* The invariant holds of every behaviour. *)
LEMMA BookInvariant == Spec => [](TypeOK /\ BookInv)
<1>1. Init => BookInv
  BY ClearedFields
  DEF Init, BookInv, FlowInv, IdInv, OwnedInv, BeforeHandler, Owned
<1> QED
  BY <1>1, BookInductive, TypeCorrect, PTL DEF Spec

(* No resource the plugin created is forgotten. *)
THEOREM NothingOrphaned == Spec => []NoOrphan
<1>1. BookInv => NoOrphan
  BY DEF BookInv, OwnedInv, Steady, NoOrphan
<1> QED
  BY <1>1, BookInvariant, PTL

(* Installs record what they made, uninstalls leave nothing. *)
THEOREM WorkflowsDoTheirWork == Spec => []WorkflowsComplete
<1>1. TypeOK /\ BookInv => WorkflowsComplete
  BY NoneAssumption
  DEF BookInv, FlowInv, OwnedInv, Steady, WorkflowsComplete, Owned, TypeOK
<1> QED
  BY <1>1, BookInvariant, PTL

(* What create_if_missing made stays marked as the plugin's. *)
THEOREM MarkIsKept == Spec => []CreatedStaysDeletable
<1>1. BookInv => CreatedStaysDeletable
  BY DEF BookInv, OwnedInv, Steady, CreatedStaysDeletable
<1> QED
  BY <1>1, BookInvariant, PTL

-----------------------------------------------------------------------------
(***************************************************************************)
(* The promise of OwnedResource.  What is left of the others is always all *)
(* of theirs (ForeignSurvives), and of a steady node at most one resource  *)
(* is owned, none before create (BookInv).                                 *)
(***************************************************************************)
Foreign == {i \in Ids : origin[i] = "foreign"}
OwnedOrLost == IF Steady THEN Owned ELSE {}

LEMMA ForeignIsAll ==
  ASSUME ForeignSurvives
  PROVE  {i \in Ids : origin[i] = "foreign"} \ Taken = Foreign
BY DEF ForeignSurvives, Taken, Foreign

LEMMA StepImplements ==
  ASSUME TypeOK, TypeOK', BookInv, ForeignInv, [Next]_vars
  PROVE  \/ OwnedOrLost' = {} /\ Foreign' = Foreign
         \/ OwnedOrLost' = OwnedOrLost /\ Foreign' = Foreign
         \/ /\ OwnedOrLost = {} /\ Foreign' = Foreign
            /\ \E i \in Ids \ Foreign : OwnedOrLost' = {i}
         \/ /\ OwnedOrLost' = OwnedOrLost
            /\ \E i \in Ids \ (OwnedOrLost \union Foreign) : Foreign' = Foreign \union {i}
<1> USE DEF cloud, attempt, flow
<1>0. /\ UNCHANGED faults => (Steady' <=> Steady)
      /\ \A k \in FaultKinds : Fault(k) => (Steady' => Steady)
      /\ Fault("lost") => ~Steady'
  BY FaultsAreCounted DEF FaultKinds, Steady
<1>t. live \subseteq Ids /\ origin \in [Ids -> {"unborn", "foreign", "plugin"}]
  BY DEF TypeOK
<1>s. \E o : Steady => Owned \subseteq {o}
  BY DEF BookInv, OwnedInv
<1>k. Steady' => Steady
  <2>1. UNCHANGED faults \/ \E k \in FaultKinds : Fault(k)
    BY DEF Next, Attempt, Environment, BeginCreate, BeginOther, Begin, Prepare,
           LookupFinds, LookupRaises, RecordRaises, GetRaises, UseExternal, Guard,
           HandleCreate, HandleDelete, HandleOther, HandlerRaises, PostReturns,
           PostRaises, Finish, Crash, ForeignAppears, Removed, FaultKinds, vars
  <2> QED
    BY <1>0, <2>1
<1>1. CASE UNCHANGED <<live, origin>>
  BY <1>1, <1>k DEF OwnedOrLost, Owned, Foreign
<1>2. CASE live' \subseteq live /\ UNCHANGED origin
  <2>1. Owned' \subseteq Owned /\ Foreign' = Foreign
    BY <1>2 DEF Owned, Foreign
  <2>2. Steady => Owned' = {} \/ Owned' = Owned
    BY <1>s, <2>1
  <2> QED
    BY <1>k, <2>1, <2>2 DEF OwnedOrLost
<1>3. CASE HandleCreate
  <2>1. PICK i \in Ids : /\ origin[i] = "unborn"
                         /\ origin' = [origin EXCEPT ![i] = "plugin"]
                         /\ live' = live \union {i}
    BY <1>3 DEF HandleCreate
  <2>2. Foreign' = Foreign /\ i \notin Foreign
    BY <1>t, <2>1 DEF Foreign
  <2>3. CASE Steady'
    <3>1. rp.id = None /\ Owned \subseteq {rp.id}
      BY <1>3, <1>k, <2>3 DEF HandleCreate, BookInv, FlowInv, OwnedInv, BeforeHandler
    <3>2. Owned = {}
      BY <1>t, <3>1, NoneAssumption DEF Owned
    <3>3. Owned' \subseteq Owned \union {i} /\ i \in Owned'
      BY <1>t, <2>1 DEF Owned
    <3> QED
      BY <1>k, <2>2, <2>3, <3>2, <3>3 DEF OwnedOrLost
  <2>4. CASE ~Steady'
    BY <2>2, <2>4 DEF OwnedOrLost
  <2> QED
    BY <2>3, <2>4
<1>4. CASE ForeignAppears
  <2>1. PICK i \in Ids : /\ origin[i] = "unborn"
                         /\ origin' = [origin EXCEPT ![i] = "foreign"]
                         /\ live' = live \union {i}
    BY <1>4 DEF ForeignAppears
  <2>2. Foreign' = Foreign \union {i} /\ i \notin Foreign
    BY <1>t, <2>1 DEF Foreign
  <2>3. i \notin live
    BY <2>1 DEF ForeignInv, BornInv
  <2>4. Owned' = Owned /\ i \notin Owned
    BY <1>t, <2>1, <2>3 DEF Owned
  <2>5. Steady' <=> Steady
    BY <1>0, <1>4 DEF ForeignAppears
  <2> QED
    BY <2>2, <2>4, <2>5 DEF OwnedOrLost
<1>5. \/ UNCHANGED <<live, origin>>
      \/ live' \subseteq live /\ UNCHANGED origin
      \/ HandleCreate \/ ForeignAppears
  BY DEF Next, Attempt, Environment, BeginCreate, BeginOther, Begin, Prepare,
         LookupFinds, LookupRaises, RecordRaises, UseExternal, Guard,
         HandleDelete, HandleOther, HandlerRaises, PostReturns, PostRaises,
         Finish, Crash, Removed, vars
<1> QED
  BY <1>1, <1>2, <1>3, <1>4, <1>5

(* Every behaviour of the wrapper is one of an owner of at most one        *)
(* resource that takes nothing from others.                                *)
THEOREM Refinement == Spec => ImplementsOwnedResource
<1>1. Init => Abstract!Init
  BY ForeignIsAll DEF Init, Abstract!Init, Owned, Taken, NoFault
<1>2. /\ TypeOK /\ TypeOK' /\ BookInv /\ ForeignInv /\ ForeignInv' /\ [Next]_vars
      => [Abstract!Next]_<<IF NoFault({"crash", "lost"}) THEN Owned ELSE {},
                           {i \in Ids : origin[i] = "foreign"} \ Taken>>
  <2> SUFFICES ASSUME TypeOK, TypeOK', BookInv, ForeignInv, ForeignInv', [Next]_vars
               PROVE  [Abstract!Next]_<<IF NoFault({"crash", "lost"}) THEN Owned ELSE {},
                           {i \in Ids : origin[i] = "foreign"} \ Taken>>
    OBVIOUS
  <2>1. {i \in Ids : origin[i] = "foreign"} \ Taken = Foreign
    BY ForeignIsAll DEF ForeignInv
  <2>2. ({i \in Ids : origin[i] = "foreign"} \ Taken)' = Foreign'
    BY DEF ForeignInv, ForeignSurvives, Taken, Foreign
  <2>3. /\ (IF NoFault({"crash", "lost"}) THEN Owned ELSE {}) = OwnedOrLost
        /\ (IF NoFault({"crash", "lost"}) THEN Owned ELSE {})' = OwnedOrLost'
    BY DEF OwnedOrLost, Steady
  <2> QED
    BY <2>1, <2>2, <2>3, StepImplements
    DEF Abstract!Next, Abstract!Acquire, Abstract!Release, Abstract!OthersCreate
<1> QED
  BY <1>1, <1>2, ForeignInvariant, BookInvariant, PTL
  DEF Spec, ImplementsOwnedResource, Abstract!Spec

-----------------------------------------------------------------------------

\* Which nodes reach which steps, and for which operations.
StagesFit ==
  /\ type \in ResourceTypes \union {"routes", "unknown"}
  /\ operation \in OperationKinds
  /\ stage = "server" => type = "server"
  /\ stage = "rules" => type = "security_group"
  /\ stage = "routes" => type = "routes"
  /\ stage \in {"inputs", "identify", "split", "prepare"} => type \in ResourceTypes
  /\ stage \in {"create", "list", "update"} => type \in ResourceTypes /\ operation = stage

\* A rule that was processed is restricted.
RuleFits ==
  /\ given.rule \in SomeRules \union {NoRule}
  /\ stage \in {"lookup", "rules"} => rule = given.rule
  /\ type # "security_group" => given.rule = NoRule /\ rule = NoRule
  /\ stage \notin {"lookup", "rules", "refused"} => rule = NoRule \/ Restricted

\* What the settings are before they are merged and split.
AsGiven ==
  /\ stage \in {"lookup", "server", "rules"} =>
       config = given.config /\ args = given.args /\ nested = given.nested
  /\ stage \in {"inputs", "create", "list", "update"} =>
       /\ nested = given.nested
       /\ args = IF type = "server" THEN ServerMapped(given.args) ELSE given.args
       /\ config = CASE type = "server" -> ServerMapped(given.config)
                     [] type = "security_group" -> Described(given.config)
                     [] OTHER -> given.config

RequestInv == StagesFit /\ RuleFits /\ AsGiven /\ RefusalsHaveCauses

\* A node reaches only the steps of its type and of its operation.
LEMMA StagesInit == TranslationInit => StagesFit
BY DEF TranslationInit, StagesFit

LEMMA StagesStep == StagesFit /\ [TranslationNext]_translationVars => StagesFit'
<1> SUFFICES ASSUME StagesFit, [TranslationNext]_translationVars PROVE StagesFit'
  OBVIOUS
<1> USE DEF StagesFit, situation, After, Goto, OperationKinds
<1>1. CASE UNCHANGED translationVars
  BY <1>1 DEF translationVars
<1>2. CASE LookupHandler
  BY <1>2 DEF LookupHandler, ResourceTypes, ResourceConfig
<1>3. CASE MapServer
  BY <1>3 DEF MapServer, ResourceTypes, ResourceConfig
<1>4. CASE ProcessRule
  BY <1>4 DEF ProcessRule, ByNode, ByName, ResourceTypes, ResourceConfig
<1>5. CASE MergeInputs
  BY <1>5 DEF MergeInputs, Handled
<1>6. CASE CreateInputs
  BY <1>6 DEF CreateInputs
<1>7. CASE ListInputs
  BY <1>7 DEF ListInputs
<1>8. CASE UpdateInputs
  BY <1>8 DEF UpdateInputs
<1>9. CASE Identify
  BY <1>9 DEF Identify
<1>10. CASE Split
  BY <1>10 DEF Split
<1>11. CASE PrepareInstance
  BY <1>11 DEF PrepareInstance
<1>12. CASE TransformRoutes
  BY <1>12 DEF TransformRoutes
<1> QED
  BY <1>1, <1>2, <1>3, <1>4, <1>5, <1>6, <1>7, <1>8, <1>9, <1>10, <1>11, <1>12
  DEF TranslationNext

\* The rule changes in one step only.
LEMMA RuleKept ==
  ASSUME RuleFits, UNCHANGED <<situation, rule>>,
         stage' \in {"lookup", "rules"} => stage \in {"lookup", "rules"},
         stage' \notin {"lookup", "rules", "refused"} =>
           stage \notin {"lookup", "rules", "refused"} \/ rule = NoRule
  PROVE  RuleFits'
<1>1. Restricted' = Restricted
  BY DEF situation, Restricted, OpenToAll, GroupByNode, GroupByName, IsThere
<1> QED
  BY <1>1 DEF RuleFits, situation

\* A step that leaves "rules" has restricted the rule.
LEMMA RuleProcessed ==
  ASSUME RuleFits, StagesFit, ProcessRule
  PROVE  RuleFits'
<1> USE DEF Goto
<1>1. /\ stage = "rules" /\ rule = given.rule /\ given' = given /\ type' = type
      /\ node' = node /\ stage' \in {"inputs", "refused"}
  BY DEF ProcessRule, ByNode, ByName, RuleFits, situation
<1>2. CASE rule = NoRule
  <2>1. rule' = rule
    BY <1>2 DEF ProcessRule, WithDefaults, NoRule, IsSet
  <2> QED
    BY <1>1, <1>2, <2>1 DEF RuleFits
<1>3. CASE stage' = "refused"
  BY <1>1, <1>3 DEF RuleFits, StagesFit
<1>4. CASE rule # NoRule /\ stage' = "inputs"
  <2> DEFINE r == WithDefaults(rule)
  <2>1. /\ rule.prefix # No /\ DOMAIN rule = DOMAIN NoRule
    BY <1>1, <1>4, RulesAssumption DEF RuleFits
  <2>2. /\ DOMAIN r = DOMAIN rule /\ IsSet(r.prefix)
        /\ r.group = rule.group /\ r.group_node = rule.group_node
        /\ r.group_name = rule.group_name
    BY <2>1, RulesAssumption DEF WithDefaults, NoRule, IsSet
  <2>3. ~IsSet(Empty)
    BY DEF IsSet
  <2> USE DEF OpenToAll, GroupByNode, GroupByName
  <2>8. /\ IsSet(r.group_node) => IsSet(Id(r.group_node))
        /\ IsSet(r.group_name) => IsSet(Id(NameOf(r.group_name)))
    <3>1. /\ r.group_node \in Names \union {Empty, No}
          /\ r.group_name \in Names \union Identifiers \union {Empty, No}
      BY <1>1, <1>4, <2>2, RulesAssumption DEF RuleFits
    <3>2. IsSet(r.group_name) => NameOf(r.group_name) \in Names
      BY <3>1 DEF IsSet, NameOf, Identifiers, Id
    <3>3. \A n \in Names : IsSet(Id(n))
      BY ValuesAssumption DEF IsSet, Identifiers
    <3> QED
      BY <3>1, <3>2, <3>3 DEF IsSet
  <2>4. CASE IsSet(r.group)
    <3>1. rule' = [r EXCEPT !.prefix = Empty]
      BY <1>4, <2>4 DEF ProcessRule
    <3>2. Restricted'
      BY <1>1, <2>1, <2>2, <2>3, <2>4, <3>1 DEF Restricted, NoRule
    <3> QED
      BY <1>1, <1>4, <3>2 DEF RuleFits, StagesFit
  <2>5. CASE ~IsSet(r.group) /\ IsSet(r.group_node)
    <3>1. ByNode(r)
      BY <1>4, <2>5 DEF ProcessRule
    <3>2. rule' = Remote([r EXCEPT !.group_node = Empty],
                    IF node.group_node = "external" THEN Id(r.group_node) ELSE Empty)
      BY <1>4, <3>1 DEF ByNode
    <3>3. Restricted'
      BY <1>1, <2>1, <2>2, <2>3, <2>5, <2>8, <3>2 DEF Restricted, Remote, NoRule
    <3> QED
      BY <1>1, <1>4, <3>3 DEF RuleFits, StagesFit
  <2>6. CASE ~IsSet(r.group) /\ ~IsSet(r.group_node) /\ IsSet(r.group_name)
    <3>1. ByName(r)
      BY <1>4, <2>6 DEF ProcessRule
    <3>2. rule' = Remote([r EXCEPT !.group_name = Empty], Resolved(r.group_name))
      BY <1>4, <3>1 DEF ByName
    <3>3. Restricted'
      <4>1. ~Refused({r.group_name})
        BY <1>4, <3>1 DEF ByName
      <4>2. node.create_if_missing \/ IsThere(r.group_name)
        BY <4>1 DEF Refused
      <4> QED
        BY <1>1, <2>1, <2>2, <2>3, <2>6, <2>8, <3>2, <4>2
        DEF Restricted, Remote, NoRule, Resolved, IsThere
    <3> QED
      BY <1>1, <1>4, <3>3 DEF RuleFits, StagesFit
  <2>7. CASE ~IsSet(r.group) /\ ~IsSet(r.group_node) /\ ~IsSet(r.group_name)
    <3>1. rule' = r
      BY <1>4, <2>7 DEF ProcessRule
    <3>2. Restricted'
      BY <1>1, <2>2, <2>7, <3>1 DEF Restricted
    <3> QED
      BY <1>1, <1>4, <3>2 DEF RuleFits, StagesFit
  <2> QED
    BY <2>4, <2>5, <2>6, <2>7
<1> QED
  BY <1>1, <1>2, <1>3, <1>4

LEMMA RuleStep == RuleFits /\ StagesFit /\ [TranslationNext]_translationVars => RuleFits'
<1> SUFFICES ASSUME RuleFits, StagesFit, [TranslationNext]_translationVars PROVE RuleFits'
  OBVIOUS
<1>1. CASE ProcessRule
  BY <1>1, RuleProcessed
<1>2. CASE LookupHandler
  <2>1. type # "security_group" => rule = NoRule
    BY DEF RuleFits
  <2> QED
    BY <1>2, <2>1, RuleKept DEF LookupHandler, Goto
<1>3. CASE MapServer \/ TransformRoutes
  <2>1. rule = NoRule
    BY <1>3 DEF RuleFits, StagesFit, MapServer, TransformRoutes
  <2>2. rule' = rule /\ UNCHANGED situation /\ stage' \in {"inputs", "done", "refused"}
    BY <1>3 DEF MapServer, TransformRoutes, After, Goto
  <2> QED
    BY <2>1, <2>2, RuleKept
<1>4. CASE MergeInputs \/ CreateInputs \/ ListInputs \/ UpdateInputs
  <2>1. /\ rule' = rule /\ UNCHANGED situation
        /\ stage \in {"inputs", "create", "list", "update"}
        /\ stage' \in {"create", "list", "update", "identify", "refused"}
    BY <1>4 DEF MergeInputs, CreateInputs, ListInputs, UpdateInputs, After, Goto, Handled
  <2> QED
    BY <2>1, RuleKept
<1>5. CASE Identify \/ Split \/ PrepareInstance
  <2>1. /\ rule' = rule /\ UNCHANGED situation
        /\ stage \in {"identify", "split", "prepare"}
        /\ stage' \in {"split", "prepare", "done", "refused"}
    BY <1>5 DEF Identify, Split, PrepareInstance, After, Goto
  <2> QED
    BY <2>1, RuleKept
<1>6. CASE UNCHANGED translationVars
  BY <1>6, RuleKept DEF translationVars
<1> QED
  BY <1>1, <1>2, <1>3, <1>4, <1>5, <1>6 DEF TranslationNext

\* The maps read nothing that a step changes.
LEMMA SameMapped ==
  ASSUME UNCHANGED situation
  PROVE  /\ ServerMapped(given.args)' = ServerMapped(given.args)
         /\ ServerMapped(given.config)' = ServerMapped(given.config)
         /\ Described(given.config)' = Described(given.config)
BY DEF situation, ServerMapped, IdsMapped, Naming, Resolved, IsThere, Described

\* IdsMapped, key by key: no two names have their identifier under one key.
LEMMA IdsMappedAt ==
  ASSUME NEW c, NEW keys, NEW named, named = Naming(c, DOMAIN keys),
         \A i, j \in DOMAIN keys : keys[i] = keys[j] => i = j
  PROVE  /\ \A k : k \in DOMAIN IdsMapped(c, keys) <=>
                  (\E j \in named : keys[j] = k) \/ k \in DOMAIN c \ named
         /\ \A j \in named : IdsMapped(c, keys)[keys[j]] = Resolved(c[j])
         /\ \A k \in DOMAIN c \ named :
              (\A j \in named : keys[j] # k) => IdsMapped(c, keys)[k] = c[k]
<1> DEFINE new == {keys[j] : j \in named}
           moved == Reworded(c, keys, named)
<1>1. \A i, j \in named : keys[i] = keys[j] => i = j
  BY DEF Naming
<1>2. /\ DOMAIN moved = new \union (DOMAIN c \ named)
      /\ \A j \in named : moved[keys[j]] = c[j]
      /\ \A k \in DOMAIN c \ named : k \notin new => moved[k] = c[k]
  BY <1>1 DEF Reworded, Over, Without, Restrict
<1>3. IdsMapped(c, keys) = [k \in DOMAIN moved |-> IF k \in new THEN Resolved(moved[k]) ELSE moved[k]]
  BY DEF IdsMapped
<1> HIDE DEF moved
<1> QED
  BY <1>2, <1>3

LEMMA KeysOfIds ==
  /\ DOMAIN IdKeys = {"user", "project", "server"}
  /\ DOMAIN IdKeys.user = {"user", "domain", "default_project"}
  /\ DOMAIN IdKeys.project = {"project", "parent", "domain"}
  /\ DOMAIN IdKeys.server = {"flavor", "image"}
  /\ Range(IdKeys.user) = {"user", "domain_id", "default_project_id"}
  /\ Range(IdKeys.project) = {"project", "parent_id", "domain_id"}
  /\ Range(IdKeys.server) = {"flavor_id", "image_id"}
  /\ \A t \in DOMAIN IdKeys : \A i, j \in DOMAIN IdKeys[t] : IdKeys[t][i] = IdKeys[t][j] => i = j
<1>1. /\ DOMAIN IdKeys = {"user", "project", "server"}
      /\ DOMAIN IdKeys.user = {"user", "domain", "default_project"}
      /\ DOMAIN IdKeys.project = {"project", "parent", "domain"}
      /\ DOMAIN IdKeys.server = {"flavor", "image"}
  BY DEF IdKeys
<1>2. Range(IdKeys.user) = {"user", "domain_id", "default_project_id"}
  BY DEF IdKeys, Range
<1>3. Range(IdKeys.project) = {"project", "parent_id", "domain_id"}
  BY DEF IdKeys, Range
<1>4. Range(IdKeys.server) = {"flavor_id", "image_id"}
  BY DEF IdKeys, Range
<1>5. \A t \in DOMAIN IdKeys : \A i, j \in DOMAIN IdKeys[t] : IdKeys[t][i] = IdKeys[t][j] => i = j
  BY DEF IdKeys
<1> QED
  BY <1>1, <1>2, <1>3, <1>4, <1>5

LEMMA TheOnly == \A x : The({x}) = x
BY DEF The

\* Until the inputs are merged, the settings are those given, mapped.
LEMMA GivenStep == AsGiven /\ StagesFit /\ [TranslationNext]_translationVars => AsGiven'
<1> SUFFICES ASSUME AsGiven, StagesFit, [TranslationNext]_translationVars PROVE AsGiven'
  OBVIOUS
<1> USE DEF Goto, After
<1>1. CASE LookupHandler
  <2>1. /\ config = given.config /\ args = given.args /\ nested = given.nested
        /\ UNCHANGED <<situation, settings>> /\ stage' \in {"server", "rules", "routes", "inputs", "refused"}
        /\ stage' = "inputs" => type \notin {"server", "security_group"}
    BY <1>1 DEF LookupHandler, AsGiven
  <2> QED
    BY <2>1 DEF AsGiven, situation, settings
<1>2. CASE MapServer
  <2>1. stage' = "refused" \/ /\ config' = ServerMapped(given.config)
                              /\ args' = ServerMapped(given.args)
                              /\ nested' = given.nested /\ stage' = "inputs"
    BY <1>2 DEF MapServer, AsGiven
  <2>2. type = "server" /\ UNCHANGED situation
    BY <1>2 DEF MapServer, StagesFit
  <2> QED
    BY <2>1, <2>2, SameMapped DEF AsGiven, situation
<1>3. CASE ProcessRule
  <2>1. /\ config' = Described(given.config) /\ args' = given.args /\ nested' = given.nested
        /\ stage' \in {"inputs", "refused"} /\ UNCHANGED situation /\ type = "security_group"
    BY <1>3 DEF ProcessRule, ByNode, ByName, AsGiven, StagesFit, WithDefaults, NoRule, IsSet
  <2> QED
    BY <2>1, SameMapped DEF AsGiven, situation
<1>4. CASE MergeInputs
  <2>1. /\ UNCHANGED <<situation, settings>> /\ stage = "inputs"
        /\ stage' \in {"create", "list", "update", "identify"}
    BY <1>4 DEF MergeInputs, Handled
  <2> QED
    BY <2>1, SameMapped DEF AsGiven, situation, settings
<1>5. CASE CreateInputs \/ ListInputs \/ UpdateInputs \/ Identify \/ Split \/ PrepareInstance \/ TransformRoutes
  <2>1. stage' \in {"identify", "split", "prepare", "done", "refused"}
    BY <1>5 DEF CreateInputs, ListInputs, UpdateInputs, Identify, Split, PrepareInstance, TransformRoutes
  <2> QED
    BY <2>1 DEF AsGiven
<1>6. CASE UNCHANGED translationVars
  BY <1>6, SameMapped DEF translationVars, settings, AsGiven, situation
<1> QED
  BY <1>1, <1>2, <1>3, <1>4, <1>5, <1>6 DEF TranslationNext

LEMMA RefusalKept ==
  ASSUME RefusalsHaveCauses, UNCHANGED <<situation, stage, resource_id>>
  PROVE  RefusalsHaveCauses'
<1> SUFFICES ASSUME stage = "refused" PROVE RefusalsHaveCauses'
  BY DEF RefusalsHaveCauses
<1>1. CASE Refused(Sought)
  <2>1. PICK v \in Sought : ~IsThere(v) /\ ~node.create_if_missing
    BY <1>1 DEF Refused
  <2>2. v \in Sought'
    BY <2>1 DEF Sought, InputNames, NodeNames, Named, Naming, situation
  <2> QED
    BY <2>1, <2>2 DEF Refused, RefusalsHaveCauses, IsThere, situation
<1>2. CASE ~Refused(Sought)
  BY <1>2 DEF RefusalsHaveCauses, NicsOnly, Has, situation
<1> QED
  BY <1>1, <1>2

LEMMA RefusalFound ==
  ASSUME UNCHANGED <<situation, resource_id>>,
         NEW V \in SUBSET Sought, Refused(V)
  PROVE  Refused(Sought)'
<1>1. PICK v \in Sought : ~IsThere(v) /\ ~node.create_if_missing
  BY DEF Refused
<1>2. v \in Sought'
  BY <1>1 DEF Sought, InputNames, NodeNames, Named, Naming, situation
<1> QED
  BY <1>1, <1>2 DEF Refused, IsThere, situation

LEMMA SoughtBy ==
  /\ type \in DOMAIN IdKeys /\ operation # "update" =>
       \A c \in {given.args, given.nested} : Named(c, DOMAIN IdKeys[type]) \subseteq Sought
  /\ type \in DOMAIN IdKeys /\ operation = "update" =>
       Named(given.args, DOMAIN IdKeys[type] \ {"domain"}) \subseteq Sought
  /\ type = "server" => Named(given.config, {"flavor", "image"}) \subseteq Sought
  /\ type \in {"user", "project"} /\ operation = "create" =>
       Named(given.config, DOMAIN IdKeys[type]) \subseteq Sought
<1>1. \A c \in {given.args, given.nested} : Named(c, InputNames) \subseteq Sought
  BY DEF Sought
<1>2. operation # "update" /\ type \in DOMAIN IdKeys => InputNames = DOMAIN IdKeys[type]
  BY DEF InputNames
<1>3. operation = "update" /\ type \in DOMAIN IdKeys => InputNames = DOMAIN IdKeys[type] \ {"domain"}
  BY DEF InputNames
<1>4. Named(given.config, NodeNames) \subseteq Sought
  BY DEF Sought
<1>5. type = "server" => NodeNames = {"flavor", "image"}
  BY DEF NodeNames
<1>6. type \in {"user", "project"} /\ operation = "create" => NodeNames = DOMAIN IdKeys[type]
  BY KeysOfIds DEF NodeNames
<1> QED
  BY <1>1, <1>2, <1>3, <1>4, <1>5, <1>6

\* What two dictionaries name together, one of them names.
LEMMA NamedByEither ==
  ASSUME NEW first, NEW second, NEW K
  PROVE  Named(Over(first, second), K) \subseteq Named(first, K) \union Named(second, K)
BY DEF Named, Naming, Over

LEMMA RefusalStep ==
  AsGiven /\ StagesFit /\ RuleFits /\ RefusalsHaveCauses /\ [TranslationNext]_translationVars
    => RefusalsHaveCauses'
<1> SUFFICES ASSUME AsGiven, StagesFit, RuleFits, RefusalsHaveCauses,
                    [TranslationNext]_translationVars, stage' = "refused"
             PROVE  RefusalsHaveCauses'
  BY DEF RefusalsHaveCauses
<1> USE DEF Goto, After, target
<1>1. CASE LookupHandler
  BY <1>1 DEF LookupHandler, RefusalsHaveCauses, situation
<1>2. CASE MapServer
  <2> USE <1>2 DEF MapServer
  <2>1. /\ type = "server" /\ config = given.config /\ args = given.args
        /\ UNCHANGED <<situation, resource_id>>
    BY DEF StagesFit, AsGiven
  <2>2. CASE NicsOnly(config) \/ NicsOnly(args)
    BY <2>1, <2>2 DEF RefusalsHaveCauses, NicsOnly, Has, situation
  <2>3. CASE ~(NicsOnly(config) \/ NicsOnly(args))
    <3> DEFINE V == Named(config, {"flavor", "image"}) \union Named(args, {"flavor", "image"})
    <3>1. Refused(V)
      BY <2>3
    <3>2. V \subseteq Sought
      BY <2>1, KeysOfIds, SoughtBy
    <3> QED
      BY <2>1, <3>1, <3>2, RefusalFound DEF RefusalsHaveCauses
  <2> QED
    BY <2>2, <2>3
<1>3. CASE ProcessRule
  <2> USE <1>3
  <2>1. UNCHANGED <<situation, resource_id>> /\ rule = given.rule
    BY DEF ProcessRule, RuleFits
  <2> DEFINE r == WithDefaults(rule)
  <2>2. CASE rule = NoRule
    BY <2>2 DEF ProcessRule, WithDefaults, NoRule, IsSet
  <2>3. CASE rule # NoRule
    <3>1. DOMAIN rule = DOMAIN NoRule
      BY <2>1, <2>3, RulesAssumption DEF RuleFits
    <3>2. r.group_node = rule.group_node /\ r.group_name = rule.group_name
      BY <3>1 DEF WithDefaults, NoRule
    <3>3. CASE IsSet(r.group)
      BY <2>3, <3>3 DEF ProcessRule
    <3>4. CASE ~IsSet(r.group) /\ IsSet(r.group_node)
      <4>1. ByNode(r)
        BY <2>3, <3>4 DEF ProcessRule
      <4>2. node.group_node \in {"none", "several"}
        BY <4>1 DEF ByNode
      <4> QED
        BY <2>1, <3>2, <3>4, <4>2 DEF RefusalsHaveCauses, situation
    <3>5. CASE ~IsSet(r.group) /\ ~IsSet(r.group_node) /\ IsSet(r.group_name)
      <4>1. ByName(r)
        BY <2>3, <3>5 DEF ProcessRule
      <4>2. Refused({r.group_name})
        BY <4>1 DEF ByName
      <4>3. {r.group_name} \subseteq Sought
        <5>1. {v \in {given.rule.group_name} : IsSet(v)} \subseteq Sought
          BY DEF Sought
        <5> QED
          BY <2>1, <3>2, <3>5, <5>1
      <4> QED
        BY <2>1, <4>2, <4>3, RefusalFound DEF RefusalsHaveCauses
    <3>6. CASE ~IsSet(r.group) /\ ~IsSet(r.group_node) /\ ~IsSet(r.group_name)
      BY <2>3, <3>6 DEF ProcessRule
    <3> QED
      BY <3>3, <3>4, <3>5, <3>6
  <2> QED
    BY <2>2, <2>3
<1>4. CASE MergeInputs
  BY <1>4 DEF MergeInputs, Handled
<1>5. CASE CreateInputs
  <2> USE <1>5 DEF CreateInputs
  <2> DEFINE c == Merged(args, config)
             V == Named(c, DOMAIN IdKeys[type])
  <2>1. type \in {"user", "project"} /\ Refused(V) /\ UNCHANGED <<situation, resource_id>>
    OBVIOUS
  <2>2. args = given.args /\ config = given.config /\ operation = "create"
    BY <2>1 DEF AsGiven, StagesFit
  <2>3. V \subseteq Sought
    <3>1. V \subseteq Named(args, DOMAIN IdKeys[type]) \union Named(config, DOMAIN IdKeys[type])
      BY NamedByEither DEF Merged
    <3> QED
      BY <2>1, <2>2, <3>1, KeysOfIds, SoughtBy
  <2> QED
    BY <2>1, <2>3, RefusalFound DEF RefusalsHaveCauses
<1>6. CASE ListInputs
  <2> USE <1>6 DEF ListInputs
  <2> DEFINE c == Flat(args, nested)
             V == Named(c, {"domain"})
  <2>1. type \in {"user", "project"} /\ Refused(V) /\ UNCHANGED <<situation, resource_id>>
    OBVIOUS
  <2>2. args = given.args /\ nested = given.nested /\ operation = "list"
    BY <2>1 DEF AsGiven, StagesFit
  <2>3. V \subseteq Sought
    <3>1. V \subseteq Named(nested, {"domain"}) \union Named(args, {"domain"})
      BY NamedByEither DEF Flat
    <3>2. "domain" \in DOMAIN IdKeys[type] /\ type \in DOMAIN IdKeys
      BY <2>1, KeysOfIds
    <3>3. \A d : Named(d, {"domain"}) \subseteq Named(d, DOMAIN IdKeys[type])
      BY <3>2 DEF Named, Naming
    <3> QED
      BY <2>2, <3>1, <3>2, <3>3, SoughtBy
  <2> QED
    BY <2>1, <2>3, RefusalFound DEF RefusalsHaveCauses
<1>7. CASE UpdateInputs
  <2> USE <1>7 DEF UpdateInputs
  <2> DEFINE V == Named(args, DOMAIN IdKeys[type] \ {"domain"})
  <2>1. type \in {"user", "project"} /\ Refused(V) /\ UNCHANGED <<situation, resource_id>>
    OBVIOUS
  <2>2. args = given.args /\ operation = "update"
    BY <2>1 DEF AsGiven, StagesFit
  <2>3. V \subseteq Sought
    BY <2>1, <2>2, KeysOfIds, SoughtBy
  <2> QED
    BY <2>1, <2>3, RefusalFound DEF RefusalsHaveCauses
<1>8. CASE Identify
  <2> USE <1>8 DEF Identify
  <2>1. /\ Refused(IF node.use_external /\ IsSet(resource_id) THEN {resource_id} ELSE {})
        /\ UNCHANGED <<situation, resource_id>>
    OBVIOUS
  <2>2. (IF node.use_external /\ IsSet(resource_id) THEN {resource_id} ELSE {}) \subseteq Sought
    BY DEF Sought
  <2> QED
    BY <2>1, <2>2, RefusalFound DEF RefusalsHaveCauses
<1>9. CASE Split \/ PrepareInstance
  BY <1>9 DEF Split, PrepareInstance
<1>10. CASE TransformRoutes
  BY <1>10 DEF TransformRoutes, RefusalsHaveCauses, situation, StagesFit
<1>11. CASE UNCHANGED translationVars
  BY <1>11, RefusalKept DEF translationVars
<1> QED
  BY <1>1, <1>2, <1>3, <1>4, <1>5, <1>6, <1>7, <1>8, <1>9, <1>10, <1>11
  DEF TranslationNext

LEMMA RequestInit == TranslationInit => RequestInv
<1> SUFFICES ASSUME TranslationInit PROVE RequestInv
  OBVIOUS
<1>1. stage = "lookup" /\ given = [config |-> config, args |-> args, nested |-> nested, rule |-> rule]
      /\ rule \in SomeRules \union {NoRule} /\ (type # "security_group" => rule = NoRule)
  BY DEF TranslationInit
<1> QED
  BY <1>1, StagesInit DEF RequestInv, RuleFits, AsGiven, RefusalsHaveCauses

LEMMA RequestStep == RequestInv /\ [TranslationNext]_translationVars => RequestInv'
BY StagesStep, RuleStep, GivenStep, RefusalStep DEF RequestInv

LEMMA RequestInvariant == TranslationSpec => []RequestInv
BY RequestInit, RequestStep, PTL DEF TranslationSpec

(***************************************************************************)
(* The rule of a security group that SecurityGroupRule.create is called    *)
(* with is restricted to the group that it names or to a prefix, for every *)
(* rule but two: one whose group node created its group, and one whose     *)
(* group name is of no group under create_if_missing, are open to all.     *)
(***************************************************************************)
THEOREM RulesRestricted == TranslationSpec => []RuleIsRestricted
<1>1. RequestInv => RuleIsRestricted
  BY DEF RequestInv, RuleFits, RuleIsRestricted
<1> QED
  BY <1>1, RequestInvariant, PTL

(***************************************************************************)
(* Compat refuses a node only for a cause: whatever a step looks up is     *)
(* named by the node or its inputs where the operation may ask for it.     *)
(***************************************************************************)
THEOREM RefusalsAreJustified == TranslationSpec => []RefusalsHaveCauses
<1>1. RequestInv => RefusalsHaveCauses
  BY DEF RequestInv
<1> QED
  BY <1>1, RequestInvariant, PTL

-----------------------------------------------------------------------------
\* A server.
LEMMA ServerMappedAt ==
  ASSUME type = "server", NEW c
  PROVE  LET named == Naming(c, DOMAIN IdKeys.server)
         IN /\ \A k \in named : k \notin DOMAIN ServerMapped(c)
            /\ \A k : k \notin named =>
                 /\ k \in DOMAIN ServerMapped(c) <=> Asks(c, k) # {}
                 /\ k \in DOMAIN ServerMapped(c) => Asks(c, k) = {ServerMapped(c)[k]}
<1> DEFINE new == NetworksMapped(c)
           g == GroupsMapped(new)
           keys == IdKeys.server
           named == Naming(c, DOMAIN keys)
<1>1. /\ DOMAIN new = DOMAIN c \union (IF Has(c, "nics") THEN {"networks"} ELSE {})
      /\ \A k \in DOMAIN c \ {"networks"} : new[k] = c[k]
      /\ Has(c, "nics") => new["networks"] = Mapped(c["nics"])
      /\ ~Has(c, "nics") /\ Has(c, "networks") => new["networks"] = Mapped(c["networks"])
      /\ ~Has(c, "nics") /\ ~Has(c, "networks") => new = c
  BY DEF NetworksMapped, With, Has
<1>2. /\ DOMAIN g = DOMAIN new
      /\ \A k \in DOMAIN new \ {"security_groups"} : g[k] = new[k]
      /\ Has(c, "security_groups") => g["security_groups"] = [name |-> c["security_groups"]]
      /\ ~Has(c, "security_groups") /\ "security_groups" \in DOMAIN c =>
           g["security_groups"] = c["security_groups"]
  <2> HIDE DEF new
  <2> QED
    BY <1>1 DEF GroupsMapped, With, Has
<1> HIDE DEF new, g
<1>3. Naming(g, DOMAIN keys) = named
  BY <1>1, <1>2, KeysOfIds DEF Naming
<1>4. ServerMapped(c) = IdsMapped(g, keys)
  BY DEF ServerMapped, g, new
<1>5. /\ \A k : k \in DOMAIN IdsMapped(g, keys) <=>
               (\E j \in named : keys[j] = k) \/ k \in DOMAIN g \ named
      /\ \A j \in named : IdsMapped(g, keys)[keys[j]] = Resolved(g[j])
      /\ \A k \in DOMAIN g \ named :
           (\A j \in named : keys[j] # k) => IdsMapped(g, keys)[k] = g[k]
  <2>1. \A i, j \in DOMAIN keys : keys[i] = keys[j] => i = j
    BY KeysOfIds
  <2> HIDE DEF keys, named
  <2> QED
    BY <2>1, <1>3, IdsMappedAt
<1>6. named \subseteq {"flavor", "image"} /\ named \subseteq DOMAIN c
      /\ keys["flavor"] = "flavor_id" /\ keys["image"] = "image_id"
  BY KeysOfIds DEF Naming, IdKeys
<1>7. ASSUME NEW k \in named PROVE k \notin DOMAIN ServerMapped(c)
  BY <1>4, <1>5, <1>6
<1>8. ASSUME NEW k, k \notin named
      PROVE  /\ k \in DOMAIN ServerMapped(c) <=> Asks(c, k) # {}
             /\ k \in DOMAIN ServerMapped(c) => Asks(c, k) = {ServerMapped(c)[k]}
  <2>1. NamesOf(c, k) = {j \in named : keys[j] = k}
    BY KeysOfIds DEF NamesOf
  <2>2. CASE NamesOf(c, k) # {}
    <3>1. PICK j \in named : NamesOf(c, k) = {j} /\ keys[j] = k
      BY <2>1, <2>2, <1>6
    <3>2. Asks(c, k) = {Resolved(c[j])}
      <4>1. The(NamesOf(c, k)) = j
        BY <3>1, TheOnly
      <4>2. k \notin {"networks", "security_groups"}
        BY <3>1, <1>6
      <4> QED
        BY <2>2, <4>1, <4>2 DEF Asks
    <3>3. g[j] = c[j]
      BY <1>1, <1>2, <1>6
    <3> QED
      BY <3>1, <3>2, <3>3, <1>4, <1>5
  <2>3. CASE NamesOf(c, k) = {}
    <3>1. k \notin {keys[j] : j \in named}
      BY <2>1, <2>3
    <3>2. /\ k \in DOMAIN ServerMapped(c) <=> k \in DOMAIN g
          /\ k \in DOMAIN g => ServerMapped(c)[k] = g[k]
      BY <3>1, <1>4, <1>5, <1>8
    <3>3. CASE k = "networks"
      BY <2>3, <3>2, <3>3, <1>1, <1>2 DEF Asks, Has
    <3>4. CASE k = "security_groups"
      BY <2>3, <3>2, <3>4, <1>1, <1>2 DEF Asks, Has
    <3>5. CASE k \notin {"networks", "security_groups"}
      BY <2>3, <3>2, <3>5, <1>1, <1>2 DEF Asks, Has
    <3> QED
      BY <3>3, <3>4, <3>5
  <2> QED
    BY <2>2, <2>3
<1> QED
  BY <1>7, <1>8

-----------------------------------------------------------------------------
\* What the filters of a list may have under k, without those of the args
\* that name something.
FiltersLeft(k) ==
  LET c == Over(given.nested, Without(given.args,
             IF type = "server" THEN Naming(given.args, DOMAIN IdKeys.server) ELSE {}))
      old == {j \in DOMAIN c \intersect DOMAIN ParamsMap : ParamsMap[j] = k}
      own == IF type \in {"user", "project"} /\ k = "domain_id" /\ Has(c, "domain")
             THEN {Resolved(c["domain"])} ELSE {c[j] : j \in {k} \intersect DOMAIN c}
      all == IF type \in DOMAIN ListParams
             THEN (IF k \in ListParams[type] THEN own ELSE {}) \union {c[j] : j \in old}
             ELSE IF k \in Ignored(type) THEN {} ELSE own
  IN IF all = {} THEN {Empty} ELSE all

\* What an update and a list may have is settled by the node.
LEMMA SameWishes ==
  ASSUME UNCHANGED situation, NEW k
  PROVE  Updates(k)' = Updates(k) /\ FiltersLeft(k)' = FiltersLeft(k)
<1> USE DEF situation
<1>1. \A c : NamesOf(c, k)' = NamesOf(c, k)
  BY DEF NamesOf, Naming
<1>2. Updates(k)' = Updates(k)
  BY DEF Updates, NamesOf, Naming, Asks, Resolved, IsThere, Has
<1>3. FiltersLeft(k)' = FiltersLeft(k)
  BY DEF FiltersLeft, Naming, Resolved, IsThere, Has
<1> QED
  BY <1>2, <1>3

\* NamesMapped, key by key: what is named by identifier, the rest if allowed.
LEMMA NamesMappedAt ==
  ASSUME type \in DOMAIN IdKeys, NEW c, NEW allowed
  PROVE  LET new == NamesMapped(c, IdKeys[type], allowed)
         IN \A k : /\ NamesOf(c, k) # {} => k \in DOMAIN new /\ Asks(c, k) = {new[k]}
                   /\ NamesOf(c, k) = {} =>
                        /\ k \in DOMAIN new <=>
                             k \in allowed /\ k \in DOMAIN c \ Naming(c, DOMAIN IdKeys[type])
                        /\ k \in DOMAIN new => new[k] = c[k]
<1> DEFINE keys == IdKeys[type]
           named == Naming(c, DOMAIN keys)
           moved == IdsMapped(c, keys)
           new == NamesMapped(c, keys, allowed)
<1>1. \A i, j \in DOMAIN keys : keys[i] = keys[j] => i = j
  BY KeysOfIds
<1>2. /\ \A k : k \in DOMAIN moved <=> (\E j \in named : keys[j] = k) \/ k \in DOMAIN c \ named
      /\ \A j \in named : moved[keys[j]] = Resolved(c[j])
      /\ \A k \in DOMAIN c \ named : (\A j \in named : keys[j] # k) => moved[k] = c[k]
  <2> HIDE DEF keys, named
  <2> QED
    BY <1>1, IdsMappedAt DEF named
<1>3. /\ \A k : k \in DOMAIN new <=> k \in DOMAIN moved /\ (k \in allowed \/ \E j \in named : keys[j] = k)
      /\ \A k \in DOMAIN new : new[k] = moved[k]
  <2> HIDE DEF keys, named, moved
  <2> QED
    BY DEF NamesMapped, Only, Restrict, moved, named
<1>4. \A k : NamesOf(c, k) = {j \in named : keys[j] = k}
  BY DEF NamesOf
<1>5. named \subseteq DOMAIN keys
  BY DEF Naming
<1> SUFFICES ASSUME NEW k
             PROVE  /\ NamesOf(c, k) # {} => k \in DOMAIN new /\ Asks(c, k) = {new[k]}
                    /\ NamesOf(c, k) = {} =>
                         /\ k \in DOMAIN new <=> k \in allowed /\ k \in DOMAIN c \ named
                         /\ k \in DOMAIN new => new[k] = c[k]
  OBVIOUS
<1>6. ASSUME NamesOf(c, k) # {} PROVE k \in DOMAIN new /\ Asks(c, k) = {new[k]}
  <2>1. PICK j \in named : NamesOf(c, k) = {j} /\ keys[j] = k
    BY <1>1, <1>4, <1>5, <1>6
  <2>2. The(NamesOf(c, k)) = j
    BY <2>1, TheOnly
  <2>3. k \notin {"networks", "security_groups"}
    BY <2>1, <1>5, KeysOfIds DEF IdKeys
  <2>4. Asks(c, k) = {Resolved(c[j])}
    BY <1>6, <2>2, <2>3 DEF Asks
  <2> HIDE DEF new, moved, named, keys
  <2> QED
    BY <1>2, <1>3, <2>1, <2>4
<1>7. ASSUME NamesOf(c, k) = {}
      PROVE  /\ k \in DOMAIN new <=> k \in allowed /\ k \in DOMAIN c \ named
             /\ k \in DOMAIN new => new[k] = c[k]
  <2>1. \A j \in named : keys[j] # k
    BY <1>4, <1>7
  <2> HIDE DEF new, moved, named, keys
  <2> QED
    BY <2>1, <1>2, <1>3
<1> QED
  BY <1>6, <1>7

\* _process_update_operation_inputs, key by key.
LEMMA UpdateFits ==
  ASSUME AsGiven, StagesFit, UpdateInputs, stage' # "refused", NEW k
  PROVE  At(args', k) \in Updates(k)
<1> USE DEF Goto, After
<1>1. /\ nested = given.nested /\ type \in ResourceTypes /\ operation = "update"
      /\ args = IF type = "server" THEN ServerMapped(given.args) ELSE given.args
  BY DEF AsGiven, StagesFit, UpdateInputs
<1>2. CASE type \in {"user", "project"}
  <2> DEFINE own == Without(given.args, {"domain"})
             mapped == NamesMapped(own, IdKeys[type], UpdateParams[type])
  <2>1. args' \in UserUpdates(args)
    BY <1>2 DEF UpdateInputs
  <2>2. PICK later : /\ args' = Without(mapped, later)
                     /\ later \subseteq {j \in DOMAIN mapped \intersect DOMAIN own :
                                         j \notin UpdateParams[type] \union DOMAIN IdKeys[type]}
    BY <1>1, <1>2, <2>1 DEF UserUpdates
  <2>3. DOMAIN args' = DOMAIN mapped \ later /\ \A j \in DOMAIN args' : args'[j] = mapped[j]
    <3> HIDE DEF mapped
    <3> QED
      BY <2>2 DEF Without, Restrict
  <2>4. /\ NamesOf(own, k) # {} => k \in DOMAIN mapped /\ Asks(own, k) = {mapped[k]}
        /\ NamesOf(own, k) = {} =>
             /\ k \in DOMAIN mapped <=>
                  k \in UpdateParams[type] /\ k \in DOMAIN own \ Naming(own, DOMAIN IdKeys[type])
             /\ k \in DOMAIN mapped => mapped[k] = own[k]
    BY <1>2, KeysOfIds, NamesMappedAt
  <2>5. NamesOf(own, k) \subseteq DOMAIN IdKeys[type]
    BY DEF NamesOf, Naming
  <2>6. CASE NamesOf(own, k) # {}
    <3>1. Updates(k) = Asks(own, k) \union IF k \in DOMAIN own \ (UpdateParams[type] \union NamesOf(own, k))
                                           THEN {Empty} ELSE {}
      BY <1>2, <2>6 DEF Updates
    <3> HIDE DEF own, mapped
    <3>2. CASE k \in later
      BY <2>2, <2>3, <2>5, <3>1, <3>2 DEF At
    <3>3. CASE k \notin later
      BY <2>3, <2>4, <2>6, <3>1, <3>3 DEF At
    <3> QED
      BY <3>2, <3>3
  <2>7. CASE NamesOf(own, k) = {}
    <3>1. Updates(k) = {IF k \in UpdateParams[type] THEN At(own, k) ELSE Empty}
      BY <1>2, <2>7 DEF Updates
    <3>2. k \in UpdateParams[type] => k \notin DOMAIN IdKeys[type]
      BY <1>2, KeysOfIds DEF UpdateParams, UserParams, ProjectParams
    <3>3. Naming(own, DOMAIN IdKeys[type]) \subseteq DOMAIN IdKeys[type]
      BY DEF Naming
    <3> HIDE DEF own, mapped
    <3> QED
      BY <2>2, <2>3, <2>4, <2>7, <3>1, <3>2, <3>3 DEF At
  <2> QED
    BY <2>6, <2>7
<1>3. CASE type = "server"
  <2>1. args' = ServerMapped(given.args)
    BY <1>1, <1>3 DEF UpdateInputs
  <2>2. Updates(k) = {IF k \in Naming(given.args, DOMAIN IdKeys.server) THEN Empty
                     ELSE The(Asks(given.args, k))}
    BY <1>3 DEF Updates
  <2> QED
    BY <1>3, <2>1, <2>2, ServerMappedAt, TheOnly DEF At, The
<1>4. CASE type = "aggregate"
  BY <1>1, <1>4 DEF UpdateInputs, Updates, At
<1>5. CASE type = "image"
  <2>1. args' = ImageUpdate(given.args)
    BY <1>1, <1>5 DEF UpdateInputs
  <2> QED
    BY <1>5, <2>1 DEF Updates, ImageUpdate, Without, Restrict, With, At
<1>6. CASE type \notin {"user", "project", "server", "aggregate", "image"}
  BY <1>1, <1>6 DEF UpdateInputs, Updates
<1> QED
  BY <1>2, <1>3, <1>4, <1>5, <1>6

\* Without args, an update changes nothing.
LEMMA NoUpdateFits ==
  ASSUME AsGiven, stage = "inputs", operation = "update", args = Nothing, nested = Nothing, NEW k
  PROVE  At(args, k) \in Updates(k)
<1>1. /\ nested = given.nested
      /\ args = IF type = "server" THEN ServerMapped(given.args) ELSE given.args
  BY DEF AsGiven
<1>2. DOMAIN args = {} /\ DOMAIN nested = {} /\ At(args, k) = Empty
  BY DEF Nothing, At
<1>3. CASE type = "server"
  <2>1. Updates(k) = {IF k \in Naming(given.args, DOMAIN IdKeys.server) THEN Empty
                     ELSE The(Asks(given.args, k))}
    BY <1>3 DEF Updates
  <2> QED
    BY <1>1, <1>2, <1>3, <2>1, ServerMappedAt DEF The
<1>4. CASE type # "server"
  <2>1. DOMAIN Without(given.args, {"domain"}) = {}
    BY <1>1, <1>2, <1>4 DEF Without, Restrict
  <2>2. NamesOf(Without(given.args, {"domain"}), k) = {}
    BY <2>1 DEF NamesOf, Naming
  <2> QED
    BY <1>1, <1>2, <1>4, <2>1, <2>2 DEF Updates, At
<1> QED
  BY <1>3, <1>4

-----------------------------------------------------------------------------
\* Old words are no words of version 3, and neither are names of a domain.
LEMMA ListKeys ==
  /\ DOMAIN ParamsMap = {"detailed", "offset"}
  /\ DOMAIN ListParams = {"flavor", "server_group", "image", "server", "user", "project", "volume"}
  /\ \A t \in DOMAIN ListParams : ListParams[t] \intersect {"detailed", "offset", "domain"} = {}
  /\ ListParams["server"] \intersect
       {"flavor_id", "image_id", "networks", "security_groups"} = {}
<1>1. DOMAIN ParamsMap = {"detailed", "offset"}
  BY DEF ParamsMap
<1>2. DOMAIN ListParams = {"flavor", "server_group", "image", "server", "user", "project", "volume"}
  BY DEF ListParams
<1>3. \A t \in DOMAIN ListParams : ListParams[t] \intersect {"detailed", "offset", "domain"} = {}
  BY DEF ListParams
<1>4. ListParams["server"] \intersect
        {"flavor_id", "image_id", "networks", "security_groups"} = {}
  BY DEF ListParams
<1> QED
  BY <1>1, <1>2, <1>3, <1>4

\* What the filters of a list hold of k, whichever of two words wins.
LEMMA QueriesAt ==
  ASSUME NEW c, NEW q \in Queries(c), NEW k
  PROVE  /\ type \in DOMAIN ListParams =>
              \/ k \in ListParams[type] /\ k \in DOMAIN c /\ At(q, k) = c[k]
              \/ \E j \in DOMAIN c \intersect DOMAIN ParamsMap : ParamsMap[j] = k /\ At(q, k) = c[j]
              \/ /\ At(q, k) = Empty /\ ~(k \in ListParams[type] /\ k \in DOMAIN c)
                 /\ \A j \in DOMAIN c \intersect DOMAIN ParamsMap : ParamsMap[j] # k
         /\ type \notin DOMAIN ListParams =>
              At(q, k) = IF k \in DOMAIN c \ Ignored(type) THEN c[k] ELSE Empty
<1>1. CASE type \in DOMAIN ListParams
  <2> DEFINE supported == Only(c, ListParams[type])
             old == DOMAIN c \intersect (DOMAIN ParamsMap \ ListParams[type])
             renamed == [n \in {ParamsMap[j] : j \in old} |-> c[CHOOSE j \in old : ParamsMap[j] = n]]
  <2>1. q = Over(supported, renamed) \/ q = Over(renamed, supported)
    BY <1>1 DEF Queries
  <2>2. old = DOMAIN c \intersect DOMAIN ParamsMap
    BY <1>1, ListKeys
  <2>3. /\ DOMAIN supported = DOMAIN c \intersect ListParams[type]
        /\ \A n \in DOMAIN supported : supported[n] = c[n]
    BY DEF Only, Restrict
  <2>4. \A n \in DOMAIN renamed : \E j \in old : ParamsMap[j] = n /\ renamed[n] = c[j]
    OBVIOUS
  <2>5. \A n : n \in DOMAIN renamed <=> \E j \in old : ParamsMap[j] = n
    OBVIOUS
  <2> HIDE DEF supported, old, renamed
  <2>6. /\ DOMAIN q = DOMAIN supported \union DOMAIN renamed
        /\ k \in DOMAIN q => \/ k \in DOMAIN supported /\ q[k] = supported[k]
                             \/ k \in DOMAIN renamed /\ q[k] = renamed[k]
    <3>1. CASE q = Over(supported, renamed)
      <4>1. DOMAIN q = DOMAIN supported \union DOMAIN renamed
        BY <3>1 DEF Over
      <4>2. k \in DOMAIN supported => q[k] = supported[k]
        BY <3>1 DEF Over
      <4>3. k \in DOMAIN renamed \ DOMAIN supported => q[k] = renamed[k]
        BY <3>1 DEF Over
      <4> QED
        BY <4>1, <4>2, <4>3
    <3>2. CASE q = Over(renamed, supported)
      <4>1. DOMAIN q = DOMAIN supported \union DOMAIN renamed
        BY <3>2 DEF Over
      <4>2. k \in DOMAIN renamed => q[k] = renamed[k]
        BY <3>2 DEF Over
      <4>3. k \in DOMAIN supported \ DOMAIN renamed => q[k] = supported[k]
        BY <3>2 DEF Over
      <4> QED
        BY <4>1, <4>2, <4>3
    <3> QED
      BY <2>1, <3>1, <3>2
  <2> QED
    BY <1>1, <2>2, <2>3, <2>4, <2>5, <2>6 DEF At
<1>2. CASE type \notin DOMAIN ListParams
  BY <1>2 DEF Queries, Without, Restrict, At
<1> QED
  BY <1>1, <1>2

\* FiltersLeft, read as alternatives.
LEMMA FiltersAt ==
  ASSUME NEW k, NEW v, NEW c,
         c = Over(given.nested, Without(given.args,
               IF type = "server" THEN Naming(given.args, DOMAIN IdKeys.server) ELSE {}))
  PROVE  LET domain == type \in {"user", "project"} /\ k = "domain_id" /\ Has(c, "domain")
             own == \/ domain /\ v = Resolved(c["domain"])
                    \/ ~domain /\ k \in DOMAIN c /\ v = c[k]
             none == v = Empty /\ ~domain /\ k \notin DOMAIN c
         IN /\ type \in DOMAIN ListParams =>
                 /\ k \in ListParams[type] /\ own => v \in FiltersLeft(k)
                 /\ \A j \in DOMAIN c \intersect DOMAIN ParamsMap :
                      ParamsMap[j] = k /\ v = c[j] => v \in FiltersLeft(k)
                 /\ /\ v = Empty /\ (k \notin ListParams[type] \/ none)
                    /\ \A j \in DOMAIN c \intersect DOMAIN ParamsMap : ParamsMap[j] # k
                    => v \in FiltersLeft(k)
            /\ type \notin DOMAIN ListParams /\ k \notin Ignored(type) /\ (own \/ none)
                 => v \in FiltersLeft(k)
            /\ type \notin DOMAIN ListParams /\ k \in Ignored(type) /\ v = Empty
                 => v \in FiltersLeft(k)
<1> DEFINE old == {j \in DOMAIN c \intersect DOMAIN ParamsMap : ParamsMap[j] = k}
           named == type \in {"user", "project"} /\ k = "domain_id" /\ Has(c, "domain")
           mine == IF named THEN {Resolved(c["domain"])} ELSE {c[j] : j \in {k} \intersect DOMAIN c}
           all == IF type \in DOMAIN ListParams
                  THEN (IF k \in ListParams[type] THEN mine ELSE {}) \union {c[j] : j \in old}
                  ELSE IF k \in Ignored(type) THEN {} ELSE mine
<1>1. FiltersLeft(k) = IF all = {} THEN {Empty} ELSE all
  BY DEF FiltersLeft
<1>2. /\ named => mine = {Resolved(c["domain"])}
      /\ ~named /\ k \in DOMAIN c => mine = {c[k]}
      /\ ~named /\ k \notin DOMAIN c => mine = {}
  OBVIOUS
<1>3. /\ v \in all => v \in FiltersLeft(k)
      /\ v = Empty /\ all = {} => v \in FiltersLeft(k)
  <2> HIDE DEF all
  <2> QED
    BY <1>1
<1> HIDE DEF mine
<1> QED
  BY <1>2, <1>3

\* _process_list_operation_inputs, key by key.
LEMMA ListFits ==
  ASSUME AsGiven, StagesFit, ListInputs, stage' # "refused", NEW k
  PROVE  args' = Nothing /\ At(query', k) \in FiltersLeft(k)
<1> DEFINE dropped == IF type = "server" THEN Naming(given.args, DOMAIN IdKeys.server) ELSE {}
           asked == Over(given.nested, Without(given.args, dropped))
           c == Flat(args, nested)
           keys == [domain |-> "domain_id"]
           Same(n) == (n \in DOMAIN c <=> n \in DOMAIN asked) /\ (n \in DOMAIN c => c[n] = asked[n])
           v == At(query', k)
<1>1. /\ nested = given.nested /\ type \in ResourceTypes /\ operation = "list"
      /\ args = IF type = "server" THEN ServerMapped(given.args) ELSE given.args
  BY DEF AsGiven, StagesFit, ListInputs
<1>2. /\ args' = Nothing
      /\ type \in {"user", "project"} => query' \in Queries(IdsMapped(c, keys))
      /\ type \notin {"user", "project"} => query' \in Queries(c)
  <2> HIDE DEF c
  <2> QED
    BY DEF ListInputs, After, Goto, c
<1>3. ASSUME NEW n, type = "server" => n \in ListParams["server"] \union DOMAIN ParamsMap
      PROVE  Same(n)
  <2>1. /\ n \in DOMAIN args <=> n \in DOMAIN given.args \ dropped
        /\ n \in DOMAIN args => args[n] = given.args[n]
    <3>1. CASE type = "server"
      <4>1. n \notin {"flavor_id", "image_id", "networks", "security_groups"}
        BY <1>3, <3>1, ListKeys
      <4>2. NamesOf(given.args, n) = {}
        BY <3>1, <4>1, KeysOfIds DEF NamesOf, Naming, IdKeys
      <4>3. Asks(given.args, n) = {given.args[j] : j \in {n} \intersect DOMAIN given.args}
        BY <4>1, <4>2 DEF Asks
      <4>4. dropped = Naming(given.args, DOMAIN IdKeys.server)
        BY <3>1
      <4>5. n \in dropped => n \in DOMAIN given.args /\ n \notin DOMAIN ServerMapped(given.args)
        BY <3>1, <4>4, ServerMappedAt DEF Naming
      <4>6. n \notin dropped =>
              /\ n \in DOMAIN ServerMapped(given.args) <=> n \in DOMAIN given.args
              /\ n \in DOMAIN ServerMapped(given.args) =>
                   ServerMapped(given.args)[n] = given.args[n]
        <5>1. n \notin dropped =>
                /\ n \in DOMAIN ServerMapped(given.args) <=> Asks(given.args, n) # {}
                /\ n \in DOMAIN ServerMapped(given.args) =>
                     Asks(given.args, n) = {ServerMapped(given.args)[n]}
          BY <3>1, <4>4, ServerMappedAt
        <5> HIDE DEF dropped
        <5> QED
          BY <4>3, <5>1
      <4> HIDE DEF dropped
      <4> QED
        BY <1>1, <3>1, <4>5, <4>6
    <3>2. CASE type # "server"
      BY <1>1, <3>2
    <3> QED
      BY <3>1, <3>2
  <2>2. /\ DOMAIN asked = DOMAIN given.nested \union (DOMAIN given.args \ dropped)
        /\ n \in DOMAIN given.nested => asked[n] = given.nested[n]
        /\ n \in (DOMAIN given.args \ dropped) \ DOMAIN given.nested => asked[n] = given.args[n]
    <3> HIDE DEF dropped
    <3> QED
      BY DEF Over, Without, Restrict
  <2>3. /\ DOMAIN c = DOMAIN nested \union DOMAIN args
        /\ n \in DOMAIN nested => c[n] = nested[n]
        /\ n \in DOMAIN args \ DOMAIN nested => c[n] = args[n]
    BY DEF Flat, Over
  <2> HIDE DEF c, asked, dropped
  <2> QED
    BY <1>1, <2>1, <2>2, <2>3
<1> DEFINE domain == type \in {"user", "project"} /\ k = "domain_id" /\ Has(asked, "domain")
           own == \/ domain /\ v = Resolved(asked["domain"])
                  \/ ~domain /\ k \in DOMAIN asked /\ v = asked[k]
           none == v = Empty /\ ~domain /\ k \notin DOMAIN asked
<1>4. /\ type \in DOMAIN ListParams =>
           /\ k \in ListParams[type] /\ own => v \in FiltersLeft(k)
           /\ \A j \in DOMAIN asked \intersect DOMAIN ParamsMap :
                ParamsMap[j] = k /\ v = asked[j] => v \in FiltersLeft(k)
           /\ /\ v = Empty /\ (k \notin ListParams[type] \/ none)
              /\ \A j \in DOMAIN asked \intersect DOMAIN ParamsMap : ParamsMap[j] # k
              => v \in FiltersLeft(k)
      /\ type \notin DOMAIN ListParams /\ k \notin Ignored(type) /\ (own \/ none)
           => v \in FiltersLeft(k)
      /\ type \notin DOMAIN ListParams /\ k \in Ignored(type) /\ v = Empty
           => v \in FiltersLeft(k)
  BY FiltersAt
<1> HIDE DEF asked, c, keys, dropped, v, domain, own, none
<1>8. type \in DOMAIN ListParams /\ k \in ListParams[type] /\ own => v \in FiltersLeft(k)
  BY <1>4
<1>9. type \in DOMAIN ListParams =>
        \A j \in DOMAIN asked \intersect DOMAIN ParamsMap :
          ParamsMap[j] = k /\ v = asked[j] => v \in FiltersLeft(k)
  BY <1>4
<1>10. /\ type \in DOMAIN ListParams /\ v = Empty /\ (k \in ListParams[type] => none)
       /\ \A j \in DOMAIN asked \intersect DOMAIN ParamsMap : ParamsMap[j] # k
       => v \in FiltersLeft(k)
  BY <1>4
<1> SUFFICES v \in FiltersLeft(k)
  BY <1>2 DEF v
<1>5. CASE type \in {"user", "project"}
  <2> DEFINE new == IdsMapped(c, keys)
  <2>1. \A n : Same(n)
    BY <1>3, <1>5
  <2>2. Naming(c, DOMAIN keys) = IF Has(asked, "domain") THEN {"domain"} ELSE {}
    BY <1>1, <1>5, <2>1 DEF Naming, Has, keys
  <2>3. /\ \A n : n \in DOMAIN new <=> \/ n = "domain_id" /\ Has(asked, "domain")
                                       \/ n \in DOMAIN asked /\ ~(n = "domain" /\ Has(asked, "domain"))
        /\ Has(asked, "domain") => new["domain_id"] = Resolved(asked["domain"])
        /\ \A n \in DOMAIN new : n \notin {"domain", "domain_id"} => new[n] = asked[n]
        /\ ~Has(asked, "domain") => \A n \in DOMAIN new : new[n] = asked[n]
    <3>1. \A i, j \in DOMAIN keys : keys[i] = keys[j] => i = j
      BY DEF keys
    <3>2. keys["domain"] = "domain_id"
      BY DEF keys
    <3>3. /\ \A n : n \in DOMAIN new <=> (\E j \in Naming(c, DOMAIN keys) : keys[j] = n)
                                         \/ n \in DOMAIN c \ Naming(c, DOMAIN keys)
          /\ \A j \in Naming(c, DOMAIN keys) : new[keys[j]] = Resolved(c[j])
          /\ \A n \in DOMAIN c \ Naming(c, DOMAIN keys) :
               (\A j \in Naming(c, DOMAIN keys) : keys[j] # n) => new[n] = c[n]
      BY <3>1, IdsMappedAt
    <3>4. Has(asked, "domain") => "domain" \in DOMAIN asked
      BY DEF Has
    <3> HIDE DEF new
    <3> QED
      BY <2>1, <2>2, <3>2, <3>3, <3>4
  <2>4. type \in DOMAIN ListParams
    BY <1>5, ListKeys
  <2>5. \/ k \in ListParams[type] /\ k \in DOMAIN new /\ v = new[k]
        \/ \E j \in DOMAIN new \intersect DOMAIN ParamsMap : ParamsMap[j] = k /\ v = new[j]
        \/ /\ v = Empty /\ ~(k \in ListParams[type] /\ k \in DOMAIN new)
           /\ \A j \in DOMAIN new \intersect DOMAIN ParamsMap : ParamsMap[j] # k
    BY <1>2, <1>5, <2>4, QueriesAt DEF v
  <2>6. k \in ListParams[type] => k # "domain"
    BY <2>4, ListKeys
  <2>7. \A j \in DOMAIN ParamsMap : j \notin {"domain", "domain_id"}
    BY ListKeys
  <2> HIDE DEF new
  <2>8. \A j \in DOMAIN ParamsMap : (j \in DOMAIN new <=> j \in DOMAIN asked)
                                    /\ (j \in DOMAIN new => new[j] = asked[j])
    BY <2>3, <2>7
  <2>9. CASE k \in ListParams[type] /\ k \in DOMAIN new /\ v = new[k]
    <3>1. domain <=> k = "domain_id" /\ Has(asked, "domain")
      BY <1>5 DEF domain
    <3>2. CASE domain
      <4>1. v = Resolved(asked["domain"])
        BY <2>3, <2>9, <3>1, <3>2
      <4>2. own
        BY <3>2, <4>1 DEF own
      <4> QED
        BY <1>8, <2>4, <2>9, <4>2
    <3>3. CASE ~domain
      <4>1. k \in DOMAIN asked /\ new[k] = asked[k]
        BY <2>3, <2>6, <2>9, <3>1, <3>3
      <4> QED
        BY <1>8, <2>4, <2>9, <3>3, <4>1 DEF own
    <3> QED
      BY <3>2, <3>3
  <2>10. CASE \E j \in DOMAIN new \intersect DOMAIN ParamsMap : ParamsMap[j] = k /\ v = new[j]
    BY <1>9, <2>4, <2>8, <2>10
  <2>11. CASE /\ v = Empty /\ ~(k \in ListParams[type] /\ k \in DOMAIN new)
              /\ \A j \in DOMAIN new \intersect DOMAIN ParamsMap : ParamsMap[j] # k
    <3>1. k \in ListParams[type] => none
      BY <1>5, <2>3, <2>6, <2>11 DEF none, domain, Has
    <3> QED
      BY <1>10, <2>4, <2>8, <2>11, <3>1
  <2> QED
    BY <2>5, <2>9, <2>10, <2>11
<1>6. CASE type \notin {"user", "project"} /\ type \in DOMAIN ListParams
  <2>1. \A n : n \in ListParams[type] \union DOMAIN ParamsMap => Same(n)
    BY <1>3, <1>6
  <2>2. \/ k \in ListParams[type] /\ k \in DOMAIN c /\ v = c[k]
        \/ \E j \in DOMAIN c \intersect DOMAIN ParamsMap : ParamsMap[j] = k /\ v = c[j]
        \/ /\ v = Empty /\ ~(k \in ListParams[type] /\ k \in DOMAIN c)
           /\ \A j \in DOMAIN c \intersect DOMAIN ParamsMap : ParamsMap[j] # k
    BY <1>2, <1>6, QueriesAt DEF v
  <2>3. CASE k \in ListParams[type] /\ k \in DOMAIN c /\ v = c[k]
    BY <1>8, <1>6, <2>1, <2>3 DEF own, domain
  <2>4. CASE \E j \in DOMAIN c \intersect DOMAIN ParamsMap : ParamsMap[j] = k /\ v = c[j]
    BY <1>9, <1>6, <2>1, <2>4
  <2>5. CASE /\ v = Empty /\ ~(k \in ListParams[type] /\ k \in DOMAIN c)
             /\ \A j \in DOMAIN c \intersect DOMAIN ParamsMap : ParamsMap[j] # k
    <3>1. k \in ListParams[type] => none
      BY <1>6, <2>1, <2>5 DEF none, domain
    <3> QED
      BY <1>10, <1>6, <2>1, <2>5, <3>1
  <2> QED
    BY <2>2, <2>3, <2>4, <2>5
<1>7. CASE type \notin DOMAIN ListParams
  <2>1. type \notin {"user", "project", "server"}
    BY <1>7, ListKeys
  <2>2. Same(k)
    BY <1>3, <2>1
  <2>3. v = IF k \in DOMAIN c \ Ignored(type) THEN c[k] ELSE Empty
    BY <1>2, <1>7, <2>1, QueriesAt DEF v
  <2> QED
    BY <1>4, <1>7, <2>1, <2>2, <2>3 DEF own, none, domain
<1> QED
  BY <1>5, <1>6, <1>7

\* Without args, a list has no filters.
LEMMA NoListFits ==
  ASSUME AsGiven, stage = "inputs", operation = "list", args = Nothing, nested = Nothing,
         query = Nothing, NEW k
  PROVE  At(query, k) \in FiltersLeft(k)
<1> DEFINE dropped == IF type = "server" THEN Naming(given.args, DOMAIN IdKeys.server) ELSE {}
           asked == Over(given.nested, Without(given.args, dropped))
<1>1. /\ nested = given.nested
      /\ args = IF type = "server" THEN ServerMapped(given.args) ELSE given.args
  BY DEF AsGiven
<1>2. DOMAIN args = {} /\ DOMAIN nested = {} /\ At(query, k) = Empty
  BY DEF Nothing, At
<1>3. DOMAIN given.args \ dropped \subseteq
        {"flavor_id", "image_id", "networks", "security_groups"}
  <2>1. CASE type = "server"
    <3> SUFFICES ASSUME NEW n \in DOMAIN given.args \ dropped,
                        n \notin {"flavor_id", "image_id", "networks", "security_groups"}
                 PROVE  FALSE
      OBVIOUS
    <3>1. dropped = Naming(given.args, DOMAIN IdKeys.server)
      BY <2>1
    <3>2. Asks(given.args, n) = {}
      <4> HIDE DEF dropped
      <4> QED
        BY <1>1, <1>2, <2>1, <3>1, ServerMappedAt
    <3>3. NamesOf(given.args, n) = {}
      BY <2>1, KeysOfIds DEF NamesOf, Naming, IdKeys
    <3>4. Asks(given.args, n) = {given.args[j] : j \in {n} \intersect DOMAIN given.args}
      BY <3>3 DEF Asks
    <3> QED
      BY <3>2, <3>4
  <2>2. CASE type # "server"
    BY <1>1, <1>2, <2>2
  <2> QED
    BY <2>1, <2>2
<1>4. DOMAIN asked = DOMAIN given.args \ dropped
  <2> HIDE DEF dropped
  <2> QED
    BY <1>1, <1>2 DEF Over, Without, Restrict
<1>5. type # "server" => DOMAIN asked = {}
  BY <1>1, <1>2, <1>4
<1> HIDE DEF asked, dropped
<1>6. /\ \A j \in DOMAIN asked \intersect DOMAIN ParamsMap : ParamsMap[j] # k
      /\ type \in DOMAIN ListParams => k \notin ListParams[type] \/ k \notin DOMAIN asked
      /\ type \notin DOMAIN ListParams => k \notin DOMAIN asked
      /\ ~(type \in {"user", "project"} /\ Has(asked, "domain"))
  BY <1>3, <1>4, <1>5, ListKeys DEF Has
<1> QED
  BY <1>2, <1>6, FiltersAt DEF asked, dropped

\* What an update and a list have got, once their inputs were processed.
InputsFit ==
  /\ stage \in {"lookup", "server", "rules", "inputs", "create", "update", "list"} => query = Nothing
  /\ stage \in {"identify", "split", "prepare", "done"} /\ type \in ResourceTypes =>
       /\ operation = "update" => \A k \in InputKeys : At(args, k) \in Updates(k)
       /\ operation = "list" => args = Nothing /\ \A k \in InputKeys : At(query, k) \in FiltersLeft(k)

\* Later steps leave the inputs as they are.
LEMMA InputsStep ==
  RequestInv /\ InputsFit /\ [TranslationNext]_translationVars => InputsFit'
<1> SUFFICES ASSUME RequestInv, InputsFit, [TranslationNext]_translationVars PROVE InputsFit'
  OBVIOUS
<1> USE DEF Goto, After
<1>1. AsGiven /\ StagesFit
  BY DEF RequestInv
<1>2. CASE /\ UNCHANGED <<situation, args, query>>
           /\ \/ stage' \in {stage, "refused"}
              \/ stage \in {"identify", "split", "prepare"} /\ stage' \in {"split", "prepare", "done"}
  <2>1. /\ \A k \in InputKeys : Updates(k)' = Updates(k) /\ FiltersLeft(k)' = FiltersLeft(k)
        /\ InputKeys' = InputKeys /\ UNCHANGED <<args, query, type, operation>>
    BY <1>2, SameWishes DEF InputKeys, situation
  <2>2. stage \in {"identify", "split", "prepare"} => type \in ResourceTypes
    BY <1>1 DEF StagesFit
  <2>5. ASSUME stage \in {"identify", "split", "prepare", "done"}, type \in ResourceTypes
        PROVE  /\ operation' = "update" => \A k \in InputKeys' : At(args, k)' \in Updates(k)'
               /\ operation' = "list" =>
                    args' = Nothing /\ \A k \in InputKeys' : At(query, k)' \in FiltersLeft(k)'
    <3>1. \A k : At(args, k)' = At(args, k) /\ At(query, k)' = At(query, k)
      BY <2>1 DEF At
    <3> QED
      BY <2>1, <2>5, <3>1 DEF InputsFit
  <2>6. stage' \in {"lookup", "server", "rules", "inputs", "create", "update", "list"} =>
          query' = Nothing
    BY <1>2, <2>1 DEF InputsFit
  <2>7. CASE stage' = "refused"
    BY <2>7 DEF InputsFit
  <2> QED
    BY <1>2, <2>1, <2>2, <2>5, <2>6, <2>7 DEF InputsFit
<1>3. CASE LookupHandler \/ MapServer \/ ProcessRule
  <2>1. query' = query /\ stage \in {"lookup", "server", "rules"}
        /\ stage' \in {"server", "rules", "routes", "inputs", "refused"}
    BY <1>3 DEF LookupHandler, MapServer, ProcessRule, ByNode, ByName, target
  <2> QED
    BY <2>1 DEF InputsFit
<1>4. CASE MergeInputs
  <2>1. UNCHANGED <<situation, args, nested, query>> /\ stage = "inputs" /\ query = Nothing
    BY <1>4 DEF MergeInputs, settings, InputsFit
  <2>2. CASE stage' = "identify" /\ operation \in {"update", "list"}
    <3>1. args = Nothing /\ nested = Nothing
      BY <1>4, <2>2 DEF MergeInputs, Handled
    <3>2. ASSUME NEW k
          PROVE  /\ operation = "update" => At(args, k) \in Updates(k)
                 /\ operation = "list" => At(query, k) \in FiltersLeft(k)
      BY <1>1, <2>1, <3>1, NoUpdateFits, NoListFits
    <3>3. \A k : Updates(k)' = Updates(k) /\ FiltersLeft(k)' = FiltersLeft(k)
      BY <2>1, SameWishes
    <3> QED
      BY <2>1, <2>2, <3>1, <3>2, <3>3 DEF InputsFit, At, situation
  <2>3. stage' \in {"create", "update", "list"} \/ stage' = "identify"
    BY <1>4 DEF MergeInputs, Handled
  <2> QED
    BY <2>1, <2>2, <2>3 DEF InputsFit, situation
<1>5. CASE UpdateInputs /\ stage' # "refused"
  <2>1. /\ UNCHANGED situation /\ operation = "update" /\ stage' = "identify"
    BY <1>1, <1>5 DEF UpdateInputs, StagesFit
  <2>2. \A k : At(args', k) \in Updates(k) /\ Updates(k)' = Updates(k)
    BY <1>1, <1>5, <2>1, UpdateFits, SameWishes
  <2> QED
    BY <2>1, <2>2 DEF InputsFit, At, situation
<1>6. CASE ListInputs /\ stage' # "refused"
  <2>1. /\ UNCHANGED situation /\ operation = "list" /\ stage' = "identify"
    BY <1>1, <1>6 DEF ListInputs, StagesFit
  <2>2. \A k : args' = Nothing /\ At(query', k) \in FiltersLeft(k) /\ FiltersLeft(k)' = FiltersLeft(k)
    BY <1>1, <1>6, <2>1, ListFits, SameWishes
  <2> QED
    BY <2>1, <2>2 DEF InputsFit, At, situation
<1>7. CASE CreateInputs /\ stage' # "refused"
  <2>1. operation' = "create" /\ stage' = "identify"
    BY <1>1, <1>7 DEF CreateInputs, StagesFit, situation
  <2> QED
    BY <2>1 DEF InputsFit
<1>8. CASE Identify \/ Split \/ PrepareInstance
  BY <1>2, <1>8 DEF Identify, Split, PrepareInstance, settings, target
<1>9. CASE TransformRoutes
  <2>1. type' = "routes"
    BY <1>1, <1>9 DEF TransformRoutes, StagesFit, situation
  <2>2. stage' \in {"done", "refused"}
    BY <1>9 DEF TransformRoutes
  <2> QED
    BY <2>1, <2>2 DEF InputsFit, ResourceTypes, ResourceConfig
<1>10. CASE UNCHANGED translationVars
  BY <1>2, <1>10 DEF translationVars, settings, target
<1>11. CASE stage' = "refused"
  BY <1>11 DEF InputsFit
<1> QED
  BY <1>3, <1>4, <1>5, <1>6, <1>7, <1>8, <1>9, <1>10, <1>11 DEF TranslationNext

\* The two ways to say what a list may have: the filters of the args that
\* name something are left out, or are the lost ones.
LEMMA FiltersWithout ==
  ASSUME NEW k
  PROVE  /\ k \notin LostFilters => FiltersLeft(k) = Filters(k)
         /\ k \in LostFilters => FiltersLeft(k) = {Empty}
<1> DEFINE dropped == IF type = "server" THEN Naming(given.args, DOMAIN IdKeys.server) ELSE {}
           c == Over(given.nested, given.args)
           d == Over(given.nested, Without(given.args, dropped))
           own(e) == IF type \in {"user", "project"} /\ k = "domain_id" /\ Has(e, "domain")
                     THEN {Resolved(e["domain"])} ELSE {e[j] : j \in {k} \intersect DOMAIN e}
           old(e) == {e[j] : j \in {i \in DOMAIN e \intersect DOMAIN ParamsMap : ParamsMap[i] = k}}
           all(e) == IF type \in DOMAIN ListParams
                     THEN (IF k \in ListParams[type] THEN own(e) ELSE {}) \union old(e)
                     ELSE IF k \in Ignored(type) THEN {} ELSE own(e)
<1>1. /\ FiltersLeft(k) = IF all(d) = {} THEN {Empty} ELSE all(d)
      /\ Filters(k) = IF all(c) = {} THEN {Empty} ELSE all(c)
  BY DEF Filters, FiltersLeft
<1>2. dropped \subseteq {"flavor", "image"} /\ (type # "server" => dropped = {})
  BY DEF Naming, IdKeys
<1>3. LostFilters = dropped \ DOMAIN given.nested
  BY DEF LostFilters
<1>4. \A n : n \notin LostFilters =>
        (n \in DOMAIN c <=> n \in DOMAIN d) /\ (n \in DOMAIN c => c[n] = d[n])
  <2> HIDE DEF dropped
  <2> QED
    BY <1>3 DEF Over, Without, Restrict
<1>5. \A n \in LostFilters : n \notin DOMAIN d
  <2> HIDE DEF dropped
  <2> QED
    BY <1>3 DEF Over, Without, Restrict
<1>6. LostFilters \subseteq {"flavor", "image"} /\ (LostFilters # {} => type = "server")
  BY <1>2, <1>3
<1>7. \A n \in DOMAIN ParamsMap : n \notin LostFilters /\ ParamsMap[n] \notin LostFilters
  BY <1>6 DEF ParamsMap
<1> HIDE DEF c, d, dropped
<1>8. old(c) = old(d)
  <2>1. \A n \in DOMAIN ParamsMap :
          (n \in DOMAIN c <=> n \in DOMAIN d) /\ (n \in DOMAIN c => c[n] = d[n])
    BY <1>4, <1>7
  <2> QED
    BY <2>1
<1>9. CASE k \notin LostFilters
  <2>1. type \in {"user", "project"} => "domain" \notin LostFilters
    BY <1>6
  <2>2. own(c) = own(d)
    BY <1>4, <1>9, <2>1 DEF Has
  <2> HIDE DEF own, old
  <2> QED
    BY <1>1, <1>8, <1>9, <2>2
<1>10. CASE k \in LostFilters
  <2>1. own(d) = {} /\ old(d) = {}
    BY <1>5, <1>6, <1>7, <1>10
  <2> HIDE DEF own, old
  <2> QED
    BY <1>1, <1>10, <2>1
<1> QED
  BY <1>9, <1>10

(***************************************************************************)
(* An update gets the args, and a list the filters, that were asked for,   *)
(* but for flavor and image of the args of a list of servers, which it     *)
(* never gets: of two words for the same setting one wins, and no other is *)
(* there.                                                                  *)
(***************************************************************************)
THEOREM InputsAreAsAsked == TranslationSpec => []InputsAsAsked
<1>1. TranslationInit => InputsFit
  BY DEF TranslationInit, InputsFit
<1>2. TranslationSpec => []InputsFit
  BY <1>1, InputsStep, RequestInvariant, PTL DEF TranslationSpec
<1>3. InputsFit => InputsAsAsked
  <2> SUFFICES ASSUME InputsFit
               PROVE  InputsAsAsked
    OBVIOUS
  <2>1. ASSUME Done("list"), NEW k \in InputKeys
        PROVE  /\ k \notin LostFilters => At(query, k) \in Filters(k)
               /\ k \in LostFilters => At(query, k) = Empty
    BY <2>1, FiltersWithout DEF InputsFit, Done
  <2>2. /\ Done("update") => \A k \in InputKeys : At(args, k) \in Updates(k)
        /\ Done("list") => args = Nothing
    BY DEF InputsFit, Done
  <2>3. LostFilters \subseteq InputKeys
    BY DEF LostFilters, Naming, InputKeys
  <2> QED
    BY <2>1, <2>2, <2>3 DEF InputsAsAsked
<1> QED
  BY <1>2, <1>3, PTL

-----------------------------------------------------------------------------
\* The setting k of a node, once its inputs were processed.
Setting(k) ==
  IF type = "security_group" /\ k = "description" /\ IsSet(node.description)
     /\ k \notin DOMAIN given.args
  THEN node.description
  ELSE IF Supported(k) THEN AskedFor(k) ELSE Empty

\* What is asked for is settled by the node.
LEMMA SameSetting == ASSUME UNCHANGED situation, NEW k PROVE Setting(k)' = Setting(k)
<1> USE DEF situation
<1>1. \A c : NamesOf(c, k)' = NamesOf(c, k)
  BY DEF NamesOf, Naming
<1>2. \A c : Asks(c, k)' = Asks(c, k)
  BY <1>1 DEF Asks, Resolved, IsThere
<1>3. AskedFor(k)' = AskedFor(k)
  BY <1>2 DEF AskedFor
<1> QED
  BY <1>3 DEF Setting, Supported

\* Dropping the empty values changes no value.
LEMMA NotEmptyAt ==
  ASSUME NEW c, NEW k
  PROVE  /\ At(NotEmpty(c), k) = At(c, k)
         /\ k \in DOMAIN NotEmpty(c) => NotEmpty(c)[k] # Empty
BY DEF NotEmpty, Restrict, At

LEMMA AtOver ==
  ASSUME NEW f, NEW g, NEW k
  PROVE  At(Over(f, g), k) = IF k \in DOMAIN f THEN f[k] ELSE At(g, k)
BY DEF Over, At

\* Where no identifiers are looked up and no server is concerned.
LEMMA PlainAsks ==
  ASSUME type \notin DOMAIN IdKeys
  PROVE  \A c, k : Asks(c, k) = {c[j] : j \in {k} \intersect DOMAIN c}
<1>1. type # "server"
  BY KeysOfIds
<1>2. \A c, k : NamesOf(c, k) = {}
  BY DEF NamesOf
<1> QED
  BY <1>1, <1>2 DEF Asks

LEMMA PlainAskedFor ==
  ASSUME type \notin DOMAIN IdKeys, NEW k
  PROVE  AskedFor(k) = At(Over(given.args, given.config), k)
<1>1. type \notin {"user", "project"}
  BY KeysOfIds
<1>2. AskedFor(k) = The(IF Asks(given.args, k) # {} THEN Asks(given.args, k)
                        ELSE Asks(given.config, k))
  BY <1>1 DEF AskedFor
<1>3. CASE k \in DOMAIN given.args
  <2>1. Asks(given.args, k) = {given.args[k]}
    BY <1>3, PlainAsks
  <2> QED
    BY <1>2, <1>3, <2>1, TheOnly, AtOver
<1>4. CASE k \notin DOMAIN given.args /\ k \in DOMAIN given.config
  <2>1. Asks(given.args, k) = {} /\ Asks(given.config, k) = {given.config[k]}
    BY <1>4, PlainAsks
  <2> QED
    BY <1>2, <1>4, <2>1, TheOnly, AtOver DEF At
<1>5. CASE k \notin DOMAIN given.args /\ k \notin DOMAIN given.config
  <2>1. Asks(given.args, k) = {} /\ Asks(given.config, k) = {}
    BY <1>5, PlainAsks
  <2> QED
    BY <1>2, <1>5, <2>1, AtOver DEF At, The
<1> QED
  BY <1>3, <1>4, <1>5

LEMMA CreateKeys ==
  /\ DOMAIN CreateParams = {"user", "project", "volume", "keypair"}
  /\ \A k \in {"user", "project"} :
       /\ DOMAIN IdKeys[k] \intersect CreateParams[k] = {}
       /\ Range(IdKeys[k]) \subseteq CreateParams[k] \union {k}
       /\ k \in DOMAIN IdKeys[k] /\ IdKeys[k][k] = k
<1>1. DOMAIN CreateParams = {"user", "project", "volume", "keypair"}
  BY DEF CreateParams
<1>2. IdKeys.user["user"] = "user" /\ IdKeys.project["project"] = "project"
  BY DEF IdKeys
<1>3. /\ CreateParams["user"] = {"domain_id"} \union UserParams
      /\ CreateParams["project"] = {"parent_id"} \union ProjectParams
  BY DEF CreateParams
<1> QED
  BY <1>1, <1>2, <1>3, KeysOfIds DEF UserParams, ProjectParams

\* _process_create_operation_inputs, key by key.
LEMMA CreateFits ==
  ASSUME AsGiven, StagesFit, CreateInputs, stage' # "refused", NEW k
  PROVE  /\ k \notin OnlyNames => At(config', k) = Setting(k)
         /\ k \in OnlyNames => ~IsSet(At(config', k))
         /\ k \in DOMAIN config' => config'[k] # Empty
<1> DEFINE c == Over(args, config)
           new == IF type \in {"user", "project"}
                  THEN NamesMapped(c, IdKeys[type], CreateParams[type])
                  ELSE IF type \in DOMAIN CreateParams THEN Only(c, CreateParams[type]) ELSE c
<1>1. /\ type \in ResourceTypes /\ operation = "create"
      /\ args = IF type = "server" THEN ServerMapped(given.args) ELSE given.args
      /\ config = CASE type = "server" -> ServerMapped(given.config)
                     [] type = "security_group" -> Described(given.config)
                     [] OTHER -> given.config
  BY DEF AsGiven, StagesFit, CreateInputs
<1>2. config' = NotEmpty(new)
  <2> HIDE DEF c
  <2> QED
    BY DEF CreateInputs, After, Goto, Merged, c
<1> SUFFICES /\ k \notin OnlyNames => At(new, k) = Setting(k)
             /\ k \in OnlyNames => ~IsSet(At(new, k))
  <2> HIDE DEF new
  <2> QED
    BY <1>2, NotEmptyAt
<1>3. CASE type \in {"user", "project"}
  <2>1. c = Over(given.args, given.config) /\ new = NamesMapped(c, IdKeys[type], CreateParams[type])
    BY <1>1, <1>3
  <2>2. /\ NamesOf(c, k) # {} => k \in DOMAIN new /\ Asks(c, k) = {new[k]}
        /\ NamesOf(c, k) = {} =>
             /\ k \in DOMAIN new <=>
                  k \in CreateParams[type] /\ k \in DOMAIN c \ Naming(c, DOMAIN IdKeys[type])
             /\ k \in DOMAIN new => new[k] = c[k]
    BY <1>3, <2>1, KeysOfIds, NamesMappedAt
  <2>3. \A n : NamesOf(c, n) = {j \in DOMAIN IdKeys[type] \intersect DOMAIN c : IdKeys[type][j] = n}
    BY <1>1, <1>3, KeysOfIds DEF NamesOf, Naming
  <2>4. DOMAIN c = DOMAIN given.args \union DOMAIN given.config
    BY <2>1 DEF Over
  <2>5. Setting(k) = IF Supported(k) THEN AskedFor(k) ELSE Empty
    BY <1>3 DEF Setting
  <2>6. AskedFor(k) = The(IF Asks(c, k) # {} THEN Asks(c, k) ELSE Asks(given.config, k))
    BY <1>3, <2>1 DEF AskedFor
  <2>7. Supported(k) <=> k \in CreateParams[type] \/ k \in Range(IdKeys[type])
    BY <1>3, CreateKeys, KeysOfIds DEF Supported
  <2>8. OnlyNames = DOMAIN IdKeys[type] \ Range(IdKeys[type])
    BY <1>3, KeysOfIds DEF OnlyNames
  <2> HIDE DEF c, new
  <2>9. CASE NamesOf(c, k) # {}
    <3>1. k \in Range(IdKeys[type])
      BY <2>3, <2>9 DEF Range
    <3> QED
      BY <2>2, <2>5, <2>6, <2>7, <2>8, <2>9, <3>1, TheOnly DEF At
  <2>10. CASE NamesOf(c, k) = {}
    <3>1. Asks(c, k) = {c[j] : j \in {k} \intersect DOMAIN c}
      BY <1>3, <2>10 DEF Asks
    <3>2. k \notin DOMAIN c => Asks(given.config, k) = {}
      <4>1. NamesOf(given.config, k) = {}
        BY <2>3, <2>4, <2>10 DEF NamesOf, Naming
      <4> QED
        BY <1>3, <2>4, <4>1 DEF Asks
    <3>3. k \in DOMAIN c => AskedFor(k) = c[k]
      BY <2>6, <3>1, TheOnly
    <3>4. k \notin DOMAIN c => AskedFor(k) = Empty
      BY <2>6, <3>1, <3>2 DEF The
    <3>5. CASE k \in CreateParams[type]
      <4>1. k \notin DOMAIN IdKeys[type]
        BY <1>3, <3>5, CreateKeys, KeysOfIds
      <4>2. k \notin Naming(c, DOMAIN IdKeys[type])
        BY <4>1 DEF Naming
      <4> QED
        BY <2>2, <2>5, <2>7, <2>8, <2>10, <3>3, <3>4, <3>5, <4>1, <4>2 DEF At
    <3>6. CASE k \notin CreateParams[type]
      <4>1. At(new, k) = Empty
        BY <2>2, <2>10, <3>6 DEF At
      <4>2. k \in Range(IdKeys[type]) => k = type /\ k \notin DOMAIN c
        BY <1>3, <2>3, <2>10, <3>6, CreateKeys, KeysOfIds
      <4> QED
        BY <2>5, <2>7, <3>4, <3>6, <4>1, <4>2 DEF IsSet
    <3> QED
      BY <3>5, <3>6
  <2> QED
    BY <2>9, <2>10
<1>4. CASE type \in {"volume", "keypair"}
  <2>1. new = Only(c, CreateParams[type]) /\ c = Over(given.args, given.config)
    BY <1>1, <1>4, CreateKeys, KeysOfIds
  <2>2. At(new, k) = IF k \in CreateParams[type] THEN At(c, k) ELSE Empty
    <3> HIDE DEF c, new
    <3> QED
      BY <2>1 DEF Only, Restrict, At
  <2>3. Setting(k) = IF k \in CreateParams[type] THEN AskedFor(k) ELSE Empty
    BY <1>4, CreateKeys, KeysOfIds DEF Setting, Supported
  <2>4. AskedFor(k) = At(c, k) /\ OnlyNames = {}
    BY <1>4, <2>1, CreateKeys, KeysOfIds, PlainAskedFor DEF OnlyNames
  <2> HIDE DEF c, new
  <2> QED
    BY <2>2, <2>3, <2>4
<1>5. CASE type \notin {"user", "project", "volume", "keypair", "server"}
  <2>1. new = c /\ Supported(k) /\ OnlyNames = {}
    BY <1>5, CreateKeys, KeysOfIds DEF Supported, OnlyNames
  <2>2. AskedFor(k) = At(Over(given.args, given.config), k)
    BY <1>5, CreateKeys, KeysOfIds, PlainAskedFor
  <2>3. CASE type # "security_group"
    BY <1>1, <1>5, <2>1, <2>2, <2>3 DEF Setting
  <2>4. CASE type = "security_group"
    <3>1. c = Over(given.args, Described(given.config))
      BY <1>1, <2>4
    <3>2. /\ At(c, k) = IF k \in DOMAIN given.args THEN given.args[k] ELSE At(Described(given.config), k)
          /\ At(Over(given.args, given.config), k) =
               IF k \in DOMAIN given.args THEN given.args[k] ELSE At(given.config, k)
      BY <3>1, AtOver
    <3>3. At(Described(given.config), k) =
            IF k = "description" /\ IsSet(node.description) THEN node.description ELSE At(given.config, k)
      BY DEF Described, With, At
    <3> HIDE DEF c, new
    <3> QED
      BY <2>1, <2>2, <2>4, <3>2, <3>3 DEF Setting
  <2> QED
    BY <2>3, <2>4
<1>6. CASE type = "server"
  <2>1. new = c /\ c = Over(ServerMapped(given.args), ServerMapped(given.config)) /\ Supported(k)
    BY <1>1, <1>6, CreateKeys, KeysOfIds DEF Supported
  <2>2. OnlyNames = {"flavor", "image"}
    BY <1>6, CreateKeys, KeysOfIds DEF OnlyNames
  <2>3. At(c, k) = IF k \in DOMAIN ServerMapped(given.args) THEN ServerMapped(given.args)[k]
                   ELSE At(ServerMapped(given.config), k)
    BY <2>1, AtOver
  <2>4. Setting(k) = The(IF Asks(given.args, k) # {} THEN Asks(given.args, k)
                         ELSE Asks(given.config, k))
    BY <1>6, <2>1 DEF Setting, AskedFor
  <2>5. ASSUME NEW s
        PROVE  /\ k \notin OnlyNames => /\ k \in DOMAIN ServerMapped(s) <=> Asks(s, k) # {}
                                        /\ k \in DOMAIN ServerMapped(s) => Asks(s, k) = {ServerMapped(s)[k]}
               /\ k \in OnlyNames => ~IsSet(At(ServerMapped(s), k))
    <3>1. /\ k \in Naming(s, DOMAIN IdKeys.server) => k \notin DOMAIN ServerMapped(s)
          /\ k \notin Naming(s, DOMAIN IdKeys.server) =>
                 /\ k \in DOMAIN ServerMapped(s) <=> Asks(s, k) # {}
                 /\ k \in DOMAIN ServerMapped(s) => Asks(s, k) = {ServerMapped(s)[k]}
      BY <1>6, ServerMappedAt
    <3>2. k \in Naming(s, DOMAIN IdKeys.server) <=>
            k \in {"flavor", "image"} /\ k \in DOMAIN s /\ IsSet(s[k])
      BY <1>6, CreateKeys, KeysOfIds DEF Naming
    <3>3. CASE k \notin OnlyNames
      BY <2>2, <3>1, <3>2, <3>3
    <3>4. CASE k \in OnlyNames /\ k \in Naming(s, DOMAIN IdKeys.server)
      BY <3>1, <3>4 DEF At, IsSet
    <3>5. CASE k \in OnlyNames /\ k \notin Naming(s, DOMAIN IdKeys.server)
      <4>1. NamesOf(s, k) = {}
        BY <1>6, <2>2, <3>5, KeysOfIds DEF NamesOf, Naming, IdKeys
      <4>2. Asks(s, k) = {s[j] : j \in {k} \intersect DOMAIN s}
        BY <2>2, <3>5, <4>1 DEF Asks
      <4> QED
        BY <2>2, <3>1, <3>2, <3>5, <4>2 DEF At, IsSet
    <3> QED
      BY <3>3, <3>4, <3>5
  <2> HIDE DEF c, new
  <2>6. CASE k \notin OnlyNames
    <3>1. CASE k \in DOMAIN ServerMapped(given.args)
      BY <2>1, <2>3, <2>4, <2>5, <2>6, <3>1, TheOnly
    <3>2. CASE k \notin DOMAIN ServerMapped(given.args) /\ k \in DOMAIN ServerMapped(given.config)
      BY <2>1, <2>3, <2>4, <2>5, <2>6, <3>2, TheOnly DEF At
    <3>3. CASE k \notin DOMAIN ServerMapped(given.args) /\ k \notin DOMAIN ServerMapped(given.config)
      BY <2>1, <2>3, <2>4, <2>5, <2>6, <3>3 DEF At, The
    <3> QED
      BY <3>1, <3>2, <3>3
  <2>7. CASE k \in OnlyNames
    BY <2>1, <2>3, <2>5, <2>7 DEF At
  <2> QED
    BY <2>6, <2>7
<1> QED
  BY <1>3, <1>4, <1>5, <1>6

\* What a node is created with, step by step: its settings, its identity,
\* and both as they are split.
Settled(k) ==
  /\ k \notin OnlyNames => At(config, k) = Setting(k)
  /\ k \in OnlyNames => ~IsSet(At(config, k))
  /\ k \in DOMAIN config => config[k] # Empty

Parted ==
  LET c == Over(Only(config, ResourceConfig[type]), Identity(resource_id))
  IN /\ resource_config = IF type = "server_group" /\ IsSet(node.policy)
                          THEN With(c, "policies", node.policy) ELSE c
     /\ kwargs = Without(config, ResourceConfig[type])

CreatedFits ==
  /\ stage \in {"identify", "split", "prepare"} /\ operation = "create" => \A k \in Known : Settled(k)
  /\ stage = "split" => resource_config = Identity(resource_id)
  /\ stage = "prepare" => Parted
  /\ CreatedAsAsked

LEMMA SameWanted ==
  ASSUME UNCHANGED <<situation, resource_id>>, NEW k
  PROVE  Wanted(k)' = Wanted(k)
<1> USE DEF situation
<1>1. \A c : NamesOf(c, k)' = NamesOf(c, k)
  BY DEF NamesOf, Naming
<1>2. \A c : Asks(c, k)' = Asks(c, k)
  BY <1>1 DEF Asks, Resolved, IsThere
<1>3. AskedFor(k)' = AskedFor(k)
  BY <1>2 DEF AskedFor
<1>4. Identity(resource_id)' = Identity(resource_id) /\ Supported(k)' = Supported(k)
  BY DEF Identity, Resolved, IsThere, Supported
<1> QED
  BY <1>3, <1>4 DEF Wanted, HasName

\* What the parts hold of a setting k together.
LEMMA PartsAt ==
  ASSUME StagesFit, stage = "prepare", Parted, NEW k
  PROVE  LET c == Over(kwargs, resource_config)
             own == Identity(resource_id)
         IN At(c, k) = IF type = "server_group" /\ k = "policies" /\ IsSet(node.policy) THEN node.policy
                       ELSE IF k \in DOMAIN config THEN config[k] ELSE At(own, k)
<1> DEFINE own == Identity(resource_id)
           K == ResourceConfig[type]
           c == Over(Only(config, K), own)
           policy == type = "server_group" /\ IsSet(node.policy)
<1>1. type = "server_group" => "policies" \in K
  BY DEF ResourceConfig
<1>2. kwargs = Without(config, K) /\ resource_config = IF policy THEN With(c, "policies", node.policy) ELSE c
  BY DEF Parted
<1> HIDE DEF K, own, policy
<1>3. At(c, k) = IF k \in DOMAIN config \intersect K THEN config[k] ELSE At(own, k)
  <2>1. At(c, k) = IF k \in DOMAIN Only(config, K) THEN Only(config, K)[k] ELSE At(own, k)
    BY AtOver
  <2> HIDE DEF c
  <2> QED
    BY <2>1 DEF Only, Restrict
<1> HIDE DEF c
<1>4. At(resource_config, k) = IF policy /\ k = "policies" THEN node.policy ELSE At(c, k)
  BY <1>2 DEF With, At
<1>5. At(Over(kwargs, resource_config), k) = IF k \in DOMAIN kwargs THEN kwargs[k] ELSE At(resource_config, k)
  BY AtOver
<1>6. /\ k \in DOMAIN kwargs <=> k \in DOMAIN config \ K
      /\ k \in DOMAIN kwargs => kwargs[k] = config[k]
  BY <1>2 DEF Without, Restrict
<1> QED
  BY <1>1, <1>3, <1>4, <1>5, <1>6 DEF policy, own

\* prepare_resource_instance puts together what was split, and adds a name.
LEMMA CreatedRight ==
  ASSUME StagesFit, CreatedFits, PrepareInstance, operation = "create", NEW k \in Known
  PROVE  /\ k \notin OnlyNames => At(resource_config', k) = Wanted(k)
         /\ k \in OnlyNames => ~IsSet(At(resource_config', k))
<1> DEFINE own == Identity(resource_id)
           c == Over(kwargs, resource_config)
           policy == type = "server_group" /\ k = "policies" /\ IsSet(node.policy)
           described == type = "security_group" /\ k = "description" /\ IsSet(node.description)
                        /\ k \notin DOMAIN given.args
           asked == IF Supported(k) THEN AskedFor(k) ELSE Empty
<1>1. type \in ResourceTypes /\ Settled(k) /\ Parted
  BY DEF PrepareInstance, StagesFit, CreatedFits
<1>2. \A n : At(c, n) = IF type = "server_group" /\ n = "policies" /\ IsSet(node.policy) THEN node.policy
                        ELSE IF n \in DOMAIN config THEN config[n] ELSE At(own, n)
  BY <1>1, PartsAt DEF PrepareInstance
<1>3. /\ DOMAIN own \subseteq {"id", "name"}
      /\ "name" \in DOMAIN own => IsSet(own["name"])
  BY DEF Identity, Nothing
<1>4. resource_config' = IF HasName /\ ~Has(c, "name") THEN With(c, "name", Generated) ELSE c
  BY DEF PrepareInstance
<1>5. Has(c, "name") <=> IsSet(At(c, "name"))
  <2> HIDE DEF c
  <2> QED
    BY DEF Has, At, IsSet
<1>6. At(resource_config', k) = IF k = "name" /\ HasName /\ ~IsSet(At(c, "name")) THEN Generated ELSE At(c, k)
  <2> HIDE DEF c
  <2> QED
    BY <1>4, <1>5 DEF With, At
<1>7. OnlyNames \intersect {"id", "name", "policies"} = {}
  BY KeysOfIds DEF OnlyNames
<1>8. Setting(k) = IF described THEN node.description ELSE asked
  BY DEF Setting
<1>9. Wanted(k) = CASE policy -> node.policy
                    [] described -> node.description
                    [] k \in {"id", "name"} /\ asked = Empty /\ k \in DOMAIN own -> own[k]
                    [] k = "name" /\ ~IsSet(asked) /\ HasName
                         /\ ~(asked = Empty /\ k \in DOMAIN own) -> Generated
                    [] OTHER -> asked
  BY DEF Wanted
<1> HIDE DEF c, own, asked
<1>10. CASE k \in OnlyNames
  BY <1>1, <1>2, <1>3, <1>6, <1>7, <1>10 DEF Settled, At, IsSet
<1>11. CASE k \notin OnlyNames /\ policy
  BY <1>2, <1>6, <1>9, <1>11
<1>12. CASE k \notin OnlyNames /\ ~policy /\ described
  BY <1>1, <1>2, <1>6, <1>8, <1>9, <1>12 DEF Settled, At, IsSet
<1>13. CASE k \notin OnlyNames /\ ~policy /\ ~described
  <2>1. /\ At(config, k) = asked
        /\ k \in DOMAIN config <=> asked # Empty
        /\ k \in DOMAIN config => config[k] = asked
    BY <1>1, <1>8, <1>13 DEF Settled, At
  <2>2. At(c, k) = IF asked # Empty THEN asked ELSE At(own, k)
    BY <1>2, <1>13, <2>1
  <2>3. CASE k = "name"
    BY <1>3, <1>6, <1>9, <1>13, <2>2, <2>3 DEF At, IsSet
  <2>4. CASE k # "name"
    BY <1>3, <1>6, <1>9, <1>13, <2>2, <2>4 DEF At
  <2> QED
    BY <2>3, <2>4
<1> QED
  BY <1>10, <1>11, <1>12, <1>13

\* The settings stay as they were processed, until they are put together.
LEMMA CreatedStep ==
  RequestInv /\ CreatedFits /\ [TranslationNext]_translationVars => CreatedFits'
<1> SUFFICES ASSUME RequestInv, CreatedFits, [TranslationNext]_translationVars PROVE CreatedFits'
  OBVIOUS
<1> USE DEF Goto, After
<1>1. AsGiven /\ StagesFit
  BY DEF RequestInv
<1>2. ASSUME UNCHANGED situation
      PROVE  /\ \A k : Setting(k)' = Setting(k)
             /\ Known' = Known /\ OnlyNames' = OnlyNames
             /\ UNCHANGED config => \A k : Settled(k)' = Settled(k)
  <2>1. \A k : Setting(k)' = Setting(k)
    BY <1>2, SameSetting
  <2> QED
    BY <1>2, <2>1 DEF situation, Known, OnlyNames, Settled, At
<1>3. CASE LookupHandler \/ MapServer \/ ProcessRule \/ ListInputs \/ UpdateInputs \/ MergeInputs
  <2>1. UNCHANGED situation
    BY <1>3 DEF LookupHandler, MapServer, ProcessRule, ListInputs, UpdateInputs, MergeInputs
  <2>2. stage' \in {"server", "rules", "routes", "inputs", "refused", "create", "list", "update"}
        \/ (stage' = "identify" /\ operation # "create")
    <3>1. CASE LookupHandler \/ MapServer
      BY <3>1 DEF LookupHandler, MapServer
    <3>4. CASE ProcessRule
      BY <3>4 DEF ProcessRule, ByNode, ByName
    <3>2. CASE ListInputs \/ UpdateInputs
      BY <1>1, <3>2 DEF ListInputs, UpdateInputs, StagesFit
    <3>3. CASE MergeInputs
      <4>1. stage' = Handled
        BY <3>3 DEF MergeInputs
      <4> QED
        BY <4>1 DEF Handled
    <3> QED
      BY <1>3, <3>1, <3>2, <3>3, <3>4
  <2> QED
    BY <2>1, <2>2 DEF CreatedFits, CreatedAsAsked, Done, situation
<1>4. CASE CreateInputs /\ stage' # "refused"
  <2>1. UNCHANGED situation /\ stage' = "identify"
    BY <1>4 DEF CreateInputs
  <2>2. \A k : /\ k \notin OnlyNames => At(config', k) = Setting(k)
               /\ k \in OnlyNames => ~IsSet(At(config', k))
               /\ k \in DOMAIN config' => config'[k] # Empty
    BY <1>1, <1>4, CreateFits
  <2>3. \A k : Settled(k)'
    BY <1>2, <2>1, <2>2 DEF Settled, At
  <2> QED
    BY <2>1, <2>3 DEF CreatedFits, CreatedAsAsked, Done
<1>5. CASE Identify /\ stage' # "refused"
  <2>1. /\ UNCHANGED <<situation, config>> /\ stage = "identify" /\ stage' = "split"
        /\ resource_config' = Identity(resource_id) /\ resource_id' = resource_id
    BY <1>5 DEF Identify, settings
  <2>2. Identity(resource_id)' = Identity(resource_id)
    BY <2>1 DEF Identity, situation, Resolved, IsThere
  <2> QED
    BY <1>2, <2>1, <2>2 DEF CreatedFits, CreatedAsAsked, Done, situation
<1>6. CASE Split
  <2>1. /\ UNCHANGED <<situation, config, resource_id>> /\ stage = "split" /\ stage' = "prepare"
        /\ resource_config = Identity(resource_id)
    BY <1>6 DEF Split, settings, CreatedFits
  <2>2. Identity(resource_id)' = Identity(resource_id)
    BY <2>1 DEF Identity, situation, Resolved, IsThere
  <2>3. Parted'
    BY <1>6, <2>1, <2>2 DEF Split, Parted, situation
  <2> QED
    BY <1>2, <2>1, <2>3 DEF CreatedFits, CreatedAsAsked, Done, situation
<1>7. CASE PrepareInstance
  <2>1. UNCHANGED <<situation, resource_id>> /\ stage' = "done"
    BY <1>7 DEF PrepareInstance
  <2>2. ASSUME operation = "create", NEW k \in Known
        PROVE  /\ k \notin OnlyNames => At(resource_config', k) = Wanted(k)
               /\ k \in OnlyNames => ~IsSet(At(resource_config', k))
    BY <1>1, <1>7, <2>2, CreatedRight
  <2>3. \A k : Wanted(k)' = Wanted(k)
    BY <2>1, SameWanted
  <2>4. OnlyNames \subseteq Known
    BY KeysOfIds DEF OnlyNames, Known
  <2> QED
    BY <1>2, <2>1, <2>2, <2>3, <2>4 DEF CreatedFits, CreatedAsAsked, Done, situation, At
<1>8. CASE TransformRoutes
  <2>1. type' = "routes" /\ stage' \in {"done", "refused"}
    BY <1>1, <1>8 DEF TransformRoutes, StagesFit, situation
  <2> QED
    BY <2>1 DEF CreatedFits, CreatedAsAsked, Done, ResourceTypes, ResourceConfig
<1>9. CASE UNCHANGED translationVars
  <2>1. UNCHANGED <<situation, stage, config, resource_id, resource_config, kwargs>>
    BY <1>9 DEF translationVars, settings, target
  <2>2. Identity(resource_id)' = Identity(resource_id) /\ \A k : Wanted(k)' = Wanted(k)
    BY <2>1, SameWanted DEF Identity, situation, Resolved, IsThere
  <2> QED
    BY <1>2, <2>1, <2>2 DEF CreatedFits, CreatedAsAsked, Parted, Done, situation, At
<1>10. CASE stage' = "refused"
  BY <1>10 DEF CreatedFits, CreatedAsAsked, Done
<1> QED
  BY <1>3, <1>4, <1>5, <1>6, <1>7, <1>8, <1>9, <1>10 DEF TranslationNext

(***************************************************************************)
(* A create request has exactly the settings that args and node ask for:   *)
(* what the steps drop, move, look up, split and put together again is     *)
(* neither lost nor mixed up, for any settings, names and cloud.           *)
(***************************************************************************)
THEOREM CreatedIsAsAsked == TranslationSpec => []CreatedAsAsked
<1>1. TranslationInit => CreatedFits
  BY DEF TranslationInit, CreatedFits, CreatedAsAsked, Done
<1>2. TranslationSpec => []CreatedFits
  BY <1>1, CreatedStep, RequestInvariant, PTL DEF TranslationSpec
<1>3. CreatedFits => CreatedAsAsked
  BY DEF CreatedFits
<1> QED
  BY <1>2, <1>3, PTL
=============================================================================
