---------------------- MODULE VolumeAttachmentsProofs ----------------------
(***************************************************************************)
(* Proofs about VolumeAttachments, for any number of volumes, attachments  *)
(* and events.                                                             *)
(***************************************************************************)
EXTENDS VolumeAttachments, TLAPS

Statuses == {"available", "attaching", "in-use", "detaching", "error"}

(* Where the id of the attachment is recorded, at every step.              *)
Known(v) ==
  /\ phase[v] = "request" => copy[v] = store[v] /\ v \notin asked
  /\ Loaded(v) /\ v \notin asked => copy[v].id = store[v].id
  /\ v \notin lost /\ attachment[v] # 0 =>
       attachment[v] = IF v \in asked THEN copy[v].id ELSE store[v].id
  /\ volume[v] \in {"attaching", "in-use", "detaching"} => attachment[v] # 0

(* What an operation that succeeds has reached, before and after it is     *)
(* stored.                                                                 *)
TaskKey(v, keys) == IF op[v] = "attach" THEN keys.attach ELSE keys.detach
Real(v) ==
  /\ phase[v] = "end" /\ result[v] = "ok" =>
       v \in dirty /\ volume[v] = Wanted(v) /\ ~TaskKey(v, copy[v])
  /\ phase[v] = "idle" /\ result[v] = "ok" =>
       volume[v] = Wanted(v) /\ ~TaskKey(v, store[v])

(* What keys say of a volume that only its own operations have changed.    *)
Asked(v) == volume[v] \in IF op[v] = "attach" THEN {"attaching", "in-use"}
                                              ELSE {"detaching", "available"}
Ready(v, keys) ==
  IF op[v] = "attach"
  THEN /\ ~keys.detach
       /\ IF keys.attach THEN Asked(v) ELSE volume[v] = "available"
  ELSE /\ ~keys.attach /\ keys.id # 0
       /\ IF keys.detach THEN Asked(v)
          ELSE volume[v] = "in-use" /\ attachment[v] = keys.id

(* The progress of a relationship that no fault has hit and that has lost  *)
(* no copy.                                                                *)
Healthy(v) ==
  v \notin hit \union lost =>
    /\ result[v] # "failed" /\ volume[v] # "error"
    /\ phase[v] = "idle" =>
         /\ result[v] = "ok" /\ (v \in linked <=> op[v] = "attach")
         /\ ~store[v].attach /\ ~store[v].detach
    /\ phase[v] # "idle" => v \in linked
    /\ phase[v] # "idle" /\ v \notin asked => Ready(v, store[v])
    /\ phase[v] = "wait" \/ (phase[v] = "end" /\ result[v] = "retry") =>
         Ready(v, copy[v]) /\ TaskKey(v, copy[v])
    /\ phase[v] = "end" /\ result[v] = "ok" => ~copy[v].attach /\ ~copy[v].detach

Local(v) == Known(v) /\ Real(v) /\ Healthy(v)
Inv == TypeOK /\ \A v \in Volumes : Local(v)

(* How an operation changes the keys of its volume.                        *)
LEMMA KeyFields ==
  ASSUME NEW k \in Keys, NEW n \in Nat
  PROVE  /\ k.attach \in BOOLEAN /\ k.detach \in BOOLEAN /\ k.id \in Nat
         /\ LET j == [k EXCEPT !.attach = TRUE, !.id = n]
            IN  j \in Keys /\ j.attach /\ j.detach = k.detach /\ j.id = n
         /\ LET j == [k EXCEPT !.detach = TRUE]
            IN  j \in Keys /\ j.attach = k.attach /\ j.detach /\ j.id = k.id
         /\ LET j == [k EXCEPT !.attach = FALSE]
            IN  j \in Keys /\ ~j.attach /\ j.detach = k.detach /\ j.id = k.id
         /\ LET j == [k EXCEPT !.detach = FALSE]
            IN  j \in Keys /\ j.attach = k.attach /\ ~j.detach /\ j.id = k.id
BY DEF Keys

(* Counting an event keeps the counters.                                   *)
LEMMA EventTyped ==
  ASSUME faults \in [FaultKinds -> Nat], NEW kind \in FaultKinds, Event(kind)
  PROVE  faults' \in [FaultKinds -> Nat]
BY DEF Event

(* Nothing of a volume changes but the age of its copy.                    *)
Same(v) ==
  /\ volume'[v] = volume[v] /\ attachment'[v] = attachment[v]
  /\ store'[v] = store[v] /\ copy'[v] = copy[v]
  /\ op'[v] = op[v] /\ phase'[v] = phase[v] /\ result'[v] = result[v]
  /\ v \in asked' <=> v \in asked
  /\ v \in dirty' <=> v \in dirty
  /\ v \in linked' <=> v \in linked
  /\ v \in lost' <=> v \in lost
  /\ v \in hit' <=> v \in hit

LEMMA SameLocal ==
  ASSUME NEW v \in Volumes, Local(v), Same(v)
  PROVE  Local(v)'
<1> USE DEF Same
<1>1. Known(v)'
  BY DEF Local, Known, Loaded
<1>2. Real(v)'
  BY DEF Local, Real, Wanted, TaskKey
<1>3. Healthy(v)'
  BY DEF Local, Healthy, Ready, Asked, TaskKey
<1> QED
  BY <1>1, <1>2, <1>3 DEF Local

LEMMA InvInit == Init => Inv
<1> SUFFICES ASSUME Init PROVE Inv
  OBVIOUS
<1>1. TypeOK
  BY DEF Init, TypeOK, Keys, NoKeys, Loaded
<1>2. ASSUME NEW v \in Volumes PROVE Local(v)
  BY DEF Init, Local, Known, Real, Healthy, TaskKey, Wanted, Loaded, NoKeys
<1> QED
  BY <1>1, <1>2 DEF Inv

LEMMA BeginStep ==
  ASSUME Inv, NEW v \in Volumes, Begin(v)
  PROVE  Inv'
<1> USE DEF Inv, service, attempt, call
<1>1. TypeOK'
  BY DEF Begin, Goto, TypeOK, Keys, NoKeys, Loaded, FaultKinds
<1>2. ASSUME NEW w \in Volumes, w # v PROVE Same(w)
  BY <1>2 DEF Begin, Goto, TypeOK, Same
<1>3. Known(v)'
  BY DEF Begin, Goto, TypeOK, Keys, NoKeys, Local, Known, Loaded
<1>4. Real(v)'
  BY DEF Begin, Goto, TypeOK, Keys, NoKeys, Local, Real, TaskKey, Wanted
<1>5. Healthy(v)'
  BY DEF Begin, Goto, TypeOK, Keys, NoKeys, Local, Known, Real, Healthy, Ready, Asked, TaskKey, Wanted, Loaded
<1> QED
  BY <1>1, <1>2, <1>3, <1>4, <1>5, SameLocal DEF Local

LEMMA LoadStep ==
  ASSUME Inv, NEW v \in Volumes, Load(v)
  PROVE  Inv'
<1> USE DEF Inv, service, attempt, call
<1>1. TypeOK'
  BY DEF Load, Goto, TypeOK, Keys, NoKeys, Loaded, FaultKinds
<1>2. ASSUME NEW w \in Volumes, w # v PROVE Same(w)
  BY <1>2 DEF Load, Goto, TypeOK, Same
<1>3. Known(v)'
  BY DEF Load, Goto, TypeOK, Keys, NoKeys, Local, Known, Loaded
<1>4. Real(v)'
  BY DEF Load, Goto, TypeOK, Keys, NoKeys, Local, Real, TaskKey, Wanted
<1>5. Healthy(v)'
  BY DEF Load, Goto, TypeOK, Keys, NoKeys, Local, Known, Real, Healthy, Ready, Asked, TaskKey, Wanted, Loaded
<1> QED
  BY <1>1, <1>2, <1>3, <1>4, <1>5, SameLocal DEF Local

LEMMA AttachRequestStep ==
  ASSUME Inv, NEW v \in Volumes, AttachRequest(v)
  PROVE  Inv'
<1> USE DEF Inv, service, attempt, call
<1>0. \/ copy' = copy /\ (copy[v].attach \/ volume[v] # "available")
      \/ /\ ~copy[v].attach /\ volume[v] = "available" /\ volume'[v] = "attaching"
         /\ attachment'[v] = made'[v] /\ made'[v] \in Nat \ {0}
         /\ copy' \in [Volumes -> Keys] /\ copy'[v].attach
         /\ copy'[v].detach = copy[v].detach /\ copy'[v].id = made'[v]
         /\ v \in asked' /\ v \in dirty' /\ phase'[v] = "wait"
  <2>1. CASE AskedBefore(v) \/ Refused(v)
    BY <2>1 DEF AttachRequest, AskedBefore, Refused, Attaches, Asks, Becomes, TypeOK
  <2>2. CASE Attaches(v) /\ ~copy[v].attach /\ Asks(v, [copy[v] EXCEPT !.attach = TRUE, !.id = made'[v]])
    <3>1. made'[v] \in Nat \ {0} /\ copy[v] \in Keys
      BY <2>2 DEF Attaches, TypeOK
    <3>2. copy' = [copy EXCEPT ![v] = [copy[v] EXCEPT !.attach = TRUE, !.id = made'[v]]]
      BY <2>2 DEF Asks
    <3>3. /\ copy' \in [Volumes -> Keys] /\ copy'[v].attach
          /\ copy'[v].detach = copy[v].detach /\ copy'[v].id = made'[v]
      <4> DEFINE j == [copy[v] EXCEPT !.attach = TRUE, !.id = made'[v]]
      <4>1. j \in Keys /\ j.attach /\ j.detach = copy[v].detach /\ j.id = made'[v]
        BY <3>1, KeyFields
      <4>2. copy' = [copy EXCEPT ![v] = j]
        BY <3>2
      <4> HIDE DEF j
      <4> QED
        BY <4>1, <4>2 DEF TypeOK
    <3>4. volume'[v] = "attaching" /\ attachment'[v] = made'[v] /\ volume[v] = "available"
      BY <2>2 DEF Attaches, Becomes, TypeOK
    <3>5. v \in asked' /\ v \in dirty' /\ phase'[v] = "wait"
      BY <2>2 DEF Asks, Goto, TypeOK
    <3> QED
      BY <2>2, <3>1, <3>3, <3>4, <3>5
  <2> QED
    BY <2>1, <2>2 DEF AttachRequest
<1>1. TypeOK'
  <2>1. volume' \in [Volumes -> Statuses] /\ attachment' \in [Volumes -> Nat] /\ made' \in [Volumes -> Nat]
    BY DEF AttachRequest, AskedBefore, Attaches, Asks, Refused, Becomes, Goto, End, TypeOK, Statuses
  <2>2. copy' \in [Volumes -> Keys] /\ store' \in [Volumes -> Keys]
    BY <1>0 DEF AttachRequest, TypeOK
  <2>3. phase' \in [Volumes -> {"idle", "begin", "request", "wait", "end"}] /\ result' \in [Volumes -> {"ok", "failed", "retry"}]
    BY DEF AttachRequest, AskedBefore, Attaches, Asks, Refused, Becomes, Goto, End, TypeOK
  <2>4. asked' \subseteq dirty' /\ dirty' \subseteq Volumes /\ stale' \subseteq Volumes /\ linked' \subseteq Volumes
    BY DEF AttachRequest, AskedBefore, Attaches, Asks, Refused, Becomes, Goto, End, TypeOK
  <2>5. ASSUME NEW w \in Volumes, ~Loaded(w)' PROVE copy'[w] = NoKeys /\ w \notin dirty' \union stale'
    BY <2>5 DEF AttachRequest, AskedBefore, Attaches, Asks, Refused, Becomes, Goto, End, TypeOK, Loaded
  <2> QED
    BY <2>1, <2>2, <2>3, <2>4, <2>5 DEF AttachRequest, TypeOK, Statuses, Loaded
<1>2. ASSUME NEW w \in Volumes, w # v PROVE Same(w)
  BY <1>2 DEF AttachRequest, AskedBefore, Attaches, Asks, Refused, Becomes, Goto, End, TypeOK, Same
<1>3. Known(v)'
  BY <1>0 DEF AttachRequest, AskedBefore, Attaches, Asks, Refused, Becomes, Goto, End, TypeOK, Keys, NoKeys, Local, Known, Loaded
<1>4. Real(v)'
  BY DEF AttachRequest, AskedBefore, Attaches, Asks, Refused, Becomes, Goto, End, TypeOK, Keys, NoKeys, Local, Real, TaskKey, Wanted
<1>5. Healthy(v)'
  BY <1>0 DEF AttachRequest, AskedBefore, Attaches, Asks, Refused, Becomes, Goto, End, TypeOK, Keys, NoKeys, Local, Known, Real, Healthy, Ready, Asked, TaskKey, Wanted, Loaded
<1> QED
  BY <1>1, <1>2, <1>3, <1>4, <1>5, SameLocal DEF Local

LEMMA DetachRequestStep ==
  ASSUME Inv, NEW v \in Volumes, DetachRequest(v)
  PROVE  Inv'
<1> USE DEF Inv, service, attempt, call
<1>1. TypeOK'
  <2>1. volume' \in [Volumes -> Statuses] /\ attachment' \in [Volumes -> Nat] /\ made' \in [Volumes -> Nat]
    BY DEF DetachRequest, AskedBefore, Asks, Refused, Becomes, Goto, End, TypeOK, Statuses
  <2>2. copy' \in [Volumes -> Keys] /\ store' \in [Volumes -> Keys]
    <3> DEFINE j == [copy[v] EXCEPT !.detach = TRUE]
    <3>1. j \in Keys
      BY KeyFields DEF TypeOK
    <3>2. copy' = copy \/ copy' = [copy EXCEPT ![v] = j]
      BY DEF DetachRequest, AskedBefore, Asks, Refused
    <3> HIDE DEF j
    <3> QED
      BY <3>1, <3>2 DEF DetachRequest, TypeOK
  <2>3. phase' \in [Volumes -> {"idle", "begin", "request", "wait", "end"}] /\ result' \in [Volumes -> {"ok", "failed", "retry"}]
    BY DEF DetachRequest, AskedBefore, Asks, Refused, Becomes, Goto, End, TypeOK
  <2>4. asked' \subseteq dirty' /\ dirty' \subseteq Volumes /\ stale' \subseteq Volumes /\ linked' \subseteq Volumes
    BY DEF DetachRequest, AskedBefore, Asks, Refused, Becomes, Goto, End, TypeOK
  <2>5. ASSUME NEW w \in Volumes, ~Loaded(w)' PROVE copy'[w] = NoKeys /\ w \notin dirty' \union stale'
    BY <2>5 DEF DetachRequest, AskedBefore, Asks, Refused, Becomes, Goto, End, TypeOK, Loaded
  <2> QED
    BY <2>1, <2>2, <2>3, <2>4, <2>5 DEF DetachRequest, TypeOK, Statuses, Loaded
<1>2. ASSUME NEW w \in Volumes, w # v PROVE Same(w)
  BY <1>2 DEF DetachRequest, AskedBefore, Asks, Refused, Becomes, Goto, End, TypeOK, Same
<1>3. Known(v)'
  BY DEF DetachRequest, AskedBefore, Asks, Refused, Becomes, Goto, End, TypeOK, Keys, NoKeys, Local, Known, Loaded
<1>4. Real(v)'
  BY DEF DetachRequest, AskedBefore, Asks, Refused, Becomes, Goto, End, TypeOK, Keys, NoKeys, Local, Real, TaskKey, Wanted
<1>5. Healthy(v)'
  BY DEF DetachRequest, AskedBefore, Asks, Refused, Becomes, Goto, End, TypeOK, Keys, NoKeys, Local, Known, Real, Healthy, Ready, Asked, TaskKey, Wanted, Loaded
<1> QED
  BY <1>1, <1>2, <1>3, <1>4, <1>5, SameLocal DEF Local

LEMMA WaitStep ==
  ASSUME Inv, NEW v \in Volumes, Wait(v)
  PROVE  Inv'
<1> USE DEF Inv, service, attempt, call
<1>0. \/ copy' = copy /\ result'[v] # "ok"
      \/ /\ volume[v] = Wanted(v) /\ phase'[v] = "end" /\ result'[v] = "ok"
         /\ copy' \in [Volumes -> Keys] /\ copy'[v].id = copy[v].id
         /\ op[v] = "attach" => ~copy'[v].attach /\ copy'[v].detach = copy[v].detach
         /\ op[v] # "attach" => ~copy'[v].detach /\ copy'[v].attach = copy[v].attach
  <2>1. CASE Forget(v) /\ volume[v] = Wanted(v)
    <3> DEFINE a == [copy[v] EXCEPT !.attach = FALSE]
               d == [copy[v] EXCEPT !.detach = FALSE]
    <3>1. /\ a \in Keys /\ ~a.attach /\ a.detach = copy[v].detach /\ a.id = copy[v].id
          /\ d \in Keys /\ ~d.detach /\ d.attach = copy[v].attach /\ d.id = copy[v].id
      BY KeyFields DEF TypeOK
    <3>2. /\ op[v] = "attach" => copy' = [copy EXCEPT ![v] = a]
          /\ op[v] # "attach" => copy' = [copy EXCEPT ![v] = d]
      BY <2>1 DEF Forget
    <3>3. phase'[v] = "end" /\ result'[v] = "ok"
      BY <2>1 DEF Forget, End, Goto, TypeOK
    <3> HIDE DEF a, d
    <3> QED
      BY <2>1, <3>1, <3>2, <3>3 DEF TypeOK
  <2>2. CASE UNCHANGED attempt /\ (End(v, "failed") \/ End(v, "retry"))
    BY <2>2 DEF End, TypeOK
  <2> QED
    BY <2>1, <2>2 DEF Wait
<1>1. TypeOK'
  <2>1. volume' \in [Volumes -> Statuses] /\ attachment' \in [Volumes -> Nat] /\ made' \in [Volumes -> Nat]
    BY DEF Wait, Forget, Wanted, Goto, End, TypeOK, Statuses
  <2>2. copy' \in [Volumes -> Keys] /\ store' \in [Volumes -> Keys]
    BY <1>0 DEF Wait, TypeOK
  <2>3. phase' \in [Volumes -> {"idle", "begin", "request", "wait", "end"}] /\ result' \in [Volumes -> {"ok", "failed", "retry"}]
    BY DEF Wait, Forget, Wanted, Goto, End, TypeOK
  <2>4. asked' \subseteq dirty' /\ dirty' \subseteq Volumes /\ stale' \subseteq Volumes /\ linked' \subseteq Volumes
    BY DEF Wait, Forget, Wanted, Goto, End, TypeOK
  <2>5. ASSUME NEW w \in Volumes, ~Loaded(w)' PROVE copy'[w] = NoKeys /\ w \notin dirty' \union stale'
    BY <2>5 DEF Wait, Forget, Wanted, Goto, End, TypeOK, Loaded
  <2> QED
    BY <2>1, <2>2, <2>3, <2>4, <2>5 DEF Wait, TypeOK, Statuses, Loaded
<1>2. ASSUME NEW w \in Volumes, w # v PROVE Same(w)
  BY <1>2 DEF Wait, Forget, Wanted, Goto, End, TypeOK, Same
<1>3. Known(v)'
  BY DEF Wait, Forget, Wanted, Goto, End, TypeOK, Keys, NoKeys, Local, Known, Loaded
<1>4. Real(v)'
  BY DEF Wait, Forget, Wanted, Goto, End, TypeOK, Keys, NoKeys, Local, Real, TaskKey, Wanted
<1>5. Healthy(v)'
  <2> SUFFICES ASSUME v \notin hit \union lost PROVE Healthy(v)'
    BY DEF Wait, Healthy
  <2>1. /\ result[v] # "failed" /\ volume[v] # "error" /\ phase[v] = "wait" /\ v \in linked
        /\ Ready(v, copy[v]) /\ TaskKey(v, copy[v])
        /\ v \notin asked => Ready(v, store[v])
    BY DEF Wait, Local, Healthy
  <2>2. /\ volume' = volume /\ attachment' = attachment /\ store' = store /\ op' = op
        /\ linked' = linked /\ hit' = hit /\ lost' = lost /\ asked' = asked
    BY DEF Wait, Forget
  <2>3. CASE volume[v] = Wanted(v) /\ Forget(v)
    <3>1. phase'[v] = "end" /\ result'[v] = "ok"
      BY <2>3 DEF Forget, End, Goto, TypeOK
    <3>2. ~copy'[v].attach /\ ~copy'[v].detach
      BY <1>0, <2>1, <3>1 DEF Ready
    <3> QED
      BY <2>1, <2>2, <3>1, <3>2 DEF Healthy, Ready, Asked
  <2>4. CASE volume[v] \notin {"error", Wanted(v)} /\ End(v, "retry") /\ UNCHANGED attempt
    <3>1. phase'[v] = "end" /\ result'[v] = "retry" /\ copy' = copy
      BY <2>4 DEF End, Goto, TypeOK
    <3> QED
      BY <2>1, <2>2, <3>1 DEF Healthy, Ready, Asked, TaskKey
  <2> QED
    BY <2>1, <2>3, <2>4 DEF Wait
<1> QED
  BY <1>1, <1>2, <1>3, <1>4, <1>5, SameLocal DEF Local

LEMMA SaveStep ==
  ASSUME Inv, NEW v \in Volumes, Save(v)
  PROVE  Inv'
<1> USE DEF Inv, service, attempt, call
<1>1. TypeOK'
  <2>1. volume' \in [Volumes -> Statuses] /\ attachment' \in [Volumes -> Nat] /\ made' \in [Volumes -> Nat]
    BY DEF Save, Drop, Goto, TypeOK, Statuses
  <2>2. copy' \in [Volumes -> Keys] /\ store' \in [Volumes -> Keys]
    BY DEF Save, Drop, Goto, TypeOK, Keys, NoKeys
  <2>3. phase' \in [Volumes -> {"idle", "begin", "request", "wait", "end"}] /\ result' \in [Volumes -> {"ok", "failed", "retry"}]
    BY DEF Save, Drop, Goto, TypeOK
  <2>4. asked' \subseteq dirty' /\ dirty' \subseteq Volumes /\ stale' \subseteq Volumes /\ linked' \subseteq Volumes
    BY DEF Save, Drop, Goto, TypeOK
  <2>5. ASSUME NEW w \in Volumes, ~Loaded(w)' PROVE copy'[w] = NoKeys /\ w \notin dirty' \union stale'
    BY <2>5 DEF Save, Drop, Goto, TypeOK, Loaded
  <2> QED
    BY <2>1, <2>2, <2>3, <2>4, <2>5 DEF Save, TypeOK, Statuses, Loaded
<1>2. ASSUME NEW w \in Volumes, w # v PROVE Same(w)
  BY <1>2 DEF Save, Drop, Goto, TypeOK, Same
<1>3. Known(v)'
  BY DEF Save, Drop, Goto, TypeOK, Keys, NoKeys, Local, Known, Loaded
<1>4. Real(v)'
  BY DEF Save, Drop, Goto, TypeOK, Keys, NoKeys, Local, Real, TaskKey, Wanted
<1>5. Healthy(v)'
  BY DEF Save, Drop, Goto, TypeOK, Keys, NoKeys, Local, Known, Real, Healthy, Ready, Asked, TaskKey, Wanted, Loaded
<1> QED
  BY <1>1, <1>2, <1>3, <1>4, <1>5, SameLocal DEF Local

LEMMA ConflictStep ==
  ASSUME Inv, NEW v \in Volumes, Conflict(v)
  PROVE  Inv'
<1> USE DEF Inv, service, attempt, call
<1>1. TypeOK'
  BY DEF Conflict, Loses, Drop, Goto, TypeOK, Keys, NoKeys, Loaded, FaultKinds
<1>2. ASSUME NEW w \in Volumes, w # v PROVE Same(w)
  BY <1>2 DEF Conflict, Loses, Drop, Goto, TypeOK, Same
<1>3. Known(v)'
  BY DEF Conflict, Loses, Drop, Goto, TypeOK, Keys, NoKeys, Local, Known, Loaded
<1>4. Real(v)'
  BY DEF Conflict, Loses, Drop, Goto, TypeOK, Keys, NoKeys, Local, Real, TaskKey, Wanted
<1>5. Healthy(v)'
  BY DEF Conflict, Loses, Drop, Goto, TypeOK, Keys, NoKeys, Local, Known, Real, Healthy, Ready, Asked, TaskKey, Wanted, Loaded
<1> QED
  BY <1>1, <1>2, <1>3, <1>4, <1>5, SameLocal DEF Local

LEMMA RequestRaisesStep ==
  ASSUME Inv, NEW v \in Volumes, RequestRaises(v)
  PROVE  Inv'
<1> USE DEF Inv, service, attempt, call
<1>1. TypeOK'
  BY DEF RequestRaises, Fault, Event, Goto, End, TypeOK, Keys, NoKeys, Loaded, FaultKinds
<1>2. ASSUME NEW w \in Volumes, w # v PROVE Same(w)
  BY <1>2 DEF RequestRaises, Fault, Event, Goto, End, TypeOK, Same
<1>3. Known(v)'
  BY DEF RequestRaises, Fault, Event, Goto, End, TypeOK, Keys, NoKeys, Local, Known, Loaded
<1>4. Real(v)'
  BY DEF RequestRaises, Fault, Event, Goto, End, TypeOK, Keys, NoKeys, Local, Real, TaskKey, Wanted
<1>5. Healthy(v)'
  BY DEF RequestRaises, Fault, Event, Goto, End, TypeOK, Keys, NoKeys, Local, Known, Real, Healthy, Ready, Asked, TaskKey, Wanted, Loaded
<1> QED
  BY <1>1, <1>2, <1>3, <1>4, <1>5, SameLocal DEF Local

LEMMA CrashStep ==
  ASSUME Inv, NEW v \in Volumes, Crash(v)
  PROVE  Inv'
<1> USE DEF Inv, service, attempt, call
<1>1. TypeOK'
  <2>1. faults' \in [FaultKinds -> Nat] /\ hit' \subseteq Volumes
    BY EventTyped DEF Crash, Fault, TypeOK, FaultKinds
  <2> QED
    BY <2>1 DEF Crash, Loses, Drop, Goto, TypeOK, Keys, NoKeys, Loaded
<1>2. ASSUME NEW w \in Volumes, w # v PROVE Same(w)
  BY <1>2 DEF Crash, Fault, Event, Loses, Drop, Goto, TypeOK, Same
<1>3. Known(v)'
  BY DEF Crash, Fault, Event, Loses, Drop, Goto, TypeOK, Keys, NoKeys, Local, Known, Loaded
<1>4. Real(v)'
  BY DEF Crash, Fault, Event, Loses, Drop, Goto, TypeOK, Keys, NoKeys, Local, Real, TaskKey, Wanted
<1>5. Healthy(v)'
  BY DEF Crash, Fault, Event, Loses, Drop, Goto, TypeOK, Keys, NoKeys, Local, Known, Real, Healthy, Ready, Asked, TaskKey, Wanted, Loaded
<1> QED
  BY <1>1, <1>2, <1>3, <1>4, <1>5, SameLocal DEF Local

LEMMA GiveUpStep ==
  ASSUME Inv, NEW v \in Volumes, GiveUp(v)
  PROVE  Inv'
<1> USE DEF Inv, service, attempt, call
<1>1. TypeOK'
  BY DEF GiveUp, Fault, Event, Goto, TypeOK, Keys, NoKeys, Loaded, FaultKinds
<1>2. ASSUME NEW w \in Volumes, w # v PROVE Same(w)
  BY <1>2 DEF GiveUp, Fault, Event, Goto, TypeOK, Same
<1>3. Known(v)'
  BY DEF GiveUp, Fault, Event, Goto, TypeOK, Keys, NoKeys, Local, Known, Loaded
<1>4. Real(v)'
  BY DEF GiveUp, Fault, Event, Goto, TypeOK, Keys, NoKeys, Local, Real, TaskKey, Wanted
<1>5. Healthy(v)'
  BY DEF GiveUp, Fault, Event, Goto, TypeOK, Keys, NoKeys, Local, Known, Real, Healthy, Ready, Asked, TaskKey, Wanted, Loaded
<1> QED
  BY <1>1, <1>2, <1>3, <1>4, <1>5, SameLocal DEF Local

LEMMA VolumeSettlesStep ==
  ASSUME Inv, NEW v \in Volumes, VolumeSettles(v)
  PROVE  Inv'
<1> USE DEF Inv, service, attempt, call
<1>1. TypeOK'
  <2>1. volume' \in [Volumes -> Statuses] /\ attachment' \in [Volumes -> Nat]
    BY DEF VolumeSettles, Becomes, TypeOK, Statuses
  <2>2. faults' \in [FaultKinds -> Nat] /\ hit' \subseteq Volumes
    BY DEF VolumeSettles, TypeOK
  <2> QED
    BY <2>1, <2>2 DEF VolumeSettles, TypeOK, Loaded, Statuses
<1>2. ASSUME NEW w \in Volumes, w # v PROVE Same(w)
  BY <1>2 DEF VolumeSettles, Becomes, TypeOK, Same
<1>3. Known(v)'
  BY DEF VolumeSettles, Becomes, TypeOK, Keys, NoKeys, Local, Known, Loaded
<1>4. Real(v)'
  BY DEF VolumeSettles, Becomes, TypeOK, Keys, NoKeys, Local, Real, TaskKey, Wanted
<1>5. Healthy(v)'
  BY DEF VolumeSettles, Becomes, TypeOK, Keys, NoKeys, Local, Known, Real, Healthy, Ready, Asked, TaskKey, Wanted, Loaded
<1> QED
  BY <1>1, <1>2, <1>3, <1>4, <1>5, SameLocal DEF Local

LEMMA VolumeFailsStep ==
  ASSUME Inv, NEW v \in Volumes, VolumeFails(v)
  PROVE  Inv'
<1> USE DEF Inv, service, attempt, call
<1>1. TypeOK'
  <2>1. volume' \in [Volumes -> Statuses] /\ attachment' \in [Volumes -> Nat]
    BY DEF VolumeFails, Becomes, TypeOK, Statuses
  <2>2. faults' \in [FaultKinds -> Nat] /\ hit' \subseteq Volumes
    BY EventTyped DEF VolumeFails, Fault, TypeOK, FaultKinds
  <2> QED
    BY <2>1, <2>2 DEF VolumeFails, TypeOK, Loaded, Statuses
<1>2. ASSUME NEW w \in Volumes, w # v PROVE Same(w)
  BY <1>2 DEF VolumeFails, Fault, Event, Becomes, TypeOK, Same
<1>3. Known(v)'
  BY DEF VolumeFails, Fault, Event, Becomes, TypeOK, Keys, NoKeys, Local, Known, Loaded
<1>4. Real(v)'
  BY DEF VolumeFails, Fault, Event, Becomes, TypeOK, Keys, NoKeys, Local, Real, TaskKey, Wanted
<1>5. Healthy(v)'
  BY DEF VolumeFails, Fault, Event, Becomes, TypeOK, Keys, NoKeys, Local, Known, Real, Healthy, Ready, Asked, TaskKey, Wanted, Loaded
<1> QED
  BY <1>1, <1>2, <1>3, <1>4, <1>5, SameLocal DEF Local

LEMMA OthersStoreStep ==
  ASSUME Inv, OthersStore
  PROVE  Inv'
<1> USE DEF Inv, service, call
<1>1. faults' \in [FaultKinds -> Nat]
  BY EventTyped DEF OthersStore, TypeOK, FaultKinds
<1>2. TypeOK'
  BY <1>1 DEF OthersStore, TypeOK, Loaded
<1>3. ASSUME NEW w \in Volumes PROVE Same(w)
  BY <1>3 DEF OthersStore, Same
<1> QED
  BY <1>2, <1>3, SameLocal

(* One of the lemmas above for each action.                                *)
LEMMA InvStep == Inv /\ [Next]_vars => Inv'
<1> SUFFICES ASSUME Inv, [Next]_vars PROVE Inv'
  OBVIOUS
<1>1. CASE UNCHANGED vars
  <2>1. TypeOK'
    BY <1>1 DEF Inv, TypeOK, Loaded, vars, service, attempt, call
  <2>2. ASSUME NEW w \in Volumes PROVE Same(w)
    BY <1>1 DEF Same, vars, service, attempt, call
  <2> QED
    BY <2>1, <2>2, SameLocal DEF Inv
<1>2. ASSUME NEW v \in Volumes, Begin(v) \/ Attempt(v) PROVE Inv'
  BY <1>2, BeginStep, LoadStep, AttachRequestStep, DetachRequestStep, WaitStep,
     SaveStep, ConflictStep DEF Attempt
<1>3. ASSUME NEW v \in Volumes, RequestRaises(v) \/ Crash(v) \/ GiveUp(v) PROVE Inv'
  BY <1>3, RequestRaisesStep, CrashStep, GiveUpStep
<1>4. ASSUME NEW v \in Volumes, VolumeSettles(v) \/ VolumeFails(v) PROVE Inv'
  BY <1>4, VolumeSettlesStep, VolumeFailsStep
<1> QED
  BY <1>1, <1>2, <1>3, <1>4, OthersStoreStep DEF Next

(* The inductive invariant holds in every reachable state.                 *)
THEOREM Invariance == Spec => []Inv
BY InvInit, InvStep, PTL DEF Spec

(* Every variable has its type, and the copy of an attempt that is over is *)
(* gone.                                                                   *)
THEOREM TypeCorrect == Spec => []TypeOK
BY Invariance, PTL DEF Inv

(* The runtime properties name the attachment of every volume, whatever    *)
(* the operations of other volumes do, unless a copy was lost after the    *)
(* request of attach_volume.                                               *)
THEOREM AttachmentsKnown == Spec => []AttachmentsAreKnown
<1>1. Inv => AttachmentsAreKnown
  <2> SUFFICES ASSUME Inv, NEW v \in Volumes, phase[v] = "idle",
                      attachment[v] # 0, v \notin lost
               PROVE  store[v].id = attachment[v]
    BY DEF AttachmentsAreKnown
  <2>1. v \notin asked
    BY DEF Inv, TypeOK, Loaded
  <2> QED
    BY <2>1 DEF Inv, Local, Known
<1> QED
  BY <1>1, Invariance, PTL

(* An attach_volume that succeeded leaves a volume in use, a detach_volume *)
(* a free one, and the key of the task is gone from what is stored.        *)
THEOREM LinksReal == Spec => []LinksAreReal
<1>1. Inv => LinksAreReal
  BY DEF Inv, Local, Real, TaskKey, LinksAreReal
<1> QED
  BY <1>1, Invariance, PTL

(* attach_volume and detach_volume fail only for a volume that a fault hit *)
(* or that lost the copy of an attempt.                                    *)
THEOREM CausesOnly == Spec => []FailuresHaveCauses
<1>1. Inv => FailuresHaveCauses
  BY DEF Inv, Local, Healthy, FailuresHaveCauses
<1> QED
  BY <1>1, Invariance, PTL
=============================================================================
