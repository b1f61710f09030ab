------------------------ MODULE ServerAddressesProofs ------------------------
(***************************************************************************)
(* Proofs about ServerAddresses, for any number of floating addresses,     *)
(* connects and events.                                                    *)
(*                                                                         *)
(* PublicIsConnected speaks of addresses without an operation, and several *)
(* operations have copies of the runtime properties at a time.  What makes *)
(* it inductive is that a copy that may be stored is that of the store,    *)
(* with the changes of its own operation (CopiesAreFresh): no operation    *)
(* can bring back an address that another has removed.                     *)
(* AddressFollows is about one address at a time: OneAtATime says that all *)
(* operations are then of that address, Right what its steps have done;    *)
(* IsPlain carries the address that is shown without one, whether it goes  *)
(* to ip or waits in last_ip.                                              *)
(***************************************************************************)
EXTENDS ServerAddresses, TLAPS

USE AddressesAssumption

\* An address in use elsewhere was taken when that was allowed, or given away
\* by others since.
TakenIsAllowed ==
  \A f \in ready : holder[f] = "other" => f \in allow_reallocation \union late

\* What operates has been created and connected, on a server with addresses.
Begun == \A f \in Floats :
  /\ phase[f] # "idle" \/ f \in linked => f \in ready /\ rounds[f] # 0
  /\ f \in repeated => rounds[f] # 0
  /\ f \notin ready \union Existing => holder[f] = "none"

\* What an operation that is not too late would store.
CopiesAreFresh == \A f \in Floats :
  Loaded(f) /\ f \notin stale =>
    copy[f] = IF f \notin dirty THEN store
              ELSE IF op[f] = "connect" THEN Shown(store, f) ELSE Hidden(store)

\* A change that has been made and not stored.
Unstored(f) == f \in dirty /\ op[f] = "disconnect"
ConnectedInCopy == \A f \in Floats \ moved :
  f \in dirty /\ op[f] = "connect" => holder[f] = "server"
PublicOrUnstored == \A f \in Floats \ (lost \union moved) :
  store.public = f => holder[f] = "server" \/ Unstored(f)

\* One floating address is in use at most, and all went well.
Alone == ~mixed /\ Configured /\ lost = {} /\ moved = {}
OneAtATime ==
  /\ ~mixed =>
       /\ \A f, g \in linked : f = g
       /\ \A f \in Floats : phase[f] # "idle" => f \in linked
       /\ store.recorded = None /\ \A f \in Floats : copy[f].recorded = None
  /\ \A f \in Floats : ~Loaded(f) => copy[f].recorded = None

\* What the server shows without an address, and with f: last_ip is what
\* disconnect will show.
IsPlain(a) == IF use_public_ip /\ repeated # {} THEN a \in repeated ELSE a = Private
Plain == IsPlain(store.ip)
With(f) == IF use_public_ip THEN store.ip = f /\ IsPlain(store.last) ELSE Plain

\* What the server shows at each step of the operation of its address, and
\* whether it has it.
Right(f) ==
  /\ OnlyValidated(f) => holder[f] # "server" /\ Plain
  /\ op[f] = "connect" =>
       IF phase[f] \in {"stored", "idle"} /\ result[f] = "ok"
       THEN With(f) /\ holder[f] = "server"
       ELSE Plain /\ (result[f] = "failed" => holder[f] # "server")
  /\ op[f] = "disconnect" =>
       IF f \in dirty THEN With(f) /\ holder[f] # "server"
       ELSE /\ IF holder[f] = "server" THEN With(f) ELSE Plain
            /\ phase[f] \in {"end", "stored", "idle"} /\ result[f] = "ok"
                 => holder[f] # "server"
  /\ phase[f] = "end" /\ op[f] = "connect" => (result[f] = "ok" <=> f \in dirty)
  /\ phase[f] = "idle" => op[f] = "connect" \/ result[f] = "failed"

\* A server with one address at most shows what it has, but while a connect is
\* executed again, and until a disconnect stores what it has done.
ShownIsHeld == Alone =>
  /\ linked = {} => Plain
  /\ \A f \in Floats \ linked : holder[f] # "server"
  /\ \A f \in linked : Right(f)

Inv == /\ TypeOK /\ TakenIsAllowed /\ Begun
       /\ CopiesAreFresh /\ ConnectedInCopy /\ PublicOrUnstored
       /\ OneAtATime /\ ShownIsHeld

-----------------------------------------------------------------------------
\* An event is counted.
LEMMA EventTyped ==
  ASSUME events \in [EventKinds -> Nat], NEW k \in EventKinds, Event(k)
  PROVE  events' \in [EventKinds -> Nat]
BY DEF Event, EventKinds

\* What connect and disconnect make of the properties.
LEMMA ShownTyped ==
  ASSUME NEW p \in Properties, NEW f \in Floats
  PROVE  /\ Shown(p, f) \in Properties /\ Shown(p, f).public = f
         /\ Hidden(p) \in Properties /\ (Hidden(p).public = p.public \/ Hidden(p).public = None)
BY DEF Properties, Address, Shown, Hidden

\* The address that a server has with connected addresses is that of configure.
LEMMA ConfigureFirst ==
  ASSUME TypeOK, Begun, ~Configured PROVE (\A f \in Floats : phase[f] = "idle") /\ repeated = {}
BY DEF TypeOK, Begun, Configured

-----------------------------------------------------------------------------
LEMMA TypeStep ==
  ASSUME TypeOK, [Next]_vars
  PROVE  TypeOK'
<1>1. ASSUME NEW f \in Floats,
             Create(f) \/ Begin(f) \/ Attempt(f) \/ RequestRaises(f) \/ Crash(f)
      PROVE  TypeOK'
  <2>1. CASE Create(f)
    BY <2>1 DEF TypeOK, Create, inputs, attempt, call, history
  <2>2. CASE Begin(f)
    <3>1. op' \in [Floats -> {"connect", "disconnect"}] /\ rounds' \in [Floats -> Nat]
      BY <2>2 DEF TypeOK, Begin
    <3>2. phase' = [phase EXCEPT ![f] = "begin"] /\ result' = [result EXCEPT ![f] = "ok"]
      BY <2>2 DEF Begin, Goto
    <3>3. mixed' \in BOOLEAN /\ linked' \subseteq Floats
      BY <2>2 DEF TypeOK, Begin
    <3>4. f \notin dirty
      BY <2>2 DEF TypeOK, Begin
    <3> QED
      BY <2>2, <3>1, <3>2, <3>3, <3>4 DEF TypeOK, Begin, inputs, attempt
  <2>3. CASE Load(f)
    BY <2>3 DEF TypeOK, Load, Goto, inputs, call, history
  <2>4. CASE Validate(f)
    BY <2>4 DEF TypeOK, Validate, Ends, Goto, inputs, attempt, call,
         history
  <2>5. CASE Connect(f)
    <3>1. copy' \in [Floats -> Properties]
      BY <2>5, ShownTyped DEF TypeOK, Connect, Changes
    <3> QED
      BY <2>5, <3>1 DEF TypeOK, Connect, Changes, Ends, Goto, inputs, call, history
  <2>6. CASE Disconnect(f)
    <3>1. copy' \in [Floats -> Properties]
      BY <2>6, ShownTyped DEF TypeOK, Disconnect, Changes, attempt
    <3> QED
      BY <2>6, <3>1 DEF TypeOK, Disconnect, Changes, Ends, Goto, inputs, attempt, call, history
  <2>7. CASE Save(f)
    BY <2>7 DEF TypeOK, Properties, Address, NoProperties, Loaded, Save,
         Drop, Goto, inputs, call, history
  <2>8. CASE Report(f)
    BY <2>8 DEF TypeOK, Report, Goto, inputs, attempt, history
  <2>9. CASE Conflict(f)
    BY <2>9 DEF TypeOK, Properties, Address, NoProperties, Conflict, Again,
         Drop, Goto, inputs, call
  <2>10. CASE RequestRaises(f)
    BY EventTyped, <2>10 DEF TypeOK, RequestRaises, Ends, Goto, inputs, attempt, call, EventKinds
  <2>11. CASE Crash(f)
    BY EventTyped, <2>11 DEF TypeOK, Properties, Address, NoProperties, Crash, Again,
         Drop, Goto, inputs, call, EventKinds
  <2> QED
    BY <1>1, <2>1, <2>2, <2>3, <2>4, <2>5, <2>6, <2>7, <2>8, <2>9, <2>10, <2>11 DEF Attempt
<1>2. CASE Configure
  BY <1>2 DEF TypeOK, Properties, Address, Configure, inputs, attempt,
         call
<1>3. CASE OthersStore
  BY EventTyped, <1>3 DEF TypeOK, Loaded, OthersStore, inputs, call, EventKinds
<1>4. CASE OthersMove
  BY EventTyped, <1>4 DEF TypeOK, OthersMove, inputs, attempt, call, EventKinds
<1>5. CASE UNCHANGED vars
  BY <1>5 DEF TypeOK, vars, inputs, attempt, call, history
<1> QED
  BY <1>1, <1>2, <1>3, <1>4, <1>5 DEF Next

LEMMA TakenStep ==
  ASSUME TypeOK, TakenIsAllowed, Begun, [Next]_vars
  PROVE  TakenIsAllowed'
<1>1. ASSUME NEW f \in Floats,
             Create(f) \/ Begin(f) \/ Attempt(f) \/ RequestRaises(f) \/ Crash(f)
      PROVE  TakenIsAllowed'
  <2>1. CASE Create(f)
    BY <2>1 DEF TypeOK, TakenIsAllowed, Begun, Available, Create, inputs,
         attempt, call, history
  <2>2. CASE Begin(f)
    BY <2>2 DEF TypeOK, TakenIsAllowed, Begun, Begin, Goto, inputs,
         attempt
  <2>3. CASE Load(f)
    BY <2>3 DEF TypeOK, TakenIsAllowed, Begun, Load, Goto, inputs, call,
         history
  <2>4. CASE Validate(f)
    BY <2>4 DEF TypeOK, TakenIsAllowed, Begun, Validate, Ends, Goto,
         inputs, attempt, call, history
  <2>5. CASE Connect(f)
    BY <2>5 DEF TypeOK, TakenIsAllowed, Begun, Connect, Changes, Ends,
         Goto, inputs, call, history
  <2>6. CASE Disconnect(f)
    BY <2>6 DEF TypeOK, TakenIsAllowed, Begun, Disconnect, Changes, Ends,
         Goto, inputs, attempt, call, history
  <2>7. CASE Save(f)
    BY <2>7 DEF TypeOK, TakenIsAllowed, Begun, Save, Drop, Goto, inputs,
         call, history
  <2>8. CASE Report(f)
    BY <2>8 DEF TypeOK, TakenIsAllowed, Begun, Report, Goto, inputs,
         attempt, history
  <2>9. CASE Conflict(f)
    BY <2>9 DEF TypeOK, TakenIsAllowed, Begun, Conflict, Again, Drop, Goto,
         inputs, call
  <2>10. CASE RequestRaises(f)
    BY <2>10 DEF TypeOK, TakenIsAllowed, Begun, RequestRaises, Ends, Goto,
         inputs, attempt, call
  <2>11. CASE Crash(f)
    BY <2>11 DEF TypeOK, TakenIsAllowed, Begun, Crash, Again, Drop, Goto,
         inputs, call
  <2> QED
    BY <1>1, <2>1, <2>2, <2>3, <2>4, <2>5, <2>6, <2>7, <2>8, <2>9, <2>10, <2>11 DEF Attempt
<1>2. CASE Configure
  BY <1>2 DEF TypeOK, TakenIsAllowed, Begun, Configure, inputs, attempt,
         call
<1>3. CASE OthersStore
  BY <1>3 DEF TypeOK, TakenIsAllowed, Begun, OthersStore, inputs, call
<1>4. CASE OthersMove
  BY <1>4 DEF TypeOK, TakenIsAllowed, Begun, OthersMove, inputs, attempt,
         call
<1>5. CASE UNCHANGED vars
  BY <1>5 DEF TypeOK, TakenIsAllowed, Begun, vars, inputs, attempt, call, history
<1> QED
  BY <1>1, <1>2, <1>3, <1>4, <1>5 DEF Next

LEMMA BegunStep ==
  ASSUME TypeOK, Begun, [Next]_vars
  PROVE  Begun'
<1>1. ASSUME NEW f \in Floats,
             Create(f) \/ Begin(f) \/ Attempt(f) \/ RequestRaises(f) \/ Crash(f)
      PROVE  Begun'
  <2>1. CASE Create(f)
    BY <2>1 DEF TypeOK, Begun, Create, inputs, attempt, call, history
  <2>2. CASE Begin(f)
    BY <2>2 DEF TypeOK, Begun, Begin, Goto, inputs, attempt
  <2>3. CASE Load(f)
    BY <2>3 DEF TypeOK, Begun, Load, Goto, inputs, call, history
  <2>4. CASE Validate(f)
    BY <2>4 DEF TypeOK, Begun, Validate, Ends, Goto, inputs, attempt, call,
         history
  <2>5. CASE Connect(f)
    BY <2>5 DEF TypeOK, Begun, Connect, Changes, Ends, Goto, inputs, call,
         history
  <2>6. CASE Disconnect(f)
    BY <2>6 DEF TypeOK, Begun, Disconnect, Changes, Ends, Goto, inputs,
         attempt, call, history
  <2>7. CASE Save(f)
    BY <2>7 DEF TypeOK, Begun, Loaded, Save, Drop, Goto, inputs, call,
         history
  <2>8. CASE Report(f)
    BY <2>8 DEF TypeOK, Begun, Report, Goto, inputs, attempt, history
  <2>9. CASE Conflict(f)
    BY <2>9 DEF TypeOK, Begun, Conflict, Again, Drop, Goto, inputs, call
  <2>10. CASE RequestRaises(f)
    BY <2>10 DEF TypeOK, Begun, RequestRaises, Ends, Goto, inputs, attempt,
         call
  <2>11. CASE Crash(f)
    BY <2>11 DEF TypeOK, Begun, Crash, Again, Drop, Goto, inputs, call
  <2> QED
    BY <1>1, <2>1, <2>2, <2>3, <2>4, <2>5, <2>6, <2>7, <2>8, <2>9, <2>10, <2>11 DEF Attempt
<1>2. CASE Configure
  BY <1>2 DEF TypeOK, Begun, Configure, inputs, attempt, call
<1>3. CASE OthersStore
  BY <1>3 DEF TypeOK, Begun, Loaded, OthersStore, inputs, call
<1>4. CASE OthersMove
  BY <1>4 DEF TypeOK, Begun, OthersMove, inputs, attempt, call
<1>5. CASE UNCHANGED vars
  BY <1>5 DEF TypeOK, Begun, vars, inputs, attempt, call, history
<1> QED
  BY <1>1, <1>2, <1>3, <1>4, <1>5 DEF Next

LEMMA FreshStep ==
  ASSUME TypeOK, Begun, CopiesAreFresh, [Next]_vars
  PROVE  CopiesAreFresh'
<1>1. ASSUME NEW f \in Floats,
             Create(f) \/ Begin(f) \/ Attempt(f) \/ RequestRaises(f) \/ Crash(f)
      PROVE  CopiesAreFresh'
  <2>1. CASE Create(f)
    BY <2>1 DEF TypeOK, CopiesAreFresh, Loaded, Shown, Hidden, Create,
         inputs, attempt, call, history
  <2>2. CASE Begin(f)
    BY <2>2 DEF TypeOK, CopiesAreFresh, Loaded, Shown, Hidden, Begin, Goto,
         inputs, attempt
  <2>3. CASE Load(f)
    BY <2>3 DEF TypeOK, CopiesAreFresh, Loaded, Shown, Hidden, Load, Goto,
         inputs, call, history
  <2>4. CASE Validate(f)
    BY <2>4 DEF TypeOK, CopiesAreFresh, Loaded, Shown, Hidden, Validate,
         Ends, Goto, inputs, attempt, call, history
  <2>5. CASE Connect(f)
    BY <2>5 DEF TypeOK, CopiesAreFresh, Loaded, Shown, Hidden, Connect,
         Changes, Ends, Goto, inputs, call, history
  <2>6. CASE Disconnect(f)
    <3>1. CASE holder[f] = "server"
      <4>1. copy' = [copy EXCEPT ![f] = Hidden(copy[f])] /\ dirty' = dirty \union {f}
        BY <2>6, <3>1 DEF Disconnect, Changes
      <4>2. phase' = [phase EXCEPT ![f] = "end"]
        BY <2>6, <3>1 DEF Disconnect, Ends, Goto
      <4>3. phase[f] = "request" /\ op[f] = "disconnect" /\ f \notin dirty
        BY <2>6 DEF TypeOK, Disconnect
      <4>4. UNCHANGED <<store, stale, op, use_public_ip>>
        BY <2>6, <3>1 DEF Disconnect, Changes, inputs, call
      <4>5. f \notin stale => copy[f] = store
        BY <4>3 DEF CopiesAreFresh, Loaded
      <4> QED
        BY <4>1, <4>2, <4>3, <4>4, <4>5 DEF TypeOK, CopiesAreFresh, Loaded, Shown, Hidden
    <3>2. CASE holder[f] # "server"
      BY <2>6, <3>2 DEF TypeOK, CopiesAreFresh, Loaded, Shown, Hidden, Disconnect, Ends, Goto,
         inputs, attempt, call, history
    <3> QED
      BY <3>1, <3>2
  <2>7. CASE Save(f)
    BY <2>7 DEF TypeOK, CopiesAreFresh, Loaded, Shown, Hidden, Save, Drop,
         Goto, inputs, call, history
  <2>8. CASE Report(f)
    BY <2>8 DEF TypeOK, CopiesAreFresh, Loaded, Shown, Hidden, Report,
         Goto, inputs, attempt, history
  <2>9. CASE Conflict(f)
    BY <2>9 DEF TypeOK, CopiesAreFresh, Loaded, Shown, Hidden, Conflict,
         Again, Drop, Goto, inputs, call
  <2>10. CASE RequestRaises(f)
    BY <2>10 DEF TypeOK, CopiesAreFresh, Loaded, Shown, Hidden,
         RequestRaises, Ends, Goto, inputs, attempt, call
  <2>11. CASE Crash(f)
    BY <2>11 DEF TypeOK, CopiesAreFresh, Loaded, Shown, Hidden, Crash,
         Again, Drop, Goto, inputs, call
  <2> QED
    BY <1>1, <2>1, <2>2, <2>3, <2>4, <2>5, <2>6, <2>7, <2>8, <2>9, <2>10, <2>11 DEF Attempt
<1>2. CASE Configure
  BY ConfigureFirst, <1>2 DEF TypeOK, CopiesAreFresh, Loaded, Shown, Hidden, Configure,
         inputs, attempt, call
<1>3. CASE OthersStore
  BY <1>3 DEF TypeOK, CopiesAreFresh, Loaded, Shown, Hidden, OthersStore,
         inputs, call
<1>4. CASE OthersMove
  BY <1>4 DEF TypeOK, CopiesAreFresh, Loaded, Shown, Hidden, OthersMove,
         inputs, attempt, call
<1>5. CASE UNCHANGED vars
  BY <1>5 DEF TypeOK, CopiesAreFresh, Loaded, Shown, Hidden, vars, inputs, attempt, call, history
<1> QED
  BY <1>1, <1>2, <1>3, <1>4, <1>5 DEF Next

LEMMA CopyStep ==
  ASSUME TypeOK, ConnectedInCopy, [Next]_vars
  PROVE  ConnectedInCopy'
<1>1. ASSUME NEW f \in Floats,
             Create(f) \/ Begin(f) \/ Attempt(f) \/ RequestRaises(f) \/ Crash(f)
      PROVE  ConnectedInCopy'
  <2>1. CASE Create(f)
    BY <2>1 DEF TypeOK, ConnectedInCopy, Create, inputs, attempt, call,
         history
  <2>2. CASE Begin(f)
    BY <2>2 DEF TypeOK, ConnectedInCopy, Begin, Goto, inputs, attempt
  <2>3. CASE Load(f)
    BY <2>3 DEF TypeOK, ConnectedInCopy, Load, Goto, inputs, call, history
  <2>4. CASE Validate(f)
    BY <2>4 DEF TypeOK, ConnectedInCopy, Validate, Ends, Goto, inputs,
         attempt, call, history
  <2>5. CASE Connect(f)
    BY <2>5 DEF TypeOK, ConnectedInCopy, Connect, Changes, Ends, Goto,
         inputs, call, history
  <2>6. CASE Disconnect(f)
    BY <2>6 DEF TypeOK, ConnectedInCopy, Disconnect, Changes, Ends, Goto,
         inputs, attempt, call, history
  <2>7. CASE Save(f)
    BY <2>7 DEF TypeOK, ConnectedInCopy, Save, Drop, Goto, inputs, call,
         history
  <2>8. CASE Report(f)
    BY <2>8 DEF TypeOK, ConnectedInCopy, Report, Goto, inputs, attempt,
         history
  <2>9. CASE Conflict(f)
    BY <2>9 DEF TypeOK, ConnectedInCopy, Conflict, Again, Drop, Goto,
         inputs, call
  <2>10. CASE RequestRaises(f)
    BY <2>10 DEF TypeOK, ConnectedInCopy, RequestRaises, Ends, Goto, inputs,
         attempt, call
  <2>11. CASE Crash(f)
    BY <2>11 DEF TypeOK, ConnectedInCopy, Crash, Again, Drop, Goto, inputs,
         call
  <2> QED
    BY <1>1, <2>1, <2>2, <2>3, <2>4, <2>5, <2>6, <2>7, <2>8, <2>9, <2>10, <2>11 DEF Attempt
<1>2. CASE Configure
  BY <1>2 DEF TypeOK, ConnectedInCopy, Configure, inputs, attempt, call
<1>3. CASE OthersStore
  BY <1>3 DEF TypeOK, ConnectedInCopy, OthersStore, inputs, call
<1>4. CASE OthersMove
  BY <1>4 DEF TypeOK, ConnectedInCopy, OthersMove, inputs, attempt, call
<1>5. CASE UNCHANGED vars
  BY <1>5 DEF TypeOK, ConnectedInCopy, vars, inputs, attempt, call, history
<1> QED
  BY <1>1, <1>2, <1>3, <1>4, <1>5 DEF Next

LEMMA PublicStep ==
  ASSUME TypeOK, Begun, CopiesAreFresh, ConnectedInCopy, PublicOrUnstored, [Next]_vars
  PROVE  PublicOrUnstored'
<1>1. ASSUME NEW f \in Floats,
             Create(f) \/ Begin(f) \/ Attempt(f) \/ RequestRaises(f) \/ Crash(f)
      PROVE  PublicOrUnstored'
  <2>1. CASE Create(f)
    BY <2>1 DEF TypeOK, PublicOrUnstored, Unstored, Create, inputs,
         attempt, call, history
  <2>2. CASE Begin(f)
    BY <2>2 DEF TypeOK, PublicOrUnstored, Unstored, Begin, Goto, inputs,
         attempt
  <2>3. CASE Load(f)
    BY <2>3 DEF TypeOK, PublicOrUnstored, Unstored, Load, Goto, inputs,
         call, history
  <2>4. CASE Validate(f)
    BY <2>4 DEF TypeOK, PublicOrUnstored, Unstored, Validate, Ends, Goto,
         inputs, attempt, call, history
  <2>5. CASE Connect(f)
    BY <2>5 DEF TypeOK, PublicOrUnstored, Unstored, Connect, Changes, Ends,
         Goto, inputs, call, history
  <2>6. CASE Disconnect(f)
    BY <2>6 DEF TypeOK, PublicOrUnstored, Unstored, Disconnect, Changes,
         Ends, Goto, inputs, attempt, call, history
  <2>7. CASE Save(f)
    <3>1. CASE f \notin dirty
      BY <2>7, <3>1 DEF TypeOK, PublicOrUnstored, Unstored, Save, Drop, Goto, inputs, call, history
    <3>2. CASE f \in dirty
      <4>1. f \notin stale /\ store' = copy[f] /\ Loaded(f) /\ store \in Properties
        BY <2>7, <3>2 DEF TypeOK, Save, Loaded
      <4>2. store' = IF op[f] = "connect" THEN Shown(store, f) ELSE Hidden(store)
        BY <3>2, <4>1 DEF CopiesAreFresh
      <4>3. \/ op[f] = "connect" /\ store'.public = f
            \/ op[f] = "disconnect" /\ store'.public \in {store.public, None}
        <5>1. op[f] \in {"connect", "disconnect"}
          BY DEF TypeOK
        <5>2. /\ Shown(store, f).public = f
              /\ Hidden(store).public \in {store.public, None}
          BY <4>1, ShownTyped
        <5> QED
          BY <4>2, <5>1, <5>2
      <4> SUFFICES ASSUME NEW g \in Floats \ (lost \union moved), store'.public = g
                   PROVE  holder[g] = "server" \/ (Unstored(g))'
        BY <2>7 DEF PublicOrUnstored, Save, history
      <4>4. CASE g = f
        <5>1. op[f] = "connect" => holder[f] = "server"
          BY <3>2, <4>4 DEF ConnectedInCopy
        <5>2. op[f] = "disconnect" => store'.public = None
          BY <4>1, <4>2 DEF Hidden, Properties
        <5> QED
          BY <4>4, <5>1, <5>2 DEF TypeOK
      <4>5. CASE g # f
        <5>1. store.public = g
          BY <4>3, <4>5
        <5> QED
          BY <2>7, <4>5, <5>1 DEF PublicOrUnstored, Unstored, Save, Drop, call
      <4> QED
        BY <4>4, <4>5
    <3> QED
      BY <3>1, <3>2
  <2>8. CASE Report(f)
    BY <2>8 DEF TypeOK, PublicOrUnstored, Unstored, Report, Goto, inputs,
         attempt, history
  <2>9. CASE Conflict(f)
    BY <2>9 DEF TypeOK, PublicOrUnstored, Unstored, Conflict, Again, Drop,
         Goto, inputs, call
  <2>10. CASE RequestRaises(f)
    BY <2>10 DEF TypeOK, PublicOrUnstored, Unstored, RequestRaises, Ends,
         Goto, inputs, attempt, call
  <2>11. CASE Crash(f)
    BY <2>11 DEF TypeOK, PublicOrUnstored, Unstored, Crash, Again, Drop,
         Goto, inputs, call
  <2> QED
    BY <1>1, <2>1, <2>2, <2>3, <2>4, <2>5, <2>6, <2>7, <2>8, <2>9, <2>10, <2>11 DEF Attempt
<1>2. CASE Configure
  BY ConfigureFirst, <1>2 DEF TypeOK, PublicOrUnstored, Unstored, Configure, inputs,
         attempt, call
<1>3. CASE OthersStore
  BY <1>3 DEF TypeOK, PublicOrUnstored, Unstored, OthersStore, inputs,
         call
<1>4. CASE OthersMove
  BY <1>4 DEF TypeOK, PublicOrUnstored, Unstored, OthersMove, inputs,
         attempt, call
<1>5. CASE UNCHANGED vars
  BY <1>5 DEF TypeOK, PublicOrUnstored, Unstored, vars, inputs, attempt, call, history
<1> QED
  BY <1>1, <1>2, <1>3, <1>4, <1>5 DEF Next

\* With one address in use after a connect or disconnect has begun, it is that one.
LEMMA BeginAlone ==
  ASSUME TypeOK, OneAtATime, NEW f \in Floats, Begin(f), ~mixed'
  PROVE  ~mixed /\ linked \subseteq {f}
<1>1. CASE mixed' = (mixed \/ linked \ {f} # {})
  BY <1>1
<1>2. CASE mixed' = mixed /\ f \in linked
  BY <1>2 DEF OneAtATime
<1> QED
  BY <1>1, <1>2 DEF Begin

LEMMA OneStep ==
  ASSUME TypeOK, Begun, OneAtATime, [Next]_vars
  PROVE  OneAtATime'
<1>1. ASSUME NEW f \in Floats,
             Create(f) \/ Begin(f) \/ Attempt(f) \/ RequestRaises(f) \/ Crash(f)
      PROVE  OneAtATime'
  <2>1. CASE Create(f)
    BY <2>1 DEF TypeOK, Begun, OneAtATime, Loaded, Create, inputs, attempt,
         call, history
  <2>2. CASE Begin(f)
    <3>1. /\ ~mixed' => ~mixed /\ linked' = {f}
          /\ phase' = [phase EXCEPT ![f] = "begin"] /\ store' = store /\ copy' = copy
      BY <2>2, BeginAlone DEF Begin, Goto, attempt
    <3> QED
      BY <2>2, <3>1 DEF TypeOK, OneAtATime, Loaded, Begin
  <2>3. CASE Load(f)
    BY <2>3 DEF TypeOK, Begun, OneAtATime, Loaded, Load, Goto, inputs,
         call, history
  <2>4. CASE Validate(f)
    BY <2>4 DEF TypeOK, Begun, OneAtATime, Loaded, Validate, Ends, Goto,
         inputs, attempt, call, history
  <2>5. CASE Connect(f)
    BY <2>5 DEF TypeOK, Begun, OneAtATime, Loaded, Shown, Connect, Changes,
         Ends, Goto, inputs, call, history
  <2>6. CASE Disconnect(f)
    <3>1. copy'[f].recorded = copy[f].recorded /\ phase'[f] = "end"
      <4>1. copy'[f] \in {copy[f], Hidden(copy[f])} /\ phase'[f] = "end"
        BY <2>6 DEF TypeOK, Disconnect, Changes, Ends, Goto, attempt
      <4>2. copy[f] \in Properties
        BY DEF TypeOK
      <4> QED
        BY <4>1, <4>2 DEF Hidden, Properties
    <3>2. \A g \in Floats \ {f} : copy'[g] = copy[g] /\ phase'[g] = phase[g]
      BY <2>6 DEF TypeOK, Disconnect, Changes, Ends, Goto, attempt
    <3>3. phase[f] = "request" /\ UNCHANGED <<mixed, linked, store>>
      BY <2>6 DEF Disconnect, call, history
    <3> QED
      BY <3>1, <3>2, <3>3 DEF OneAtATime, Loaded
  <2>7. CASE Save(f)
    BY <2>7 DEF TypeOK, Begun, OneAtATime, NoProperties, Loaded, Save,
         Drop, Goto, inputs, call, history
  <2>8. CASE Report(f)
    BY <2>8 DEF TypeOK, Begun, OneAtATime, Loaded, Report, Goto, inputs,
         attempt, history
  <2>9. CASE Conflict(f)
    BY <2>9 DEF TypeOK, Begun, OneAtATime, NoProperties, Loaded, Conflict,
         Again, Drop, Goto, inputs, call
  <2>10. CASE RequestRaises(f)
    BY <2>10 DEF TypeOK, Begun, OneAtATime, Loaded, RequestRaises, Ends,
         Goto, inputs, attempt, call
  <2>11. CASE Crash(f)
    BY <2>11 DEF TypeOK, Begun, OneAtATime, NoProperties, Loaded, Crash,
         Again, Drop, Goto, inputs, call
  <2> QED
    BY <1>1, <2>1, <2>2, <2>3, <2>4, <2>5, <2>6, <2>7, <2>8, <2>9, <2>10, <2>11 DEF Attempt
<1>2. CASE Configure
  <2>1. /\ linked = {} /\ linked' = linked /\ copy' = copy /\ phase' = phase
        /\ \A f \in Floats : phase[f] = "idle" /\ copy[f].recorded = None
    <3>1. \A f \in Floats : phase[f] = "idle" /\ f \notin linked
      BY <1>2, ConfigureFirst DEF TypeOK, Begun, Configure, Configured
    <3> QED
      BY <1>2, <3>1 DEF TypeOK, OneAtATime, Configure, Loaded, attempt, call
  <2>2. ~mixed' => store'.recorded = None
    <3>1. PICK first : mixed' = (first # None) /\ store'.recorded = first
      BY <1>2 DEF Configure
    <3> QED
      BY <3>1
  <2> QED
    BY <2>1, <2>2 DEF OneAtATime, Loaded
<1>3. CASE OthersStore
  BY <1>3 DEF TypeOK, Begun, OneAtATime, Loaded, OthersStore, inputs,
         call
<1>4. CASE OthersMove
  BY <1>4 DEF TypeOK, Begun, OneAtATime, Loaded, OthersMove, inputs,
         attempt, call
<1>5. CASE UNCHANGED vars
  BY <1>5 DEF TypeOK, Begun, OneAtATime, Loaded, vars, inputs, attempt, call, history
<1> QED
  BY <1>1, <1>2, <1>3, <1>4, <1>5 DEF Next


\* An operation of an address is the only one, and the address the only one in use.
LEMMA Single ==
  ASSUME Begun, OneAtATime, TypeOK, ~mixed, NEW f \in Floats, phase[f] # "idle"
  PROVE  linked = {f}
BY DEF OneAtATime, TypeOK

\* The steps of an attempt before its copy is stored.
LEMMA RightStep ==
  ASSUME TypeOK, OneAtATime, NEW f \in Floats, Right(f), Alone, Alone',
         \/ Load(f) \/ Validate(f) \/ Connect(f) \/ Disconnect(f)
         \/ Conflict(f) \/ RequestRaises(f) \/ Crash(f)
  PROVE  Right(f)'
<1> USE DEF Right, OnlyValidated, Plain, IsPlain, With, Alone
<1>1. /\ f \in dirty => phase[f] = "end"
      /\ op[f] \in {"connect", "disconnect"} /\ result[f] \in {"ok", "failed"}
      /\ DOMAIN phase = Floats /\ DOMAIN result = Floats /\ DOMAIN holder = Floats
  BY DEF TypeOK
<1>2. CASE Load(f)
  BY <1>1, <1>2 DEF Load, Goto, inputs, attempt, call, history
<1>3. CASE Validate(f)
  <2>1. copy[f].recorded # f
    BY AddressesAssumption DEF OneAtATime
  <2> QED
    BY <1>1, <1>3, <2>1 DEF Validate, Ends, Goto, inputs, attempt, call, history
<1>4. CASE Connect(f)
  BY <1>1, <1>4 DEF Connect, Changes, Ends, Goto, inputs, attempt, call, history
<1>5. CASE Disconnect(f)
  BY <1>1, <1>5 DEF Disconnect, Changes, Ends, Goto, inputs, attempt, call, history
<1>6. CASE Conflict(f)
  BY <1>1, <1>6 DEF Conflict, Again, Drop, Goto, inputs, attempt, call, history
<1>7. CASE RequestRaises(f)
  BY <1>1, <1>7 DEF RequestRaises, Ends, Goto, inputs, attempt, call, history
<1>8. CASE Crash(f)
  BY <1>1, <1>8 DEF Crash, Again, Drop, Goto, inputs, attempt, call, history
<1> QED
  BY <1>2, <1>3, <1>4, <1>5, <1>6, <1>7, <1>8

\* What is stored is the copy, which is the store with the changes of the operation.
LEMMA SaveRight ==
  ASSUME TypeOK, CopiesAreFresh, ConnectedInCopy, Alone,
         NEW f \in Floats, Right(f), Save(f)
  PROVE  Right(f)'
<1> USE DEF Right, OnlyValidated, Plain, IsPlain, With
<1>1. /\ op[f] \in {"connect", "disconnect"} /\ result[f] \in {"ok", "failed"}
      /\ DOMAIN phase = Floats /\ phase[f] = "end"
  BY DEF TypeOK, Save
<1>2. CASE f \notin dirty
  BY <1>1, <1>2 DEF Save, Drop, Goto, inputs, call, history
<1>3. CASE f \in dirty
  <2>1. store' = IF op[f] = "connect" THEN Shown(store, f) ELSE Hidden(store)
    BY <1>3 DEF Save, CopiesAreFresh, Loaded
  <2>2. store \in Properties
    BY DEF TypeOK
  <2>3. f \notin dirty' /\ phase'[f] = "stored"
    BY <1>1 DEF Save, Drop, Goto
  <2>4. UNCHANGED <<use_public_ip, use_external, holder, result, op, repeated>>
    BY DEF Save, inputs, call, history
  <2> QED
    <3>1. CASE op[f] = "connect"
      <4>1. Plain /\ result[f] = "ok" /\ ~OnlyValidated(f)
        BY <1>1, <1>3, <3>1 DEF ConnectedInCopy, Alone
      <4>2. holder[f] = "server"
        BY <1>3, <3>1 DEF ConnectedInCopy, Alone
      <4> QED
        BY <4>2, <1>1, <2>1, <2>2, <2>3, <2>4, <3>1, <4>1 DEF Shown, Properties
    <3>2. CASE op[f] = "disconnect"
      BY <1>1, <1>3, <2>1, <2>2, <2>3, <2>4, <3>2 DEF Hidden, Properties
    <3> QED
      BY <1>1, <3>1, <3>2
<1> QED
  BY <1>2, <1>3

LEMMA HeldStep ==
  ASSUME TypeOK, Begun, CopiesAreFresh, ConnectedInCopy, OneAtATime, ShownIsHeld,
         [Next]_vars
  PROVE  ShownIsHeld'
<1> SUFFICES ASSUME Alone'
             PROVE  /\ (linked = {} => Plain)'
                    /\ \A f \in Floats \ linked' : holder'[f] # "server"
                    /\ \A f \in linked' : Right(f)'
  BY DEF ShownIsHeld
<1>1. CASE Configure
  <2>1. linked = {} /\ linked' = linked
    BY <1>1, ConfigureFirst DEF TypeOK, Begun, Configure, Configured, call
  <2>2. (\A f \in Floats : holder[f] # "server") /\ repeated = {} /\ repeated' = repeated
    BY <1>1, ConfigureFirst DEF Alone, Configure, AddressesAssumption
  <2> QED
    BY <1>1, <2>1, <2>2 DEF Alone, Plain, IsPlain, Configure, inputs
<1>2. CASE UNCHANGED vars
  BY <1>2 DEF ShownIsHeld, Alone, Configured, Right, OnlyValidated, Plain, IsPlain, With,
     vars, inputs, attempt, call, history
<1>3. CASE OthersMove
  BY <1>3 DEF OthersMove, Alone
<1>4. CASE OthersStore
  BY <1>4 DEF OthersStore, ShownIsHeld, Alone, Configured, Right, OnlyValidated,
     Plain, IsPlain, With, inputs, call
<1>5. ASSUME NEW f \in Floats, Create(f)
      PROVE  ShownIsHeld'
  BY <1>5 DEF Create, ShownIsHeld, Alone, Configured, Right, OnlyValidated, Plain, IsPlain,
     With, inputs, attempt, call, history
<1>6. ASSUME NEW f \in Floats, Begin(f)
      PROVE  ShownIsHeld'
  <2>1. /\ phase[f] = "idle" /\ f \notin dirty /\ f \notin dirty' /\ phase'[f] = "begin"
        /\ result'[f] = "ok" /\ op[f] \in {"connect", "disconnect"}
        /\ result[f] \in {"ok", "failed"}
    BY <1>6 DEF TypeOK, Begin, Goto, attempt
  <2>2. ~mixed /\ linked \subseteq {f}
    BY <1>6, BeginAlone DEF Alone
  <2>3. linked' = {f}
    BY <1>6, <2>2 DEF Begin
  <2>4. Alone
    BY <1>6, <2>2 DEF Begin, Alone
  <2>5. /\ f \notin linked => Plain
        /\ f \in linked => Right(f)
        /\ \A g \in Floats \ linked : holder[g] # "server"
    BY <2>2, <2>4 DEF ShownIsHeld
  <2>6. UNCHANGED <<use_public_ip, use_external, holder, store, repeated>>
    BY <1>6 DEF Begin, inputs
  <2>7. \/ /\ op'[f] = "connect"
           /\ f \in linked => op[f] = "connect" /\ result[f] = "failed"
        \/ op'[f] = "disconnect" /\ f \in linked
    BY <1>6 DEF Begin, TypeOK
  <2>8. Right(f)'
    BY <2>1, <2>5, <2>6, <2>7 DEF Right, OnlyValidated, Plain, IsPlain, With
  <2> QED
    BY <2>2, <2>3, <2>5, <2>6, <2>8 DEF ShownIsHeld
<1>7. ASSUME NEW f \in Floats, Report(f)
      PROVE  ShownIsHeld'
  <2>1. /\ phase[f] = "stored" /\ f \notin dirty /\ phase'[f] = "idle"
        /\ op[f] \in {"connect", "disconnect"} /\ result[f] \in {"ok", "failed"}
    BY <1>7 DEF TypeOK, Report, Goto
  <2>2. UNCHANGED <<use_public_ip, use_external, holder, store, op, result, dirty, rounds,
                  repeated>>
    BY <1>7 DEF Report, inputs, attempt, history
  <2>3. Alone
    BY <1>7 DEF Report, Alone, Configured, history
  <2>4. linked = {f} /\ Right(f) /\ \A g \in Floats \ {f} : holder[g] # "server"
    BY <2>1, <2>3, Single DEF ShownIsHeld, Alone
  <2>5. CASE result[f] = "ok" /\ op[f] = "disconnect"
    <3>1. linked' = {} /\ holder[f] # "server" /\ Plain
      BY <1>7, <2>1, <2>4, <2>5 DEF Report, Right
    <3> QED
      BY <2>2, <2>4, <3>1 DEF ShownIsHeld, Plain, IsPlain
  <2>6. CASE ~(result[f] = "ok" /\ op[f] = "disconnect")
    <3>1. linked' = {f}
      BY <1>7, <2>4, <2>6 DEF Report
    <3>2. Right(f)'
      BY <2>1, <2>2, <2>4, <2>6 DEF Right, OnlyValidated, Plain, IsPlain, With
    <3> QED
      BY <2>2, <2>4, <3>1, <3>2 DEF ShownIsHeld
  <2> QED
    BY <2>5, <2>6
<1>8. ASSUME NEW f \in Floats,
             \/ Load(f) \/ Validate(f) \/ Connect(f) \/ Disconnect(f)
             \/ Save(f) \/ Conflict(f) \/ RequestRaises(f) \/ Crash(f)
      PROVE  ShownIsHeld'
  <2>1. Alone
    <3>1. /\ UNCHANGED <<mixed, moved, rounds>> /\ lost \subseteq lost' /\ phase[f] # "idle"
      BY <1>8 DEF Load, Validate, Connect, Disconnect, Save, Conflict, RequestRaises, Crash,
         call, history
    <3>2. Configured
      BY <3>1, ConfigureFirst
    <3> QED
      BY <3>1, <3>2 DEF Alone
  <2>2. linked = {f} /\ linked' = {f}
    <3>1. phase[f] # "idle"
      BY <1>8 DEF Load, Validate, Connect, Disconnect, Save, Conflict, RequestRaises, Crash
    <3>2. linked' = linked
      BY <1>8 DEF Load, Validate, Connect, Disconnect, Save, Conflict, RequestRaises, Crash,
         call
    <3> QED
      BY <2>1, <3>1, <3>2, Single DEF Alone
  <2>3. Right(f)'
    BY <1>8, <2>1, <2>2, RightStep, SaveRight DEF ShownIsHeld
  <2>4. \A g \in Floats \ {f} : holder'[g] = holder[g]
    BY <1>8 DEF Load, Validate, Connect, Disconnect, Save, Conflict, RequestRaises, Crash,
       TypeOK
  <2> QED
    BY <2>1, <2>2, <2>3, <2>4 DEF ShownIsHeld
<1> QED
  BY <1>1, <1>2, <1>3, <1>4, <1>5, <1>6, <1>7, <1>8 DEF Next, Attempt, ShownIsHeld

LEMMA InvInit == Init => Inv
<1> SUFFICES ASSUME Init PROVE Inv
  OBVIOUS
<1>1. TypeOK
  BY DEF Init, TypeOK, Properties, Address, NoProperties, EventKinds
<1>2. TakenIsAllowed /\ Begun
  BY DEF Init, TakenIsAllowed, Begun
<1>3. CopiesAreFresh /\ ConnectedInCopy /\ PublicOrUnstored
  BY DEF Init, CopiesAreFresh, ConnectedInCopy, PublicOrUnstored, Loaded, NoProperties
<1>4. OneAtATime /\ ShownIsHeld
  BY DEF Init, OneAtATime, ShownIsHeld, Alone, Configured, NoProperties, Loaded
<1> QED
  BY <1>1, <1>2, <1>3, <1>4 DEF Inv

LEMMA InvStep == Inv /\ [Next]_vars => Inv'
BY TypeStep, TakenStep, BegunStep, FreshStep, CopyStep, PublicStep,
   OneStep, HeldStep DEF Inv

LEMMA Invariant == Spec => []Inv
BY InvInit, InvStep, PTL DEF Spec

(***************************************************************************)
(* Every variable keeps its type, and a copy that was changed belongs to   *)
(* an attempt that is about to end.                                        *)
(***************************************************************************)
THEOREM TypeCorrect == Spec => []TypeOK
<1>1. Inv => TypeOK
  BY DEF Inv
<1> QED
  BY <1>1, Invariant, PTL

(***************************************************************************)
(* However many floating addresses are connected and disconnected at a     *)
(* time, the public_ip of the server is one it has, unless a disconnect    *)
(* was executed again after its request, or others moved the address.      *)
(***************************************************************************)
THEOREM PublicConnected == Spec => []PublicIsConnected
<1>1. Inv => PublicIsConnected
  BY DEF Inv, TypeOK, PublicOrUnstored, Unstored, PublicIsConnected, Quiet
<1> QED
  BY <1>1, Invariant, PTL

(***************************************************************************)
(* While one floating address at most is in use, the ip of the server is   *)
(* that address while it is connected and use_public_ip is set, and its    *)
(* fixed address otherwise, however often the operations are executed      *)
(* again before they are stored.  Once a connect was executed again after  *)
(* that, a disconnect shows such an address and never the fixed one.       *)
(***************************************************************************)
THEOREM AddressIsShown == Spec => []AddressFollows
<1>1. Inv => AddressFollows
  <2> SUFFICES ASSUME Inv, ~mixed, Configured, \A f \in Floats : Quiet(f),
                      \A f \in linked : result[f] = "ok"
               PROVE  /\ use_public_ip /\ linked # {} => store.ip \in linked
                      /\ ~(use_public_ip /\ linked # {}) => Plain
    BY Zenon DEF AddressFollows, Plain, IsPlain
  <2>1. Alone
    BY DEF Inv, TypeOK, Alone, Quiet
  <2>2. CASE linked = {}
    BY <2>1, <2>2 DEF Inv, ShownIsHeld
  <2>3. CASE linked # {}
    <3>1. PICK f \in linked : linked = {f}
      BY <2>1, <2>3 DEF Inv, OneAtATime, TypeOK, Alone
    <3>2. result[f] = "ok" /\ phase[f] = "idle" /\ Right(f)
      BY <3>1, <2>1 DEF Inv, ShownIsHeld, TypeOK, Quiet
    <3>3. op[f] = "connect" /\ With(f)
      BY <3>2 DEF Right
    <3> QED
      BY <3>1, <3>3 DEF With
  <2> QED
    BY <2>2, <2>3
<1> QED
  BY <1>1, Invariant, PTL

(***************************************************************************)
(* No operation takes a floating address from another server without       *)
(* allow_reallocation, unless that server got it later.                    *)
(***************************************************************************)
THEOREM OnlyAllowedIsTaken == Spec => TakenOnlyIfAllowed
<1>1. ASSUME Inv, [Next]_vars
      PROVE  \A f \in Floats :
               holder[f] = "other" /\ holder'[f] = "server" /\ phase'[f] = "end"
                 => f \in allow_reallocation \union late
  <2> SUFFICES ASSUME NEW f \in Floats, holder[f] = "other", phase'[f] = "end"
               PROVE  f \in allow_reallocation \union late
    OBVIOUS
  <2>1. Inv'
    BY <1>1, InvStep
  <2>2. f \in ready'
    BY <2>1 DEF Inv, Begun, TypeOK
  <2>3. f \in ready
    <3>1. CASE \E g \in Floats : Create(g)
      BY <1>1, <3>1, <2>2 DEF Inv, Begun, Create
    <3>2. CASE ~\E g \in Floats : Create(g)
      BY <1>1, <3>2, <2>2 DEF Next, Attempt, Configure, Begin, Load, Validate, Connect,
         Disconnect, Save, Report, Conflict, RequestRaises, Crash, OthersStore, OthersMove, vars
    <3> QED
      BY <3>1, <3>2
  <2> QED
    BY <1>1, <2>3 DEF Inv, TakenIsAllowed
<1> QED
  BY <1>1, Invariant, PTL DEF Spec, TakenOnlyIfAllowed
=============================================================================
