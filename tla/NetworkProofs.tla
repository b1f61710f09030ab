------------------------- MODULE NetworkProofs -------------------------
(***************************************************************************)
(* Proofs about SharedLists, for any number of nodes, any entries and any  *)
(* number of installs and events, and about ServerNics, for any list of    *)
(* targets and of NICs.  The two components share this module, not state.  *)
(*                                                                         *)
(* No property of shared lists is inductive, since WriteRemaining writes   *)
(* what an earlier step read.  A node that is off the list has its entries *)
(* in no copy either, except in copies it is known to have made stale      *)
(* (missed); what others put on the list is also in every copy that may be *)
(* written.                                                                *)
(*                                                                         *)
(* The interfaces of a server come from a loop over two lists.  What the   *)
(* loop computes is proved by its least counterexample: a nonempty set of  *)
(* numbers has a least element (LeastOf), which is not the first, so that  *)
(* the claim holds for the one before it.                                  *)
(***************************************************************************)
EXTENDS SharedLists, ServerNics, WellFoundedInduction, TLAPS

\* Where the entries of n should not be on the list: uninstalled, or, since
\* stop asks for nothing without routes in the runtime properties, not stored.
Off(n) ==
  /\ op[n] = "uninstall"
  /\ \/ phase[n] \in {"idle", "end"} /\ result[n] = "ok"
     \/ kind = "routes" /\ n \notin stored

\* Routes that were written are stored, or their install was given up.
RoutesAreStored ==
  \A n \in Nodes :
    kind = "routes" /\ op[n] = "install" /\ phase[n] = "idle" => n \in stored \union orphaned

\* Only the install of a port checks its network.
ChecksInstall == \A n \in Nodes : phase[n] = "check" => op[n] = "install"

\* Nothing of n is among entries.
Apart(entries, n) == KeysOf(entries) \intersect KeysOf(wanted[n]) = {}

OffTheList ==
  \A n \in Nodes : Off(n) /\ n \notin harmed \union orphaned /\ ~Contested(n) => Apart(list, n)

OffTheCopies ==
  \A m, n \in Nodes :
    Reading(m) /\ Off(n) /\ n \notin harmed \union orphaned /\ ~Contested(n) =>
      n \in missed[m] \/ Apart(copy[m], n)

\* Every route is somebody's.
HasOwner(e) == e \in had \/ \E n \in Nodes : e \in wanted[n]
Owned ==
  kind = "routes" => /\ \A e \in list : HasOwner(e)
                     /\ \A n \in Nodes : \A e \in copy[n] : HasOwner(e)

\* An entry of somebody else that an uninstall is about to write back.
Keeps(entries, e) ==
  \/ e \in entries
  \/ kind = "pairs" /\ e[1] \in KeysOf(entries)
  \/ \E n \in Nodes : e[1] \in KeysOf(wanted[n])
CopiesKeep == \A n \in Nodes : Reading(n) => \A e \in kept : Keeps(copy[n], e)

GoneInv == RoutesAreStored /\ ChecksInstall /\ OffTheList /\ OffTheCopies
Inv == TypeOK /\ Owned /\ GoneInv /\ OthersAreKept /\ CopiesKeep

-----------------------------------------------------------------------------
\* An entry of a set has its key there.
LEMMA KeyOfMember ==
  ASSUME NEW S, NEW e \in S PROVE e[1] \in KeysOf(S)
BY DEF KeysOf

\* An event is counted.
LEMMA EventTyped ==
  ASSUME events \in [EventKinds -> Nat], NEW k \in EventKinds, Event(k)
  PROVE  events' \in [EventKinds -> Nat]
BY DEF Event, EventKinds

\* What is written back are entries, and their keys were read.
LEMMA RemainingTyped ==
  ASSUME TypeOK, NEW n \in Nodes
  PROVE  /\ Remaining(n) \subseteq Entries
         /\ KeysOf(Remaining(n)) \subseteq KeysOf(copy[n])
<1>1. CASE kind = "routes"
  BY <1>1 DEF TypeOK, Remaining, KeysOf
<1>2. CASE kind # "routes"
  <2>1. \A e \in Remaining(n) : \E c \in copy[n] : e = <<c[1], PortDetail>>
    BY <1>2 DEF Remaining, KeysOf
  <2> QED
    BY <2>1, EntriesAssumption DEF TypeOK, KeysOf
<1> QED
  BY <1>1, <1>2

\* What is written back has no key of the node, unless that is contested.
LEMMA RemainingApart ==
  ASSUME TypeOK, Owned, NEW n \in Nodes, ~Contested(n)
  PROVE  Apart(Remaining(n), n)
<1>1. CASE kind = "routes"
  <2>1. SUFFICES ASSUME NEW e \in Remaining(n), e[1] \in KeysOf(wanted[n]) PROVE FALSE
    BY DEF Apart, KeysOf
  <2>2. e \in copy[n] /\ e \notin wanted[n]
    BY <1>1 DEF Remaining
  <2>3. e \notin had
    BY <2>1, KeyOfMember DEF Contested
  <2>4. \A m \in Nodes \ {n} : e \notin wanted[m]
    BY <2>1, KeyOfMember DEF Contested
  <2> QED
    BY <1>1, <2>2, <2>3, <2>4 DEF Owned, HasOwner
<1>2. CASE kind # "routes"
  BY <1>2 DEF Remaining, Apart, KeysOf
<1> QED
  BY <1>1, <1>2
-----------------------------------------------------------------------------
LEMMA TypeInit == Init => TypeOK
BY EntriesAssumption, BoundsAssumption DEF Init, TypeOK, Reading

LEMMA TypeStep == TypeOK /\ [Next]_vars => TypeOK'
<1> SUFFICES ASSUME TypeOK, [Next]_vars PROVE TypeOK'
  OBVIOUS
<1>1. ASSUME NEW n \in Nodes,
             BeginInstall(n) \/ BeginUninstall(n) \/ Operation(n)
             \/ RequestRaises(n) \/ Crash(n)
      PROVE  TypeOK'
  <2>1. CASE BeginInstall(n)
    BY <2>1 DEF TypeOK, inputs, BeginInstall, Begins, First, Goto, Reading, history
  <2>2. CASE BeginUninstall(n)
    BY <2>2 DEF TypeOK, inputs, BeginUninstall, Begins, First, Goto, Reading, history
  <2>3. CASE CheckAddresses(n)
    BY <2>3 DEF TypeOK, inputs, CheckAddresses, Ends, Goto, Reading, history
  <2>4. CASE WriteWanted(n)
    BY <2>4 DEF TypeOK, inputs, WriteWanted, Wrote, Ends, Goto, Reading
  <2>5. CASE CheckNetwork(n)
    BY <2>5 DEF TypeOK, inputs, CheckNetwork, Ends, Goto, Reading, history
  <2>6. CASE ReadList(n)
    BY <2>6 DEF TypeOK, inputs, ReadList, Ends, Goto, Reading, history
  <2>7. CASE WriteRemaining(n)
    BY RemainingTyped, <2>7 DEF TypeOK, inputs, WriteRemaining, Wrote, Ends, Goto, Reading
  <2>8. CASE Store(n)
    BY <2>8 DEF TypeOK, inputs, Store, StoredAfter, Goto, Reading, history
  <2>9. CASE RequestRaises(n)
    BY EventTyped, <2>9 DEF TypeOK, inputs, RequestRaises, Dropped, Ends, Goto, Reading, EventKinds
  <2>10. CASE Crash(n)
    BY EventTyped, <2>10 DEF TypeOK, inputs, Crash, Dropped, First, Goto, Reading, EventKinds
  <2> QED
    BY <1>1, <2>1, <2>2, <2>3, <2>4, <2>5, <2>6, <2>7, <2>8, <2>9, <2>10 DEF Operation
<1>2. CASE OthersAdd
  BY EventTyped, EntriesAssumption, <1>2 DEF TypeOK, OthersAdd, inputs, Reading, EventKinds
<1>3. CASE OthersRemove
  BY EventTyped, <1>3 DEF TypeOK, OthersRemove, inputs, Reading, EventKinds
<1>4. CASE UNCHANGED vars
  BY <1>4 DEF TypeOK, vars, inputs, history, Reading
<1> QED
  BY <1>1, <1>2, <1>3, <1>4 DEF Next

(***************************************************************************)
(* Every variable keeps its type, and only an uninstall that has read the  *)
(* list knows of writes it has missed.                                     *)
(***************************************************************************)
THEOREM TypeCorrect == Spec => []TypeOK
BY TypeInit, TypeStep, PTL DEF Spec
-----------------------------------------------------------------------------
\* Every step keeps each part of the invariant.
LEMMA OwnedStep ==
  ASSUME TypeOK, Owned, [Next]_vars PROVE Owned'
<1>1. ASSUME NEW n \in Nodes,
             BeginInstall(n) \/ BeginUninstall(n) \/ Operation(n)
             \/ RequestRaises(n) \/ Crash(n)
      PROVE  Owned'
  <2>1. CASE BeginInstall(n)
    BY <2>1 DEF TypeOK, Owned, HasOwner, inputs, BeginInstall, Begins, First, Goto, history
  <2>2. CASE BeginUninstall(n)
    BY <2>2 DEF TypeOK, Owned, HasOwner, inputs, BeginUninstall, Begins, First, Goto, history
  <2>3. CASE CheckAddresses(n)
    BY <2>3 DEF TypeOK, Owned, HasOwner, inputs, CheckAddresses, Ends, Goto, history
  <2>4. CASE WriteWanted(n)
    BY <2>4 DEF TypeOK, Owned, HasOwner, inputs, WriteWanted, Wrote, Ends, Goto
  <2>5. CASE CheckNetwork(n)
    BY <2>5 DEF TypeOK, Owned, HasOwner, inputs, CheckNetwork, Ends, Goto, history
  <2>6. CASE ReadList(n)
    BY <2>6 DEF TypeOK, Owned, HasOwner, inputs, ReadList, NothingToRemove, Ends, Goto, history
  <2>7. CASE WriteRemaining(n)
    BY <2>7 DEF TypeOK, Owned, HasOwner, inputs, WriteRemaining, Remaining, Wrote, Ends, Goto
  <2>8. CASE Store(n)
    BY <2>8 DEF TypeOK, Owned, HasOwner, inputs, Store, StoredAfter, Goto, history
  <2>9. CASE RequestRaises(n)
    BY <2>9 DEF TypeOK, Owned, HasOwner, inputs, RequestRaises, Dropped, Ends, Goto
  <2>10. CASE Crash(n)
    BY <2>10 DEF TypeOK, Owned, HasOwner, inputs, Crash, Dropped, First, Goto
  <2> QED
    BY <1>1, <2>1, <2>2, <2>3, <2>4, <2>5, <2>6, <2>7, <2>8, <2>9, <2>10 DEF Operation
<1>2. CASE OthersAdd
  BY <1>2 DEF TypeOK, Owned, HasOwner, inputs, OthersAdd
<1>3. CASE OthersRemove
  BY <1>3 DEF TypeOK, Owned, HasOwner, inputs, OthersRemove
<1>4. CASE UNCHANGED vars
  BY <1>4 DEF Owned, HasOwner, vars, inputs, history
<1> QED
  BY <1>1, <1>2, <1>3, <1>4 DEF Next

LEMMA StoredStep ==
  ASSUME TypeOK, RoutesAreStored, ChecksInstall, [Next]_vars PROVE (RoutesAreStored /\ ChecksInstall)'
<1>1. ASSUME NEW n \in Nodes,
             BeginInstall(n) \/ BeginUninstall(n) \/ Operation(n)
             \/ RequestRaises(n) \/ Crash(n)
      PROVE  (RoutesAreStored /\ ChecksInstall)'
  <2>1. CASE BeginInstall(n)
    BY <2>1 DEF TypeOK, RoutesAreStored, ChecksInstall, inputs, BeginInstall, Begins, First, Goto, history
  <2>2. CASE BeginUninstall(n)
    BY <2>2 DEF TypeOK, RoutesAreStored, ChecksInstall, inputs, BeginUninstall, Begins, First, Goto, history
  <2>3. CASE CheckAddresses(n)
    BY <2>3 DEF TypeOK, RoutesAreStored, ChecksInstall, inputs, CheckAddresses, Ends, Goto, history
  <2>4. CASE WriteWanted(n)
    BY <2>4 DEF TypeOK, RoutesAreStored, ChecksInstall, inputs, WriteWanted, Wrote, Ends, Goto
  <2>5. CASE CheckNetwork(n)
    BY <2>5 DEF TypeOK, RoutesAreStored, ChecksInstall, inputs, CheckNetwork, Ends, Goto, history
  <2>6. CASE ReadList(n)
    BY <2>6 DEF TypeOK, RoutesAreStored, ChecksInstall, inputs, ReadList, NothingToRemove, Ends, Goto, history
  <2>7. CASE WriteRemaining(n)
    BY <2>7 DEF TypeOK, RoutesAreStored, ChecksInstall, inputs, WriteRemaining, Wrote, Ends, Goto
  <2>8. CASE Store(n)
    BY <2>8 DEF TypeOK, RoutesAreStored, ChecksInstall, inputs, Store, StoredAfter, Goto, history
  <2>9. CASE RequestRaises(n)
    BY <2>9 DEF TypeOK, RoutesAreStored, ChecksInstall, inputs, RequestRaises, Dropped, Ends, Goto
  <2>10. CASE Crash(n)
    BY <2>10 DEF TypeOK, RoutesAreStored, ChecksInstall, inputs, Crash, Dropped, First, Goto
  <2> QED
    BY <1>1, <2>1, <2>2, <2>3, <2>4, <2>5, <2>6, <2>7, <2>8, <2>9, <2>10 DEF Operation
<1>2. CASE OthersAdd
  BY <1>2 DEF TypeOK, RoutesAreStored, ChecksInstall, inputs, OthersAdd
<1>3. CASE OthersRemove
  BY <1>3 DEF TypeOK, RoutesAreStored, ChecksInstall, inputs, OthersRemove
<1>4. CASE UNCHANGED vars
  BY <1>4 DEF RoutesAreStored, ChecksInstall, vars, inputs, history
<1> QED
  BY <1>1, <1>2, <1>3, <1>4 DEF Next

LEMMA OffTheListStep ==
  ASSUME TypeOK, Owned, GoneInv, [Next]_vars PROVE OffTheList'
<1>1. ASSUME NEW n \in Nodes,
             BeginInstall(n) \/ BeginUninstall(n) \/ Operation(n)
             \/ RequestRaises(n) \/ Crash(n)
      PROVE  OffTheList'
  <2>1. CASE BeginInstall(n)
    BY <2>1 DEF TypeOK, GoneInv, RoutesAreStored, ChecksInstall, OffTheList, OffTheCopies, Off, Reading, Contested, Apart, KeysOf, inputs, BeginInstall, Begins, First, Goto, history
  <2>2. CASE BeginUninstall(n)
    BY <2>2 DEF TypeOK, GoneInv, RoutesAreStored, ChecksInstall, OffTheList, OffTheCopies, Off, Reading, Contested, Apart, KeysOf, inputs, BeginUninstall, Begins, First, Goto, history
  <2>3. CASE CheckAddresses(n)
    BY <2>3 DEF TypeOK, GoneInv, RoutesAreStored, ChecksInstall, OffTheList, OffTheCopies, Off, Reading, Contested, Apart, KeysOf, inputs, CheckAddresses, Ends, Goto, history
  <2>4. CASE WriteWanted(n)
    BY <2>4 DEF TypeOK, GoneInv, RoutesAreStored, ChecksInstall, OffTheList, OffTheCopies, Off, Reading, Contested, Apart, KeysOf, inputs, WriteWanted, Wrote, Ends, Goto
  <2>5. CASE CheckNetwork(n)
    BY <2>5 DEF TypeOK, GoneInv, ChecksInstall, OffTheList, Off, Contested, Apart, KeysOf, inputs, CheckNetwork, Ends, Goto, history
  <2>6. CASE ReadList(n)
    <3>1. SUFFICES ASSUME NEW m \in Nodes, Off(m)', (m \notin harmed \union orphaned)', ~Contested(m)'
                   PROVE  Apart(list, m)'
      BY DEF OffTheList
    <3>2. Off(m) /\ m \notin harmed \union orphaned
      BY <2>6, <3>1 DEF TypeOK, Off, ReadList, NothingToRemove, Ends, Goto, inputs, history
    <3>3. ~Contested(m)
      BY <2>6, <3>1 DEF Contested, ReadList, inputs, history
    <3> QED
      BY <2>6, <3>2, <3>3 DEF GoneInv, OffTheList, Apart, ReadList, inputs
  <2>7. CASE WriteRemaining(n)
    <3>1. SUFFICES ASSUME NEW m \in Nodes, Off(m)', (m \notin harmed \union orphaned)', ~Contested(m)'
                   PROVE  Apart(list, m)'
      BY DEF OffTheList
    <3>2. ~Contested(m)
      BY <2>7, <3>1 DEF Contested, WriteRemaining, Wrote, inputs
    <3>3. Apart(Remaining(n), m)
      <4>1. CASE m = n
        BY <4>1, <3>2, RemainingApart
      <4>2. CASE m # n
        <5>1. Off(m) /\ m \notin harmed \union orphaned /\ m \notin missed[n]
          BY <2>7, <4>2, <3>1 DEF TypeOK, Off, WriteRemaining, Wrote, Ends, Goto, inputs
        <5>2. Apart(copy[n], m)
          BY <2>7, <5>1, <3>2 DEF GoneInv, OffTheCopies, WriteRemaining
        <5> QED
          BY <5>2, RemainingTyped DEF Apart
      <4> QED
        BY <4>1, <4>2
    <3> QED
      BY <2>7, <3>3 DEF Apart, WriteRemaining, inputs
  <2>8. CASE Store(n)
    BY <2>8 DEF TypeOK, GoneInv, RoutesAreStored, ChecksInstall, OffTheList, OffTheCopies, Off, Reading, Contested, Apart, KeysOf, inputs, Store, StoredAfter, Goto, history
  <2>9. CASE RequestRaises(n)
    BY <2>9 DEF TypeOK, GoneInv, RoutesAreStored, ChecksInstall, OffTheList, OffTheCopies, Off, Reading, Contested, Apart, KeysOf, inputs, RequestRaises, Dropped, Ends, Goto
  <2>10. CASE Crash(n)
    <3>1. SUFFICES ASSUME NEW m \in Nodes, Off(m)', (m \notin harmed \union orphaned)', ~Contested(m)'
                   PROVE  Apart(list, m)'
      BY DEF OffTheList
    <3>2. Off(m) /\ m \notin harmed \union orphaned
      BY <2>10, <3>1 DEF TypeOK, Off, Crash, First, Goto, inputs
    <3>3. ~Contested(m)
      BY <2>10, <3>1 DEF Contested, Crash, inputs
    <3> QED
      BY <2>10, <3>2, <3>3 DEF GoneInv, OffTheList, Apart, Crash, inputs
  <2> QED
    BY <1>1, <2>1, <2>2, <2>3, <2>4, <2>5, <2>6, <2>7, <2>8, <2>9, <2>10 DEF Operation
<1>2. CASE OthersAdd
  <2>1. SUFFICES ASSUME NEW m \in Nodes, Off(m)', (m \notin harmed \union orphaned)', ~Contested(m)'
                 PROVE  Apart(list, m)'
    BY DEF OffTheList
  <2>2. PICK e \in OthersEntries : list' = list \union {e} /\ had' = had \union {e}
    BY <1>2 DEF OthersAdd
  <2>3. e[1] \notin KeysOf(wanted[m]) /\ ~Contested(m)
    BY <1>2, <2>1, <2>2 DEF Contested, KeysOf, OthersAdd, inputs
  <2>4. Apart(list, m)
    BY <1>2, <2>1, <2>3 DEF GoneInv, OffTheList, Off, OthersAdd, inputs
  <2> QED
    BY <1>2, <2>2, <2>3, <2>4 DEF Apart, KeysOf, OthersAdd, inputs
<1>3. CASE OthersRemove
  <2>1. SUFFICES ASSUME NEW m \in Nodes, Off(m)', (m \notin harmed \union orphaned)', ~Contested(m)'
                 PROVE  Apart(list, m)'
    BY DEF OffTheList
  <2>2. Off(m) /\ m \notin harmed \union orphaned /\ ~Contested(m) /\ list' \subseteq list
    BY <1>3, <2>1 DEF Off, Contested, OthersRemove, inputs
  <2>3. Apart(list, m)
    BY <2>2 DEF GoneInv, OffTheList
  <2> QED
    BY <1>3, <2>2, <2>3 DEF Apart, KeysOf, OthersRemove, inputs
<1>4. CASE UNCHANGED vars
  BY <1>4 DEF GoneInv, RoutesAreStored, ChecksInstall, OffTheList, OffTheCopies, Off, Reading, Contested, Apart, KeysOf, vars, inputs, history
<1> QED
  BY <1>1, <1>2, <1>3, <1>4 DEF Next

LEMMA OffTheCopiesStep ==
  ASSUME TypeOK, Owned, GoneInv, [Next]_vars PROVE OffTheCopies'
<1>1. ASSUME NEW n \in Nodes,
             BeginInstall(n) \/ BeginUninstall(n) \/ Operation(n)
             \/ RequestRaises(n) \/ Crash(n)
      PROVE  OffTheCopies'
  <2>1. CASE BeginInstall(n)
    BY <2>1 DEF TypeOK, GoneInv, RoutesAreStored, ChecksInstall, OffTheList, OffTheCopies, Off, Reading, Contested, Apart, KeysOf, inputs, BeginInstall, Begins, First, Goto, history
  <2>2. CASE BeginUninstall(n)
    BY <2>2 DEF TypeOK, GoneInv, RoutesAreStored, ChecksInstall, OffTheList, OffTheCopies, Off, Reading, Contested, Apart, KeysOf, inputs, BeginUninstall, Begins, First, Goto, history
  <2>3. CASE CheckAddresses(n)
    <3>1. SUFFICES ASSUME NEW k \in Nodes, NEW m \in Nodes, Reading(k)', Off(m)',
                          (m \notin harmed \union orphaned)', ~Contested(m)'
                   PROVE  (m \in missed[k] \/ Apart(copy[k], m))'
      BY DEF OffTheCopies
    <3>2. Reading(k) /\ Off(m)
      BY <2>3, <3>1 DEF TypeOK, Reading, Off, CheckAddresses, Ends, Goto, inputs
    <3>3. m \notin harmed \union orphaned /\ ~Contested(m)
      BY <2>3, <3>1 DEF Contested, CheckAddresses, inputs, history
    <3>4. m \in missed[k] \/ Apart(copy[k], m)
      BY <3>2, <3>3 DEF GoneInv, OffTheCopies
    <3> QED
      BY <2>3, <3>4 DEF Apart, CheckAddresses, inputs, history
  <2>4. CASE WriteWanted(n)
    <3>1. SUFFICES ASSUME NEW k \in Nodes, NEW m \in Nodes, Reading(k)', Off(m)',
                          (m \notin harmed \union orphaned)', ~Contested(m)'
                   PROVE  (m \in missed[k] \/ Apart(copy[k], m))'
      BY DEF OffTheCopies
    <3>2. Reading(k) /\ Off(m) /\ k # n /\ m # n
      BY <2>4, <3>1 DEF TypeOK, Reading, Off, WriteWanted, Ends, Goto, inputs
    <3>3. m \notin harmed \union orphaned /\ ~Contested(m)
      BY <2>4, <3>1, <3>2 DEF TypeOK, Contested, WriteWanted, Wrote, inputs
    <3>4. m \in missed[k] \/ Apart(copy[k], m)
      BY <3>2, <3>3 DEF GoneInv, OffTheCopies
    <3> QED
      BY <2>4, <3>2, <3>4 DEF TypeOK, Apart, WriteWanted, Wrote, inputs
  <2>5. CASE CheckNetwork(n)
    BY <2>5 DEF TypeOK, GoneInv, ChecksInstall, OffTheCopies, Off, Reading, Contested, Apart, KeysOf, inputs, CheckNetwork, Ends, Goto, history
  <2>6. CASE ReadList(n)
    <3>1. SUFFICES ASSUME NEW k \in Nodes, NEW m \in Nodes, Reading(k)', Off(m)',
                          (m \notin harmed \union orphaned)', ~Contested(m)'
                   PROVE  (m \in missed[k] \/ Apart(copy[k], m))'
      BY DEF OffTheCopies
    <3>2. Off(m) /\ m \notin harmed \union orphaned /\ ~Contested(m)
      BY <2>6, <3>1 DEF TypeOK, Off, Contested, ReadList, NothingToRemove, Ends, Goto, inputs, history
    <3>3. CASE k = n
      <4>1. Apart(list, m)
        BY <3>2 DEF GoneInv, OffTheList
      <4>2. copy'[k] = list
        BY <2>6, <3>1, <3>3 DEF TypeOK, Reading, ReadList, Ends, Goto
      <4> QED
        BY <2>6, <4>1, <4>2 DEF Apart, ReadList, inputs
    <3>4. CASE k # n
      <4>1. Reading(k) /\ copy'[k] = copy[k]
        BY <2>6, <3>1, <3>4 DEF TypeOK, Reading, ReadList, Ends, Goto, inputs
      <4>2. m \in missed[k] \/ Apart(copy[k], m)
        BY <4>1, <3>2 DEF GoneInv, OffTheCopies
      <4> QED
        BY <2>6, <4>1, <4>2 DEF Apart, ReadList, inputs, history
    <3> QED
      BY <3>3, <3>4
  <2>7. CASE WriteRemaining(n)
    BY <2>7 DEF TypeOK, GoneInv, RoutesAreStored, ChecksInstall, OffTheList, OffTheCopies, Off, Reading, Contested, Apart, KeysOf, inputs, WriteRemaining, Wrote, Ends, Goto
  <2>8. CASE Store(n)
    BY <2>8 DEF TypeOK, GoneInv, RoutesAreStored, ChecksInstall, OffTheList, OffTheCopies, Off, Reading, Contested, Apart, KeysOf, inputs, Store, StoredAfter, Goto, history
  <2>9. CASE RequestRaises(n)
    BY <2>9 DEF TypeOK, GoneInv, RoutesAreStored, ChecksInstall, OffTheList, OffTheCopies, Off, Reading, Contested, Apart, KeysOf, inputs, RequestRaises, Dropped, Ends, Goto
  <2>10. CASE Crash(n)
    <3>1. SUFFICES ASSUME NEW k \in Nodes, NEW m \in Nodes, Reading(k)', Off(m)',
                          (m \notin harmed \union orphaned)', ~Contested(m)'
                   PROVE  (m \in missed[k] \/ Apart(copy[k], m))'
      BY DEF OffTheCopies
    <3>2. k # n /\ Reading(k) /\ copy'[k] = copy[k] /\ missed'[k] = missed[k]
      BY <2>10, <3>1 DEF TypeOK, Reading, Crash, Dropped, First, Goto
    <3>3. Off(m) /\ m \notin harmed \union orphaned
      BY <2>10, <3>1 DEF TypeOK, Off, Crash, First, Goto, inputs
    <3>4. ~Contested(m)
      BY <2>10, <3>1 DEF Contested, Crash, inputs
    <3>5. m \in missed[k] \/ Apart(copy[k], m)
      BY <3>2, <3>3, <3>4 DEF GoneInv, OffTheCopies
    <3> QED
      BY <2>10, <3>2, <3>5 DEF Apart, Crash, inputs
  <2> QED
    BY <1>1, <2>1, <2>2, <2>3, <2>4, <2>5, <2>6, <2>7, <2>8, <2>9, <2>10 DEF Operation
<1>2. CASE OthersAdd
  <2>1. SUFFICES ASSUME NEW k \in Nodes, NEW m \in Nodes, Reading(k)', Off(m)',
                        (m \notin harmed \union orphaned)', ~Contested(m)'
                 PROVE  (m \in missed[k] \/ Apart(copy[k], m))'
    BY DEF OffTheCopies
  <2>2. Reading(k) /\ Off(m) /\ m \notin harmed \union orphaned
    BY <1>2, <2>1 DEF Reading, Off, OthersAdd, inputs
  <2>3. ~Contested(m)
    BY <1>2, <2>1 DEF Contested, KeysOf, OthersAdd, inputs
  <2>4. m \in missed[k] \/ Apart(copy[k], m)
    BY <2>2, <2>3 DEF GoneInv, OffTheCopies
  <2> QED
    BY <1>2, <2>4 DEF Apart, OthersAdd, inputs
<1>3. CASE OthersRemove
  BY <1>3 DEF TypeOK, GoneInv, RoutesAreStored, ChecksInstall, OffTheList, OffTheCopies, Off, Reading, Contested, Apart, KeysOf, inputs, OthersRemove
<1>4. CASE UNCHANGED vars
  BY <1>4 DEF GoneInv, RoutesAreStored, ChecksInstall, OffTheList, OffTheCopies, Off, Reading, Contested, Apart, KeysOf, vars, inputs, history
<1> QED
  BY <1>1, <1>2, <1>3, <1>4 DEF Next

LEMMA KeptStep ==
  ASSUME TypeOK, OthersAreKept, CopiesKeep, [Next]_vars PROVE (OthersAreKept /\ CopiesKeep)'
<1>1. ASSUME NEW n \in Nodes,
             BeginInstall(n) \/ BeginUninstall(n) \/ Operation(n)
             \/ RequestRaises(n) \/ Crash(n)
      PROVE  (OthersAreKept /\ CopiesKeep)'
  <2>1. CASE BeginInstall(n)
    BY <2>1 DEF TypeOK, OthersAreKept, CopiesKeep, Keeps, Reading, KeysOf, inputs, BeginInstall, Begins, First, Goto, history
  <2>2. CASE BeginUninstall(n)
    BY <2>2 DEF TypeOK, OthersAreKept, CopiesKeep, Keeps, Reading, KeysOf, inputs, BeginUninstall, Begins, First, Goto, history
  <2>3. CASE CheckAddresses(n)
    BY <2>3 DEF TypeOK, OthersAreKept, CopiesKeep, Keeps, Reading, inputs, CheckAddresses, Ends, Goto, history
  <2>4. CASE WriteWanted(n)
    BY <2>4 DEF TypeOK, OthersAreKept, CopiesKeep, Keeps, Reading, KeysOf, inputs, WriteWanted, Wrote, Ends, Goto
  <2>5. CASE CheckNetwork(n)
    BY <2>5 DEF TypeOK, OthersAreKept, CopiesKeep, Keeps, Reading, KeysOf, inputs, CheckNetwork, Ends, Goto, history
  <2>6. CASE ReadList(n)
    BY <2>6 DEF TypeOK, OthersAreKept, CopiesKeep, Keeps, Reading, KeysOf, inputs, ReadList, NothingToRemove, Ends, Goto, history
  <2>7. CASE WriteRemaining(n)
    <3>1. ASSUME NEW e \in kept PROVE Keeps(Remaining(n), e)
      <4>1. Keeps(copy[n], e)
        BY <2>7 DEF CopiesKeep, WriteRemaining
      <4>2. CASE kind = "routes"
        BY <4>1, <4>2, KeyOfMember DEF Keeps, Remaining
      <4>3. CASE kind = "pairs"
        <5>1. e[1] \in KeysOf(copy[n]) \/ \E m \in Nodes : e[1] \in KeysOf(wanted[m])
          BY <4>1, KeyOfMember DEF Keeps
        <5>2. \A k \in KeysOf(copy[n]) \ KeysOf(wanted[n]) : k \in KeysOf(Remaining(n))
          <6> SUFFICES ASSUME NEW k \in KeysOf(copy[n]) \ KeysOf(wanted[n])
                       PROVE  k \in KeysOf(Remaining(n))
            OBVIOUS
          <6>1. <<k, PortDetail>> \in Remaining(n)
            BY <4>3 DEF Remaining
          <6> QED
            BY <6>1, KeyOfMember, <<k, PortDetail>>[1] = k
        <5> QED
          BY <5>1, <5>2, <4>3 DEF Keeps
      <4> QED
        BY <4>2, <4>3 DEF TypeOK
    <3>2. OthersAreKept'
      BY <2>7, <3>1 DEF OthersAreKept, Keeps, WriteRemaining, Wrote, inputs
    <3>3. CopiesKeep'
      BY <2>7 DEF TypeOK, CopiesKeep, Keeps, Reading, WriteRemaining, Wrote, Ends, Goto, inputs
    <3> QED
      BY <3>2, <3>3
  <2>8. CASE Store(n)
    BY <2>8 DEF TypeOK, OthersAreKept, CopiesKeep, Keeps, Reading, KeysOf, inputs, Store, StoredAfter, Goto, history
  <2>9. CASE RequestRaises(n)
    BY <2>9 DEF TypeOK, OthersAreKept, CopiesKeep, Keeps, Reading, KeysOf, inputs, RequestRaises, Dropped, Ends, Goto
  <2>10. CASE Crash(n)
    BY <2>10 DEF TypeOK, OthersAreKept, CopiesKeep, Keeps, Reading, KeysOf, inputs, Crash, Dropped, First, Goto
  <2> QED
    BY <1>1, <2>1, <2>2, <2>3, <2>4, <2>5, <2>6, <2>7, <2>8, <2>9, <2>10 DEF Operation
<1>2. CASE OthersAdd
  BY <1>2 DEF TypeOK, OthersAreKept, CopiesKeep, Keeps, Reading, KeysOf, inputs, OthersAdd
<1>3. CASE OthersRemove
  BY <1>3 DEF TypeOK, OthersAreKept, CopiesKeep, Keeps, Reading, KeysOf, inputs, OthersRemove
<1>4. CASE UNCHANGED vars
  BY <1>4 DEF OthersAreKept, CopiesKeep, Keeps, Reading, KeysOf, vars, inputs, history
<1> QED
  BY <1>1, <1>2, <1>3, <1>4 DEF Next

LEMMA InvInit == Init => Inv
<1> SUFFICES ASSUME Init PROVE Inv
  OBVIOUS
<1>1. Owned /\ RoutesAreStored /\ ChecksInstall
  BY DEF Init, Owned, HasOwner, RoutesAreStored, ChecksInstall
<1>2. OffTheList
  BY DEF Init, OffTheList, Contested, Apart
<1>3. OffTheCopies /\ CopiesKeep
  BY DEF Init, OffTheCopies, CopiesKeep, Reading
<1>4. OthersAreKept
  BY DEF Init, OthersAreKept
<1> QED
  BY <1>1, <1>2, <1>3, <1>4, TypeInit DEF Inv, GoneInv

LEMMA InvStep == Inv /\ [Next]_vars => Inv'
BY TypeStep, OwnedStep, StoredStep, OffTheListStep, OffTheCopiesStep, KeptStep
   DEF Inv, GoneInv

LEMMA Invariant == Spec => []Inv
BY InvInit, InvStep, PTL DEF Spec

(***************************************************************************)
(* After an uninstall that succeeded nothing of the node is on the list,   *)
(* however the operations of other nodes interleave with it, unless one    *)
(* wrote back what it had read before.                                     *)
(***************************************************************************)
THEOREM UninstallRemoves == Spec => []UninstalledAreGone
<1>1. Inv => UninstalledAreGone
  BY DEF Inv, GoneInv, OffTheList, UninstalledAreGone, Finished, Off, Apart
<1> QED
  BY <1>1, Invariant, PTL

(***************************************************************************)
(* What others put on the list stays there as long as nodes only uninstall *)
(* and nobody has read the list before.                                    *)
(***************************************************************************)
THEOREM OthersStay == Spec => []OthersAreKept
<1>1. Inv => OthersAreKept
  BY DEF Inv
<1> QED
  BY <1>1, Invariant, PTL
-----------------------------------------------------------------------------
(***************************************************************************)
(* ServerNics, for an external server.  What stop takes away is what the   *)
(* record names, so the invariant says which interfaces that may be: none  *)
(* that the server had, none of an attempt of create that broke off, and   *)
(* all others that it has now.  Between the deletion of an interface and   *)
(* the record of it, the record names one interface that is gone.          *)
(***************************************************************************)
PortIds == Ports \union AutoPorts
Ids(fs) == {f.id : f \in fs}

NicsTypeOK ==
  /\ step \in {"create", "requested", "active", "started", "refused", "attach",
               "detach", "save", "stopFailed", "stopped"}
  /\ added \in Seq(PortIds) /\ store \in Seq(PortIds)
  /\ step \in {"requested", "active"} => ~node.external
  /\ step \in {"attach", "detach", "save", "stopFailed", "stopped"} => node.external

\* Which interfaces the plugin knows of: those it attached in this attempt,
\* later those on record.
KnownIds == ToSet(IF step = "attach" THEN added ELSE store)

\* The interfaces that create made, and the plugin may have lost.
Accounted ==
  /\ foreign \subseteq ifs
  /\ ~node.external => foreign = {}
  /\ node.external =>
       /\ \A f, g \in ifs : f.id = g.id => f = g
       /\ orphans \subseteq Ids(ifs \ foreign)
       /\ Ids(ifs \ foreign) \subseteq orphans \union KnownIds
       /\ KnownIds \intersect (orphans \union Ids(foreign)) = {}
       /\ step = "attach" => KnownIds \subseteq Ids(ifs \ foreign)

\* Before the record is made there is none, and stop walks along with it.
RecordFits ==
  /\ step \in {"create", "attach"} => store = <<>>
  /\ step \in {"detach", "save", "stopped"} => todo = store
  /\ step = "save" => store # <<>> /\ Head(store) \notin Ids(ifs)
  /\ step = "stopped" => store = <<>>

NicsInv == NicsTypeOK /\ Accounted /\ RecordFits

\* Of a record the first entry is removed.
LEMMA RemoveHead ==
  ASSUME NEW S, NEW s \in Seq(S), s # <<>>
  PROVE  RemoveFirst(s, Head(s)) = Tail(s)
<1> DEFINE I == {i \in 1..Len(s) : s[i] = Head(s)}
<1>1. 1 \in I /\ \A i \in I : i \in Int /\ 1 <= i
  OBVIOUS
<1>2. Min(I) = 1
  BY <1>1 DEF Min
<1>3. SelectInSeq(s, LAMBDA v : v = Head(s)) = 1
  BY <1>1, <1>2 DEF SelectInSeq
<1>4. \E i \in 1..Len(s) : s[i] = Head(s)
  BY <1>1
<1>5. RemoveFirst(s, Head(s)) = RemoveAt(s, 1)
  BY <1>3, <1>4 DEF RemoveFirst
<1>6. SubSeq(s, 1, 1 - 1) = <<>> /\ SubSeq(s, 1 + 1, Len(s)) = Tail(s)
  OBVIOUS
<1>7. Tail(s) \in Seq(S)
  OBVIOUS
<1>8. <<>> \o Tail(s) = Tail(s)
  BY <1>7
<1> QED
  BY <1>5, <1>6, <1>8 DEF RemoveAt

\* What a sequence holds.
LEMMA HeldBy ==
  ASSUME NEW S, NEW s \in Seq(S)
  PROVE  /\ ToSet(s) \subseteq S
         /\ \A e \in S : ToSet(Append(s, e)) = ToSet(s) \union {e}
         /\ s # <<>> => ToSet(s) = {Head(s)} \union ToSet(Tail(s)) /\ Tail(s) \in Seq(S)
         /\ s = <<>> => ToSet(s) = {}
<1>1. ToSet(s) = {s[i] : i \in 1..Len(s)}
  BY DEF ToSet
<1>2. ASSUME NEW e \in S
      PROVE  ToSet(Append(s, e)) = ToSet(s) \union {e}
  <2>1. /\ Append(s, e) \in Seq(S) /\ Len(Append(s, e)) = Len(s) + 1
        /\ \A i \in 1..Len(s) : Append(s, e)[i] = s[i]
        /\ Append(s, e)[Len(s) + 1] = e
    OBVIOUS
  <2>2. DOMAIN Append(s, e) = 1..(Len(s) + 1)
    BY <2>1
  <2> QED
    BY <1>1, <2>1, <2>2 DEF ToSet
<1>3. ASSUME s # <<>>
      PROVE  ToSet(s) = {Head(s)} \union ToSet(Tail(s)) /\ Tail(s) \in Seq(S)
  <2>1. /\ Tail(s) \in Seq(S) /\ Len(Tail(s)) = Len(s) - 1
        /\ \A i \in 1..Len(Tail(s)) : Tail(s)[i] = s[i + 1]
        /\ Head(s) = s[1] /\ Len(s) > 0 /\ Len(s) \in Nat
    BY <1>3
  <2>2. DOMAIN Tail(s) = 1..(Len(s) - 1)
    BY <2>1
  <2>3. ToSet(Tail(s)) = {s[i] : i \in 2..Len(s)}
    <3>1. \A i \in 2..Len(s) : i - 1 \in 1..(Len(s) - 1) /\ Tail(s)[i - 1] = s[i]
      BY <2>1
    <3>2. \A i \in 1..(Len(s) - 1) : i + 1 \in 2..Len(s) /\ Tail(s)[i] = s[i + 1]
      BY <2>1
    <3>3. ASSUME NEW e \in ToSet(Tail(s))
          PROVE  e \in {s[i] : i \in 2..Len(s)}
      BY <2>2, <3>2 DEF ToSet
    <3>4. ASSUME NEW e \in {s[i] : i \in 2..Len(s)}
          PROVE  e \in ToSet(Tail(s))
      BY <2>2, <3>1 DEF ToSet
    <3> QED
      BY <3>3, <3>4
  <2>4. \A i \in Nat : i \in 1..Len(s) <=> i = 1 \/ i \in 2..Len(s)
    BY <2>1
  <2> QED
    BY <1>1, <2>1, <2>3, <2>4
<1> QED
  BY <1>1, <1>2, <1>3

LEMMA NicsInitInv == NicsInit => NicsInv
<1> SUFFICES ASSUME NicsInit
             PROVE  NicsInv
  OBVIOUS
<1>1. KnownIds = {}
  BY DEF NicsInit, KnownIds, ToSet
<1>2. \A f, g \in ifs : f = g
  BY DEF NicsInit
<1>3. Ids(ifs \ foreign) = {}
  BY DEF NicsInit, Ids
<1>4. NicsTypeOK
  <2>1. <<>> \in Seq(PortIds)
    OBVIOUS
  <2> QED
    BY <2>1 DEF NicsInit, NicsTypeOK
<1>5. Accounted
  <2>1. foreign = ifs /\ orphans = {} /\ (~node.external => foreign = {})
    BY DEF NicsInit
  <2> QED
    BY <1>1, <1>2, <1>3, <2>1 DEF Accounted, NicsInit
<1>6. RecordFits
  BY DEF NicsInit, RecordFits
<1> QED
  BY <1>4, <1>5, <1>6 DEF NicsInv

LEMMA NicsStepInv == NicsInv /\ [NicsNext]_nicsVars => NicsInv'
<1> SUFFICES ASSUME NicsInv, [NicsNext]_nicsVars
             PROVE  NicsInv'
  OBVIOUS
<1> USE DEF NicsInv, NicsTypeOK, Accounted, RecordFits, MoveTo, given
<1>1. CASE CreateRefused
  BY <1>1 DEF CreateRefused, KnownIds
<1>2. CASE Create
  BY <1>2 DEF Create, KnownIds
<1>3. CASE Boot
  BY <1>3 DEF Boot, KnownIds
<1>4. CASE Configure
  BY <1>4 DEF Configure, KnownIds
<1>5. CASE Validate
  <2>1. added' = <<>> /\ added' \in Seq(PortIds) /\ ToSet(added') = {} /\ ToSet(store) = {}
    BY <1>5 DEF Validate, ToSet
  <2> QED
    BY <1>5, <2>1 DEF Validate, KnownIds
<1>6. CASE Attach
  <2>1. CASE step' = "refused"
    <3>1. KnownIds' = {} /\ KnownIds = ToSet(added)
      BY <1>6, <2>1 DEF Attach, ToSet, KnownIds
    <3>2. /\ orphans' = orphans \union ToSet(added)
          /\ UNCHANGED <<node, ifs, foreign, store, added>> /\ step = "attach"
      BY <1>6, <2>1 DEF Attach
    <3>3. Accounted'
      BY <2>1, <3>1, <3>2
    <3> QED
      BY <1>6, <2>1, <3>2, <3>3 DEF Attach
  <2>2. CASE step' = "attach"
    <3>1. PICK made \in MadeFrom(<<Head(todo)>>) :
            ifs' = ifs \union ToSet(made) /\ added' = Append(added, made[1].id)
      BY <1>6, <2>2 DEF Attach
    <3>2. PICK id \in PortIds : /\ made = [i \in DOMAIN <<Head(todo)>> |->
                                      [id |-> id, net |-> NetOfNic(<<Head(todo)>>[i])]]
                                /\ \A f \in ifs : f.id # id
      BY <3>1 DEF MadeFrom, PortIds
    <3>3. ToSet(made) = {made[1]} /\ made[1].id = id
      BY <3>2 DEF ToSet
    <3>4. /\ added' = Append(added, id) /\ added' \in Seq(PortIds)
          /\ ToSet(added') = ToSet(added) \union {id}
      BY <3>1, <3>3, HeldBy
    <3>5. Ids(ifs' \ foreign) = Ids(ifs \ foreign) \union {id}
      <4>1. ifs' \ foreign = (ifs \ foreign) \union {made[1]}
        BY <3>1, <3>2, <3>3
      <4> QED
        BY <3>3, <4>1 DEF Ids
    <3>6. UNCHANGED <<node, foreign, orphans, store>> /\ step = "attach"
      BY <1>6, <2>2 DEF Attach
    <3>7. KnownIds = ToSet(added) /\ KnownIds' = ToSet(added) \union {id}
      BY <2>2, <3>4, <3>6 DEF KnownIds
    <3>8. id \notin Ids(ifs) /\ Ids(foreign) \subseteq Ids(ifs) /\ Ids(ifs \ foreign) \subseteq Ids(ifs)
      BY <3>2 DEF Ids
    <3>9. \A f, g \in ifs' : node.external /\ f.id = g.id => f = g
      BY <3>1, <3>2, <3>3
    <3>10. Accounted'
      BY <3>1, <3>5, <3>6, <3>7, <3>8, <3>9
    <3> QED
      BY <1>6, <2>2, <3>4, <3>6, <3>10 DEF Attach
  <2> QED
    BY <1>6, <2>1, <2>2 DEF Attach
<1>7. CASE Record
  BY <1>7 DEF Record, KnownIds
<1>8. CASE CreateCrash
  <2>1. KnownIds' = {} /\ KnownIds = ToSet(added)
    BY <1>8 DEF CreateCrash, ToSet, KnownIds
  <2>2. orphans' = orphans \union ToSet(added) /\ UNCHANGED <<node, ifs, foreign, store>>
    BY <1>8 DEF CreateCrash
  <2>3. Accounted'
    BY <1>8, <2>1, <2>2 DEF CreateCrash
  <2>4. added' = <<>> /\ added' \in Seq(PortIds)
    BY <1>8 DEF CreateCrash
  <2> QED
    BY <1>8, <2>2, <2>3, <2>4 DEF CreateCrash
<1>9. CASE Stop
  BY <1>9 DEF Stop, KnownIds
<1>10. CASE Detach
  <2>1. Head(store) \in ToSet(store)
    BY <1>10, HeldBy DEF Detach
  <2>2. CASE step' = "save"
    <3>1. ifs' = {f \in ifs : f.id # Head(store)}
      BY <1>10, <2>2 DEF Detach
    <3>2. Ids(ifs' \ foreign) = Ids(ifs \ foreign) \ {Head(store)}
      BY <3>1 DEF Ids
    <3>3. node.external => foreign \subseteq ifs'
      BY <1>10, <2>1, <3>1 DEF Detach, Ids, KnownIds
    <3> QED
      BY <1>10, <2>1, <2>2, <3>1, <3>2, <3>3 DEF Detach, Ids, KnownIds
  <2>3. CASE step' = "stopFailed"
    BY <1>10, <2>3 DEF Detach, KnownIds
  <2> QED
    BY <1>10, <2>2, <2>3 DEF Detach
<1>11. CASE Save
  <2>1. store' = Tail(store) /\ todo' = Tail(store)
    BY <1>11, RemoveHead DEF Save
  <2>2. ToSet(store) = {Head(store)} \union ToSet(store') /\ store' \in Seq(PortIds)
    <3>1. store \in Seq(PortIds) /\ store # <<>>
      BY <1>11 DEF Save
    <3> QED
      BY <2>1, <3>1, HeldBy
  <2>3. UNCHANGED <<node, foreign, ifs, orphans, added>> /\ step = "save" /\ step' = "detach"
    BY <1>11 DEF Save
  <2>4. KnownIds = {Head(store)} \union KnownIds'
    BY <2>2, <2>3 DEF KnownIds
  <2>5. Head(store) \notin Ids(ifs \ foreign)
    BY <2>3 DEF Ids
  <2>6. Accounted'
    BY <2>3, <2>4, <2>5
  <2> QED
    BY <2>1, <2>2, <2>3, <2>6
<1>12. CASE StopCrash
  BY <1>12 DEF StopCrash, KnownIds
<1>13. CASE StopEnds
  <2>1. UNCHANGED <<given, ifs, orphans, added, store, todo>> /\ step = "detach" /\ step' = "stopped"
    BY <1>13 DEF StopEnds
  <2>2. KnownIds' = KnownIds
    BY <2>1 DEF KnownIds
  <2>3. Accounted'
    BY <2>1, <2>2
  <2> QED
    BY <1>13, <2>1, <2>3 DEF StopEnds
<1>14. CASE UNCHANGED nicsVars
  BY <1>14 DEF nicsVars, KnownIds
<1> QED
  BY <1>1, <1>2, <1>3, <1>4, <1>5, <1>6, <1>7, <1>8, <1>9, <1>10, <1>11,
     <1>12, <1>13, <1>14 DEF NicsNext

LEMMA NicsInvariant == NicsSpec => []NicsInv
BY NicsInitInv, NicsStepInv, PTL DEF NicsSpec

(***************************************************************************)
(* stop takes from an external server what create recorded and nothing     *)
(* else, over any number of interfaces, crashes and failed requests.       *)
(***************************************************************************)
THEOREM StopTakesItsOwn == NicsSpec => []InterfacesAccountedFor
<1>1. NicsInv => InterfacesAccountedFor
  <2> SUFFICES ASSUME NicsInv
               PROVE  InterfacesAccountedFor
    OBVIOUS
  <2>1. foreign \subseteq ifs
    BY DEF NicsInv, Accounted
  <2>2. ASSUME step = "stopped"
        PROVE  Ids(ifs \ foreign) = orphans
    <3>1. node.external /\ KnownIds = {}
      BY <2>2 DEF NicsInv, NicsTypeOK, RecordFits, KnownIds, ToSet
    <3> QED
      BY <3>1 DEF NicsInv, Accounted
  <2> QED
    BY <2>1, <2>2 DEF InterfacesAccountedFor, Ids
<1> QED
  BY <1>1, NicsInvariant, PTL

-----------------------------------------------------------------------------
(***************************************************************************)
(* The NICs that _remove_duplicated_nics_from_relationships makes of the   *)
(* related networks and ports.  Its loop is a recursive function over the  *)
(* length of the list, which exists (KeptExists), and every fact about it  *)
(* is by induction: a set of numbers that is not empty has a least one.    *)
(***************************************************************************)
LEMMA LeastOf ==
  ASSUME NEW T \in SUBSET Nat, T # {}
  PROVE  Min(T) \in T /\ \A y \in T : Min(T) <= y
<1>1. PICK x \in T : \A y \in T : ~(<<y, x>> \in OpToRel(<, Nat))
  BY WFMin, NatLessThanWellFounded
<1>2. \A y \in T : ~(y < x)
  BY <1>1, Zenon DEF OpToRel
<1>3. \A y \in T : x =< y
  BY <1>2
<1> QED
  BY <1>3 DEF Min

LEMMA GreatestOf ==
  ASSUME NEW n \in Nat, NEW T \in SUBSET (1..n), T # {}
  PROVE  Max(T) \in T
<1> DEFINE D == {n - i : i \in T}
<1>1. D \in SUBSET Nat /\ D # {}
  <2>1. \A i \in T : n - i \in Nat
    OBVIOUS
  <2> QED
    BY <2>1
<1>2. PICK x \in T : n - x = Min(D)
  BY <1>1, LeastOf
<1>3. \A y \in T : n - x <= n - y
  BY <1>1, <1>2, LeastOf
<1>4. \A y \in T : x >= y
  BY <1>3
<1> QED
  BY <1>4 DEF Max

\* What the blueprint says of the networks and ports of a server.
Targets == node.targets
NodeFits ==
  /\ Targets \in Seq(Nets \union Ports)
  /\ \A i, j \in DOMAIN Targets : i # j => Targets[i] # Targets[j]

\* The NIC of the i-th target.
Made(i) == MergedNic(PortFor(NicsFromRels), NicOf(Targets[i]))

LEMMA PortsFit ==
  ASSUME NodeFits
  PROVE  LET P == PortFor(NicsFromRels)
         IN /\ DOMAIN P = {n \in RelatedNets : \E p \in RelatedPorts : NetOf[p] = n}
            /\ \A n \in DOMAIN P : P[n] \in RelatedPorts /\ NetOf[P[n]] = n
<1> DEFINE on(n) == {i \in DOMAIN Targets : Targets[i] \in Ports /\ NetOf[Targets[i]] = n}
           nets == {n \in Nets : on(n) # {} /\ Contains(NicsFromRels, NetNic(n))}
<1>1. PortFor(NicsFromRels) = [n \in nets |-> Targets[Max(on(n))]]
  BY DEF PortFor, Targets
<1>2. DOMAIN Targets = 1..Len(Targets) /\ Len(Targets) \in Nat
  BY DEF NodeFits
<1>3. ASSUME NEW n \in Nets
      PROVE  Contains(NicsFromRels, NetNic(n)) <=> n \in RelatedNets
  <2>1. Len(NicsFromRels) = Len(Targets) /\ \A i \in 1..Len(Targets) : NicsFromRels[i] = NicOf(Targets[i])
    BY <1>2 DEF NicsFromRels, Targets
  <2>2. \A i \in 1..Len(Targets) : NicOf(Targets[i]) = NetNic(n) <=> Targets[i] = n
    BY <1>2, PortsAssumption DEF NodeFits, NicOf, NetNic, PortNic
  <2> QED
    BY <1>2, <2>1, <2>2 DEF Contains, RelatedNets, ToSet, Targets
<1>4. ASSUME NEW n \in Nets
      PROVE  on(n) # {} <=> \E p \in RelatedPorts : NetOf[p] = n
  BY DEF RelatedPorts, ToSet, Targets
<1>5. RelatedNets \subseteq Nets
  BY DEF RelatedNets
<1>6. nets = {n \in RelatedNets : \E p \in RelatedPorts : NetOf[p] = n}
  BY <1>3, <1>4, <1>5
<1>7. ASSUME NEW n \in nets
      PROVE  Targets[Max(on(n))] \in RelatedPorts /\ NetOf[Targets[Max(on(n))]] = n
  <2>1. on(n) \subseteq 1..Len(Targets) /\ on(n) # {}
    BY <1>2
  <2>2. Max(on(n)) \in on(n)
    BY <1>2, <2>1, GreatestOf
  <2> QED
    BY <2>2 DEF RelatedPorts, ToSet, Targets
<1> QED
  BY <1>1, <1>6, <1>7

(***************************************************************************)
(* A port stays in its NIC, which may come to name its network; a network  *)
(* stays alone, if no related port is on it, or joins one that is.  Two    *)
(* targets have the same NIC if one is named in that of the other.         *)
(***************************************************************************)
LEMMA MadeFits ==
  ASSUME NodeFits, NEW i \in DOMAIN Targets
  PROVE  /\ Made(i) \in Nics
         /\ Targets[i] \in Ports => Made(i).port = Targets[i]
         /\ Targets[i] \in Nets => Made(i).uuid = Targets[i]
         /\ Made(i).port = None =>
              /\ Made(i) = NetNic(Targets[i]) /\ Targets[i] \in RelatedNets
              /\ \A p \in RelatedPorts : NetOf[p] # Targets[i]
         /\ Made(i).port # None =>
              /\ Made(i).port \in RelatedPorts
              /\ Made(i).uuid \in {None, NetOf[Made(i).port]}
         /\ \A j \in DOMAIN Targets :
              /\ Made(i).port = Made(j).port /\ Made(i).port # None => Made(i) = Made(j)
              /\ Targets[j] \in {Made(i).uuid, Made(i).port} <=> Made(j) = Made(i)
<1> DEFINE P == PortFor(NicsFromRels)
<1> HIDE DEF P
<1>1. /\ DOMAIN P = {n \in RelatedNets : \E p \in RelatedPorts : NetOf[p] = n}
      /\ \A n \in DOMAIN P : P[n] \in RelatedPorts /\ NetOf[P[n]] = n
  BY PortsFit DEF P
<1>2. RelatedNets \subseteq Nets /\ RelatedPorts \subseteq Ports
  BY DEF RelatedNets, RelatedPorts
<1>3. ASSUME NEW j \in DOMAIN Targets, Targets[j] \in Ports
      PROVE  Made(j) = [uuid |-> IF \E n \in DOMAIN P : P[n] = Targets[j]
                                 THEN NetOf[Targets[j]] ELSE None,
                        port |-> Targets[j]]
  <2>1. NicOf(Targets[j]) = [uuid |-> None, port |-> Targets[j]]
    BY <1>3, PortsAssumption DEF NicOf, PortNic
  <2>2. None \notin DOMAIN P
    BY <1>1, <1>2, PortsAssumption
  <2> QED
    BY <2>1, <2>2 DEF Made, MergedNic, P
<1>4. ASSUME NEW j \in DOMAIN Targets, Targets[j] \in Nets
      PROVE  Made(j) = [uuid |-> Targets[j],
                        port |-> IF Targets[j] \in DOMAIN P THEN P[Targets[j]] ELSE None]
  <2>1. NicOf(Targets[j]) = [uuid |-> Targets[j], port |-> None]
    BY <1>4 DEF NicOf, NetNic
  <2>2. ~\E n \in DOMAIN P : P[n] = None
    BY <1>1, <1>2, PortsAssumption
  <2> QED
    BY <2>1, <2>2 DEF Made, MergedNic, P
<1>5. \A j \in DOMAIN Targets :
        \/ Targets[j] \in Ports /\ Targets[j] \in RelatedPorts /\ Targets[j] \notin Nets
        \/ Targets[j] \in Nets /\ Targets[j] \in RelatedNets /\ Targets[j] \notin Ports
  BY PortsAssumption DEF NodeFits, RelatedPorts, RelatedNets, ToSet, Targets
<1>6. \A j \in DOMAIN Targets : j # i => Targets[j] # Targets[i]
  BY DEF NodeFits
<1>7. \A p \in Ports : p # None /\ NetOf[p] \in Nets
  BY PortsAssumption
<1>8. \A n \in Nets : n # None
  BY PortsAssumption
<1>9. CASE Targets[i] \in Ports
  <2>1. Made(i) = [uuid |-> IF \E n \in DOMAIN P : P[n] = Targets[i]
                            THEN NetOf[Targets[i]] ELSE None,
                   port |-> Targets[i]]
    BY <1>3, <1>9
  <2>2. Made(i) \in Nics /\ Made(i).port = Targets[i] /\ Made(i).port # None
    BY <1>7, <1>9, <2>1 DEF Nics
  <2>3. /\ Made(i).uuid \in {None, NetOf[Targets[i]]}
        /\ Made(i).uuid # None => \E n \in DOMAIN P : P[n] = Targets[i]
        /\ (\E n \in DOMAIN P : P[n] = Targets[i]) => Made(i).uuid = NetOf[Targets[i]]
    BY <2>1
  <2>4. ASSUME NEW j \in DOMAIN Targets
        PROVE  /\ Made(i).port = Made(j).port /\ Made(i).port # None => Made(i) = Made(j)
               /\ Targets[j] \in {Made(i).uuid, Made(i).port} <=> Made(j) = Made(i)
    <3>1. CASE Targets[j] \in Ports
      BY <1>3, <1>5, <1>6, <1>7, <1>8, <1>9, <2>2, <2>3, <3>1
    <3>2. CASE Targets[j] \in Nets
      <4>1. Made(j) = [uuid |-> Targets[j],
                       port |-> IF Targets[j] \in DOMAIN P THEN P[Targets[j]] ELSE None]
        BY <1>4, <3>2
      <4>2. Targets[j] # Made(i).port
        BY <1>5, <1>9, <2>2, <3>2
      <4>3. ASSUME Made(j).port = Targets[i]
            PROVE  Made(i) = Made(j)
        <5>1. Targets[j] \in DOMAIN P /\ P[Targets[j]] = Targets[i]
          BY <1>7, <1>9, <4>1, <4>3
        <5>2. NetOf[Targets[i]] = Targets[j]
          BY <1>1, <5>1
        <5> QED
          BY <2>1, <4>1, <5>1, <5>2
      <4>4. ASSUME Targets[j] = Made(i).uuid
            PROVE  Made(i) = Made(j)
        <5>1. PICK n \in DOMAIN P : P[n] = Targets[i]
          BY <1>8, <2>3, <3>2, <4>4
        <5>2. n = NetOf[Targets[i]] /\ Targets[j] = n
          BY <1>1, <2>3, <4>4, <5>1
        <5> QED
          BY <2>1, <4>1, <5>1, <5>2
      <4>5. ASSUME Made(j) = Made(i)
            PROVE  Targets[j] = Made(i).uuid
        BY <4>1, <4>5
      <4> QED
        BY <2>2, <4>2, <4>3, <4>4, <4>5
    <3> QED
      BY <1>5, <3>1, <3>2
  <2> QED
    BY <1>5, <1>9, <2>2, <2>3, <2>4
<1>10. CASE Targets[i] \in Nets
  <2>1. Made(i) = [uuid |-> Targets[i],
                   port |-> IF Targets[i] \in DOMAIN P THEN P[Targets[i]] ELSE None]
    BY <1>4, <1>10
  <2>2. Made(i) \in Nics /\ Made(i).uuid = Targets[i]
    BY <1>1, <1>2, <1>10, <2>1 DEF Nics
  <2>3. CASE Made(i).port = None
    <3>1. Targets[i] \notin DOMAIN P
      BY <1>1, <1>2, <1>7, <2>1, <2>3
    <3>2. /\ Made(i) = NetNic(Targets[i]) /\ Targets[i] \in RelatedNets
          /\ \A p \in RelatedPorts : NetOf[p] # Targets[i]
      BY <1>1, <1>5, <1>10, <2>1, <3>1 DEF NetNic
    <3>3. ASSUME NEW j \in DOMAIN Targets
          PROVE  Targets[j] \in {Made(i).uuid, Made(i).port} <=> Made(j) = Made(i)
      <4>1. CASE Targets[j] \in Ports
        BY <1>3, <1>5, <1>7, <1>10, <2>1, <2>3, <4>1
      <4>2. CASE Targets[j] \in Nets
        BY <1>4, <1>6, <1>8, <2>1, <2>3, <4>2
      <4> QED
        BY <1>5, <4>1, <4>2
    <3> QED
      BY <1>5, <1>10, <2>2, <2>3, <3>2, <3>3
  <2>4. CASE Made(i).port # None
    <3>1. /\ Targets[i] \in DOMAIN P /\ Made(i).port = P[Targets[i]]
          /\ Made(i).port \in RelatedPorts /\ NetOf[Made(i).port] = Targets[i]
      BY <1>1, <2>1, <2>4
    <3>2. ASSUME NEW j \in DOMAIN Targets
          PROVE  /\ Made(i).port = Made(j).port => Made(i) = Made(j)
                 /\ Targets[j] \in {Made(i).uuid, Made(i).port} <=> Made(j) = Made(i)
      <4>1. CASE Targets[j] \in Ports
        BY <1>3, <1>5, <1>10, <2>1, <2>2, <3>1, <4>1
      <4>2. CASE Targets[j] \in Nets
        <5>1. Made(j) = [uuid |-> Targets[j],
                         port |-> IF Targets[j] \in DOMAIN P THEN P[Targets[j]] ELSE None]
          BY <1>4, <4>2
        <5>2. Targets[j] # Made(i).port
          BY <1>2, <1>5, <3>1, <4>2
        <5>3. ASSUME Made(i).port = Made(j).port
              PROVE  Targets[i] = Targets[j]
          BY <1>1, <2>4, <3>1, <5>1, <5>3
        <5> QED
          BY <1>6, <2>2, <5>1, <5>2, <5>3
      <4> QED
        BY <1>5, <4>1, <4>2
    <3> QED
      BY <1>5, <1>10, <2>2, <2>4, <3>1, <3>2
  <2> QED
    BY <2>3, <2>4
<1> QED
  BY <1>5, <1>9, <1>10

\* The loop over the first n NICs, as a function.
IsLoop(F, n) ==
  F = [i \in 0..n |-> IF i = 0 THEN <<>>
                      ELSE With(F[i - 1], MergedNic(PortFor(NicsFromRels), NicsFromRels[i]))]

LEMMA KeptExists == \A n \in Nat : \E F : IsLoop(F, n)
<1> DEFINE T == {n \in Nat : ~\E F : IsLoop(F, n)}
           nic(i) == MergedNic(PortFor(NicsFromRels), NicsFromRels[i])
<1> SUFFICES ASSUME T # {}
             PROVE  FALSE
  OBVIOUS
<1>1. PICK n \in T : \A m \in T : n <= m
  BY LeastOf
<1>2. CASE n = 0
  <2> DEFINE F == [i \in 0..0 |-> <<>>]
  <2>1. IsLoop(F, 0)
    BY DEF IsLoop
  <2> QED
    BY <1>1, <1>2, <2>1
<1>3. CASE n # 0
  <2>1. n - 1 \in Nat /\ n - 1 \notin T
    BY <1>1, <1>3
  <2>2. PICK F : IsLoop(F, n - 1)
    BY <2>1
  <2> DEFINE last == With(F[n - 1], nic(n))
             G == [i \in 0..n |-> IF i = n THEN last ELSE F[i]]
             H == [i \in 0..n |-> IF i = 0 THEN <<>> ELSE With(G[i - 1], nic(i))]
  <2> HIDE DEF last
  <2>3. ASSUME NEW i \in 0..n
        PROVE  G[i] = H[i]
    <3>1. CASE i = n
      <4>1. i # 0 /\ i - 1 \in 0..n /\ i - 1 # n
        BY <1>3, <3>1
      <4>2. G[i - 1] = F[i - 1] /\ G[i] = last
        BY <3>1, <4>1
      <4> QED
        BY <3>1, <4>1, <4>2 DEF last
    <3>2. CASE i # n
      <4>1. i \in 0..(n - 1) /\ G[i] = F[i]
        BY <3>2
      <4>2. i # 0 => i - 1 \in 0..n /\ i - 1 # n /\ G[i - 1] = F[i - 1]
        BY <4>1
      <4> QED
        BY <2>2, <4>1, <4>2 DEF IsLoop
    <3> QED
      BY <3>1, <3>2
  <2>4. G = H
    BY <2>3
  <2>5. IsLoop(G, n)
    BY <2>4 DEF IsLoop
  <2> QED
    BY <1>1, <2>5
<1> QED
  BY <1>2, <1>3

\* nics has the NICs of the first n targets, each once, and each where the
\* first of its targets is.
Lists(nics, n) ==
  /\ nics \in Seq(Nics)
  /\ \A k \in DOMAIN nics : \E i \in 1..n : nics[k] = Made(i)
  /\ \A i \in 1..n : \E k \in DOMAIN nics : nics[k] = Made(i)
  /\ \A k, l \in DOMAIN nics : k < l =>
       /\ nics[k] # nics[l]
       /\ \A j \in DOMAIN Targets : Made(j) = nics[l] =>
            \E i \in DOMAIN Targets : i < j /\ Made(i) = nics[k]

LEMMA WithOne ==
  ASSUME NodeFits, NEW n \in DOMAIN Targets, NEW nics, Lists(nics, n - 1)
  PROVE  Lists(With(nics, Made(n)), n)
<1> DEFINE new == With(nics, Made(n))
<1>1. n \in Nat /\ n >= 1 /\ DOMAIN Targets = 1..Len(Targets) /\ Len(Targets) \in Nat
  BY DEF NodeFits
<1>2. \A i \in 1..n : i \in 1..(n - 1) \/ i = n
  BY <1>1
<1>3. \A i \in 1..(n - 1) : i \in 1..n
  BY <1>1
<1>4. CASE Contains(nics, Made(n))
  <2>1. new = nics
    BY <1>4 DEF With
  <2>2. \E k \in DOMAIN nics : nics[k] = Made(n)
    BY <1>4 DEF Contains, Lists
  <2> QED
    BY <1>2, <1>3, <2>1, <2>2 DEF Lists
<1>5. CASE ~Contains(nics, Made(n))
  <2>1. new = Append(nics, Made(n)) /\ nics \in Seq(Nics) /\ Made(n) \in Nics
    BY <1>5, MadeFits DEF With, Lists
  <2>2. /\ new \in Seq(Nics) /\ Len(new) = Len(nics) + 1 /\ Len(nics) \in Nat
        /\ DOMAIN new = 1..(Len(nics) + 1) /\ DOMAIN nics = 1..Len(nics)
        /\ \A k \in 1..Len(nics) : new[k] = nics[k]
        /\ new[Len(nics) + 1] = Made(n)
    BY <2>1
  <2>3. \A k \in DOMAIN nics : k \in DOMAIN new
    BY <2>2
  <2>4. \A k \in DOMAIN new : k \in DOMAIN nics \/ k = Len(nics) + 1
    BY <2>2
  <2>5. \A k \in DOMAIN nics : nics[k] # Made(n)
    BY <1>5, <2>2 DEF Contains
  <2>6. \A k \in DOMAIN new : \E i \in 1..n : new[k] = Made(i)
    BY <1>1, <1>3, <2>2, <2>4 DEF Lists
  <2>7. \A i \in 1..n : \E k \in DOMAIN new : new[k] = Made(i)
    BY <1>2, <2>2, <2>3 DEF Lists
  <2>8. ASSUME NEW k \in DOMAIN new, NEW l \in DOMAIN new, k < l
        PROVE  /\ new[k] # new[l]
               /\ \A j \in DOMAIN Targets : Made(j) = new[l] =>
                    \E i \in DOMAIN Targets : i < j /\ Made(i) = new[k]
    <3>1. k \in DOMAIN nics
      BY <2>2, <2>8
    <3>2. CASE l \in DOMAIN nics
      BY <2>2, <2>8, <3>1, <3>2 DEF Lists
    <3>3. CASE l = Len(nics) + 1
      <4>1. new[l] = Made(n) /\ new[k] = nics[k]
        BY <2>2, <3>1, <3>3
      <4>2. PICK i \in 1..(n - 1) : nics[k] = Made(i)
        BY <3>1 DEF Lists
      <4>3. ASSUME NEW j \in DOMAIN Targets, Made(j) = Made(n)
            PROVE  j >= n
        <5>1. \A m \in 1..(n - 1) : Made(m) # Made(n)
          BY <2>5 DEF Lists
        <5> QED
          BY <1>1, <4>3, <5>1
      <4>4. i \in DOMAIN Targets /\ \A j \in DOMAIN Targets : j >= n => i < j
        BY <1>1
      <4> QED
        BY <2>5, <3>1, <4>1, <4>2, <4>3, <4>4
    <3> QED
      BY <2>4, <3>2, <3>3
  <2> QED
    BY <2>2, <2>6, <2>7, <2>8 DEF Lists
<1> QED
  BY <1>4, <1>5

\* What the function returns has all targets.
LEMMA MergedLists ==
  ASSUME NodeFits
  PROVE  Lists(Merged(NicsFromRels), Len(Targets))
<1> DEFINE P == PortFor(NicsFromRels)
           n == Len(Targets)
<1>1. n \in Nat /\ DOMAIN Targets = 1..n
  BY DEF NodeFits
<1>2. Len(NicsFromRels) = n /\ \A i \in 1..n : NicsFromRels[i] = NicOf(Targets[i])
  BY <1>1 DEF NicsFromRels, Targets
<1>3. CASE DOMAIN P = {}
  <2>1. Merged(NicsFromRels) = NicsFromRels
    BY <1>3 DEF Merged
  <2>2. \A i \in 1..n : NicsFromRels[i] = Made(i)
    BY <1>2, <1>3 DEF Made, MergedNic
  <2>3. NicsFromRels = [i \in 1..n |-> NicOf(Targets[i])]
    BY <1>1 DEF NicsFromRels, Targets
  <2>4. \A i \in 1..n : Made(i) \in Nics
    BY <1>1, MadeFits
  <2>5. NicsFromRels \in Seq(Nics) /\ DOMAIN NicsFromRels = 1..n
    BY <1>1, <2>2, <2>3, <2>4
  <2>6. \A i, j \in 1..n : Made(i) = Made(j) => i = j
    <3>1. \A i \in 1..n : Targets[i] \in {Made(i).uuid, Made(i).port} \ {None}
      BY <1>1, MadeFits, PortsAssumption DEF NodeFits
    <3>2. \A i \in 1..n : Made(i) = NicOf(Targets[i])
      BY <1>2, <2>2
    <3>3. \A i \in 1..n : Made(i).uuid = None \/ Made(i).port = None
      BY <3>2 DEF NicOf, NetNic, PortNic
    <3> QED
      BY <1>1, <3>1, <3>3 DEF NodeFits
  <2>7. ASSUME NEW k \in 1..n, NEW l \in 1..n, k < l
        PROVE  /\ Made(k) # Made(l)
               /\ \A j \in 1..n : Made(j) = Made(l) => k < j /\ Made(k) = Made(k)
    BY <2>6, <2>7
  <2> QED
    BY <1>1, <2>1, <2>2, <2>5, <2>7 DEF Lists
<1>4. CASE DOMAIN P # {}
  <2> DEFINE loop == CHOOSE F : IsLoop(F, n)
  <2>1. IsLoop(loop, n)
    BY <1>1, KeptExists
  <2>2. Merged(NicsFromRels) = loop[n]
    BY <1>2, <1>4 DEF Merged, IsLoop
  <2> HIDE DEF loop
  <2>3. loop[0] = <<>> /\ \A i \in 1..n : loop[i] = With(loop[i - 1], Made(i))
    BY <1>1, <1>2, <2>1 DEF IsLoop, Made
  <2> DEFINE T == {i \in 0..n : ~Lists(loop[i], i)}
  <2>4. ASSUME T # {}
        PROVE  FALSE
    <3>1. T \in SUBSET Nat
      BY <1>1
    <3>2. PICK m \in T : \A i \in T : m <= i
      BY <2>4, <3>1, LeastOf
    <3>3. m # 0
      <4>1. Lists(<<>>, 0)
        BY DEF Lists
      <4> QED
        BY <2>3, <3>2, <4>1
    <3>4. m - 1 \in 0..n /\ m - 1 \notin T /\ m \in 1..n
      BY <1>1, <3>2, <3>3
    <3>5. Lists(loop[m - 1], m - 1)
      BY <3>4
    <3>6. Lists(loop[m], m)
      BY <1>1, <2>3, <3>4, <3>5, WithOne
    <3> QED
      BY <3>2, <3>6
  <2>5. Lists(loop[n], n)
    BY <1>1, <2>4
  <2> QED
    BY <2>2, <2>5
<1> QED
  BY <1>3, <1>4

LEMMA NothingToClean ==
  ASSUME node.nics = <<>>, NEW rels
  PROVE  WithoutThoseOfNode(rels) = rels
<1> DEFINE It(F) == F = [s \in SUBSET {} |-> IF s = {} THEN rels
                            ELSE RemoveFirst(F[s \ {Max(s)}], node.nics[Max(s)])]
           iter == CHOOSE F : It(F)
<1>1. \E F : It(F)
  <2>1. It([s \in SUBSET {} |-> rels])
    OBVIOUS
  <2> QED
    BY <2>1
<1>2. It(iter)
  BY <1>1
<1>3. WithoutThoseOfNode(rels) = iter[{}]
  <2>1. DOMAIN node.nics = {}
    OBVIOUS
  <2> QED
    BY <2>1 DEF WithoutThoseOfNode, FoldLeft, MapThenFoldSet
<1> QED
  BY <1>2, <1>3

-----------------------------------------------------------------------------
(***************************************************************************)
(* What is requested for a new server is the list that was made of its     *)
(* targets, and stays so until its address is taken; its interfaces are on *)
(* the networks of the list.  On an external server, the NICs that are     *)
(* still to be attached lead where no interface is, if they are without a  *)
(* port; an interface of the plugin's own is on a network on which the     *)
(* node has no port.                                                       *)
(***************************************************************************)
NodeOK == NodeFits /\ (node.external => node.nics = <<>>)

NewServer ==
  ~node.external /\ ~node.compat /\ Targets # <<>> =>
    /\ step \in {"create", "requested", "active"} => ip = None
    /\ step \in {"requested", "active", "started"} =>
         /\ request = Merged(NicsFromRels)
         /\ networks = [i \in DOMAIN request |-> NetOfNic(request[i])]
    /\ step = "active" =>
         \A f \in ifs : \E i \in DOMAIN request : f.net = NetOfNic(request[i])
    /\ step = "started" => AddressAsAsked

ToAttach ==
  step = "attach" =>
    /\ todo \in Seq(Nics)
    /\ \A j \in DOMAIN todo :
         /\ \E i \in DOMAIN Targets : todo[j] = Made(i)
         /\ \A k \in DOMAIN todo : j < k => todo[j] # todo[k]
         /\ todo[j].port = None => \A f \in ifs : f.net # todo[j].uuid

\* Why f is on an external server.
Justified(f) ==
  \/ /\ f.id \in AutoPorts /\ f.net \in RelatedNets
     /\ \A p \in RelatedPorts : NetOf[p] # f.net
  \/ f.id \in RelatedPorts /\ f.net = NetOf[f.id]
OwnFits == node.external => \A f \in ifs \ foreign : Justified(f)

ListInv == NodeOK /\ NewServer /\ ToAttach /\ OwnFits /\ NoDoubleInterface

LEMMA ListInit == NicsInit => ListInv
<1> SUFFICES ASSUME NicsInit
             PROVE  ListInv
  OBVIOUS
<1>1. NodeOK
  <2>1. node.targets \in SeqWithoutRepeats(Nets \union Ports, MaxTargets)
    BY DEF NicsInit
  <2>2. PICK m \in 0..MaxTargets : node.targets \in [1..m -> Nets \union Ports]
    BY <2>1 DEF SeqWithoutRepeats, BoundedSeq, SeqOf
  <2>3. Targets \in Seq(Nets \union Ports)
    BY <2>2, LengthsAssumption DEF Targets
  <2>4. \A i, j \in DOMAIN Targets : i # j => Targets[i] # Targets[j]
    BY <2>1 DEF SeqWithoutRepeats, Targets
  <2>5. node.external => node.nics = <<>>
    BY DEF NicsInit
  <2> QED
    BY <2>3, <2>4, <2>5 DEF NodeOK, NodeFits
<1>2. step = "create" /\ ip = None /\ ifs = foreign
  BY DEF NicsInit
<1> QED
  BY <1>1, <1>2 DEF ListInv, NewServer, ToAttach, OwnFits, NoDoubleInterface

\* The list only depends on the node.
LEMMA SameNode ==
  ASSUME UNCHANGED node
  PROVE  /\ Targets' = Targets /\ NicsFromRels' = NicsFromRels
         /\ RelatedPorts' = RelatedPorts /\ RelatedNets' = RelatedNets
         /\ Merged(NicsFromRels)' = Merged(NicsFromRels)
         /\ NodeFits' = NodeFits
         /\ \A i : Made(i)' = Made(i)
BY DEF Targets, NicsFromRels, RelatedPorts, RelatedNets, Merged, PortFor, NodeFits, Made

\* The networks on which an address of a kind is listed.
Having(nets, A, version, sort) ==
  {i \in DOMAIN nets : AddressOn(nets[i], version, sort) \in A}

\* The first address of a kind that is listed, if there is one.
LEMMA FirstFits ==
  ASSUME NEW nets, DOMAIN nets \subseteq Nat, NEW A \in SUBSET Addresses,
         NEW version, NEW sort
  PROVE  /\ Having(nets, A, version, sort) = {} => FirstListed(nets, A, version, sort) = None
         /\ Having(nets, A, version, sort) # {} =>
              \E a \in A : /\ a = FirstListed(nets, A, version, sort)
                          /\ a # None /\ a.version = version /\ a.kind = sort
                          /\ \A j \in Having(nets, A, version, sort) :
                               \E i \in DOMAIN nets : i <= j /\ nets[i] = a.net
<1> DEFINE having == Having(nets, A, version, sort)
           a == FirstListed(nets, A, version, sort)
<1> USE DEF Having
<1>1. CASE having = {}
  BY <1>1 DEF FirstListed
<1>2. CASE having # {}
  <2>1. Min(having) \in having /\ \A j \in having : Min(having) <= j
    BY <1>2, LeastOf
  <2>2. a = AddressOn(nets[Min(having)], version, sort)
    BY <1>2 DEF FirstListed
  <2>3. a \in A /\ a.version = version /\ a.kind = sort /\ a.net = nets[Min(having)]
    BY <2>1, <2>2 DEF AddressOn
  <2>4. a # None
    BY <2>3, NoAddressAssumption
  <2> QED
    BY <1>2, <2>1, <2>3, <2>4
<1> QED
  BY <1>1, <1>2

(***************************************************************************)
(* The addresses of a server lead to its NICs, and the one that configure  *)
(* takes for ip is the first of the version and kind that is wanted.       *)
(***************************************************************************)
LEMMA ConfigureTakes ==
  ASSUME step = "active", ip = None, request \in Seq(Nics),
         networks = [i \in DOMAIN request |-> NetOfNic(request[i])],
         \A f \in ifs : \E i \in DOMAIN request : f.net = NetOfNic(request[i]),
         Configure
  PROVE  AddressAsAsked'
<1> DEFINE A == addresses'
           v4 == FirstListed(networks, A, 4, "fixed")
           v6 == FirstListed(networks, A, 6, "fixed")
           public == FirstListed(networks, A, 4, "floating")
           listed(version, sort) == \E a \in A : a.version = version /\ a.kind = sort
           first(a, version, sort) ==
             /\ a \in A /\ a # None /\ a.version = version /\ a.kind = sort
             /\ \A j \in DOMAIN request :
                  AddressOn(NetOfNic(request[j]), version, sort) \in A =>
                    \E i \in DOMAIN request : i <= j /\ NetOfNic(request[i]) = a.net
<1>1. /\ UNCHANGED <<node, request>> /\ A \in Listings /\ A \in SUBSET Addresses
      /\ ip' = AddressOf(networks, A)
  BY DEF Configure, given, Listings
<1>2. /\ DOMAIN networks = DOMAIN request /\ DOMAIN networks \subseteq Nat
      /\ \A i \in DOMAIN request : networks[i] = NetOfNic(request[i])
  OBVIOUS
<1>3. ASSUME NEW a \in A
      PROVE  /\ \E i \in DOMAIN networks : networks[i] = a.net
             /\ a = AddressOn(a.net, a.version, a.kind)
             /\ a.version \in {4, 6} /\ a.kind \in {"fixed", "floating"}
             /\ a.kind = "floating" => a.version = 4 /\ listed(4, "fixed")
  <2>1. /\ a \in Addresses /\ \E f \in ifs : f.net = a.net
        /\ a.kind = "floating" => a.version = 4 /\ AddressOn(a.net, 4, "fixed") \in A
    BY <1>1 DEF Listings
  <2>2. \E i \in DOMAIN networks : networks[i] = a.net
    BY <1>2, <2>1
  <2>3. a = AddressOn(a.net, a.version, a.kind) /\ a.version \in {4, 6}
        /\ a.kind \in {"fixed", "floating"}
    BY <2>1 DEF Addresses, AddressOn
  <2>4. a.kind = "floating" => listed(4, "fixed")
    BY <2>1 DEF AddressOn
  <2> QED
    BY <2>1, <2>2, <2>3, <2>4
<1>4. ASSUME NEW version, NEW sort, listed(version, sort)
      PROVE  first(FirstListed(networks, A, version, sort), version, sort)
  <2>1. PICK a \in A : a.version = version /\ a.kind = sort
    BY <1>4
  <2>2. Having(networks, A, version, sort) # {}
    <3>1. PICK i \in DOMAIN networks : networks[i] = a.net
      BY <1>3, <2>1
    <3>2. AddressOn(networks[i], version, sort) \in A
      BY <1>3, <2>1, <3>1
    <3> QED
      BY <3>2 DEF Having
  <2> DEFINE b == FirstListed(networks, A, version, sort)
  <2>3. /\ b \in A /\ b # None /\ b.version = version /\ b.kind = sort
        /\ \A j \in Having(networks, A, version, sort) :
             \E i \in DOMAIN networks : i <= j /\ networks[i] = b.net
    BY <1>1, <1>2, <2>2, FirstFits
  <2> QED
    BY <1>2, <2>3 DEF Having
<1>5. ASSUME NEW version, NEW sort, ~listed(version, sort)
      PROVE  FirstListed(networks, A, version, sort) = None
  <2>1. Having(networks, A, version, sort) = {}
    BY <1>5 DEF AddressOn, Having
  <2> QED
    BY <1>1, <1>2, <2>1, FirstFits
<1>6. /\ listed(4, "fixed") => first(v4, 4, "fixed")
      /\ ~listed(4, "fixed") => v4 = None
      /\ listed(6, "fixed") => first(v6, 6, "fixed")
      /\ ~listed(6, "fixed") => v6 = None
      /\ listed(4, "floating") => first(public, 4, "floating")
      /\ ~listed(4, "floating") => public = None
  BY <1>4, <1>5
<1>7. /\ listed(4, "floating") => listed(4, "fixed")
      /\ ~listed(4, "fixed") /\ ~listed(6, "fixed") => A = {}
  BY <1>3
<1>8. ip' = IF "public" \in node.use /\ public # None THEN public
            ELSE IF node.use = {"ipv6"} /\ v6 # None THEN v6
            ELSE IF v4 # None THEN v4 ELSE v6
  BY <1>1 DEF AddressOf
<1> DEFINE want(a) ==
      /\ a.kind = "floating" <=> "public" \in node.use /\ listed(4, "floating")
      /\ a.version = 6 <=> ~listed(4, "fixed") \/ (node.use = {"ipv6"} /\ listed(6, "fixed"))
<1> HIDE DEF v4, v6, public
<1>9. ASSUME A # {}
      PROVE  \E version, sort : first(ip', version, sort) /\ want(ip')
  <2> HIDE DEF A
  <2>1. CASE "public" \in node.use /\ listed(4, "floating")
    <3>1. first(ip', 4, "floating")
      BY <1>6, <1>8, <2>1
    <3>2. want(ip')
      BY <1>7, <2>1, <3>1
    <3> QED
      BY <3>1, <3>2
  <2>2. CASE ~("public" \in node.use /\ listed(4, "floating"))
    <3> DEFINE six == ~listed(4, "fixed") \/ (node.use = {"ipv6"} /\ listed(6, "fixed"))
    <3>1. six => first(ip', 6, "fixed")
      BY <1>6, <1>7, <1>8, <1>9, <2>2
    <3>2. ~six => first(ip', 4, "fixed")
      BY <1>6, <1>7, <1>8, <1>9, <2>2
    <3>3. want(ip')
      BY <2>2, <3>1, <3>2
    <3> QED
      BY <3>1, <3>2, <3>3
  <2> QED
    BY <2>1, <2>2
<1>10. ASSUME A = {}
       PROVE  ip' = None
  <2>1. \A version, sort : ~listed(version, sort)
    BY <1>10
  <2> QED
    BY <1>6, <1>8, <2>1
<1>11. \A version, sort : listed(version, sort) <=> IsListed(version, sort)'
  BY DEF IsListed
<1>12. CASE A = {}
  BY <1>10, <1>12, NoAddressAssumption DEF AddressAsAsked
<1>13. CASE A # {}
  <2>1. PICK version, sort : first(ip', version, sort) /\ want(ip')
    BY <1>9, <1>13
  <2>2. ip' # None /\ ip' \in A /\ A # {}
    BY <2>1
  <2>3. \A j \in DOMAIN request' :
          AddressOn(NetOfNic(request'[j]), ip'.version, ip'.kind) \in A =>
            \E i \in DOMAIN request' : i <= j /\ NetOfNic(request'[i]) = ip'.net
    BY <1>1, <2>1
  <2> QED
    BY <1>1, <1>11, <2>1, <2>2, <2>3 DEF AddressAsAsked
<1> QED
  BY <1>12, <1>13

LEMMA NewServerStep ==
  ASSUME NicsInv, ListInv, [NicsNext]_nicsVars
  PROVE  NewServer'
<1> SUFFICES ASSUME ~node.external, ~node.compat, Targets # <<>>, UNCHANGED node
             PROVE  NewServer'
  <2>1. UNCHANGED node
    BY DEF NicsNext, nicsVars, given, CreateRefused, Create, Boot, Configure, Validate,
           Attach, Record, CreateCrash, Stop, Detach, Save, StopCrash, StopEnds
  <2> QED
    BY <2>1, SameNode DEF NewServer
<1> USE SameNode DEF MoveTo, NewServer, ListInv
<1>1. CASE Create
  <2>1. node.nics = <<>>
    BY <1>1 DEF Create, NicsRefused, Targets
  <2>2. NodeFits
    BY DEF NodeOK
  <2>3. Merged(NicsFromRels) \in Seq(Nics)
    BY <2>2, MergedLists DEF Lists
  <2>4. RequestedNics = Merged(NicsFromRels)
    BY <2>1, <2>3, NothingToClean DEF RequestedNics
  <2>5. /\ request' = Merged(NicsFromRels) /\ ip' = ip /\ step = "create" /\ step' = "requested"
        /\ networks' = [i \in DOMAIN request' |-> NetOfNic(request'[i])]
    BY <1>1, <2>4 DEF Create
  <2> QED
    BY <2>5
<1>2. CASE Boot
  <2>1. UNCHANGED <<request, networks, ip>> /\ step = "requested"
    BY <1>2 DEF Boot
  <2>2. CASE step' = "active"
    <3>1. PICK made \in MadeFrom(request) : ifs' = ToSet(made)
      BY <1>2, <2>2 DEF Boot
    <3>2. /\ DOMAIN made = DOMAIN request
          /\ \A i \in DOMAIN request : made[i].net = NetOfNic(request[i])
      BY <3>1 DEF MadeFrom
    <3>3. \A f \in ifs' : \E i \in DOMAIN request : f = made[i]
      BY <3>1, <3>2 DEF ToSet
    <3> QED
      BY <2>1, <2>2, <3>2, <3>3
  <2> QED
    BY <1>2, <2>1, <2>2 DEF Boot
<1>3. CASE Configure
  <2>1. /\ UNCHANGED request /\ step = "active" /\ step' = "started"
        /\ UNCHANGED networks
    BY <1>3 DEF Configure
  <2>2. request \in Seq(Nics)
    <3>1. Lists(request, Len(Targets))
      BY <2>1, MergedLists DEF NodeOK
    <3> QED
      BY <3>1 DEF Lists
  <2>3. AddressAsAsked'
    BY <1>3, <2>2, ConfigureTakes DEF Configure
  <2> QED
    BY <2>1, <2>3
<1>4. CASE CreateRefused
  BY <1>4 DEF CreateRefused
<1>5. CASE UNCHANGED nicsVars
  BY <1>5 DEF nicsVars, given, AddressAsAsked, IsListed
<1> QED
  BY <1>1, <1>2, <1>3, <1>4, <1>5 DEF NicsNext, NicsInv, NicsTypeOK, Validate, Attach,
     Record, CreateCrash, Stop, Detach, Save, StopCrash, StopEnds

LEMMA NodeStep ==
  ASSUME [NicsNext]_nicsVars
  PROVE  UNCHANGED <<node, foreign>>
BY DEF NicsNext, nicsVars, given, CreateRefused, Create, Boot, Configure, Validate,
       Attach, Record, CreateCrash, Stop, Detach, Save, StopCrash, StopEnds

\* An interface for a NIC of the list, where there is none.
LEMMA AttachStep ==
  ASSUME NicsInv, ListInv, Attach, step' = "attach"
  PROVE  ToAttach' /\ OwnFits' /\ NoDoubleInterface'
<1> DEFINE nic == Head(todo)
<1>1. /\ step = "attach" /\ node.external /\ NodeFits /\ todo # <<>> /\ todo' = Tail(todo)
      /\ todo \in Seq(Nics) /\ UNCHANGED <<node, foreign>>
  BY DEF Attach, MoveTo, NicsInv, NicsTypeOK, ListInv, NodeOK, ToAttach, given
<1>2. PICK made \in MadeFrom(<<nic>>) : ifs' = ifs \union ToSet(made)
  BY DEF Attach, MoveTo
<1>3. PICK id : /\ id \in IF nic.port = None THEN AutoPorts ELSE {nic.port}
                /\ made = [i \in DOMAIN <<nic>> |-> [id |-> id, net |-> NetOfNic(<<nic>>[i])]]
                /\ \A f \in ifs : f.id # id
  <2> DEFINE T == DOMAIN <<nic>>
  <2>1. T = {1} /\ <<nic>>[1] = nic
    OBVIOUS
  <2>2. PICK ids : /\ \A i \in T : ids[i] \in IF <<nic>>[i].port = None THEN AutoPorts
                                             ELSE {<<nic>>[i].port}
                   /\ \A i \in T, f \in ifs : f.id # ids[i]
                   /\ made = [i \in T |-> [id |-> ids[i], net |-> NetOfNic(<<nic>>[i])]]
    BY <1>2 DEF MadeFrom
  <2>3. made = [i \in T |-> [id |-> ids[1], net |-> NetOfNic(<<nic>>[i])]]
    BY <2>1, <2>2
  <2> QED
    BY <2>1, <2>2, <2>3
<1> DEFINE new == [id |-> id, net |-> NetOfNic(nic)]
<1>4. ifs' = ifs \union {new}
  BY <1>2, <1>3 DEF ToSet
<1>5. /\ DOMAIN todo = 1..Len(todo) /\ Len(todo) \in Nat /\ nic = todo[1] /\ 1 \in DOMAIN todo
      /\ todo' \in Seq(Nics) /\ DOMAIN todo' = 1..(Len(todo) - 1)
      /\ \A j \in DOMAIN todo' : todo'[j] = todo[j + 1] /\ j + 1 \in DOMAIN todo /\ 1 < j + 1
  BY <1>1
<1>6. PICK i \in DOMAIN Targets : nic = Made(i)
  BY <1>1, <1>5 DEF ListInv, ToAttach
<1>7. /\ nic.port = None =>
           /\ nic = NetNic(Targets[i]) /\ Targets[i] \in RelatedNets
           /\ \A p \in RelatedPorts : NetOf[p] # Targets[i]
      /\ nic.port # None => nic.port \in RelatedPorts
  BY <1>1, <1>6, MadeFits
<1>8. CASE nic.port = None
  <2>1. new.id \in AutoPorts /\ new.net = nic.uuid /\ new.net = Targets[i]
    BY <1>3, <1>7, <1>8 DEF NetNic, NetOfNic
  <2>2. \A f \in ifs : f.net # new.net
    BY <1>1, <1>5, <1>8, <2>1 DEF ListInv, ToAttach
  <2>3. Justified(new)
    BY <1>7, <1>8, <2>1 DEF Justified
  <2>4. OwnFits'
    BY <1>1, <1>4, <2>3, SameNode DEF ListInv, OwnFits, Justified
  <2>5. NoDoubleInterface'
    BY <1>1, <1>4, <2>2 DEF ListInv, NoDoubleInterface
  <2>6. ASSUME NEW j \in DOMAIN todo', todo'[j].port = None
        PROVE  new.net # todo'[j].uuid
    <3>1. PICK k \in DOMAIN Targets : todo'[j] = Made(k)
      BY <1>1, <1>5 DEF ListInv, ToAttach
    <3>2. todo'[j] = NetNic(Targets[k])
      BY <1>1, <2>6, <3>1, MadeFits
    <3>3. todo'[j] # nic
      BY <1>1, <1>5 DEF ListInv, ToAttach
    <3> QED
      BY <1>7, <1>8, <2>1, <3>2, <3>3 DEF NetNic
  <2>7. ToAttach'
    BY <1>1, <1>4, <1>5, <2>6, SameNode DEF ListInv, ToAttach
  <2> QED
    BY <2>4, <2>5, <2>7
<1>9. CASE nic.port # None
  <2>1. new.id = nic.port /\ new.id \in RelatedPorts /\ new.net = NetOf[new.id]
    BY <1>3, <1>7, <1>9 DEF NetOfNic
  <2>2. new.id \notin AutoPorts
    BY <2>1, PortsAssumption DEF RelatedPorts
  <2>3. Justified(new)
    BY <2>1 DEF Justified
  <2>4. OwnFits'
    BY <1>1, <1>4, <2>3, SameNode DEF ListInv, OwnFits, Justified
  <2>5. \A f \in ifs \ foreign : f.id \in AutoPorts => f.net # new.net
    <3>1. \A f \in ifs \ foreign : Justified(f)
      BY <1>1 DEF ListInv, OwnFits
    <3>2. RelatedPorts \intersect AutoPorts = {}
      BY PortsAssumption DEF RelatedPorts
    <3> QED
      BY <2>1, <3>1, <3>2 DEF Justified
  <2>6. NoDoubleInterface'
    BY <1>1, <1>4, <2>2, <2>5 DEF ListInv, NoDoubleInterface
  <2>7. ASSUME NEW j \in DOMAIN todo', todo'[j].port = None
        PROVE  new.net # todo'[j].uuid
    <3>1. PICK k \in DOMAIN Targets : todo'[j] = Made(k)
      BY <1>1, <1>5 DEF ListInv, ToAttach
    <3>2. todo'[j] = NetNic(Targets[k]) /\ \A p \in RelatedPorts : NetOf[p] # Targets[k]
      BY <1>1, <2>7, <3>1, MadeFits
    <3> QED
      BY <2>1, <3>2 DEF NetNic
  <2>8. ToAttach'
    BY <1>1, <1>4, <1>5, <2>7, SameNode DEF ListInv, ToAttach
  <2> QED
    BY <2>4, <2>6, <2>8
<1> QED
  BY <1>8, <1>9

\* The validation has seen the interfaces that are there.
LEMMA ValidateStep ==
  ASSUME NicsInv, ListInv, Validate, step' = "attach"
  PROVE  ToAttach'
<1> DEFINE nics == Merged(NicsFromRels)
<1>1. todo' = nics /\ ~AlreadyConnected /\ UNCHANGED <<node, ifs>> /\ NodeFits
  BY DEF Validate, MoveTo, given, ListInv, NodeOK
<1>2. Lists(nics, Len(Targets)) /\ DOMAIN Targets = 1..Len(Targets)
  BY <1>1, MergedLists DEF NodeFits
<1>3. ASSUME NEW j \in DOMAIN nics
      PROVE  /\ \E i \in DOMAIN Targets : nics[j] = Made(i)
             /\ \A k \in DOMAIN nics : j < k => nics[j] # nics[k]
             /\ nics[j].port = None => \A f \in ifs : f.net # nics[j].uuid
  <2>1. PICK i \in DOMAIN Targets : nics[j] = Made(i)
    BY <1>2 DEF Lists
  <2>2. nics[j].port = None => nics[j] = NetNic(Targets[i]) /\ Targets[i] \in RelatedNets
    BY <1>1, <2>1, MadeFits
  <2>3. nics[j].port = None => nics[j].uuid \in RelatedNets
    BY <2>2 DEF NetNic
  <2>4. \A k \in DOMAIN nics : j < k => nics[j] # nics[k]
    BY <1>2 DEF Lists
  <2> QED
    BY <1>1, <2>1, <2>3, <2>4 DEF AlreadyConnected
<1>4. nics \in Seq(Nics)
  BY <1>2 DEF Lists
<1> HIDE DEF nics
<1> QED
  BY <1>1, <1>3, <1>4, SameNode DEF ToAttach

LEMMA ListStep == NicsInv /\ ListInv /\ [NicsNext]_nicsVars => ListInv'
<1> SUFFICES ASSUME NicsInv, ListInv, [NicsNext]_nicsVars
             PROVE  ListInv'
  OBVIOUS
<1>1. UNCHANGED <<node, foreign>>
  BY NodeStep
<1>2. NodeOK'
  BY <1>1, SameNode DEF ListInv, NodeOK
<1>3. NewServer'
  BY NewServerStep
<1>4. ASSUME step' # "attach", ifs' \subseteq ifs
      PROVE  ToAttach' /\ OwnFits' /\ NoDoubleInterface'
  BY <1>1, <1>4, SameNode DEF ListInv, ToAttach, OwnFits, Justified, NoDoubleInterface
<1>5. CASE Validate
  <2>1. CASE step' = "attach"
    <3>1. UNCHANGED ifs
      BY <1>5 DEF Validate
    <3>2. OwnFits' /\ NoDoubleInterface'
      BY <1>1, <3>1, SameNode DEF ListInv, OwnFits, Justified, NoDoubleInterface
    <3> QED
      BY <1>2, <1>3, <1>5, <2>1, <3>2, ValidateStep DEF ListInv
  <2>2. CASE step' # "attach"
    <3>1. UNCHANGED ifs
      BY <1>5 DEF Validate
    <3> QED
      BY <1>2, <1>3, <1>4, <2>2, <3>1 DEF ListInv
  <2> QED
    BY <2>1, <2>2
<1>6. CASE Attach
  <2>1. CASE step' = "attach"
    BY <1>2, <1>3, <1>6, <2>1, AttachStep DEF ListInv
  <2>2. CASE step' # "attach"
    <3>1. UNCHANGED ifs
      BY <1>6, <2>2 DEF Attach
    <3> QED
      BY <1>2, <1>3, <1>4, <2>2, <3>1 DEF ListInv
  <2> QED
    BY <2>1, <2>2
<1>7. CASE Boot
  <2>1. ~node.external /\ step' # "attach"
    BY <1>7 DEF Boot, MoveTo, NicsInv, NicsTypeOK
  <2> QED
    BY <1>1, <1>2, <1>3, <2>1 DEF ListInv, ToAttach, OwnFits, NoDoubleInterface
<1>8. CASE UNCHANGED nicsVars
  BY <1>2, <1>3, <1>8, SameNode DEF nicsVars, given, ListInv, ToAttach, OwnFits, Justified,
     NoDoubleInterface
<1>9. CASE \/ CreateRefused \/ Create \/ Configure \/ Record \/ CreateCrash \/ Stop
           \/ Detach \/ Save \/ StopCrash \/ StopEnds
  <2>1. step' # "attach" /\ ifs' \subseteq ifs
    BY <1>9 DEF CreateRefused, Create, Configure, Record, CreateCrash, Stop, Detach, Save,
       StopCrash, StopEnds, MoveTo
  <2> QED
    BY <1>2, <1>3, <1>4, <2>1 DEF ListInv
<1> QED
  BY <1>5, <1>6, <1>7, <1>8, <1>9 DEF NicsNext

LEMMA ListInvariant == NicsSpec => [](NicsInv /\ ListInv)
BY NicsInitInv, NicsStepInv, ListInit, ListStep, PTL DEF NicsSpec

(***************************************************************************)
(* An external server gets at most one interface of the plugin's making on *)
(* a network, however often create is cut short and executed again.        *)
(***************************************************************************)
THEOREM OneInterface == NicsSpec => []NoDoubleInterface
<1>1. ListInv => NoDoubleInterface
  BY DEF ListInv
<1> QED
  BY <1>1, ListInvariant, PTL

\* The place of a NIC is that of the first of its targets.
LEMMA FirstPlace ==
  ASSUME NodeFits, NEW i \in DOMAIN Targets
  PROVE  /\ Place(Made(i)) \in DOMAIN Targets /\ Made(Place(Made(i))) = Made(i)
         /\ \A j \in DOMAIN Targets : Made(j) = Made(i) => Place(Made(i)) <= j
<1> DEFINE same == {j \in DOMAIN Targets : Targets[j] \in {Made(i).uuid, Made(i).port}}
<1>1. \A j \in DOMAIN Targets : j \in same <=> Made(j) = Made(i)
  BY MadeFits
<1>2. same \in SUBSET Nat /\ same # {}
  BY <1>1 DEF NodeFits
<1>3. Min(same) \in same /\ \A j \in same : Min(same) <= j
  BY <1>2, LeastOf
<1>4. Place(Made(i)) = Min(same)
  BY DEF Place, Targets
<1> QED
  BY <1>1, <1>3, <1>4

(***************************************************************************)
(* The request for a new server serves every target, names no port twice,  *)
(* no network besides a port on it, and keeps the order of the blueprint;  *)
(* and ip shows the first listed address of the version and kind that the  *)
(* node and the listing call for.  This holds for any list of targets of a *)
(* node that is not of version 2, and for any listing.                     *)
(***************************************************************************)
THEOREM NicsServeTargets == NicsSpec => []NicsMatchTargets
<1>1. ASSUME ListInv
      PROVE  NicsMatchTargets
  <2> SUFFICES ASSUME step \in {"requested", "active", "started"}, ~node.external,
                      ~node.compat, Targets # <<>>
               PROVE  /\ \A i \in DOMAIN Targets :
                           \E j \in DOMAIN request : Serves(request[j], Targets[i])
                      /\ \A j, k \in DOMAIN request :
                           request[j].port = request[k].port /\ request[j].port # None
                             => j = k
                      /\ \A j \in DOMAIN request : request[j].port = None =>
                           \A k \in DOMAIN request \ {j} :
                             NetOfNic(request[k]) # request[j].uuid
                      /\ \A j, k \in DOMAIN request :
                           j < k => Place(request[j]) < Place(request[k])
                      /\ step = "started" => AddressAsAsked
    BY DEF NicsMatchTargets, Targets
  <2>1. /\ NodeFits /\ request = Merged(NicsFromRels)
        /\ step = "started" => AddressAsAsked
    BY <1>1 DEF ListInv, NodeOK, NewServer
  <2>2. Lists(request, Len(Targets))
    BY <2>1, MergedLists
  <2>3. DOMAIN Targets = 1..Len(Targets) /\ Len(Targets) \in Nat
    BY <2>1 DEF NodeFits
  <2>4. request \in Seq(Nics) /\ DOMAIN request = 1..Len(request) /\ Len(request) \in Nat
    BY <2>2 DEF Lists
  <2>5. \A j \in DOMAIN request : \E i \in DOMAIN Targets : request[j] = Made(i)
    BY <2>2, <2>3 DEF Lists
  <2>6. \A j, k \in DOMAIN request : j # k => request[j] # request[k]
    BY <2>2, <2>4 DEF Lists
  <2>7. ASSUME NEW i \in DOMAIN Targets
        PROVE  \E j \in DOMAIN request : Serves(request[j], Targets[i])
    <3>1. PICK j \in DOMAIN request : request[j] = Made(i)
      BY <2>2, <2>3 DEF Lists
    <3>2. Serves(Made(i), Targets[i])
      <4>1. CASE Targets[i] \in Ports
        BY <2>1, <4>1, MadeFits DEF Serves
      <4>2. CASE Targets[i] \notin Ports
        <5>1. Targets[i] \in Nets /\ Targets[i] # None
          BY <2>1, <4>2, PortsAssumption DEF NodeFits
        <5>2. Made(i).uuid = Targets[i]
          BY <2>1, <5>1, MadeFits
        <5>3. Made(i).port # None => Made(i).uuid = NetOf[Made(i).port]
          BY <2>1, <5>1, <5>2, MadeFits
        <5> QED
          BY <4>2, <5>2, <5>3 DEF Serves, NetOfNic
      <4> QED
        BY <4>1, <4>2
    <3> QED
      BY <3>1, <3>2
  <2>8. ASSUME NEW j \in DOMAIN request, NEW k \in DOMAIN request,
               request[j].port = request[k].port, request[j].port # None
        PROVE  j = k
    <3>1. PICK a \in DOMAIN Targets : request[j] = Made(a)
      BY <2>5
    <3>2. PICK b \in DOMAIN Targets : request[k] = Made(b)
      BY <2>5
    <3>3. Made(a) = Made(b)
      BY <2>1, <2>8, <3>1, <3>2, MadeFits
    <3> QED
      BY <2>6, <3>1, <3>2, <3>3
  <2>9. ASSUME NEW j \in DOMAIN request, request[j].port = None,
               NEW k \in DOMAIN request \ {j}
        PROVE  NetOfNic(request[k]) # request[j].uuid
    <3>1. PICK a \in DOMAIN Targets : request[j] = Made(a)
      BY <2>5
    <3>2. PICK b \in DOMAIN Targets : request[k] = Made(b)
      BY <2>5
    <3>3. Made(a) = NetNic(Targets[a]) /\ \A p \in RelatedPorts : NetOf[p] # Targets[a]
      BY <2>1, <2>9, <3>1, MadeFits
    <3>4. request[j].uuid = Targets[a]
      BY <3>1, <3>3 DEF NetNic
    <3>5. CASE request[k].port = None
      <4>1. Made(b) = NetNic(Targets[b])
        BY <2>1, <3>2, <3>5, MadeFits
      <4>2. request[k].uuid = Targets[b] /\ NetOfNic(request[k]) = Targets[b]
        BY <3>2, <3>5, <4>1 DEF NetNic, NetOfNic
      <4> QED
        BY <2>6, <3>1, <3>2, <3>3, <3>4, <4>1, <4>2
    <3>6. CASE request[k].port # None
      BY <2>1, <3>2, <3>3, <3>4, <3>6, MadeFits DEF NetOfNic
    <3> QED
      BY <3>5, <3>6
  <2>10. ASSUME NEW j \in DOMAIN request, NEW k \in DOMAIN request, j < k
         PROVE  Place(request[j]) < Place(request[k])
    <3>1. PICK a \in DOMAIN Targets : request[j] = Made(a)
      BY <2>5
    <3>2. PICK b \in DOMAIN Targets : request[k] = Made(b)
      BY <2>5
    <3> DEFINE pb == Place(Made(b))
    <3>3. pb \in DOMAIN Targets /\ Made(pb) = request[k]
      BY <2>1, <3>2, FirstPlace
    <3>4. PICK c \in DOMAIN Targets : c < pb /\ Made(c) = request[j]
      BY <2>2, <2>10, <3>3 DEF Lists
    <3>5. Place(Made(a)) \in DOMAIN Targets /\ Place(Made(a)) <= c
      BY <2>1, <3>1, <3>4, FirstPlace
    <3> QED
      BY <2>3, <3>1, <3>2, <3>3, <3>4, <3>5
  <2> QED
    BY <2>1, <2>7, <2>8, <2>9, <2>10
<1> QED
  BY <1>1, ListInvariant, PTL
=============================================================================
