-------------------------- MODULE VolumeTasksProofs --------------------------
(***************************************************************************)
(* Proofs about VolumeTasks, for any number of copies and names, and any   *)
(* number of faults.                                                       *)
(*                                                                         *)
(* What each attempt works on is a copy of the runtime properties, and it  *)
(* may die at any step.  The invariant says how the two and the storage    *)
(* service are related at each step (IdsFit), which copies an attempt may  *)
(* meet (NamedAreOwn, DeletesOwn), and that the copy being made stays what *)
(* it is (PendingIsMine).                                                  *)
(***************************************************************************)
EXTENDS VolumeTasks, TLAPS

USE NoneAssumption

Active == phase \notin {"idle", "begin", "waiting"}

\* Only the operation that has a step is at it.
PhaseFits ==
  /\ phase \in {"idle", "begin", "waiting", "create", "start", "copy", "copy_check",
                "restore", "list", "clean", "delete", "delete_check", "end"}
  /\ phase = "create" => op = "create"
  /\ phase = "start" => op = "start"
  /\ phase \in {"copy", "copy_check"} => op = "snapshot_create"
  /\ phase = "restore" => op = "snapshot_apply"
  /\ phase \in {"list", "clean"} => op \in {"snapshot_delete", "delete"}
  /\ phase \in {"delete", "delete_check"} => op = "delete"
  /\ phase = "copy_check" => rp[arg.kind] # None

\* A volume is deleted after its snapshots, and has none while it is created.
Creating == op = "create" /\ phase # "idle"
SnapshotsFirst ==
  volume \in {"absent", "deleting"} \/ Creating => \A c \in Copies : ~Own(c, "snapshot")

\* Without an id there is no volume and nothing else is known.
NoId(properties) == properties = Cleared /\ volume = "absent"
JustCreated == phase = "end" /\ op = "create" /\ result = "ok" /\ rp.id
IdsFit ==
  /\ ~store.id => store = Cleared /\ (volume = "absent" \/ JustCreated)
  /\ Active /\ ~rp.id => NoId(rp)
  /\ Active /\ phase # "end" => store = rp
  /\ phase = "end" /\ op = "delete" /\ result = "ok" => ~rp.id
  /\ Creating => inst = "uninitialized"
  /\ inst = "uninitialized" =>
       /\ ~store.id
       /\ phase # "idle" => Creating
       /\ phase = "end" /\ result # "ok" => ~rp.id

\* Only a create that was cut short leaves a volume that has no id.
OrphanFits == orphaned => ~NoFault({"crash"})

\* The copies of other volumes are not touched, and not to be deleted.
Bystanders ==
  \A c \in Copies : ~copies[c].own => copies[c].status \in {"available", "absent"}
NamedAreOwn ==
  phase # "idle" =>
    \A c \in Copies : Exists(c) /\ copies[c].name = arg.name => copies[c].own
DeletesOwn == \A c \in todo : Exists(c) => copies[c].own

\* A copy that was started by this operation is one that it was asked for.
Asked(c) == /\ copies[c] \in Copy /\ copies[c].own
            /\ copies[c].kind = arg.kind /\ copies[c].name = arg.name
            /\ copies[c].status # "deleting"
PendingIsMine ==
  fresh /\ op = "snapshot_create" /\ phase # "idle" =>
    /\ store[arg.kind] # None => Asked(store[arg.kind])
    /\ Active => rp[arg.kind] \in {None, store[arg.kind]}
    /\ Succeeded("snapshot_create") =>
         \E c \in Copies : Asked(c) /\ copies[c].status = "available"

Inv == /\ TypeOK /\ PhaseFits /\ SnapshotsFirst /\ IdsFit /\ OrphanFits
       /\ Bystanders /\ NamedAreOwn /\ DeletesOwn /\ PendingIsMine

-----------------------------------------------------------------------------
\* A fault is counted.
LEMMA FaultTyped ==
  ASSUME faults \in [FaultKinds -> Nat], NEW k \in FaultKinds, Fault(k)
  PROVE  faults' \in [FaultKinds -> Nat]
BY DEF Fault

\* What exists is a copy.
LEMMA ExistsIsCopy ==
  ASSUME TypeOK, NEW c \in Copies
  PROVE  /\ copies[c] \in Copy \/ copies[c] = Absent
         /\ Exists(c) => copies[c] \in Copy
         /\ copies[c].own => copies[c] \in Copy /\ Exists(c)
         /\ copies[c].status \in {"creating", "available", "error", "deleting"}
              => copies[c] \in Copy /\ Exists(c)
         /\ copies[c] \in Copy => copies[c].status # "absent" /\ Exists(c)
BY DEF TypeOK, Exists, Absent, Copy

\* The same copy, with another status.
Changed(x, y) == x \in Copy /\ y \in Copy
                 /\ y.own = x.own /\ y.kind = x.kind /\ y.name = x.name
AllBut(c) == /\ copies' \in [Copies -> Copy \union {Absent}]
             /\ \A d \in Copies : d # c => copies'[d] = copies[d]

LEMMA StatusChanges ==
  ASSUME TypeOK, NEW c \in Copies, copies[c] \in Copy,
         NEW s \in {"creating", "available", "error", "deleting"},
         copies' = [copies EXCEPT ![c].status = s]
  PROVE  AllBut(c) /\ Changed(copies[c], copies'[c]) /\ copies'[c].status = s
<1> DEFINE new == [copies[c] EXCEPT !.status = s]
<1>1. /\ new \in Copy /\ new.status = s
      /\ new.own = copies[c].own /\ new.kind = copies[c].kind /\ new.name = copies[c].name
  BY DEF Copy
<1>2. copies' = [copies EXCEPT ![c] = new]
  OBVIOUS
<1> HIDE DEF new
<1> QED
  BY <1>1, <1>2 DEF TypeOK, AllBut, Changed

\* A copy is made, or the request fails.
LEMMA CopyIsMade ==
  ASSUME TypeOK, MakeCopy
  PROVE  \/ /\ phase' = "end" /\ result' = "failed"
            /\ UNCHANGED <<copies, rp, store, faults>>
         \/ \E c \in Copies :
              /\ volume = "available" /\ AllBut(c)
              /\ copies[c] = Absent /\ copies'[c] \in Copy
              /\ copies'[c].own /\ copies'[c].status = "creating"
              /\ copies'[c].kind = arg.kind /\ copies'[c].name = arg.name
              /\ UNCHANGED result
              /\ \/ /\ phase' = "copy_check" /\ store' = rp' /\ UNCHANGED faults
                    /\ rp' = [rp EXCEPT ![arg.kind] = c]
                 \/ phase' = "begin" /\ Fault("crash") /\ UNCHANGED <<rp, store>>
<1>1. CASE volume = "available"
  <2>1. PICK c \in Copies :
          /\ ~Exists(c)
          /\ copies' = [copies EXCEPT ![c] =
                          [kind |-> arg.kind, name |-> arg.name,
                           own |-> TRUE, status |-> "creating"]]
          /\ \/ /\ rp' = [rp EXCEPT ![arg.kind] = c]
                /\ store' = rp'
                /\ Goto("copy_check") /\ UNCHANGED faults
             \/ Fault("crash") /\ Goto("begin") /\ UNCHANGED <<rp, store>>
    BY <1>1 DEF MakeCopy
  <2> DEFINE new == [kind |-> arg.kind, name |-> arg.name,
                     own |-> TRUE, status |-> "creating"]
  <2>2. /\ new \in Copy /\ new.own /\ new.status = "creating"
        /\ new.kind = arg.kind /\ new.name = arg.name
    BY DEF TypeOK, Copy
  <2>3. copies' = [copies EXCEPT ![c] = new]
    BY <2>1
  <2> HIDE DEF new
  <2>4. AllBut(c) /\ copies'[c] = new /\ copies[c] = Absent
    BY <2>1, <2>2, <2>3 DEF TypeOK, AllBut, Exists
  <2> QED
    BY <1>1, <2>1, <2>2, <2>4 DEF Goto
<1>2. CASE volume # "available"
  BY <1>2 DEF MakeCopy, End
<1> QED
  BY <1>1, <1>2

\* A copy that is being made or deleted settles.
LEMMA CopyHasSettled ==
  ASSUME TypeOK, CopySettles
  PROVE  \E c \in Copies :
           /\ AllBut(c) /\ copies[c] \in Copy
           /\ \/ /\ copies[c].status = "creating" /\ Changed(copies[c], copies'[c])
                 /\ copies'[c].status \in {"available", "error"}
              \/ copies[c].status = "deleting" /\ copies'[c] = Absent
<1>1. PICK c \in Copies :
        \/ copies[c].status = "creating" /\ copies' = [copies EXCEPT ![c].status = "available"]
        \/ copies[c].status = "deleting" /\ copies' = [copies EXCEPT ![c] = Absent]
        \/ copies[c].status = "creating" /\ copies' = [copies EXCEPT ![c].status = "error"]
  BY DEF CopySettles
<1>2. copies[c] \in Copy
  BY <1>1, ExistsIsCopy
<1>3. CASE copies' = [copies EXCEPT ![c] = Absent] /\ copies[c].status = "deleting"
  BY <1>2, <1>3 DEF TypeOK, AllBut
<1>4. ASSUME NEW s \in {"available", "error"}, copies[c].status = "creating",
             copies' = [copies EXCEPT ![c].status = s]
      PROVE  AllBut(c) /\ Changed(copies[c], copies'[c]) /\ copies'[c].status = s
  BY <1>2, <1>4, StatusChanges
<1> QED
  BY <1>1, <1>2, <1>3, <1>4

\* One of the copies to be deleted is, or the request fails or is ignored.
LEMMA CopyIsDeleted ==
  ASSUME TypeOK, DeleteCopy
  PROVE  /\ \/ copies' = copies
            \/ \E c \in todo : /\ AllBut(c) /\ Changed(copies[c], copies'[c])
                               /\ copies'[c].status = "deleting"
         /\ \/ phase' = "end" /\ result' = "failed"
            \/ phase' = "clean" /\ UNCHANGED result
         /\ todo' \subseteq todo
<1>1. PICK c \in todo :
        /\ todo' = todo \ {c}
        /\ CASE copies[c].status \in {"available", "error"} ->
                  copies' = [copies EXCEPT ![c].status = "deleting"] /\ Goto("clean")
             [] copies[c].status = "absent" -> End("failed") /\ UNCHANGED copies
             [] OTHER -> UNCHANGED copies /\ (End("failed") \/ Goto("clean"))
  BY DEF DeleteCopy
<1>2. CASE copies[c].status \in {"available", "error"}
  <2>1. c \in Copies /\ copies[c] \in Copy
    BY <1>2, ExistsIsCopy DEF TypeOK
  <2>2. copies' = [copies EXCEPT ![c].status = "deleting"] /\ Goto("clean")
    BY <1>1, <1>2
  <2> QED
    BY <1>1, <2>1, <2>2, StatusChanges DEF Goto, DeleteCopy
<1>3. CASE copies[c].status \notin {"available", "error"}
  BY <1>1, <1>3 DEF Goto, End, DeleteCopy
<1> QED
  BY <1>2, <1>3

\* Only the id of one kind changes.
LEMMA IdChanges ==
  ASSUME NEW p \in Properties, NEW k \in Kinds, NEW c \in Copies \union {None}
  PROVE  /\ [p EXCEPT ![k] = c] \in Properties
         /\ [p EXCEPT ![k] = c].id = p.id
         /\ [p EXCEPT ![k] = c][k] = c
<1>1. CASE k = "backup"
  BY <1>1 DEF Properties
<1>2. CASE k = "snapshot"
  BY <1>2 DEF Properties
<1> QED
  BY <1>1, <1>2 DEF Kinds

\* Only a flag changes.
LEMMA FlagChanges ==
  ASSUME NEW p \in Properties
  PROVE  /\ [p EXCEPT !.id = TRUE] \in Properties /\ [p EXCEPT !.id = TRUE].id
         /\ [p EXCEPT !.delete = TRUE] \in Properties
         /\ [p EXCEPT !.delete = TRUE].id = p.id
BY DEF Properties

\* Nothing is known when all is cleared.
LEMMA ClearedIsEmpty ==
  /\ Cleared \in Properties /\ ~Cleared.id
  /\ \A k \in Kinds : Cleared[k] = None
BY DEF Cleared, Properties, Kinds

-----------------------------------------------------------------------------
LEMMA TypeStep ==
  ASSUME TypeOK, PhaseFits, [Next]_vars
  PROVE  TypeOK'
<1>1. CASE Begin
  BY <1>1 DEF TypeOK, Begin, cloud
<1>2. CASE Enter
  BY <1>2 DEF TypeOK, Enter, cloud, call, End, Goto, EntryPhase
<1>3. CASE RequestRaises
  BY FaultTyped, <1>3 DEF TypeOK, RequestRaises, cloud, call, End, FaultKinds
<1>4. CASE Create
  BY FlagChanges, <1>4 DEF TypeOK, Create, call, End
<1>5. CASE Start
  BY <1>5 DEF TypeOK, Start, cloud, call, End, Ready, Ready
<1>6. CASE MakeCopy
  <2>1. arg.kind \in Kinds
    BY DEF TypeOK
  <2>2. rp' \in Properties /\ store' \in Properties
    BY <1>6, <2>1, CopyIsMade, IdChanges DEF TypeOK
  <2>3. copies' \in [Copies -> Copy \union {Absent}] /\ faults' \in [FaultKinds -> Nat]
    BY <1>6, CopyIsMade, FaultTyped DEF TypeOK, AllBut, FaultKinds
  <2>4. result' \in {"ok", "failed", "retry"}
    BY <1>6, CopyIsMade DEF TypeOK
  <2> QED
    BY <1>6, <2>2, <2>3, <2>4 DEF TypeOK, MakeCopy, call
<1>7. CASE MakeCopyRefused
  BY <1>7 DEF TypeOK, MakeCopyRefused, cloud, call, End
<1>8. CASE CopyAsked
  BY <1>8 DEF TypeOK, CopyAsked, cloud, call, Goto
<1>9. CASE CopyCheck
  <2>1. arg.kind \in Kinds
    BY DEF TypeOK
  <2>2. rp' \in Properties
    BY <1>9, <2>1, IdChanges DEF TypeOK, CopyCheck
  <2> QED
    BY <1>9, <2>2 DEF TypeOK, CopyCheck, Ready, End, cloud, call
<1>10. CASE Restore
  BY <1>10 DEF TypeOK, Restore, call, End
<1>11. CASE ListCopies
  <2>1. todo' \subseteq Copies
    BY <1>11 DEF ListCopies, Targets, Matched
  <2> QED
    BY <1>11, <2>1 DEF TypeOK, ListCopies, Goto, cloud, call
<1>12. CASE DeleteCopy
  <2>1. copies' \in [Copies -> Copy \union {Absent}]
    BY <1>12, CopyIsDeleted DEF TypeOK, AllBut
  <2> QED
    BY <1>12, <2>1, CopyIsDeleted DEF TypeOK, DeleteCopy, call
<1>13. CASE CheckCopies
  BY <1>13 DEF TypeOK, CheckCopies, cloud, call, End, Goto
<1>14. CASE DeleteVolume
  <2>1. rp' \in Properties /\ store' \in Properties
    BY <1>14, FlagChanges DEF TypeOK, DeleteVolume
  <2>2. faults' \in [FaultKinds -> Nat]
    BY <1>14, FaultTyped DEF TypeOK, DeleteVolume, FaultKinds
  <2>3. volume' \in {volume, "deleting"} /\ result' \in {result, "failed"}
    BY <1>14 DEF DeleteVolume, Goto, End
  <2> QED
    BY <1>14, <2>1, <2>2, <2>3 DEF TypeOK, DeleteVolume, call
<1>15. CASE DeleteCheck
  BY ClearedIsEmpty, <1>15 DEF TypeOK, DeleteCheck, cloud, call, End
<1>16. CASE Finish
  BY <1>16 DEF TypeOK, Finish, cloud
<1>17. CASE Retry
  BY <1>17 DEF TypeOK, Retry, cloud, call
<1>18. CASE GiveUp
  BY FaultTyped, <1>18 DEF TypeOK, GiveUp, cloud, call, FaultKinds
<1>19. CASE Crash
  BY FaultTyped, <1>19 DEF TypeOK, Crash, cloud, call, FaultKinds
<1>20. CASE VolumeSettles
  BY FaultTyped, <1>20 DEF TypeOK, VolumeSettles, call, attempt, FaultKinds
<1>21. CASE CopySettles
  <2>1. copies' \in [Copies -> Copy \union {Absent}]
    BY <1>21, CopyHasSettled DEF AllBut
  <2>2. faults' \in [FaultKinds -> Nat]
    BY <1>21, FaultTyped DEF TypeOK, CopySettles, FaultKinds
  <2> QED
    BY <1>21, <2>1, <2>2 DEF TypeOK, CopySettles, call, attempt
<1>22. CASE UNCHANGED vars
  BY <1>22 DEF TypeOK, vars, cloud, call, attempt
<1> QED
  BY <1>1, <1>2, <1>3, <1>4, <1>5, <1>6, <1>7, <1>8, <1>9, <1>10, <1>11, <1>12,
     <1>13, <1>14, <1>15, <1>16, <1>17, <1>18, <1>19, <1>20, <1>21, <1>22 DEF Next, Attempt

LEMMA PhaseStep ==
  ASSUME TypeOK, PhaseFits, [Next]_vars
  PROVE  PhaseFits'
<1>1. CASE Begin
  BY <1>1 DEF TypeOK, PhaseFits, Begin, cloud
<1>2. CASE Enter
  BY <1>2 DEF TypeOK, PhaseFits, Operations, Enter, EntryPhase, End, Goto, call
<1>3. CASE RequestRaises
  BY <1>3 DEF TypeOK, PhaseFits, RequestRaises, cloud, call, End
<1>4. CASE Create
  BY <1>4 DEF TypeOK, PhaseFits, Create, call, End
<1>5. CASE Start
  BY <1>5 DEF TypeOK, PhaseFits, Start, cloud, call, End
<1>6. CASE MakeCopy
  <2>1. arg.kind \in Kinds
    BY DEF TypeOK
  <2>2. phase' = "copy_check" => rp'[arg.kind] # None
    BY <1>6, <2>1, CopyIsMade, IdChanges DEF TypeOK
  <2>3. phase' \in {"copy_check", "begin", "end"}
    BY <1>6, CopyIsMade
  <2> QED
    BY <1>6, <2>2, <2>3 DEF PhaseFits, MakeCopy, call
<1>7. CASE MakeCopyRefused
  BY <1>7 DEF TypeOK, PhaseFits, MakeCopyRefused, cloud, call, End
<1>8. CASE CopyAsked
  BY <1>8 DEF TypeOK, PhaseFits, CopyAsked, cloud, call, Goto
<1>9. CASE CopyCheck
  BY <1>9 DEF TypeOK, PhaseFits, CopyCheck, cloud, call, End
<1>10. CASE Restore
  BY <1>10 DEF TypeOK, PhaseFits, Restore, call, End
<1>11. CASE ListCopies
  BY <1>11 DEF TypeOK, PhaseFits, ListCopies, cloud, call, Goto
<1>12. CASE DeleteCopy
  BY CopyIsDeleted, <1>12 DEF TypeOK, PhaseFits, DeleteCopy, call, End, Goto
<1>13. CASE CheckCopies
  BY <1>13 DEF TypeOK, PhaseFits, CheckCopies, cloud, call, End, Goto
<1>14. CASE DeleteVolume
  BY <1>14 DEF TypeOK, PhaseFits, DeleteVolume, call, End, Goto
<1>15. CASE DeleteCheck
  BY <1>15 DEF TypeOK, PhaseFits, DeleteCheck, cloud, call, End
<1>16. CASE Finish
  BY <1>16 DEF TypeOK, PhaseFits, Finish, cloud
<1>17. CASE Retry
  BY <1>17 DEF TypeOK, PhaseFits, Retry, cloud, call
<1>18. CASE GiveUp
  BY <1>18 DEF TypeOK, PhaseFits, GiveUp, cloud, call
<1>19. CASE Crash
  BY <1>19 DEF TypeOK, PhaseFits, Crash, cloud, call
<1>20. CASE VolumeSettles
  BY <1>20 DEF TypeOK, PhaseFits, VolumeSettles, call, attempt
<1>21. CASE CopySettles
  BY <1>21 DEF TypeOK, PhaseFits, CopySettles, call, attempt
<1>22. CASE UNCHANGED vars
  BY <1>22 DEF TypeOK, PhaseFits, vars, cloud, call, attempt
<1> QED
  BY <1>1, <1>2, <1>3, <1>4, <1>5, <1>6, <1>7, <1>8, <1>9, <1>10, <1>11, <1>12,
     <1>13, <1>14, <1>15, <1>16, <1>17, <1>18, <1>19, <1>20, <1>21, <1>22 DEF Next, Attempt

LEMMA SnapshotsStep ==
  ASSUME TypeOK, PhaseFits, IdsFit, SnapshotsFirst, [Next]_vars
  PROVE  SnapshotsFirst'
<1>1. CASE Begin
  BY <1>1 DEF SnapshotsFirst, Creating, IdsFit, JustCreated, Permitted, Own, Exists,
     Begin, cloud
<1>2. CASE Enter
  BY <1>2 DEF TypeOK, SnapshotsFirst, Creating, Own, Exists, Enter, cloud, call, End, Goto,
     EntryPhase
<1>3. CASE RequestRaises
  BY <1>3 DEF TypeOK, SnapshotsFirst, Creating, Own, Exists, RequestRaises, cloud, call, End
<1>4. CASE Create
  BY <1>4 DEF TypeOK, SnapshotsFirst, Creating, Own, Exists, Create, call, End
<1>5. CASE Start
  BY <1>5 DEF TypeOK, SnapshotsFirst, Creating, Own, Exists, Start, cloud, call, End
<1>6. CASE MakeCopy
  BY <1>6, CopyIsMade DEF PhaseFits, SnapshotsFirst, Creating, Own, Exists, MakeCopy,
     call
<1>7. CASE MakeCopyRefused
  BY <1>7 DEF TypeOK, SnapshotsFirst, Creating, Own, Exists, MakeCopyRefused, cloud, call, End
<1>8. CASE CopyAsked
  BY <1>8 DEF TypeOK, SnapshotsFirst, Creating, Own, Exists, CopyAsked, cloud, call, Goto
<1>9. CASE CopyCheck
  BY <1>9 DEF TypeOK, SnapshotsFirst, Creating, Own, Exists, CopyCheck, cloud, call, End
<1>10. CASE Restore
  BY <1>10 DEF TypeOK, SnapshotsFirst, Creating, Own, Exists, Restore, call, End
<1>11. CASE ListCopies
  BY <1>11 DEF TypeOK, SnapshotsFirst, Creating, Own, Exists, ListCopies, cloud, call, Goto
<1>12. CASE DeleteCopy
  <2>1. \A c \in Copies : Own(c, "snapshot")' => Own(c, "snapshot")
    BY <1>12, CopyIsDeleted, ExistsIsCopy DEF TypeOK, Own, Exists, AllBut, Changed
  <2> QED
    BY <1>12, <2>1 DEF PhaseFits, SnapshotsFirst, Creating, DeleteCopy, call
<1>13. CASE CheckCopies
  BY <1>13 DEF TypeOK, SnapshotsFirst, Creating, Own, Exists, CheckCopies, cloud, call, End,
     Goto
<1>14. CASE DeleteVolume
  BY <1>14 DEF TypeOK, SnapshotsFirst, Creating, Own, Exists, DeleteVolume, call, End, Goto,
     AcceptsDelete, AcceptsDelete
<1>15. CASE DeleteCheck
  BY <1>15 DEF TypeOK, SnapshotsFirst, Creating, Own, Exists, DeleteCheck, cloud, call, End
<1>16. CASE Finish
  BY <1>16 DEF TypeOK, SnapshotsFirst, Creating, Own, Exists, Finish, cloud
<1>17. CASE Retry
  BY <1>17 DEF TypeOK, SnapshotsFirst, Creating, Own, Exists, Retry, cloud, call
<1>18. CASE GiveUp
  BY <1>18 DEF TypeOK, SnapshotsFirst, Creating, Own, Exists, GiveUp, cloud, call
<1>19. CASE Crash
  BY <1>19 DEF TypeOK, SnapshotsFirst, Creating, Own, Exists, Crash, cloud, call
<1>20. CASE VolumeSettles
  BY <1>20 DEF TypeOK, SnapshotsFirst, Creating, Own, Exists, VolumeSettles, call, attempt
<1>21. CASE CopySettles
  <2>1. \A c \in Copies : Own(c, "snapshot")' => Own(c, "snapshot")
    BY <1>21, CopyHasSettled, ExistsIsCopy DEF Own, Exists, AllBut, Changed
  <2> QED
    BY <1>21, <2>1 DEF SnapshotsFirst, Creating, CopySettles, call, attempt
<1>22. CASE UNCHANGED vars
  BY <1>22 DEF TypeOK, SnapshotsFirst, Creating, Own, Exists, vars, cloud, call, attempt
<1> QED
  BY <1>1, <1>2, <1>3, <1>4, <1>5, <1>6, <1>7, <1>8, <1>9, <1>10, <1>11, <1>12,
     <1>13, <1>14, <1>15, <1>16, <1>17, <1>18, <1>19, <1>20, <1>21, <1>22 DEF Next, Attempt

LEMMA IdsStep ==
  ASSUME TypeOK, PhaseFits, IdsFit, [Next]_vars
  PROVE  IdsFit'
<1>1. CASE Begin
  BY <1>1 DEF TypeOK, PhaseFits, IdsFit, Creating, Active, NoId, JustCreated, Begin, cloud,
     Permitted, Permitted
<1>2. CASE Enter
  BY <1>2 DEF TypeOK, PhaseFits, IdsFit, Creating, Active, NoId, JustCreated, Enter, cloud,
     call, End, Goto, EntryPhase
<1>3. CASE RequestRaises
  BY <1>3 DEF TypeOK, PhaseFits, IdsFit, Creating, Active, NoId, JustCreated, RequestRaises,
     cloud, call, End
<1>4. CASE Create
  BY <1>4, FlagChanges DEF TypeOK, PhaseFits, IdsFit, Creating, Active, NoId, JustCreated,
     Create, End, call
<1>5. CASE Start
  BY <1>5 DEF TypeOK, PhaseFits, IdsFit, Creating, Active, NoId, JustCreated, Start, cloud,
     call, End
<1>6. CASE MakeCopy
  <2>1. arg.kind \in Kinds /\ op = "snapshot_create" /\ store = rp
    BY <1>6 DEF TypeOK, PhaseFits, IdsFit, Active, MakeCopy
  <2>2. volume = "available" => rp.id
    BY <1>6 DEF IdsFit, Creating, Active, NoId, MakeCopy
  <2>3. rp' = rp \/ (rp'.id = rp.id /\ volume = "available")
    <3> SUFFICES ASSUME rp' # rp
                 PROVE  rp'.id = rp.id /\ volume = "available"
      OBVIOUS
    <3>1. PICK c \in Copies : volume = "available" /\ rp' = [rp EXCEPT ![arg.kind] = c]
      BY <1>6, CopyIsMade
    <3> QED
      BY <2>1, <3>1, IdChanges DEF TypeOK
  <2>4. /\ store' = rp' /\ phase' \in {"end", "copy_check", "begin"}
        /\ phase' = "end" => rp' = rp
    BY <1>6, <2>1, CopyIsMade
  <2> QED
    BY <1>6, <2>1, <2>2, <2>3, <2>4 DEF PhaseFits, IdsFit, Creating, Active, NoId, JustCreated,
       MakeCopy, call
<1>7. CASE MakeCopyRefused
  BY <1>7 DEF TypeOK, PhaseFits, IdsFit, Creating, Active, NoId, JustCreated, MakeCopyRefused,
     cloud, call, End
<1>8. CASE CopyAsked
  BY <1>8 DEF TypeOK, PhaseFits, IdsFit, Creating, Active, NoId, JustCreated, CopyAsked, cloud,
     call, Goto
<1>9. CASE CopyCheck
  <2>1. arg.kind \in Kinds /\ op = "snapshot_create" /\ rp[arg.kind] # None
    BY <1>9 DEF TypeOK, PhaseFits, CopyCheck
  <2>2. rp.id /\ store = rp
    BY <1>9, <2>1, ClearedIsEmpty DEF IdsFit, Creating, Active, NoId, CopyCheck
  <2>3. rp'.id
    BY <1>9, <2>1, <2>2, IdChanges DEF TypeOK, CopyCheck
  <2> QED
    BY <1>9, <2>1, <2>2, <2>3 DEF PhaseFits, IdsFit, Creating, Active, NoId, JustCreated,
       CopyCheck, End, cloud, call
<1>10. CASE Restore
  BY <1>10 DEF TypeOK, PhaseFits, IdsFit, Creating, Active, NoId, JustCreated, Restore, call,
     End
<1>11. CASE ListCopies
  BY <1>11 DEF TypeOK, PhaseFits, IdsFit, Creating, Active, NoId, JustCreated, ListCopies,
     cloud, call, Goto
<1>12. CASE DeleteCopy
  BY <1>12 DEF TypeOK, PhaseFits, IdsFit, Creating, Active, NoId, JustCreated, DeleteCopy,
     call, End, Goto
<1>13. CASE CheckCopies
  BY <1>13 DEF TypeOK, PhaseFits, IdsFit, Creating, Active, NoId, JustCreated, CheckCopies,
     cloud, call, End, Goto
<1>14. CASE DeleteVolume
  <2>1. op = "delete" /\ store = rp
    BY <1>14 DEF PhaseFits, IdsFit, Active, DeleteVolume
  <2>2. CASE rp.delete
    BY <1>14, <2>1, <2>2 DEF PhaseFits, IdsFit, Creating, Active, NoId, JustCreated,
       DeleteVolume, Goto, call
  <2>3. CASE ~rp.delete /\ AcceptsDelete
    <3>1. rp.id
      BY <1>14, <2>3 DEF IdsFit, Creating, Active, NoId, DeleteVolume, AcceptsDelete
    <3>2. rp'.id /\ store'.id /\ phase' \in {"delete_check", "begin"}
      BY <1>14, <2>1, <2>3, <3>1, FlagChanges DEF TypeOK, DeleteVolume, Goto
    <3>3. phase' = "delete_check" => store' = rp'
      BY <1>14, <2>3 DEF DeleteVolume, Goto
    <3> QED
      BY <1>14, <2>1, <2>3, <3>1, <3>2, <3>3 DEF PhaseFits, IdsFit, Creating, Active, NoId,
         JustCreated, DeleteVolume, call
  <2>4. CASE ~rp.delete /\ ~AcceptsDelete
    BY <1>14, <2>1, <2>4 DEF PhaseFits, IdsFit, Creating, Active, NoId, JustCreated,
       DeleteVolume, End, call
  <2> QED
    BY <2>2, <2>3, <2>4
<1>15. CASE DeleteCheck
  <2>1. op = "delete" /\ store = rp
    BY <1>15 DEF PhaseFits, IdsFit, Active, DeleteCheck
  <2> QED
    BY <1>15, <2>1, ClearedIsEmpty DEF PhaseFits, IdsFit, Creating, Active, NoId, JustCreated,
       DeleteCheck, End, cloud, call
<1>16. CASE Finish
  BY <1>16 DEF TypeOK, PhaseFits, IdsFit, Creating, Active, NoId, JustCreated, Finish, cloud
<1>17. CASE Retry
  BY <1>17 DEF TypeOK, PhaseFits, IdsFit, Creating, Active, NoId, JustCreated, Retry, cloud,
     call
<1>18. CASE GiveUp
  BY <1>18 DEF TypeOK, PhaseFits, IdsFit, Creating, Active, NoId, JustCreated, GiveUp, cloud,
     call
<1>19. CASE Crash
  BY <1>19 DEF TypeOK, PhaseFits, IdsFit, Creating, Active, NoId, JustCreated, Crash, cloud,
     call
<1>20. CASE VolumeSettles
  BY <1>20 DEF TypeOK, PhaseFits, IdsFit, Creating, Active, NoId, JustCreated, VolumeSettles,
     call, attempt
<1>21. CASE CopySettles
  BY <1>21 DEF TypeOK, PhaseFits, IdsFit, Creating, Active, NoId, JustCreated, CopySettles,
     call, attempt
<1>22. CASE UNCHANGED vars
  BY <1>22 DEF TypeOK, PhaseFits, IdsFit, Creating, Active, NoId, JustCreated, vars, cloud,
     call, attempt
<1> QED
  BY <1>1, <1>2, <1>3, <1>4, <1>5, <1>6, <1>7, <1>8, <1>9, <1>10, <1>11, <1>12,
     <1>13, <1>14, <1>15, <1>16, <1>17, <1>18, <1>19, <1>20, <1>21, <1>22 DEF Next, Attempt

LEMMA BystandersStep ==
  ASSUME TypeOK, Bystanders, DeletesOwn, [Next]_vars
  PROVE  Bystanders'
<1>1. CASE Begin
  BY <1>1 DEF TypeOK, Bystanders, Begin, cloud
<1>2. CASE Enter
  BY <1>2 DEF TypeOK, Bystanders, Enter, cloud, call, End, Goto, EntryPhase
<1>3. CASE RequestRaises
  BY <1>3 DEF TypeOK, Bystanders, RequestRaises, cloud, call, End
<1>4. CASE Create
  BY <1>4 DEF TypeOK, Bystanders, Create, call, End
<1>5. CASE Start
  BY <1>5 DEF TypeOK, Bystanders, Start, cloud, call, End
<1>6. CASE MakeCopy
  BY <1>6, CopyIsMade DEF Bystanders, AllBut
<1>7. CASE MakeCopyRefused
  BY <1>7 DEF TypeOK, Bystanders, MakeCopyRefused, cloud, call, End
<1>8. CASE CopyAsked
  BY <1>8 DEF TypeOK, Bystanders, CopyAsked, cloud, call, Goto
<1>9. CASE CopyCheck
  BY <1>9 DEF TypeOK, Bystanders, CopyCheck, cloud, call, End
<1>10. CASE Restore
  BY <1>10 DEF TypeOK, Bystanders, Restore, call, End
<1>11. CASE ListCopies
  BY <1>11 DEF TypeOK, Bystanders, ListCopies, cloud, call, Goto
<1>12. CASE DeleteCopy
  BY <1>12, CopyIsDeleted, ExistsIsCopy DEF TypeOK, Bystanders, DeletesOwn, AllBut,
     Changed
<1>13. CASE CheckCopies
  BY <1>13 DEF TypeOK, Bystanders, CheckCopies, cloud, call, End, Goto
<1>14. CASE DeleteVolume
  BY <1>14 DEF TypeOK, Bystanders, DeleteVolume, call, End, Goto
<1>15. CASE DeleteCheck
  BY <1>15 DEF TypeOK, Bystanders, DeleteCheck, cloud, call, End
<1>16. CASE Finish
  BY <1>16 DEF TypeOK, Bystanders, Finish, cloud
<1>17. CASE Retry
  BY <1>17 DEF TypeOK, Bystanders, Retry, cloud, call
<1>18. CASE GiveUp
  BY <1>18 DEF TypeOK, Bystanders, GiveUp, cloud, call
<1>19. CASE Crash
  BY <1>19 DEF TypeOK, Bystanders, Crash, cloud, call
<1>20. CASE VolumeSettles
  BY <1>20 DEF TypeOK, Bystanders, VolumeSettles, call, attempt
<1>21. CASE CopySettles
  BY <1>21, CopyHasSettled DEF Bystanders, AllBut, Changed, Absent
<1>22. CASE UNCHANGED vars
  BY <1>22 DEF TypeOK, Bystanders, vars, cloud, call, attempt
<1> QED
  BY <1>1, <1>2, <1>3, <1>4, <1>5, <1>6, <1>7, <1>8, <1>9, <1>10, <1>11, <1>12,
     <1>13, <1>14, <1>15, <1>16, <1>17, <1>18, <1>19, <1>20, <1>21, <1>22 DEF Next, Attempt

LEMMA NamedStep ==
  ASSUME TypeOK, PhaseFits, NamedAreOwn, [Next]_vars
  PROVE  NamedAreOwn'
<1>1. CASE Begin
  BY <1>1 DEF TypeOK, NamedAreOwn, Exists, Begin, cloud
<1>2. CASE Enter
  BY <1>2 DEF TypeOK, NamedAreOwn, Exists, Enter, cloud, call, End, Goto, EntryPhase
<1>3. CASE RequestRaises
  BY <1>3 DEF TypeOK, NamedAreOwn, Exists, RequestRaises, cloud, call, End
<1>4. CASE Create
  BY <1>4 DEF TypeOK, NamedAreOwn, Exists, Create, call, End
<1>5. CASE Start
  BY <1>5 DEF TypeOK, NamedAreOwn, Exists, Start, cloud, call, End
<1>6. CASE MakeCopy
  BY <1>6, CopyIsMade DEF NamedAreOwn, Exists, AllBut, MakeCopy, call
<1>7. CASE MakeCopyRefused
  BY <1>7 DEF TypeOK, NamedAreOwn, Exists, MakeCopyRefused, cloud, call, End
<1>8. CASE CopyAsked
  BY <1>8 DEF TypeOK, NamedAreOwn, Exists, CopyAsked, cloud, call, Goto
<1>9. CASE CopyCheck
  BY <1>9 DEF TypeOK, NamedAreOwn, Exists, CopyCheck, cloud, call, End
<1>10. CASE Restore
  BY <1>10 DEF TypeOK, NamedAreOwn, Exists, Restore, call, End
<1>11. CASE ListCopies
  BY <1>11 DEF TypeOK, NamedAreOwn, Exists, ListCopies, cloud, call, Goto
<1>12. CASE DeleteCopy
  <2>1. \A c \in Copies : Exists(c)' => Exists(c) /\ copies'[c].name = copies[c].name
                                            /\ copies'[c].own = copies[c].own
    BY <1>12, CopyIsDeleted, ExistsIsCopy DEF TypeOK, Exists, AllBut, Changed
  <2> QED
    BY <1>12, <2>1 DEF NamedAreOwn, DeleteCopy, call
<1>13. CASE CheckCopies
  BY <1>13 DEF TypeOK, NamedAreOwn, Exists, CheckCopies, cloud, call, End, Goto
<1>14. CASE DeleteVolume
  BY <1>14 DEF TypeOK, NamedAreOwn, Exists, DeleteVolume, call, End, Goto
<1>15. CASE DeleteCheck
  BY <1>15 DEF TypeOK, NamedAreOwn, Exists, DeleteCheck, cloud, call, End
<1>16. CASE Finish
  BY <1>16 DEF TypeOK, NamedAreOwn, Exists, Finish, cloud
<1>17. CASE Retry
  BY <1>17 DEF TypeOK, NamedAreOwn, Exists, Retry, cloud, call
<1>18. CASE GiveUp
  BY <1>18 DEF TypeOK, NamedAreOwn, Exists, GiveUp, cloud, call
<1>19. CASE Crash
  BY <1>19 DEF TypeOK, NamedAreOwn, Exists, Crash, cloud, call
<1>20. CASE VolumeSettles
  BY <1>20 DEF TypeOK, NamedAreOwn, Exists, VolumeSettles, call, attempt
<1>21. CASE CopySettles
  <2>1. \A c \in Copies : Exists(c)' => Exists(c) /\ copies'[c].name = copies[c].name
                                            /\ copies'[c].own = copies[c].own
    BY <1>21, CopyHasSettled, ExistsIsCopy DEF Exists, AllBut, Changed
  <2> QED
    BY <1>21, <2>1 DEF NamedAreOwn, CopySettles, call, attempt
<1>22. CASE UNCHANGED vars
  BY <1>22 DEF TypeOK, NamedAreOwn, Exists, vars, cloud, call, attempt
<1> QED
  BY <1>1, <1>2, <1>3, <1>4, <1>5, <1>6, <1>7, <1>8, <1>9, <1>10, <1>11, <1>12,
     <1>13, <1>14, <1>15, <1>16, <1>17, <1>18, <1>19, <1>20, <1>21, <1>22 DEF Next, Attempt

LEMMA DeletesStep ==
  ASSUME TypeOK, NamedAreOwn, DeletesOwn, [Next]_vars
  PROVE  DeletesOwn'
<1>1. CASE Begin
  BY <1>1 DEF TypeOK, DeletesOwn, Exists, Begin, cloud
<1>2. CASE Enter
  BY <1>2 DEF TypeOK, DeletesOwn, Exists, Enter, cloud, call, End, Goto, EntryPhase
<1>3. CASE RequestRaises
  BY <1>3 DEF TypeOK, DeletesOwn, Exists, RequestRaises, cloud, call, End
<1>4. CASE Create
  BY <1>4 DEF TypeOK, DeletesOwn, Exists, Create, call, End
<1>5. CASE Start
  BY <1>5 DEF TypeOK, DeletesOwn, Exists, Start, cloud, call, End
<1>6. CASE MakeCopy
  BY <1>6, CopyIsMade DEF TypeOK, DeletesOwn, Exists, AllBut, MakeCopy
<1>7. CASE MakeCopyRefused
  BY <1>7 DEF TypeOK, DeletesOwn, Exists, MakeCopyRefused, cloud, call, End
<1>8. CASE CopyAsked
  BY <1>8 DEF TypeOK, DeletesOwn, Exists, CopyAsked, cloud, call, Goto
<1>9. CASE CopyCheck
  BY <1>9 DEF TypeOK, DeletesOwn, Exists, CopyCheck, cloud, call, End
<1>10. CASE Restore
  BY <1>10 DEF TypeOK, DeletesOwn, Exists, Restore, call, End
<1>11. CASE ListCopies
  BY <1>11 DEF NamedAreOwn, DeletesOwn, Exists, ListCopies, Targets, Matched, cloud
<1>12. CASE DeleteCopy
  <2>1. \A c \in Copies : Exists(c)' => Exists(c) /\ copies'[c].own = copies[c].own
    BY <1>12, CopyIsDeleted, ExistsIsCopy DEF TypeOK, Exists, AllBut, Changed
  <2> QED
    BY <1>12, <2>1, CopyIsDeleted DEF TypeOK, DeletesOwn
<1>13. CASE CheckCopies
  BY <1>13 DEF TypeOK, DeletesOwn, Exists, CheckCopies, cloud, call, End, Goto
<1>14. CASE DeleteVolume
  BY <1>14 DEF TypeOK, DeletesOwn, Exists, DeleteVolume, call, End, Goto
<1>15. CASE DeleteCheck
  BY <1>15 DEF TypeOK, DeletesOwn, Exists, DeleteCheck, cloud, call, End
<1>16. CASE Finish
  BY <1>16 DEF TypeOK, DeletesOwn, Exists, Finish, cloud
<1>17. CASE Retry
  BY <1>17 DEF TypeOK, DeletesOwn, Exists, Retry, cloud, call
<1>18. CASE GiveUp
  BY <1>18 DEF TypeOK, DeletesOwn, Exists, GiveUp, cloud, call
<1>19. CASE Crash
  BY <1>19 DEF TypeOK, DeletesOwn, Exists, Crash, cloud, call
<1>20. CASE VolumeSettles
  BY <1>20 DEF TypeOK, DeletesOwn, Exists, VolumeSettles, call, attempt
<1>21. CASE CopySettles
  <2>1. \A c \in Copies : Exists(c)' => Exists(c) /\ copies'[c].own = copies[c].own
    BY <1>21, CopyHasSettled, ExistsIsCopy DEF Exists, AllBut, Changed
  <2> QED
    BY <1>21, <2>1 DEF TypeOK, DeletesOwn, CopySettles, attempt
<1>22. CASE UNCHANGED vars
  BY <1>22 DEF TypeOK, DeletesOwn, Exists, vars, cloud, call, attempt
<1> QED
  BY <1>1, <1>2, <1>3, <1>4, <1>5, <1>6, <1>7, <1>8, <1>9, <1>10, <1>11, <1>12,
     <1>13, <1>14, <1>15, <1>16, <1>17, <1>18, <1>19, <1>20, <1>21, <1>22 DEF Next, Attempt

LEMMA PendingStep ==
  ASSUME TypeOK, PhaseFits, IdsFit, PendingIsMine, [Next]_vars
  PROVE  PendingIsMine'
<1>1. CASE Begin
  BY <1>1 DEF TypeOK, PendingIsMine, Asked, Succeeded, Active, Begin, cloud
<1>2. CASE Enter
  BY <1>2 DEF TypeOK, PendingIsMine, Asked, Succeeded, Active, Enter, cloud, call,
     End, Goto, EntryPhase, EntryPhase
<1>3. CASE RequestRaises
  BY <1>3 DEF TypeOK, PendingIsMine, Asked, Succeeded, Active, RequestRaises, cloud,
     call, End
<1>4. CASE Create
  BY <1>4 DEF PhaseFits, PendingIsMine, Create, call, End
<1>5. CASE Start
  BY <1>5 DEF PhaseFits, PendingIsMine, Start, cloud, call, End
<1>6. CASE MakeCopy
  <2> SUFFICES ASSUME fresh
               PROVE  PendingIsMine'
    BY <1>6 DEF PendingIsMine, MakeCopy, call
  <2>1. arg.kind \in Kinds /\ op = "snapshot_create" /\ store = rp
    BY <1>6 DEF TypeOK, PhaseFits, IdsFit, Active, MakeCopy
  <2>2. CASE phase' = "end"
    BY <1>6, <2>1, <2>2, CopyIsMade DEF PendingIsMine, Asked, Succeeded, Active,
       MakeCopy, call
  <2>3. CASE phase' # "end"
    <3>1. PICK c \in Copies :
            /\ AllBut(c) /\ copies'[c] \in Copy
            /\ copies'[c].own /\ copies'[c].status = "creating"
            /\ copies'[c].kind = arg.kind /\ copies'[c].name = arg.name
            /\ \/ store' = rp' /\ rp' = [rp EXCEPT ![arg.kind] = c] /\ phase' = "copy_check"
               \/ phase' = "begin" /\ UNCHANGED <<rp, store>>
      BY <1>6, <2>3, CopyIsMade
    <3>2. Asked(c)'
      BY <1>6, <3>1 DEF Asked, MakeCopy, call
    <3>3. store'[arg.kind] \in {c, None}
      BY <1>6, <2>1, <3>1, IdChanges DEF TypeOK, MakeCopy
    <3> QED
      BY <1>6, <3>1, <3>2, <3>3 DEF PendingIsMine, Succeeded, Active, MakeCopy, call
  <2> QED
    BY <2>2, <2>3
<1>7. CASE MakeCopyRefused
  BY <1>7 DEF TypeOK, PendingIsMine, Asked, Succeeded, Active, MakeCopyRefused,
     cloud, call, End
<1>8. CASE CopyAsked
  BY <1>8 DEF TypeOK, PendingIsMine, Asked, Succeeded, Active, CopyAsked, cloud,
     call, Goto
<1>9. CASE CopyCheck
  <2> SUFFICES ASSUME fresh
               PROVE  PendingIsMine'
    BY <1>9 DEF PendingIsMine, CopyCheck, call
  <2> DEFINE c == rp[arg.kind]
  <2>1. arg.kind \in Kinds /\ op = "snapshot_create" /\ store = rp /\ c # None
    BY <1>9 DEF TypeOK, PhaseFits, IdsFit, Active, CopyCheck
  <2>2. c \in Copies /\ Asked(c)
    BY <1>9, <2>1 DEF TypeOK, PendingIsMine, Properties, Kinds, CopyCheck
  <2>3. rp'[arg.kind] \in {c, None}
    BY <1>9, <2>1, IdChanges DEF TypeOK, CopyCheck
  <2>4. result' = "ok" => copies[c].status = "available"
    BY <1>9 DEF CopyCheck, Ready, End
  <2>5. UNCHANGED <<copies, store, op, arg, fresh>> /\ phase' = "end"
    BY <1>9 DEF CopyCheck, End, cloud, call
  <2> HIDE DEF c
  <2>6. store[arg.kind] = c
    BY <2>1 DEF c
  <2> QED
    BY <2>1, <2>2, <2>3, <2>4, <2>5, <2>6 DEF PendingIsMine, Asked, Succeeded
<1>10. CASE Restore
  BY <1>10 DEF PhaseFits, PendingIsMine, Restore, call, End
<1>11. CASE ListCopies
  BY <1>11 DEF PhaseFits, PendingIsMine, ListCopies, call
<1>12. CASE DeleteCopy
  BY <1>12 DEF PhaseFits, PendingIsMine, DeleteCopy, call
<1>13. CASE CheckCopies
  BY <1>13 DEF PhaseFits, PendingIsMine, CheckCopies, call
<1>14. CASE DeleteVolume
  BY <1>14 DEF PhaseFits, PendingIsMine, DeleteVolume, call, End, Goto
<1>15. CASE DeleteCheck
  BY <1>15 DEF PhaseFits, PendingIsMine, DeleteCheck, cloud, call, End
<1>16. CASE Finish
  BY <1>16 DEF PhaseFits, PendingIsMine, Asked, Succeeded, Active, Finish, cloud
<1>17. CASE Retry
  BY <1>17 DEF TypeOK, PendingIsMine, Asked, Succeeded, Active, Retry, cloud, call
<1>18. CASE GiveUp
  BY <1>18 DEF TypeOK, PendingIsMine, Asked, Succeeded, Active, GiveUp, cloud, call
<1>19. CASE Crash
  BY <1>19 DEF TypeOK, PendingIsMine, Asked, Succeeded, Active, Crash, cloud, call
<1>20. CASE VolumeSettles
  BY <1>20 DEF TypeOK, PendingIsMine, Asked, Succeeded, Active, VolumeSettles, call,
     attempt
<1>21. CASE CopySettles
  <2>1. PICK c \in Copies :
          /\ AllBut(c)
          /\ \/ /\ copies[c].status = "creating" /\ Changed(copies[c], copies'[c])
                /\ copies'[c].status \in {"available", "error"}
             \/ copies[c].status = "deleting" /\ copies'[c] = Absent
    BY <1>21, CopyHasSettled
  <2>2. ASSUME NEW d \in Copies, Asked(d)
        PROVE  Asked(d)' /\ (copies[d].status = "available" => copies'[d].status = "available")
    BY <1>21, <2>1, <2>2 DEF Asked, AllBut, Changed, CopySettles, call
  <2>3. store[arg.kind] # None => store[arg.kind] \in Copies
    BY DEF TypeOK, Properties, Kinds
  <2> QED
    BY <1>21, <2>2, <2>3 DEF PendingIsMine, Succeeded, Active, CopySettles, call,
       attempt
<1>22. CASE UNCHANGED vars
  BY <1>22 DEF TypeOK, PendingIsMine, Asked, Succeeded, Active, vars, cloud, call,
     attempt
<1> QED
  BY <1>1, <1>2, <1>3, <1>4, <1>5, <1>6, <1>7, <1>8, <1>9, <1>10, <1>11, <1>12,
     <1>13, <1>14, <1>15, <1>16, <1>17, <1>18, <1>19, <1>20, <1>21, <1>22 DEF Next, Attempt

\* No fault is forgotten.
LEMMA FaultsStay ==
  ASSUME TypeOK, [Next]_vars, NoFault({"crash"})'
  PROVE  NoFault({"crash"}) /\ ~Fault("crash")
<1>1. "crash" \in FaultKinds
  BY DEF FaultKinds
<1>2. ASSUME NEW k \in FaultKinds, Fault(k)
      PROVE  NoFault({"crash"}) /\ ~Fault("crash")
  BY <1>1, <1>2 DEF TypeOK, Fault, NoFault
<1>3. CASE UNCHANGED faults
  BY <1>1, <1>3 DEF TypeOK, Fault, NoFault
<1>4. (\E k \in FaultKinds : Fault(k)) \/ UNCHANGED faults
  <2>1. {"crash", "transient", "error", "giveup"} \subseteq FaultKinds
    BY DEF FaultKinds
  <2> QED
    BY <2>1 DEF Next, Attempt, vars, attempt, Begin, Enter, RequestRaises, Create, Start,
       MakeCopy, MakeCopyRefused, CopyAsked, CopyCheck, Restore, ListCopies, DeleteCopy,
       CheckCopies, DeleteVolume, DeleteCheck, Finish, Retry, GiveUp, Crash,
       VolumeSettles, CopySettles
<1> QED
  BY <1>2, <1>3, <1>4

\* While create has not made its volume there is none.
LEMMA OrphanStep ==
  ASSUME TypeOK, PhaseFits, IdsFit, OrphanFits, [Next]_vars
  PROVE  OrphanFits'
<1>1. CASE Create
  <2>1. volume = "absent"
    BY <1>1 DEF Create, PhaseFits, IdsFit, Creating, JustCreated
  <2> QED
    BY <1>1, <2>1, FaultsStay DEF Create, OrphanFits
<1>2. CASE Crash
  BY <1>2, FaultsStay DEF Crash, OrphanFits
<1>3. CASE UNCHANGED orphaned
  BY <1>3, FaultsStay DEF OrphanFits
<1>4. Create \/ Crash \/ UNCHANGED orphaned
  BY DEF Next, Attempt, vars, call, Begin, Enter, RequestRaises, Start, MakeCopy,
     MakeCopyRefused, CopyAsked, CopyCheck, Restore, ListCopies, DeleteCopy,
     CheckCopies, DeleteVolume, DeleteCheck, Finish, Retry, GiveUp, VolumeSettles,
     CopySettles
<1> QED
  BY <1>1, <1>2, <1>3, <1>4

-----------------------------------------------------------------------------
LEMMA InvInit == Init => Inv
<1> SUFFICES ASSUME Init PROVE Inv
  OBVIOUS
<1>1. TypeOK
  <2>1. copies \in [Copies -> Copy \union {Absent}]
    BY DEF Init, Copy
  <2> QED
    BY <2>1, ClearedIsEmpty DEF Init, TypeOK, Operations
<1>2. PhaseFits /\ SnapshotsFirst
  BY DEF Init, PhaseFits, SnapshotsFirst, Own, Absent
<1>3. IdsFit /\ OrphanFits
  BY DEF Init, IdsFit, OrphanFits, Active, Cleared
<1>4. Bystanders /\ NamedAreOwn /\ DeletesOwn /\ PendingIsMine
  BY DEF Init, Bystanders, NamedAreOwn, DeletesOwn, PendingIsMine, Absent
<1> QED
  BY <1>1, <1>2, <1>3, <1>4 DEF Inv

LEMMA InvStep == Inv /\ [Next]_vars => Inv'
BY TypeStep, PhaseStep, SnapshotsStep, IdsStep, OrphanStep, BystandersStep, NamedStep,
   DeletesStep, PendingStep DEF Inv

LEMMA Invariant == Spec => []Inv
BY InvInit, InvStep, PTL DEF Spec

(***************************************************************************)
(* Every variable keeps its type: an id names a copy or is absent, at      *)
(* whatever step the worker dies.                                          *)
(***************************************************************************)
THEOREM TypeCorrect == Spec => []TypeOK
<1>1. Inv => TypeOK
  BY DEF Inv
<1> QED
  BY <1>1, Invariant, PTL

(***************************************************************************)
(* A snapshot_create that succeeds, and found no copy in the making, has   *)
(* left an available copy, however often it was retried or executed again. *)
(***************************************************************************)
THEOREM SnapshotIsReady == Spec => []CopyIsReady
<1>1. Inv => CopyIsReady
  <2> SUFFICES ASSUME Inv, Succeeded("snapshot_create"), fresh
               PROVE  \E c \in Copies : copies[c] =
                        [kind |-> arg.kind, name |-> arg.name,
                         own |-> TRUE, status |-> "available"]
    BY DEF CopyIsReady
  <2>1. PICK c \in Copies : Asked(c) /\ copies[c].status = "available"
    BY DEF Inv, PendingIsMine, Succeeded
  <2>2. copies[c] \in Copy /\ copies[c].own = TRUE
    BY <2>1 DEF Asked, Copy
  <2> QED
    BY <2>1, <2>2 DEF Asked, Copy
<1> QED
  BY <1>1, Invariant, PTL

(***************************************************************************)
(* A volume that is uninstalled is gone, and so are its snapshots and what *)
(* the node knew of them, after whatever retries and crashes; what stays,  *)
(* after a crash and not otherwise, is the volume of a create that was cut *)
(* short and executed again.                                               *)
(***************************************************************************)
THEOREM UninstallClean == Spec => []UninstallLeavesNothing
<1>1. Inv => UninstallLeavesNothing
  BY DEF Inv, IdsFit, JustCreated, SnapshotsFirst, OrphanFits, UninstallLeavesNothing
<1> QED
  BY <1>1, Invariant, PTL

(***************************************************************************)
(* No operation deletes a backup or a snapshot of another volume.          *)
(***************************************************************************)
THEOREM OthersStay == Spec => OthersAreKept
<1>1. ASSUME Inv, [Next]_vars
      PROVE  \A c \in Copies : ~copies[c].own => copies'[c].status # "deleting"
  <2> SUFFICES ASSUME NEW c \in Copies, ~copies[c].own
               PROVE  copies'[c].status # "deleting"
    OBVIOUS
  <2>1. CASE ~copies'[c].own
    BY <1>1, <2>1, InvStep DEF Inv, Bystanders
  <2>2. CASE copies'[c].own /\ MakeCopy
    BY <1>1, <2>2, CopyIsMade DEF Inv, AllBut
  <2>3. CASE copies'[c].own /\ ~MakeCopy
    <3>1. CASE DeleteCopy
      BY <1>1, <2>3, <3>1, CopyIsDeleted DEF Inv, TypeOK, AllBut, Changed
    <3>2. CASE CopySettles
      BY <1>1, <2>3, <3>2, CopyHasSettled DEF Inv, AllBut, Changed, Absent
    <3>3. CASE UNCHANGED copies
      BY <2>3, <3>3
    <3> QED
      BY <1>1, <2>3, <3>1, <3>2, <3>3 DEF Next, Attempt, Begin, Enter, RequestRaises,
         Create, Start, MakeCopyRefused, CopyAsked, CopyCheck, Restore, ListCopies,
         CheckCopies, DeleteVolume, DeleteCheck, Finish, Retry, GiveUp, Crash,
         VolumeSettles, vars, cloud
  <2> QED
    BY <2>1, <2>2, <2>3
<1> QED
  BY <1>1, Invariant, PTL DEF Spec, OthersAreKept
=============================================================================
