---------------------------- MODULE SeriesProofs ----------------------------
(***************************************************************************)
(* Proofs about RequestSeries, for any sets of names, rules, subnets, ports*)
(* and policies and any number of faults, and about FileShares, for any    *)
(* number of shares, installs and events.  The two share nothing but this  *)
(* module.                                                                 *)
(***************************************************************************)
EXTENDS RequestSeries, FileShares, TLAPS

-----------------------------------------------------------------------------
(***************************************************************************)
(* RequestSeries.  What an operation has done when it succeeds, its stages *)
(* have done one after the other, some of them in an execution that a      *)
(* crash cut short.  The invariant says for each kind of operation what    *)
(* the stages that are over have left, and what the present one leaves     *)
(* except for the requests it has still to make.  A security group needs   *)
(* both bounds of its rules: those that were kept are there, and no others *)
(* than those and the wanted ones.  A policy may have gone in an earlier   *)
(* execution; then that one had cleaned its network.                       *)
(***************************************************************************)
\* The requests that are left are those of the stage.
TodoFits ==
  /\ Stage = "begin" => todo = {}
  /\ Stage = "check_users" => todo \subseteq Names(Users)
  /\ Stage = "assign_users" => todo \subseteq wanted \intersect (Users \X Roles)
  /\ Stage = "check_groups" => todo \subseteq Names(Groups)
  /\ Stage = "assign_groups" => todo \subseteq wanted \intersect (Groups \X Roles)
  /\ Stage = "quota" /\ ~option => todo = {}
  /\ Stage = "clear" => todo \subseteq OwnRules /\ (~option => todo = {})
  /\ Stage = "rules" => todo \subseteq wanted
  /\ Stage = "dhcp" => todo \subseteq Subnets
  /\ Stage = "ports" => todo \subseteq Ports \union {DhcpPort}
  /\ kind = "find_and_delete" /\ Stage \in {"dhcp", "ports", "delete"} => target \in wanted

\* What the stages that are over have done, if nobody else removes anything.
RolesFit ==
  kind \in RoleKinds /\ faults["removal"] = 0 =>
    /\ before \subseteq cloud
    /\ Stage = "assign_users" => (wanted \intersect (Users \X Roles)) \ todo \subseteq cloud
    /\ Stage \in {"check_groups", "assign_groups", "quota"} =>
         wanted \intersect (Users \X Roles) \subseteq cloud
    /\ Stage = "assign_groups" => (wanted \intersect (Groups \X Roles)) \ todo \subseteq cloud
    /\ Stage = "quota" => wanted \intersect (Groups \X Roles) \subseteq cloud

QuotaFit ==
  kind = "project_quota" /\ faults["removal"] = 0 =>
    (Stage = "quotas" => wanted \ todo \subseteq cloud)

FlavorFit ==
  kind = "flavor" /\ faults["removal"] = 0 =>
    /\ Stage = "create" => Flavor \in todo \union cloud
    /\ Stage \in {"specs", "access"} => Flavor \in cloud
    /\ Stage = "specs" => (wanted \intersect {Specs}) \ todo \subseteq cloud
    /\ Stage = "access" => /\ wanted \intersect {Specs} \subseteq cloud
                           /\ \A t \in (wanted \ {Specs}) \ todo : <<Flavor, t>> \in cloud

\* The rules of a group are those it had, less those that are replaced, and
\* wanted ones.
Kept == before \ IF option THEN OwnRules ELSE {}
RulesFit ==
  kind = "security_group" /\ faults["removal"] = 0 =>
    /\ Kept \subseteq cloud /\ cloud \subseteq before \union wanted
    /\ Stage = "clear" => /\ option => cloud \intersect OwnRules \subseteq todo
                          /\ todo \subseteq cloud
    /\ Stage = "rules" => /\ cloud \subseteq Kept \union wanted
                          /\ wanted \ todo \subseteq cloud
                          /\ option /\ wanted \subseteq OwnRules => todo \intersect cloud = {}

\* A policy only goes when its network is clean, which it then stays.
Cleaned == /\ option => Subnets \intersect cloud = {}
           /\ clean => Ports \intersect cloud = {}
CleanFit ==
  kind \in {"find_and_delete", "unlink"} /\ Undisturbed =>
    /\ Policies \subseteq cloud \/ Cleaned
    /\ Stage = "dhcp" /\ option => Subnets \intersect cloud \subseteq todo
    /\ Stage \in {"ports", "delete"} /\ option => Subnets \intersect cloud = {}
    /\ Stage = "ports" /\ clean => Ports \intersect cloud \subseteq todo
    /\ Stage = "delete" => Cleaned /\ (target \in todo \/ target \notin cloud)

\* How an operation ends.
EndFits ==
  /\ outcome = "done" => \/ at = Len(Plan[kind]) /\ todo = {}
                         \/ Stage = "find" /\ wanted \intersect cloud = {}
  /\ outcome = "failed" /\ faults["transient"] = 0 /\ faults["removal"] = 0 => ~Repeatable

SeriesInv == /\ SeriesTypeOK /\ TodoFits /\ RolesFit /\ QuotaFit /\ FlavorFit
             /\ RulesFit /\ CleanFit /\ EndFits

-----------------------------------------------------------------------------
\* The stages of each kind of operation, and which follows which.
LEMMA RoleStages ==
  ASSUME SeriesTypeOK, kind \in RoleKinds
  PROVE  /\ Stage \in {"begin", "check_users", "assign_users", "check_groups",
                       "assign_groups", "quota"}
         /\ at = Len(Plan[kind]) => Stage \in {"quota", "assign_groups"}
         /\ kind = "external_project" =>
              Stage \in {"begin", "check_users", "assign_users", "check_groups",
                        "assign_groups"}
         /\ at < Len(Plan[kind]) =>
              \/ Stage = "begin" /\ Plan[kind][at + 1] = "check_users"
              \/ Stage = "check_users" /\ Plan[kind][at + 1] = "assign_users"
              \/ Stage = "assign_users" /\ Plan[kind][at + 1] = "check_groups"
              \/ Stage = "check_groups" /\ Plan[kind][at + 1] = "assign_groups"
              \/ Stage = "assign_groups" /\ Plan[kind][at + 1] = "quota"
<1>1. CASE kind = "project"
  <2>1. Plan[kind] = <<"begin", "check_users", "assign_users", "check_groups",
                      "assign_groups", "quota">>
    BY <1>1 DEF Plan
  <2>2. at \in 1..6 /\ Len(Plan[kind]) = 6
    BY <2>1 DEF SeriesTypeOK
  <2> QED
    BY <1>1, <2>1, <2>2 DEF Stage
<1>2. CASE kind = "external_project"
  <2>1. Plan[kind] = <<"begin", "check_users", "assign_users", "check_groups",
                      "assign_groups">>
    BY <1>2 DEF Plan
  <2>2. at \in 1..5 /\ Len(Plan[kind]) = 5
    BY <2>1 DEF SeriesTypeOK
  <2> QED
    BY <1>2, <2>1, <2>2 DEF Stage
<1> QED
  BY <1>1, <1>2 DEF RoleKinds

LEMMA QuotaStages ==
  ASSUME SeriesTypeOK, kind = "project_quota"
  PROVE  /\ Stage \in {"begin", "quotas"}
         /\ at = Len(Plan[kind]) => Stage \in {"quotas"}
         /\ at < Len(Plan[kind]) =>
              \/ Stage = "begin" /\ Plan[kind][at + 1] = "quotas"
<1>1. Plan[kind] = <<"begin", "quotas">>
  BY DEF Plan
<1>2. at \in 1..2 /\ Len(Plan[kind]) = 2
  BY <1>1 DEF SeriesTypeOK
<1> QED
  BY <1>1, <1>2 DEF Stage

LEMMA FlavorStages ==
  ASSUME SeriesTypeOK, kind = "flavor"
  PROVE  /\ Stage \in {"begin", "create", "specs", "access"}
         /\ at = Len(Plan[kind]) => Stage \in {"access"}
         /\ at < Len(Plan[kind]) =>
              \/ Stage = "begin" /\ Plan[kind][at + 1] = "create"
              \/ Stage = "create" /\ Plan[kind][at + 1] = "specs"
              \/ Stage = "specs" /\ Plan[kind][at + 1] = "access"
<1>1. Plan[kind] = <<"begin", "create", "specs", "access">>
  BY DEF Plan
<1>2. at \in 1..4 /\ Len(Plan[kind]) = 4
  BY <1>1 DEF SeriesTypeOK
<1> QED
  BY <1>1, <1>2 DEF Stage

LEMMA RuleStages ==
  ASSUME SeriesTypeOK, kind = "security_group"
  PROVE  /\ Stage \in {"begin", "clear", "rules"}
         /\ at = Len(Plan[kind]) => Stage \in {"rules"}
         /\ at < Len(Plan[kind]) =>
              \/ Stage = "begin" /\ Plan[kind][at + 1] = "clear"
              \/ Stage = "clear" /\ Plan[kind][at + 1] = "rules"
<1>1. Plan[kind] = <<"begin", "clear", "rules">>
  BY DEF Plan
<1>2. at \in 1..3 /\ Len(Plan[kind]) = 3
  BY <1>1 DEF SeriesTypeOK
<1> QED
  BY <1>1, <1>2 DEF Stage

LEMMA DeleteStages ==
  ASSUME SeriesTypeOK, kind = "find_and_delete"
  PROVE  /\ Stage \in {"begin", "prepare", "find", "dhcp", "ports", "delete"}
         /\ at = Len(Plan[kind]) => Stage \in {"delete"}
         /\ at < Len(Plan[kind]) =>
              \/ Stage = "begin" /\ Plan[kind][at + 1] = "prepare"
              \/ Stage = "prepare" /\ Plan[kind][at + 1] = "find"
              \/ Stage = "find" /\ Plan[kind][at + 1] = "dhcp"
              \/ Stage = "dhcp" /\ Plan[kind][at + 1] = "ports"
              \/ Stage = "ports" /\ Plan[kind][at + 1] = "delete"
<1>1. Plan[kind] = <<"begin", "prepare", "find", "dhcp", "ports", "delete">>
  BY DEF Plan
<1>2. at \in 1..6 /\ Len(Plan[kind]) = 6
  BY <1>1 DEF SeriesTypeOK
<1> QED
  BY <1>1, <1>2 DEF Stage

LEMMA UnlinkStages ==
  ASSUME SeriesTypeOK, kind = "unlink"
  PROVE  /\ Stage \in {"begin", "dhcp", "ports"}
         /\ at = Len(Plan[kind]) => Stage \in {"ports"}
         /\ at < Len(Plan[kind]) =>
              \/ Stage = "begin" /\ Plan[kind][at + 1] = "dhcp"
              \/ Stage = "dhcp" /\ Plan[kind][at + 1] = "ports"
<1>1. Plan[kind] = <<"begin", "dhcp", "ports">>
  BY DEF Plan
<1>2. at \in 1..3 /\ Len(Plan[kind]) = 3
  BY <1>1 DEF SeriesTypeOK
<1> QED
  BY <1>1, <1>2 DEF Stage

\* Every operation begins at the beginning.
LEMMA PlansBegin ==
  ASSUME NEW k \in Kinds
  PROVE  Len(Plan[k]) \in Nat /\ Len(Plan[k]) >= 1 /\ Plan[k][1] = "begin"
<1>1. CASE k \in RoleKinds
  BY <1>1 DEF RoleKinds, Plan
<1>2. CASE k \in {"project_quota", "flavor", "security_group"}
  BY <1>2 DEF Plan
<1>3. CASE k \in {"find_and_delete", "unlink"}
  BY <1>3 DEF Plan
<1> QED
  BY <1>1, <1>2, <1>3 DEF Kinds

LEMMA FaultCounted ==
  ASSUME SeriesTypeOK, NEW k \in FaultKinds, Fault(k)
  PROVE  /\ faults' \in [FaultKinds -> Nat] /\ faults'[k] # 0
         /\ \A j \in FaultKinds : faults'[j] = 0 => faults[j] = 0
BY DEF SeriesTypeOK, Fault

\* No fault is forgotten.
LEMMA NoFaultYet ==
  ASSUME SeriesTypeOK, [SeriesNext]_seriesVars, NEW j \in FaultKinds, faults'[j] = 0
  PROVE  faults[j] = 0
<1>1. CASE \E k \in FaultKinds : Fault(k)
  BY <1>1, FaultCounted
<1>2. CASE UNCHANGED faults
  BY <1>2
<1>3. (\E k \in FaultKinds : Fault(k)) \/ UNCHANGED faults
  <2>1. {"crash", "transient", "removal", "arrival"} \subseteq FaultKinds
    BY DEF FaultKinds
  <2> QED
    BY <2>1 DEF SeriesNext, Handler, seriesVars, Validate, Assign, RefuseQuota,
       SetQuota, CreateFlavor, SetSpecs, AddAccess, DeleteRule, CreateRule,
       PrepareObject, DisableDhcp, CleanPort, DeletePolicy, Advance, Find,
       FindNothing, NextStage, Finish, Fail, WorkerDies, AgentLeaves, OthersDelete,
       OthersAdd, Request
<1> QED
  BY <1>1, <1>2, <1>3

\* The stage of an operation is another one only when it goes on or is
\* executed again.
LEMMA StageMoves ==
  ASSUME SeriesTypeOK
  PROVE  /\ UNCHANGED <<kind, at>> => Stage' = Stage
         /\ NextStage => /\ at' = at + 1 /\ at < Len(Plan[kind])
                         /\ Stage' = Plan[kind][at + 1]
         /\ WorkerDies => Stage' = "begin"
BY PlansBegin DEF SeriesTypeOK, Stage, NextStage, WorkerDies, inputs

LEMMA SeriesTypeStep ==
  ASSUME SeriesTypeOK, [SeriesNext]_seriesVars
  PROVE  SeriesTypeOK'
<1>1. CASE Validate
  BY <1>1 DEF SeriesTypeOK, Validate, Request, Running, inputs
<1>2. CASE Assign
  BY <1>2 DEF SeriesTypeOK, Assign, Request, Running, inputs
<1>3. CASE RefuseQuota
  BY <1>3 DEF SeriesTypeOK, RefuseQuota, Request, Running, inputs
<1>4. CASE SetQuota
  BY <1>4 DEF SeriesTypeOK, SetQuota, Request, Running, inputs
<1>5. CASE CreateFlavor
  BY <1>5 DEF SeriesTypeOK, CreateFlavor, Request, Running, inputs
<1>6. CASE SetSpecs
  BY <1>6 DEF SeriesTypeOK, SetSpecs, Request, Running, inputs
<1>7. CASE AddAccess
  BY <1>7 DEF SeriesTypeOK, AddAccess, Request, Running, inputs
<1>8. CASE DeleteRule
  BY <1>8 DEF SeriesTypeOK, DeleteRule, Request, Running, inputs
<1>9. CASE CreateRule
  BY <1>9 DEF SeriesTypeOK, CreateRule, Request, Running, inputs
<1>10. CASE PrepareObject
  BY <1>10 DEF SeriesTypeOK, PrepareObject, Request, Running, inputs
<1>11. CASE DisableDhcp
  BY <1>11 DEF SeriesTypeOK, DisableDhcp, Request, Running, inputs
<1>12. CASE CleanPort
  BY <1>12 DEF SeriesTypeOK, CleanPort, Request, Running, inputs
<1>13. CASE DeletePolicy
  BY <1>13 DEF SeriesTypeOK, DeletePolicy, Request, Running, inputs
<1>14. CASE Advance
  BY <1>14 DEF SeriesTypeOK, Advance, NextStage, inputs
<1>15. CASE Find
  <2>1. kind = "find_and_delete"
    BY <1>15, RoleStages, QuotaStages, FlavorStages, RuleStages, UnlinkStages DEF
       Find, Running, SeriesTypeOK, Kinds
  <2> QED
    BY <1>15, <2>1 DEF SeriesTypeOK, Find, NextStage, inputs
<1>16. CASE FindNothing
  BY <1>16 DEF SeriesTypeOK, FindNothing, Running, inputs
<1>17. CASE Finish
  BY <1>17 DEF SeriesTypeOK, Finish, inputs
<1>18. CASE Fail
  <2>1. "transient" \in FaultKinds
    BY DEF FaultKinds
  <2> QED
    BY <1>18, <2>1, FaultCounted, PlansBegin DEF SeriesTypeOK, Fail, inputs
<1>19. CASE WorkerDies
  <2>1. "crash" \in FaultKinds
    BY DEF FaultKinds
  <2> QED
    BY <1>19, <2>1, FaultCounted, PlansBegin DEF SeriesTypeOK, WorkerDies, inputs
<1>20. CASE AgentLeaves
  BY <1>20 DEF SeriesTypeOK, AgentLeaves, inputs
<1>21. CASE OthersDelete
  <2>1. "removal" \in FaultKinds
    BY DEF FaultKinds
  <2> QED
    BY <1>21, <2>1, FaultCounted, PlansBegin DEF SeriesTypeOK, OthersDelete, inputs
<1>22. CASE OthersAdd
  <2>1. "arrival" \in FaultKinds
    BY DEF FaultKinds
  <2> QED
    BY <1>22, <2>1, FaultCounted, PlansBegin DEF SeriesTypeOK, OthersAdd, inputs
<1>23. CASE UNCHANGED seriesVars
  BY <1>23 DEF SeriesTypeOK, seriesVars, inputs
<1> QED
  BY <1>1, <1>2, <1>3, <1>4, <1>5, <1>6, <1>7, <1>8, <1>9, <1>10, <1>11, <1>12,
     <1>13, <1>14, <1>15, <1>16, <1>17, <1>18, <1>19, <1>20, <1>21, <1>22, <1>23
     DEF SeriesNext, Handler

LEMMA TodoStep ==
  ASSUME SeriesTypeOK, TodoFits, [SeriesNext]_seriesVars
  PROVE  TodoFits'
<1>1. CASE Validate
  BY StageMoves, <1>1 DEF TodoFits, Names, Validate, Request, Running, inputs
<1>2. CASE Assign
  BY StageMoves, <1>2 DEF TodoFits, Names, Assign, Request, Running, inputs
<1>3. CASE RefuseQuota
  BY StageMoves, <1>3 DEF TodoFits, Names, RefuseQuota, Request, Running, inputs
<1>4. CASE SetQuota
  BY StageMoves, <1>4 DEF TodoFits, Names, SetQuota, Request, Running, inputs
<1>5. CASE CreateFlavor
  BY StageMoves, <1>5 DEF TodoFits, Names, CreateFlavor, Request, Running, inputs
<1>6. CASE SetSpecs
  BY StageMoves, <1>6 DEF TodoFits, Names, SetSpecs, Request, Running, inputs
<1>7. CASE AddAccess
  BY StageMoves, <1>7 DEF TodoFits, Names, AddAccess, Request, Running, inputs
<1>8. CASE DeleteRule
  BY StageMoves, <1>8 DEF TodoFits, Names, DeleteRule, Request, Running, inputs
<1>9. CASE CreateRule
  BY StageMoves, <1>9 DEF TodoFits, Names, CreateRule, Request, Running, inputs
<1>10. CASE PrepareObject
  BY StageMoves, <1>10 DEF TodoFits, Names, PrepareObject, Request, Running, inputs
<1>11. CASE DisableDhcp
  BY StageMoves, <1>11 DEF TodoFits, Names, DisableDhcp, Request, Running, inputs
<1>12. CASE CleanPort
  BY StageMoves, <1>12 DEF TodoFits, Names, CleanPort, Request, Running, inputs
<1>13. CASE DeletePolicy
  BY StageMoves, <1>13 DEF TodoFits, Names, DeletePolicy, Request, Running, inputs
<1>14. CASE Advance
  <2>1. CASE kind \in RoleKinds
    BY <1>14, <2>1, RoleStages, StageMoves DEF TodoFits, Advance, NextStage, Listed,
       Names, RoleKinds, inputs
  <2>2. CASE kind = "project_quota"
    BY <1>14, <2>2, QuotaStages, StageMoves DEF TodoFits, Advance, NextStage,
       Listed, Names, inputs
  <2>3. CASE kind = "flavor"
    BY <1>14, <2>3, FlavorStages, StageMoves DEF TodoFits, Advance, NextStage,
       Listed, Names, inputs
  <2>4. CASE kind = "security_group"
    BY <1>14, <2>4, RuleStages, StageMoves DEF TodoFits, Advance, NextStage, Listed,
       Names, inputs
  <2>5. CASE kind = "find_and_delete"
    BY <1>14, <2>5, DeleteStages, StageMoves DEF TodoFits, Advance, NextStage,
       Listed, Names, inputs
  <2>6. CASE kind = "unlink"
    BY <1>14, <2>6, UnlinkStages, StageMoves DEF TodoFits, Advance, NextStage,
       Listed, Names, inputs
  <2> QED
    BY <2>1, <2>2, <2>3, <2>4, <2>5, <2>6 DEF SeriesTypeOK, Kinds
<1>15. CASE Find
  <2>1. kind = "find_and_delete"
    BY <1>15, RoleStages, QuotaStages, FlavorStages, RuleStages, UnlinkStages DEF
       Find, Running, SeriesTypeOK, Kinds
  <2>2. Stage' = "dhcp" /\ todo' = Listed("dhcp") /\ target' \in wanted
    BY <1>15, <2>1, DeleteStages, StageMoves DEF Find, Running, NextStage
  <2> QED
    BY <1>15, <2>1, <2>2 DEF TodoFits, Find, NextStage, Listed, Names, inputs
<1>16. CASE FindNothing
  BY StageMoves, <1>16 DEF TodoFits, Names, FindNothing, Running, inputs
<1>17. CASE Finish
  BY StageMoves, <1>17 DEF TodoFits, Names, Finish, inputs
<1>18. CASE Fail
  BY StageMoves, <1>18 DEF TodoFits, Names, Fail, inputs
<1>19. CASE WorkerDies
  BY StageMoves, <1>19 DEF TodoFits, Names, WorkerDies, inputs
<1>20. CASE AgentLeaves
  BY StageMoves, <1>20 DEF TodoFits, Names, AgentLeaves, inputs
<1>21. CASE OthersDelete
  BY StageMoves, <1>21 DEF TodoFits, Names, OthersDelete, inputs
<1>22. CASE OthersAdd
  BY StageMoves, <1>22 DEF TodoFits, Names, OthersAdd, inputs
<1>23. CASE UNCHANGED seriesVars
  BY StageMoves, <1>23 DEF TodoFits, Names, seriesVars, inputs
<1> QED
  BY <1>1, <1>2, <1>3, <1>4, <1>5, <1>6, <1>7, <1>8, <1>9, <1>10, <1>11, <1>12,
     <1>13, <1>14, <1>15, <1>16, <1>17, <1>18, <1>19, <1>20, <1>21, <1>22, <1>23
     DEF SeriesNext, Handler

LEMMA RolesStep ==
  ASSUME SeriesTypeOK, TodoFits, RolesFit, [SeriesNext]_seriesVars
  PROVE  RolesFit'
<1>a. "removal" \in FaultKinds
  BY DEF FaultKinds
<1>b. faults'["removal"] = 0 => faults["removal"] = 0 /\ ~Fault("removal")
  BY <1>a, NoFaultYet, FaultCounted
<1>1. CASE Validate
  BY <1>b, StageMoves, RoleStages, <1>1 DEF RolesFit, TodoFits, RoleKinds, Validate,
     Request, Running, inputs
<1>2. CASE Assign
  BY <1>b, StageMoves, RoleStages, <1>2 DEF RolesFit, TodoFits, RoleKinds, Assign,
     Request, Running, inputs
<1>3. CASE RefuseQuota
  BY <1>b, StageMoves, RoleStages, <1>3 DEF RolesFit, TodoFits, RoleKinds,
     RefuseQuota, Request, Running, inputs
<1>4. CASE SetQuota
  BY <1>b, StageMoves, RoleStages, <1>4 DEF RolesFit, TodoFits, RoleKinds, SetQuota,
     Request, Running, inputs
<1>5. CASE CreateFlavor
  BY <1>b, StageMoves, RoleStages, <1>5 DEF RolesFit, TodoFits, RoleKinds,
     CreateFlavor, Request, Running, inputs
<1>6. CASE SetSpecs
  BY <1>b, StageMoves, RoleStages, <1>6 DEF RolesFit, TodoFits, RoleKinds, SetSpecs,
     Request, Running, inputs
<1>7. CASE AddAccess
  BY <1>b, StageMoves, RoleStages, <1>7 DEF RolesFit, TodoFits, RoleKinds,
     AddAccess, Request, Running, inputs
<1>8. CASE DeleteRule
  BY <1>b, StageMoves, RoleStages, <1>8 DEF RolesFit, TodoFits, RoleKinds,
     DeleteRule, Request, Running, inputs
<1>9. CASE CreateRule
  BY <1>b, StageMoves, RoleStages, <1>9 DEF RolesFit, TodoFits, RoleKinds,
     CreateRule, Request, Running, inputs
<1>10. CASE PrepareObject
  BY <1>b, StageMoves, RoleStages, <1>10 DEF RolesFit, TodoFits, RoleKinds,
     PrepareObject, Request, Running, inputs
<1>11. CASE DisableDhcp
  BY <1>b, StageMoves, RoleStages, <1>11 DEF RolesFit, TodoFits, RoleKinds,
     DisableDhcp, Request, Running, inputs
<1>12. CASE CleanPort
  BY <1>b, StageMoves, RoleStages, <1>12 DEF RolesFit, TodoFits, RoleKinds,
     CleanPort, Request, Running, inputs
<1>13. CASE DeletePolicy
  BY <1>b, StageMoves, RoleStages, <1>13 DEF RolesFit, TodoFits, RoleKinds,
     DeletePolicy, Request, Running, inputs
<1>14. CASE Advance
  BY <1>b, StageMoves, RoleStages, <1>14 DEF RolesFit, TodoFits, RoleKinds, Advance,
     NextStage, Listed, inputs
<1>15. CASE Find
  BY <1>b, StageMoves, RoleStages, <1>15 DEF RolesFit, TodoFits, RoleKinds, Find,
     NextStage, Running, Listed, inputs
<1>16. CASE FindNothing
  BY <1>b, StageMoves, RoleStages, <1>16 DEF RolesFit, TodoFits, RoleKinds,
     FindNothing, Running, inputs
<1>17. CASE Finish
  BY <1>b, StageMoves, RoleStages, <1>17 DEF RolesFit, TodoFits, RoleKinds, Finish,
     inputs
<1>18. CASE Fail
  BY <1>b, StageMoves, RoleStages, <1>18 DEF RolesFit, TodoFits, RoleKinds, Fail,
     inputs
<1>19. CASE WorkerDies
  BY <1>b, StageMoves, RoleStages, <1>19 DEF RolesFit, TodoFits, RoleKinds,
     WorkerDies, inputs
<1>20. CASE AgentLeaves
  BY <1>b, StageMoves, RoleStages, <1>20 DEF RolesFit, TodoFits, RoleKinds,
     AgentLeaves, inputs
<1>21. CASE OthersDelete
  BY <1>b, StageMoves, RoleStages, <1>21 DEF RolesFit, TodoFits, RoleKinds,
     OthersDelete, inputs
<1>22. CASE OthersAdd
  BY <1>b, StageMoves, RoleStages, <1>22 DEF RolesFit, TodoFits, RoleKinds,
     OthersAdd, inputs
<1>23. CASE UNCHANGED seriesVars
  BY <1>b, StageMoves, RoleStages, <1>23 DEF RolesFit, TodoFits, RoleKinds,
     seriesVars, inputs
<1> QED
  BY <1>1, <1>2, <1>3, <1>4, <1>5, <1>6, <1>7, <1>8, <1>9, <1>10, <1>11, <1>12,
     <1>13, <1>14, <1>15, <1>16, <1>17, <1>18, <1>19, <1>20, <1>21, <1>22, <1>23
     DEF SeriesNext, Handler

LEMMA QuotaStep ==
  ASSUME SeriesTypeOK, TodoFits, QuotaFit, [SeriesNext]_seriesVars
  PROVE  QuotaFit'
<1>a. "removal" \in FaultKinds
  BY DEF FaultKinds
<1>b. faults'["removal"] = 0 => faults["removal"] = 0 /\ ~Fault("removal")
  BY <1>a, NoFaultYet, FaultCounted
<1>1. CASE Validate
  BY <1>b, StageMoves, QuotaStages, <1>1 DEF QuotaFit, TodoFits, Validate, Request,
     Running, inputs
<1>2. CASE Assign
  BY <1>b, StageMoves, QuotaStages, <1>2 DEF QuotaFit, TodoFits, Assign, Request,
     Running, inputs
<1>3. CASE RefuseQuota
  BY <1>b, StageMoves, QuotaStages, <1>3 DEF QuotaFit, TodoFits, RefuseQuota,
     Request, Running, inputs
<1>4. CASE SetQuota
  BY <1>b, StageMoves, QuotaStages, <1>4 DEF QuotaFit, TodoFits, SetQuota, Request,
     Running, inputs
<1>5. CASE CreateFlavor
  BY <1>b, StageMoves, QuotaStages, <1>5 DEF QuotaFit, TodoFits, CreateFlavor,
     Request, Running, inputs
<1>6. CASE SetSpecs
  BY <1>b, StageMoves, QuotaStages, <1>6 DEF QuotaFit, TodoFits, SetSpecs, Request,
     Running, inputs
<1>7. CASE AddAccess
  BY <1>b, StageMoves, QuotaStages, <1>7 DEF QuotaFit, TodoFits, AddAccess, Request,
     Running, inputs
<1>8. CASE DeleteRule
  BY <1>b, StageMoves, QuotaStages, <1>8 DEF QuotaFit, TodoFits, DeleteRule,
     Request, Running, inputs
<1>9. CASE CreateRule
  BY <1>b, StageMoves, QuotaStages, <1>9 DEF QuotaFit, TodoFits, CreateRule,
     Request, Running, inputs
<1>10. CASE PrepareObject
  BY <1>b, StageMoves, QuotaStages, <1>10 DEF QuotaFit, TodoFits, PrepareObject,
     Request, Running, inputs
<1>11. CASE DisableDhcp
  BY <1>b, StageMoves, QuotaStages, <1>11 DEF QuotaFit, TodoFits, DisableDhcp,
     Request, Running, inputs
<1>12. CASE CleanPort
  BY <1>b, StageMoves, QuotaStages, <1>12 DEF QuotaFit, TodoFits, CleanPort,
     Request, Running, inputs
<1>13. CASE DeletePolicy
  BY <1>b, StageMoves, QuotaStages, <1>13 DEF QuotaFit, TodoFits, DeletePolicy,
     Request, Running, inputs
<1>14. CASE Advance
  BY <1>b, StageMoves, QuotaStages, <1>14 DEF QuotaFit, TodoFits, Advance,
     NextStage, Listed, inputs
<1>15. CASE Find
  BY <1>b, StageMoves, QuotaStages, <1>15 DEF QuotaFit, TodoFits, Find, NextStage,
     Running, Listed, inputs
<1>16. CASE FindNothing
  BY <1>b, StageMoves, QuotaStages, <1>16 DEF QuotaFit, TodoFits, FindNothing,
     Running, inputs
<1>17. CASE Finish
  BY <1>b, StageMoves, QuotaStages, <1>17 DEF QuotaFit, TodoFits, Finish, inputs
<1>18. CASE Fail
  BY <1>b, StageMoves, QuotaStages, <1>18 DEF QuotaFit, TodoFits, Fail, inputs
<1>19. CASE WorkerDies
  BY <1>b, StageMoves, QuotaStages, <1>19 DEF QuotaFit, TodoFits, WorkerDies, inputs
<1>20. CASE AgentLeaves
  BY <1>b, StageMoves, QuotaStages, <1>20 DEF QuotaFit, TodoFits, AgentLeaves,
     inputs
<1>21. CASE OthersDelete
  BY <1>b, StageMoves, QuotaStages, <1>21 DEF QuotaFit, TodoFits, OthersDelete,
     inputs
<1>22. CASE OthersAdd
  BY <1>b, StageMoves, QuotaStages, <1>22 DEF QuotaFit, TodoFits, OthersAdd, inputs
<1>23. CASE UNCHANGED seriesVars
  BY <1>b, StageMoves, QuotaStages, <1>23 DEF QuotaFit, TodoFits, seriesVars, inputs
<1> QED
  BY <1>1, <1>2, <1>3, <1>4, <1>5, <1>6, <1>7, <1>8, <1>9, <1>10, <1>11, <1>12,
     <1>13, <1>14, <1>15, <1>16, <1>17, <1>18, <1>19, <1>20, <1>21, <1>22, <1>23
     DEF SeriesNext, Handler

LEMMA FlavorStep ==
  ASSUME SeriesTypeOK, TodoFits, FlavorFit, [SeriesNext]_seriesVars
  PROVE  FlavorFit'
<1>a. "removal" \in FaultKinds
  BY DEF FaultKinds
<1>b. faults'["removal"] = 0 => faults["removal"] = 0 /\ ~Fault("removal")
  BY <1>a, NoFaultYet, FaultCounted
<1>1. CASE Validate
  BY <1>b, StageMoves, FlavorStages, <1>1 DEF FlavorFit, TodoFits, Validate,
     Request, Running, inputs
<1>2. CASE Assign
  BY <1>b, StageMoves, FlavorStages, <1>2 DEF FlavorFit, TodoFits, Assign, Request,
     Running, inputs
<1>3. CASE RefuseQuota
  BY <1>b, StageMoves, FlavorStages, <1>3 DEF FlavorFit, TodoFits, RefuseQuota,
     Request, Running, inputs
<1>4. CASE SetQuota
  BY <1>b, StageMoves, FlavorStages, <1>4 DEF FlavorFit, TodoFits, SetQuota,
     Request, Running, inputs
<1>5. CASE CreateFlavor
  BY <1>b, StageMoves, FlavorStages, <1>5 DEF FlavorFit, TodoFits, CreateFlavor,
     Request, Running, inputs
<1>6. CASE SetSpecs
  BY <1>b, StageMoves, FlavorStages, <1>6 DEF FlavorFit, TodoFits, SetSpecs,
     Request, Running, inputs
<1>7. CASE AddAccess
  BY <1>b, StageMoves, FlavorStages, <1>7 DEF FlavorFit, TodoFits, AddAccess,
     Request, Running, inputs
<1>8. CASE DeleteRule
  BY <1>b, StageMoves, FlavorStages, <1>8 DEF FlavorFit, TodoFits, DeleteRule,
     Request, Running, inputs
<1>9. CASE CreateRule
  BY <1>b, StageMoves, FlavorStages, <1>9 DEF FlavorFit, TodoFits, CreateRule,
     Request, Running, inputs
<1>10. CASE PrepareObject
  BY <1>b, StageMoves, FlavorStages, <1>10 DEF FlavorFit, TodoFits, PrepareObject,
     Request, Running, inputs
<1>11. CASE DisableDhcp
  BY <1>b, StageMoves, FlavorStages, <1>11 DEF FlavorFit, TodoFits, DisableDhcp,
     Request, Running, inputs
<1>12. CASE CleanPort
  BY <1>b, StageMoves, FlavorStages, <1>12 DEF FlavorFit, TodoFits, CleanPort,
     Request, Running, inputs
<1>13. CASE DeletePolicy
  BY <1>b, StageMoves, FlavorStages, <1>13 DEF FlavorFit, TodoFits, DeletePolicy,
     Request, Running, inputs
<1>14. CASE Advance
  BY <1>b, StageMoves, FlavorStages, <1>14 DEF FlavorFit, TodoFits, Advance,
     NextStage, Listed, inputs
<1>15. CASE Find
  BY <1>b, StageMoves, FlavorStages, <1>15 DEF FlavorFit, TodoFits, Find, NextStage,
     Running, Listed, inputs
<1>16. CASE FindNothing
  BY <1>b, StageMoves, FlavorStages, <1>16 DEF FlavorFit, TodoFits, FindNothing,
     Running, inputs
<1>17. CASE Finish
  BY <1>b, StageMoves, FlavorStages, <1>17 DEF FlavorFit, TodoFits, Finish, inputs
<1>18. CASE Fail
  BY <1>b, StageMoves, FlavorStages, <1>18 DEF FlavorFit, TodoFits, Fail, inputs
<1>19. CASE WorkerDies
  BY <1>b, StageMoves, FlavorStages, <1>19 DEF FlavorFit, TodoFits, WorkerDies,
     inputs
<1>20. CASE AgentLeaves
  BY <1>b, StageMoves, FlavorStages, <1>20 DEF FlavorFit, TodoFits, AgentLeaves,
     inputs
<1>21. CASE OthersDelete
  BY <1>b, StageMoves, FlavorStages, <1>21 DEF FlavorFit, TodoFits, OthersDelete,
     inputs
<1>22. CASE OthersAdd
  BY <1>b, StageMoves, FlavorStages, <1>22 DEF FlavorFit, TodoFits, OthersAdd,
     inputs
<1>23. CASE UNCHANGED seriesVars
  BY <1>b, StageMoves, FlavorStages, <1>23 DEF FlavorFit, TodoFits, seriesVars,
     inputs
<1> QED
  BY <1>1, <1>2, <1>3, <1>4, <1>5, <1>6, <1>7, <1>8, <1>9, <1>10, <1>11, <1>12,
     <1>13, <1>14, <1>15, <1>16, <1>17, <1>18, <1>19, <1>20, <1>21, <1>22, <1>23
     DEF SeriesNext, Handler

LEMMA RulesStep ==
  ASSUME SeriesTypeOK, TodoFits, RulesFit, [SeriesNext]_seriesVars
  PROVE  RulesFit'
<1>a. "removal" \in FaultKinds
  BY DEF FaultKinds
<1>b. faults'["removal"] = 0 => faults["removal"] = 0 /\ ~Fault("removal")
  BY <1>a, NoFaultYet, FaultCounted
<1>1. CASE Validate
  BY <1>b, StageMoves, RuleStages, <1>1 DEF RulesFit, Kept, TodoFits, Validate,
     Request, Running, inputs
<1>2. CASE Assign
  BY <1>b, StageMoves, RuleStages, <1>2 DEF RulesFit, Kept, TodoFits, Assign,
     Request, Running, inputs
<1>3. CASE RefuseQuota
  BY <1>b, StageMoves, RuleStages, <1>3 DEF RulesFit, Kept, TodoFits, RefuseQuota,
     Request, Running, inputs
<1>4. CASE SetQuota
  BY <1>b, StageMoves, RuleStages, <1>4 DEF RulesFit, Kept, TodoFits, SetQuota,
     Request, Running, inputs
<1>5. CASE CreateFlavor
  BY <1>b, StageMoves, RuleStages, <1>5 DEF RulesFit, Kept, TodoFits, CreateFlavor,
     Request, Running, inputs
<1>6. CASE SetSpecs
  BY <1>b, StageMoves, RuleStages, <1>6 DEF RulesFit, Kept, TodoFits, SetSpecs,
     Request, Running, inputs
<1>7. CASE AddAccess
  BY <1>b, StageMoves, RuleStages, <1>7 DEF RulesFit, Kept, TodoFits, AddAccess,
     Request, Running, inputs
<1>8. CASE DeleteRule
  BY <1>b, StageMoves, RuleStages, <1>8 DEF RulesFit, Kept, TodoFits, DeleteRule,
     Request, Running, inputs
<1>9. CASE CreateRule
  BY <1>b, StageMoves, RuleStages, <1>9 DEF RulesFit, Kept, TodoFits, CreateRule,
     Request, Running, inputs
<1>10. CASE PrepareObject
  BY <1>b, StageMoves, RuleStages, <1>10 DEF RulesFit, Kept, TodoFits,
     PrepareObject, Request, Running, inputs
<1>11. CASE DisableDhcp
  BY <1>b, StageMoves, RuleStages, <1>11 DEF RulesFit, Kept, TodoFits, DisableDhcp,
     Request, Running, inputs
<1>12. CASE CleanPort
  BY <1>b, StageMoves, RuleStages, <1>12 DEF RulesFit, Kept, TodoFits, CleanPort,
     Request, Running, inputs
<1>13. CASE DeletePolicy
  BY <1>b, StageMoves, RuleStages, <1>13 DEF RulesFit, Kept, TodoFits, DeletePolicy,
     Request, Running, inputs
<1>14. CASE Advance
  BY <1>b, StageMoves, RuleStages, <1>14 DEF RulesFit, Kept, TodoFits, Advance,
     NextStage, Listed, inputs
<1>15. CASE Find
  BY <1>b, StageMoves, RuleStages, <1>15 DEF RulesFit, Kept, TodoFits, Find,
     NextStage, Running, Listed, inputs
<1>16. CASE FindNothing
  BY <1>b, StageMoves, RuleStages, <1>16 DEF RulesFit, Kept, TodoFits, FindNothing,
     Running, inputs
<1>17. CASE Finish
  BY <1>b, StageMoves, RuleStages, <1>17 DEF RulesFit, Kept, TodoFits, Finish,
     inputs
<1>18. CASE Fail
  BY <1>b, StageMoves, RuleStages, <1>18 DEF RulesFit, Kept, TodoFits, Fail, inputs
<1>19. CASE WorkerDies
  BY <1>b, StageMoves, RuleStages, <1>19 DEF RulesFit, Kept, TodoFits, WorkerDies,
     inputs
<1>20. CASE AgentLeaves
  BY <1>b, StageMoves, RuleStages, <1>20 DEF RulesFit, Kept, TodoFits, AgentLeaves,
     inputs
<1>21. CASE OthersDelete
  BY <1>b, StageMoves, RuleStages, <1>21 DEF RulesFit, Kept, TodoFits, OthersDelete,
     inputs
<1>22. CASE OthersAdd
  BY <1>b, StageMoves, RuleStages, <1>22 DEF RulesFit, Kept, TodoFits, OthersAdd,
     inputs
<1>23. CASE UNCHANGED seriesVars
  BY <1>b, StageMoves, RuleStages, <1>23 DEF RulesFit, Kept, TodoFits, seriesVars,
     inputs
<1> QED
  BY <1>1, <1>2, <1>3, <1>4, <1>5, <1>6, <1>7, <1>8, <1>9, <1>10, <1>11, <1>12,
     <1>13, <1>14, <1>15, <1>16, <1>17, <1>18, <1>19, <1>20, <1>21, <1>22, <1>23
     DEF SeriesNext, Handler

LEMMA CleanStep ==
  ASSUME SeriesTypeOK, TodoFits, CleanFit, [SeriesNext]_seriesVars
  PROVE  CleanFit'
<1>a. "removal" \in FaultKinds /\ "arrival" \in FaultKinds
  BY DEF FaultKinds
<1>b. Undisturbed' => Undisturbed /\ ~Fault("removal") /\ ~Fault("arrival")
  BY <1>a, NoFaultYet, FaultCounted DEF Undisturbed
<1>1. CASE Validate
  BY <1>b, StageMoves, DeleteStages, UnlinkStages, PoliciesAssumption, <1>1 DEF
     CleanFit, Cleaned, Undisturbed, TodoFits, Validate, Request, Running, inputs
<1>2. CASE Assign
  BY <1>b, StageMoves, DeleteStages, UnlinkStages, PoliciesAssumption, <1>2 DEF
     CleanFit, Cleaned, Undisturbed, TodoFits, Assign, Request, Running, inputs
<1>3. CASE RefuseQuota
  BY <1>b, StageMoves, DeleteStages, UnlinkStages, PoliciesAssumption, <1>3 DEF
     CleanFit, Cleaned, Undisturbed, TodoFits, RefuseQuota, Request, Running, inputs
<1>4. CASE SetQuota
  BY <1>b, StageMoves, DeleteStages, UnlinkStages, PoliciesAssumption, <1>4 DEF
     CleanFit, Cleaned, Undisturbed, TodoFits, SetQuota, Request, Running, inputs
<1>5. CASE CreateFlavor
  BY <1>b, StageMoves, DeleteStages, UnlinkStages, PoliciesAssumption, <1>5 DEF
     CleanFit, Cleaned, Undisturbed, TodoFits, CreateFlavor, Request, Running,
     inputs
<1>6. CASE SetSpecs
  BY <1>b, StageMoves, DeleteStages, UnlinkStages, PoliciesAssumption, <1>6 DEF
     CleanFit, Cleaned, Undisturbed, TodoFits, SetSpecs, Request, Running, inputs
<1>7. CASE AddAccess
  BY <1>b, StageMoves, DeleteStages, UnlinkStages, PoliciesAssumption, <1>7 DEF
     CleanFit, Cleaned, Undisturbed, TodoFits, AddAccess, Request, Running, inputs
<1>8. CASE DeleteRule
  BY <1>b, StageMoves, DeleteStages, UnlinkStages, PoliciesAssumption, <1>8 DEF
     CleanFit, Cleaned, Undisturbed, TodoFits, DeleteRule, Request, Running, inputs
<1>9. CASE CreateRule
  BY <1>b, StageMoves, DeleteStages, UnlinkStages, PoliciesAssumption, <1>9 DEF
     CleanFit, Cleaned, Undisturbed, TodoFits, CreateRule, Request, Running, inputs
<1>10. CASE PrepareObject
  BY <1>b, StageMoves, DeleteStages, UnlinkStages, PoliciesAssumption, <1>10 DEF
     CleanFit, Cleaned, Undisturbed, TodoFits, PrepareObject, Request, Running,
     inputs
<1>11. CASE DisableDhcp
  BY <1>b, StageMoves, DeleteStages, UnlinkStages, PoliciesAssumption, <1>11 DEF
     CleanFit, Cleaned, Undisturbed, TodoFits, DisableDhcp, Request, Running, inputs
<1>12. CASE CleanPort
  BY <1>b, StageMoves, DeleteStages, UnlinkStages, PoliciesAssumption, <1>12 DEF
     CleanFit, Cleaned, Undisturbed, TodoFits, CleanPort, Request, Running, inputs
<1>13. CASE DeletePolicy
  BY <1>b, StageMoves, DeleteStages, UnlinkStages, PoliciesAssumption, <1>13 DEF
     CleanFit, Cleaned, Undisturbed, TodoFits, DeletePolicy, Request, Running,
     inputs
<1>14. CASE Advance
  BY <1>b, StageMoves, DeleteStages, UnlinkStages, PoliciesAssumption, <1>14 DEF
     CleanFit, Cleaned, Undisturbed, TodoFits, Advance, NextStage, Listed, inputs
<1>15. CASE Find
  BY <1>b, StageMoves, DeleteStages, UnlinkStages, PoliciesAssumption, <1>15 DEF
     CleanFit, Cleaned, Undisturbed, TodoFits, Find, NextStage, Running, Listed,
     inputs
<1>16. CASE FindNothing
  BY <1>b, StageMoves, DeleteStages, UnlinkStages, PoliciesAssumption, <1>16 DEF
     CleanFit, Cleaned, Undisturbed, TodoFits, FindNothing, Running, inputs
<1>17. CASE Finish
  BY <1>b, StageMoves, DeleteStages, UnlinkStages, PoliciesAssumption, <1>17 DEF
     CleanFit, Cleaned, Undisturbed, TodoFits, Finish, inputs
<1>18. CASE Fail
  BY <1>b, StageMoves, DeleteStages, UnlinkStages, PoliciesAssumption, <1>18 DEF
     CleanFit, Cleaned, Undisturbed, TodoFits, Fail, inputs
<1>19. CASE WorkerDies
  BY <1>b, StageMoves, DeleteStages, UnlinkStages, PoliciesAssumption, <1>19 DEF
     CleanFit, Cleaned, Undisturbed, TodoFits, WorkerDies, inputs
<1>20. CASE AgentLeaves
  BY <1>b, StageMoves, DeleteStages, UnlinkStages, PoliciesAssumption, <1>20 DEF
     CleanFit, Cleaned, Undisturbed, TodoFits, AgentLeaves, inputs
<1>21. CASE OthersDelete
  BY <1>b, StageMoves, DeleteStages, UnlinkStages, PoliciesAssumption, <1>21 DEF
     CleanFit, Cleaned, Undisturbed, TodoFits, OthersDelete, inputs
<1>22. CASE OthersAdd
  BY <1>b, StageMoves, DeleteStages, UnlinkStages, PoliciesAssumption, <1>22 DEF
     CleanFit, Cleaned, Undisturbed, TodoFits, OthersAdd, inputs
<1>23. CASE UNCHANGED seriesVars
  BY <1>b, StageMoves, DeleteStages, UnlinkStages, PoliciesAssumption, <1>23 DEF
     CleanFit, Cleaned, Undisturbed, TodoFits, seriesVars, inputs
<1> QED
  BY <1>1, <1>2, <1>3, <1>4, <1>5, <1>6, <1>7, <1>8, <1>9, <1>10, <1>11, <1>12,
     <1>13, <1>14, <1>15, <1>16, <1>17, <1>18, <1>19, <1>20, <1>21, <1>22, <1>23
     DEF SeriesNext, Handler

\* The names of some subjects are among those of more.
LEMMA NamesGrow ==
  ASSUME NEW more, NEW some \in SUBSET more
  PROVE  /\ Names(some) \subseteq Names(more)
         /\ \A m \in wanted : m[1] \in some => {m[1], m[2]} \subseteq Names(more)
BY DEF Names

LEMMA EndStep ==
  ASSUME SeriesTypeOK, TodoFits, RolesFit, RulesFit, EndFits, [SeriesNext]_seriesVars
  PROVE  EndFits'
<1>a. {"removal", "transient"} \subseteq FaultKinds
  BY DEF FaultKinds
<1>b. /\ faults'["removal"] = 0 => faults["removal"] = 0
      /\ faults'["transient"] = 0 => faults["transient"] = 0 /\ ~Fault("transient")
  BY <1>a, NoFaultYet, FaultCounted
<1>c. UNCHANGED inputs => (Repeatable' <=> Repeatable)
  BY DEF Repeatable, Names, inputs
<1>1. CASE Validate
  <2>1. kind \in RoleKinds
    BY <1>1, RoleStages, QuotaStages, FlavorStages, RuleStages, DeleteStages,
       UnlinkStages DEF Validate, Running, SeriesTypeOK, Kinds
  <2>2. outcome' = "failed" /\ faults["removal"] = 0 => ~Repeatable
    <3> SUFFICES ASSUME outcome' = "failed", faults["removal"] = 0, Repeatable
                 PROVE  FALSE
      OBVIOUS
    <3>1. PICK n \in todo : n \notin cloud
      BY <1>1 DEF Validate, Request, Running
    <3>2. n \in Names(Users \union Groups)
      BY <1>1, <3>1, NamesGrow DEF Validate, Running, TodoFits
    <3> QED
      BY <2>1, <3>1, <3>2 DEF RolesFit, Repeatable, RoleKinds
  <2>3. outcome' # "done" /\ UNCHANGED <<inputs, faults>>
    BY <1>1 DEF Validate, Request, Running
  <2> QED
    BY <1>1, <1>b, <1>c, <2>2, <2>3 DEF EndFits
<1>2. CASE Assign
  <2>1. kind \in RoleKinds
    BY <1>2, RoleStages, QuotaStages, FlavorStages, RuleStages, DeleteStages,
       UnlinkStages DEF Assign, Running, SeriesTypeOK, Kinds
  <2>2. outcome' = "failed" /\ faults["removal"] = 0 => ~Repeatable
    <3> SUFFICES ASSUME outcome' = "failed", faults["removal"] = 0, Repeatable
                 PROVE  FALSE
      OBVIOUS
    <3>1. PICK m \in todo : ~({m[1], m[2]} \subseteq cloud)
      BY <1>2 DEF Assign, Request, Running
    <3>2. m \in wanted /\ m[1] \in Users \union Groups
      BY <1>2, <3>1 DEF Assign, Running, TodoFits
    <3>3. {m[1], m[2]} \subseteq Names(Users \union Groups)
      BY <3>2, NamesGrow
    <3> QED
      BY <2>1, <3>1, <3>3 DEF RolesFit, Repeatable, RoleKinds
  <2>3. outcome' # "done" /\ UNCHANGED <<inputs, faults>>
    BY <1>2 DEF Assign, Request, Running
  <2> QED
    BY <1>2, <1>b, <1>c, <2>2, <2>3 DEF EndFits
<1>3. CASE RefuseQuota
  <2>1. kind \in RoleKinds
    BY <1>3, RoleStages, QuotaStages, FlavorStages, RuleStages, DeleteStages,
       UnlinkStages DEF RefuseQuota, Running, SeriesTypeOK, Kinds
  <2>2. outcome' = "failed" /\ faults["removal"] = 0 => ~Repeatable
    <3>1. kind = "project"
      BY <1>3, <2>1, RoleStages DEF RefuseQuota, Running, RoleKinds
    <3> QED
      BY <1>3, <3>1 DEF RefuseQuota, Running, TodoFits, Repeatable
  <2>3. outcome' # "done" /\ UNCHANGED <<inputs, faults>>
    BY <1>3 DEF RefuseQuota, Request, Running
  <2> QED
    BY <1>3, <1>b, <1>c, <2>2, <2>3 DEF EndFits
<1>4. CASE SetQuota
  <2>1. outcome' = "running" /\ UNCHANGED inputs
    BY <1>4 DEF SetQuota, Request, Running
  <2> QED
    BY <2>1 DEF EndFits
<1>5. CASE CreateFlavor
  <2>1. kind = "flavor"
    BY <1>5, RoleStages, QuotaStages, FlavorStages, RuleStages, DeleteStages,
       UnlinkStages DEF CreateFlavor, Running, SeriesTypeOK, Kinds
  <2>2. outcome' = "failed" /\ faults["removal"] = 0 => ~Repeatable
    BY <1>5, <2>1 DEF Repeatable, CreateFlavor, Request, Running
  <2>3. outcome' # "done" /\ UNCHANGED <<inputs, faults>>
    BY <1>5 DEF CreateFlavor, Request, Running
  <2> QED
    BY <1>5, <1>b, <1>c, <2>2, <2>3 DEF EndFits
<1>6. CASE SetSpecs
  <2>1. kind = "flavor"
    BY <1>6, RoleStages, QuotaStages, FlavorStages, RuleStages, DeleteStages,
       UnlinkStages DEF SetSpecs, Running, SeriesTypeOK, Kinds
  <2>2. outcome' = "failed" /\ faults["removal"] = 0 => ~Repeatable
    BY <1>6, <2>1 DEF Repeatable, SetSpecs, Request, Running
  <2>3. outcome' # "done" /\ UNCHANGED <<inputs, faults>>
    BY <1>6 DEF SetSpecs, Request, Running
  <2> QED
    BY <1>6, <1>b, <1>c, <2>2, <2>3 DEF EndFits
<1>7. CASE AddAccess
  <2>1. kind = "flavor"
    BY <1>7, RoleStages, QuotaStages, FlavorStages, RuleStages, DeleteStages,
       UnlinkStages DEF AddAccess, Running, SeriesTypeOK, Kinds
  <2>2. outcome' = "failed" /\ faults["removal"] = 0 => ~Repeatable
    BY <1>7, <2>1 DEF Repeatable, AddAccess, Request, Running
  <2>3. outcome' # "done" /\ UNCHANGED <<inputs, faults>>
    BY <1>7 DEF AddAccess, Request, Running
  <2> QED
    BY <1>7, <1>b, <1>c, <2>2, <2>3 DEF EndFits
<1>8. CASE DeleteRule
  <2>1. kind = "security_group"
    BY <1>8, RoleStages, QuotaStages, FlavorStages, RuleStages, DeleteStages,
       UnlinkStages DEF DeleteRule, Running, SeriesTypeOK, Kinds
  <2>2. outcome' = "failed" /\ faults["removal"] = 0 => ~Repeatable
    BY <1>8, <2>1 DEF DeleteRule, Request, Running, RulesFit
  <2>3. outcome' # "done" /\ UNCHANGED <<inputs, faults>>
    BY <1>8 DEF DeleteRule, Request, Running
  <2> QED
    BY <1>8, <1>b, <1>c, <2>2, <2>3 DEF EndFits
<1>9. CASE CreateRule
  <2>1. kind = "security_group"
    BY <1>9, RoleStages, QuotaStages, FlavorStages, RuleStages, DeleteStages,
       UnlinkStages DEF CreateRule, Running, SeriesTypeOK, Kinds
  <2>2. outcome' = "failed" /\ faults["removal"] = 0 => ~Repeatable
    BY <1>9, <2>1 DEF CreateRule, Request, Running, RulesFit, Repeatable
  <2>3. outcome' # "done" /\ UNCHANGED <<inputs, faults>>
    BY <1>9 DEF CreateRule, Request, Running
  <2> QED
    BY <1>9, <1>b, <1>c, <2>2, <2>3 DEF EndFits
<1>10. CASE PrepareObject
  <2>1. kind = "find_and_delete"
    BY <1>10, RoleStages, QuotaStages, FlavorStages, RuleStages, DeleteStages,
       UnlinkStages DEF PrepareObject, Running, SeriesTypeOK, Kinds
  <2>2. outcome' = "failed" /\ faults["removal"] = 0 => ~Repeatable
    BY <1>10, <2>1 DEF Repeatable, PrepareObject, Request, Running
  <2>3. outcome' # "done" /\ UNCHANGED <<inputs, faults>>
    BY <1>10 DEF PrepareObject, Request, Running
  <2> QED
    BY <1>10, <1>b, <1>c, <2>2, <2>3 DEF EndFits
<1>11. CASE DisableDhcp
  <2>1. outcome' = "running" /\ UNCHANGED inputs
    BY <1>11 DEF DisableDhcp, Request, Running
  <2> QED
    BY <2>1 DEF EndFits
<1>12. CASE CleanPort
  <2>1. kind \in {"find_and_delete", "unlink"}
    BY <1>12, RoleStages, QuotaStages, FlavorStages, RuleStages, DeleteStages,
       UnlinkStages DEF CleanPort, Running, SeriesTypeOK, Kinds
  <2>2. outcome' = "failed" /\ faults["removal"] = 0 => ~Repeatable
    BY <1>12, <2>1 DEF Repeatable, CleanPort, Request, Running
  <2>3. outcome' # "done" /\ UNCHANGED <<inputs, faults>>
    BY <1>12 DEF CleanPort, Request, Running
  <2> QED
    BY <1>12, <1>b, <1>c, <2>2, <2>3 DEF EndFits
<1>13. CASE DeletePolicy
  <2>1. kind = "find_and_delete"
    BY <1>13, RoleStages, QuotaStages, FlavorStages, RuleStages, DeleteStages,
       UnlinkStages DEF DeletePolicy, Running, SeriesTypeOK, Kinds
  <2>2. outcome' = "failed" /\ faults["removal"] = 0 => ~Repeatable
    BY <1>13, <2>1 DEF Repeatable, DeletePolicy, Request, Running
  <2>3. outcome' # "done" /\ UNCHANGED <<inputs, faults>>
    BY <1>13 DEF DeletePolicy, Request, Running
  <2> QED
    BY <1>13, <1>b, <1>c, <2>2, <2>3 DEF EndFits
<1>14. CASE Advance
  BY <1>b, <1>c, StageMoves, <1>14 DEF EndFits, Advance, NextStage, inputs
<1>15. CASE Find
  BY <1>b, <1>c, StageMoves, <1>15 DEF EndFits, Find, NextStage, Running, inputs
<1>16. CASE FindNothing
  BY <1>b, <1>c, StageMoves, <1>16 DEF EndFits, FindNothing, Running, inputs
<1>17. CASE Finish
  BY <1>b, <1>c, StageMoves, <1>17 DEF EndFits, Finish, inputs
<1>18. CASE Fail
  BY <1>b, <1>c, StageMoves, <1>18 DEF EndFits, Fail, inputs
<1>19. CASE WorkerDies
  BY <1>b, <1>c, StageMoves, <1>19 DEF EndFits, WorkerDies, inputs
<1>20. CASE AgentLeaves
  BY <1>b, <1>c, StageMoves, <1>20 DEF EndFits, AgentLeaves, inputs
<1>21. CASE OthersDelete
  BY <1>b, <1>c, StageMoves, <1>21 DEF EndFits, OthersDelete, inputs
<1>22. CASE OthersAdd
  BY <1>b, <1>c, StageMoves, <1>22 DEF EndFits, OthersAdd, inputs
<1>23. CASE UNCHANGED seriesVars
  BY <1>b, <1>c, StageMoves, <1>23 DEF EndFits, seriesVars, inputs
<1> QED
  BY <1>1, <1>2, <1>3, <1>4, <1>5, <1>6, <1>7, <1>8, <1>9, <1>10, <1>11, <1>12,
     <1>13, <1>14, <1>15, <1>16, <1>17, <1>18, <1>19, <1>20, <1>21, <1>22, <1>23
     DEF SeriesNext, Handler

LEMMA SeriesInitInv == SeriesInit => SeriesInv
<1> SUFFICES ASSUME SeriesInit PROVE SeriesInv
  OBVIOUS
<1>1. kind \in Kinds /\ at = 1 /\ todo = {} /\ before = cloud /\ outcome = "running"
  BY DEF SeriesInit
<1>2. Stage = "begin" /\ at \in 1..Len(Plan[kind])
  BY <1>1, PlansBegin DEF Stage
<1>3. SeriesTypeOK
  <2>1. related \in ObjectRelations
    BY DEF SeriesInit, ObjectRelations
  <2>2. faults \in [FaultKinds -> Nat]
    BY DEF SeriesInit
  <2>3. /\ kind \in RoleKinds => wanted \subseteq Members
        /\ kind = "project_quota" => wanted \subseteq Services
        /\ kind = "flavor" => wanted \subseteq Tenants \union {Specs}
        /\ kind = "security_group" => wanted \subseteq OwnRules \union ElsewhereRules
        /\ kind \in {"find_and_delete", "unlink"} => wanted \subseteq Policies
    BY DEF SeriesInit, Start, RoleKinds
  <2> QED
    BY <1>1, <1>2, <2>1, <2>2, <2>3 DEF SeriesInit, SeriesTypeOK
<1>4. TodoFits /\ RolesFit /\ QuotaFit /\ FlavorFit
  BY <1>1, <1>2 DEF TodoFits, RolesFit, QuotaFit, FlavorFit
<1>5. RulesFit
  BY <1>1, <1>2 DEF RulesFit, Kept
<1>6. CleanFit
  BY <1>1, <1>2 DEF CleanFit, SeriesInit, Start, RoleKinds
<1>7. EndFits
  BY <1>1 DEF EndFits
<1> QED
  BY <1>3, <1>4, <1>5, <1>6, <1>7 DEF SeriesInv

LEMMA SeriesStepInv == SeriesInv /\ [SeriesNext]_seriesVars => SeriesInv'
BY SeriesTypeStep, TodoStep, RolesStep, QuotaStep, FlavorStep, RulesStep, CleanStep,
   EndStep DEF SeriesInv

LEMMA SeriesInvariant == SeriesSpec => []SeriesInv
BY SeriesInitInv, SeriesStepInv, PTL DEF SeriesSpec

\* An operation is at a stage of its plan, with inputs of its own kind.
THEOREM SeriesTypeCorrect == SeriesSpec => []SeriesTypeOK
<1>1. SeriesInv => SeriesTypeOK
  BY DEF SeriesInv
<1> QED
  BY <1>1, SeriesInvariant, PTL

\* An operation that succeeds has done all its inputs ask for, over crashes
\* and executions from the first request, if nobody interfered.
THEOREM SeriesComplete == SeriesSpec => []DoneIsComplete
<1>1. SeriesInv => DoneIsComplete
  <2> SUFFICES ASSUME SeriesInv, outcome = "done", Undisturbed PROVE Complete
    BY DEF DoneIsComplete
  <2>0. faults["removal"] = 0
    BY DEF Undisturbed
  <2>1. CASE kind \in RoleKinds
    <3>1. at = Len(Plan[kind]) /\ todo = {}
      BY <2>1, RoleStages DEF SeriesInv, EndFits
    <3>2. (wanted \intersect (Users \X Roles)) \union (wanted \intersect (Groups \X Roles))
            \subseteq cloud
      BY <2>0, <2>1, <3>1, RoleStages DEF SeriesInv, RolesFit
    <3>3. wanted \subseteq (Users \union Groups) \X Roles
      BY <2>1 DEF SeriesInv, SeriesTypeOK, Members
    <3>4. wanted \subseteq cloud
      BY <3>2, <3>3
    <3> QED
      BY <2>1, <3>4 DEF Complete, RoleKinds
  <2>2. CASE kind = "project_quota"
    BY <2>0, <2>2, QuotaStages DEF SeriesInv, EndFits, QuotaFit, Complete
  <2>3. CASE kind = "flavor"
    <3>1. at = Len(Plan[kind]) /\ todo = {}
      BY <2>3, FlavorStages DEF SeriesInv, EndFits
    <3> QED
      BY <2>0, <2>3, <3>1, FlavorStages DEF SeriesInv, FlavorFit, Complete,
         RoleKinds
  <2>4. CASE kind = "security_group"
    <3>1. at = Len(Plan[kind]) /\ todo = {}
      BY <2>4, RuleStages DEF SeriesInv, EndFits
    <3> QED
      BY <2>0, <2>4, <3>1, RuleStages DEF SeriesInv, RulesFit, Kept, Complete,
         RoleKinds
  <2>5. CASE kind = "find_and_delete"
    <3>1. Policies \subseteq cloud \/ Cleaned
      BY <2>5 DEF SeriesInv, CleanFit
    <3>2. CASE at = Len(Plan[kind]) /\ todo = {}
      <4>1. Stage = "delete"
        BY <2>5, <3>2, DeleteStages DEF SeriesInv
      <4>2. Cleaned /\ target \notin cloud /\ target \in wanted
        BY <2>5, <3>2, <4>1 DEF SeriesInv, CleanFit, TodoFits
      <4> QED
        BY <2>5, <4>2 DEF Complete, Cleaned, RoleKinds
    <3>3. CASE wanted \intersect cloud = {}
      <4>1. wanted \subseteq Policies
        BY <2>5 DEF SeriesInv, SeriesTypeOK
      <4>2. wanted # {} => Cleaned /\ ~(wanted \subseteq cloud)
        BY <3>1, <3>3, <4>1
      <4> QED
        BY <2>5, <4>2 DEF Complete, Cleaned, RoleKinds
    <3> QED
      BY <3>2, <3>3 DEF SeriesInv, EndFits
  <2>6. CASE kind = "unlink"
    <3>1. at = Len(Plan[kind]) /\ todo = {}
      BY <2>6, UnlinkStages DEF SeriesInv, EndFits
    <3>2. Stage = "ports"
      BY <2>6, <3>1, UnlinkStages DEF SeriesInv
    <3>3. Cleaned
      BY <2>6, <3>1, <3>2 DEF SeriesInv, CleanFit, Cleaned
    <3> QED
      BY <2>6, <3>3 DEF Complete, Cleaned, RoleKinds
  <2> QED
    BY <2>1, <2>2, <2>3, <2>4, <2>5, <2>6 DEF SeriesInv, SeriesTypeOK, Kinds
<1> QED
  BY <1>1, SeriesInvariant, PTL

\* What is repeatable only fails for a failed request or a removal, whatever
\* an earlier execution of it did before its worker died.
THEOREM RepeatsSucceed == SeriesSpec => []RepeatableSucceeds
<1>1. SeriesInv => RepeatableSucceeds
  <2>1. {"removal", "transient"} \subseteq FaultKinds
    BY DEF FaultKinds
  <2> QED
    BY <2>1 DEF SeriesInv, SeriesTypeOK, EndFits, RepeatableSucceeds
<1> QED
  BY <1>1, SeriesInvariant, PTL

-----------------------------------------------------------------------------
(***************************************************************************)
(* FileShares.  DeletedIsGone is not inductive: it needs to know that a    *)
(* node has never more than one resource (OneIsLeft), the one whose id it  *)
(* has, and so that nothing is made while there is one (Fresh).  That an   *)
(* id is always left for a new resource is a matter of counting (Budget).  *)
(***************************************************************************)

USE NodesAssumption, BoundsAssumption DEF NoId, Serials, Ids, Nodes

\* The steps that each operation has.
StepsFit ==
  \A n \in Nodes :
    phase[n] \in {"idle", "begin", "end"} \union
      CASE op[n] = "create" /\ n = Network -> {"request"}
        [] op[n] = "create" /\ n # Network -> {"lookup", "request", "error", "available"}
        [] op[n] = "delete" /\ n = Network -> {"lookup", "request"}
        [] OTHER -> {"ready", "request", "failed", "gone"}

Finished(n) == op[n] = "delete" /\ phase[n] = "idle" /\ result[n] = "ok"

\* A resource is made only where no id is known; create of a network is never
\* executed again with an id, since it does not look for the network.
Fresh ==
  /\ \A n \in Nodes : At(n, "create", "request") => known[n] = NoId
  /\ \A n \in Nodes : Finished(n) => store[n] = NoId
  /\ op[Network] = "create" /\ phase[Network] # "idle" => store[Network] = NoId
  /\ At(Network, "create", "end") /\ result[Network] = "retry" => known[Network] = NoId

\* A resource that the current create may still make.
Still(n) ==
  IF /\ op[n] = "create" /\ phase[n] # "idle"
     /\ IF phase[n] = "begin" THEN store[n] = NoId ELSE known[n] = NoId
  THEN 1 ELSE 0

\* One resource for each install, and one more for each crash.
Budget ==
  /\ events["crash"] <= MaxEvents["crash"]
  /\ \A n \in Nodes : /\ installs[n] <= MaxInstalls
                      /\ made[n] + Still(n) <= installs[n] + events["crash"]

\* The id a node has, in its attempt or stored.
Current(n) == IF phase[n] \in {"idle", "begin"} THEN store[n] ELSE known[n]
OneIsLeft ==
  \A n \in Nodes \ lost : \A k \in Serials : status[<<n, k>>] # "gone" => k = Current(n)

\* A delete that is about to succeed.
Emptied ==
  \A n \in Nodes \ lost : At(n, "delete", "end") /\ result[n] = "ok" =>
    \A k \in Serials : status[<<n, k>>] = "gone"

Inv == TypeOK /\ StepsFit /\ Fresh /\ Budget /\ OneIsLeft /\ Emptied

-----------------------------------------------------------------------------
\* An event is counted, within its bound.
LEMMA EventTyped ==
  ASSUME events \in [EventKinds -> Nat], NEW k \in EventKinds, Event(k)
  PROVE  /\ events' \in [EventKinds -> Nat]
         /\ events' = [events EXCEPT ![k] = events[k] + 1]
         /\ events'[k] <= MaxEvents[k]
BY DEF Event, EventKinds

\* There is an id for what a node may still make.
LEMMA IdLeft ==
  ASSUME TypeOK, Budget, NEW n \in Nodes, Still(n) = 1
  PROVE  made[n] + 1 \in Serials
BY DEF TypeOK, Budget, EventKinds

-----------------------------------------------------------------------------
LEMMA TypeStep ==
  ASSUME TypeOK, Fresh, Budget, [Next]_vars PROVE TypeOK'
<1>1. ASSUME NEW n \in Nodes,
             BeginCreate(n) \/ BeginDelete(n) \/ Attempt(n) \/ Refuse(n)
             \/ RequestRaises(n) \/ GiveUp(n) \/ Crash(n)
      PROVE  TypeOK'
  <2>1. CASE BeginCreate(n)
    BY <2>1 DEF TypeOK, Statuses, BeginCreate, Begins, resources
  <2>2. CASE BeginDelete(n)
    BY <2>2 DEF TypeOK, Statuses, BeginDelete, Begins, resources
  <2>3. CASE Prepare(n)
    BY <2>3 DEF TypeOK, Statuses, Prepare, Ends, Goto, resources
  <2>4. CASE LookupShare(n)
    BY <2>4 DEF TypeOK, Statuses, LookupShare, Mine, Ends, Goto, At, resources
  <2>5. CASE MakeShare(n)
    <3>1. made[n] + 1 \in Serials
      BY IdLeft, <2>5 DEF Fresh, Still, MakeShare, At
    <3> QED
      BY <3>1, <2>5 DEF TypeOK, Statuses, MakeShare, Makes, Ends, At
  <2>6. CASE n = Network /\ MakeNetwork
    <3>1. made[n] + 1 \in Serials
      BY IdLeft, <2>6 DEF Fresh, Still, MakeNetwork, At
    <3> QED
      BY <3>1, <2>6 DEF TypeOK, Statuses, MakeNetwork, Makes, Ends, At
  <2>7. CASE CheckError(n)
    BY <2>7 DEF TypeOK, Statuses, CheckError, Mine, Ends, Goto, resources
  <2>8. CASE CheckAvailable(n)
    BY <2>8 DEF TypeOK, Statuses, CheckAvailable, Mine, Ends, resources
  <2>9. CASE CheckReady(n)
    BY <2>9 DEF TypeOK, Statuses, CheckReady, Mine, Goto, resources
  <2>10. CASE DeleteShare(n)
    BY <2>10 DEF TypeOK, Statuses, DeleteShare, Mine, MineIs, Goto, At
  <2>11. CASE CheckFailed(n)
    BY <2>11 DEF TypeOK, Statuses, CheckFailed, Mine, Ends, Goto, resources
  <2>12. CASE CheckGone(n)
    BY <2>12 DEF TypeOK, Statuses, CheckGone, Mine, Ends, resources
  <2>13. CASE n = Network /\ LookupNetwork
    BY <2>13 DEF TypeOK, Statuses, LookupNetwork, Mine, Ends, Goto, At, resources
  <2>14. CASE n = Network /\ DeleteNetwork
    BY <2>14 DEF TypeOK, Statuses, DeleteNetwork, MineIs, Ends, At
  <2>15. CASE Store(n)
    BY <2>15 DEF TypeOK, Statuses, Store, Goto, resources
  <2>16. CASE Refuse(n)
    BY EventTyped, <2>16 DEF TypeOK, Statuses, Refuse, Ends, At, resources, EventKinds
  <2>17. CASE RequestRaises(n)
    BY EventTyped, <2>17 DEF TypeOK, Statuses, RequestRaises, Ends, resources, EventKinds
  <2>18. CASE GiveUp(n)
    BY EventTyped, <2>18 DEF TypeOK, Statuses, GiveUp, resources, EventKinds
  <2>19. CASE Crash(n)
    BY EventTyped, <2>19 DEF TypeOK, Statuses, Crash, resources, EventKinds
  <2> QED
    BY <1>1, <2>1, <2>2, <2>3, <2>4, <2>5, <2>6, <2>7, <2>8, <2>9, <2>10, <2>11, <2>12, <2>13, <2>14, <2>15, <2>16, <2>17, <2>18, <2>19 DEF Attempt
<1>2. ASSUME NEW r \in Nodes \X Serials,
             ServiceCompletes(r) \/ ServiceFails(r) \/ OthersRemove(r)
      PROVE  TypeOK'
  <2>1. CASE ServiceCompletes(r)
    BY <2>1 DEF TypeOK, Statuses, ServiceCompletes, Becomes
  <2>2. CASE ServiceFails(r)
    BY EventTyped, <2>2 DEF TypeOK, Statuses, ServiceFails, Becomes, EventKinds
  <2>3. CASE OthersRemove(r)
    BY EventTyped, <2>3 DEF TypeOK, Statuses, OthersRemove, Becomes, EventKinds
  <2> QED
    BY <1>2, <2>1, <2>2, <2>3
<1>3. CASE UNCHANGED vars
  BY <1>3 DEF TypeOK, Statuses, vars, resources
<1> QED
  BY <1>1, <1>2, <1>3 DEF Next

LEMMA StepsStep ==
  ASSUME TypeOK, StepsFit, [Next]_vars PROVE StepsFit'
<1>1. ASSUME NEW n \in Nodes,
             BeginCreate(n) \/ BeginDelete(n) \/ Attempt(n) \/ Refuse(n)
             \/ RequestRaises(n) \/ GiveUp(n) \/ Crash(n)
      PROVE  StepsFit'
  <2>1. CASE BeginCreate(n)
    BY <2>1 DEF TypeOK, StepsFit, BeginCreate, Begins, resources
  <2>2. CASE BeginDelete(n)
    BY <2>2 DEF TypeOK, StepsFit, BeginDelete, Begins, resources
  <2>3. CASE Prepare(n)
    BY <2>3 DEF TypeOK, StepsFit, Prepare, Ends, Goto, resources
  <2>4. CASE LookupShare(n)
    BY <2>4 DEF TypeOK, StepsFit, LookupShare, Mine, Ends, Goto, At, resources
  <2>5. CASE MakeShare(n)
    BY <2>5 DEF TypeOK, StepsFit, MakeShare, Makes, Ends, At
  <2>6. CASE n = Network /\ MakeNetwork
    BY <2>6 DEF TypeOK, StepsFit, MakeNetwork, Makes, Ends, At
  <2>7. CASE CheckError(n)
    BY <2>7 DEF TypeOK, StepsFit, CheckError, Mine, Ends, Goto, resources
  <2>8. CASE CheckAvailable(n)
    BY <2>8 DEF TypeOK, StepsFit, CheckAvailable, Mine, Ends, resources
  <2>9. CASE CheckReady(n)
    BY <2>9 DEF TypeOK, StepsFit, CheckReady, Mine, Goto, resources
  <2>10. CASE DeleteShare(n)
    BY <2>10 DEF TypeOK, StepsFit, DeleteShare, Mine, MineIs, Goto, At
  <2>11. CASE CheckFailed(n)
    BY <2>11 DEF TypeOK, StepsFit, CheckFailed, Mine, Ends, Goto, resources
  <2>12. CASE CheckGone(n)
    BY <2>12 DEF TypeOK, StepsFit, CheckGone, Mine, Ends, resources
  <2>13. CASE n = Network /\ LookupNetwork
    BY <2>13 DEF TypeOK, StepsFit, LookupNetwork, Mine, Ends, Goto, At, resources
  <2>14. CASE n = Network /\ DeleteNetwork
    BY <2>14 DEF TypeOK, StepsFit, DeleteNetwork, MineIs, Ends, At
  <2>15. CASE Store(n)
    BY <2>15 DEF TypeOK, StepsFit, Store, Goto, resources
  <2>16. CASE Refuse(n)
    BY EventTyped, <2>16 DEF TypeOK, StepsFit, Refuse, Ends, At, resources, EventKinds
  <2>17. CASE RequestRaises(n)
    BY EventTyped, <2>17 DEF TypeOK, StepsFit, RequestRaises, Ends, resources, EventKinds
  <2>18. CASE GiveUp(n)
    BY EventTyped, <2>18 DEF TypeOK, StepsFit, GiveUp, resources, EventKinds
  <2>19. CASE Crash(n)
    BY EventTyped, <2>19 DEF TypeOK, StepsFit, Crash, resources, EventKinds
  <2> QED
    BY <1>1, <2>1, <2>2, <2>3, <2>4, <2>5, <2>6, <2>7, <2>8, <2>9, <2>10, <2>11, <2>12, <2>13, <2>14, <2>15, <2>16, <2>17, <2>18, <2>19 DEF Attempt
<1>2. ASSUME NEW r \in Nodes \X Serials,
             ServiceCompletes(r) \/ ServiceFails(r) \/ OthersRemove(r)
      PROVE  StepsFit'
  <2>1. CASE ServiceCompletes(r)
    BY <2>1 DEF TypeOK, StepsFit, ServiceCompletes, Becomes
  <2>2. CASE ServiceFails(r)
    BY EventTyped, <2>2 DEF TypeOK, StepsFit, ServiceFails, Becomes, EventKinds
  <2>3. CASE OthersRemove(r)
    BY EventTyped, <2>3 DEF TypeOK, StepsFit, OthersRemove, Becomes, EventKinds
  <2> QED
    BY <1>2, <2>1, <2>2, <2>3
<1>3. CASE UNCHANGED vars
  BY <1>3 DEF TypeOK, StepsFit, vars, resources
<1> QED
  BY <1>1, <1>2, <1>3 DEF Next

LEMMA FreshStep ==
  ASSUME TypeOK, StepsFit, Fresh, [Next]_vars PROVE Fresh'
<1>1. ASSUME NEW n \in Nodes,
             BeginCreate(n) \/ BeginDelete(n) \/ Attempt(n) \/ Refuse(n)
             \/ RequestRaises(n) \/ GiveUp(n) \/ Crash(n)
      PROVE  Fresh'
  <2>1. CASE BeginCreate(n)
    BY <2>1 DEF TypeOK, StepsFit, Fresh, Finished, At, BeginCreate, Begins, resources
  <2>2. CASE BeginDelete(n)
    BY <2>2 DEF TypeOK, StepsFit, Fresh, Finished, At, BeginDelete, Begins, resources
  <2>3. CASE Prepare(n)
    BY <2>3 DEF TypeOK, StepsFit, Fresh, Finished, At, Prepare, Ends, Goto, resources
  <2>4. CASE LookupShare(n)
    BY <2>4 DEF TypeOK, StepsFit, Fresh, Finished, At, LookupShare, Mine, Ends, Goto, At, resources
  <2>5. CASE MakeShare(n)
    BY <2>5 DEF TypeOK, StepsFit, Fresh, Finished, At, MakeShare, Makes, Ends, At
  <2>6. CASE n = Network /\ MakeNetwork
    BY <2>6 DEF TypeOK, StepsFit, Fresh, Finished, At, MakeNetwork, Makes, Ends, At
  <2>7. CASE CheckError(n)
    BY <2>7 DEF TypeOK, StepsFit, Fresh, Finished, At, CheckError, Mine, Ends, Goto, resources
  <2>8. CASE CheckAvailable(n)
    BY <2>8 DEF TypeOK, StepsFit, Fresh, Finished, At, CheckAvailable, Mine, Ends, resources
  <2>9. CASE CheckReady(n)
    BY <2>9 DEF TypeOK, StepsFit, Fresh, Finished, At, CheckReady, Mine, Goto, resources
  <2>10. CASE DeleteShare(n)
    BY <2>10 DEF TypeOK, StepsFit, Fresh, Finished, At, DeleteShare, Mine, MineIs, Goto, At
  <2>11. CASE CheckFailed(n)
    BY <2>11 DEF TypeOK, StepsFit, Fresh, Finished, At, CheckFailed, Mine, Ends, Goto, resources
  <2>12. CASE CheckGone(n)
    BY <2>12 DEF TypeOK, StepsFit, Fresh, Finished, At, CheckGone, Mine, Ends, resources
  <2>13. CASE n = Network /\ LookupNetwork
    BY <2>13 DEF TypeOK, StepsFit, Fresh, Finished, At, LookupNetwork, Mine, Ends, Goto, At, resources
  <2>14. CASE n = Network /\ DeleteNetwork
    BY <2>14 DEF TypeOK, StepsFit, Fresh, Finished, At, DeleteNetwork, MineIs, Ends, At
  <2>15. CASE Store(n)
    BY <2>15 DEF TypeOK, StepsFit, Fresh, Finished, At, Store, Goto, resources
  <2>16. CASE Refuse(n)
    BY EventTyped, <2>16 DEF TypeOK, StepsFit, Fresh, Finished, At, Refuse, Ends, At, resources, EventKinds
  <2>17. CASE RequestRaises(n)
    BY EventTyped, <2>17 DEF TypeOK, StepsFit, Fresh, Finished, At, RequestRaises, Ends, resources, EventKinds
  <2>18. CASE GiveUp(n)
    BY EventTyped, <2>18 DEF TypeOK, StepsFit, Fresh, Finished, At, GiveUp, resources, EventKinds
  <2>19. CASE Crash(n)
    BY EventTyped, <2>19 DEF TypeOK, StepsFit, Fresh, Finished, At, Crash, resources, EventKinds
  <2> QED
    BY <1>1, <2>1, <2>2, <2>3, <2>4, <2>5, <2>6, <2>7, <2>8, <2>9, <2>10, <2>11, <2>12, <2>13, <2>14, <2>15, <2>16, <2>17, <2>18, <2>19 DEF Attempt
<1>2. ASSUME NEW r \in Nodes \X Serials,
             ServiceCompletes(r) \/ ServiceFails(r) \/ OthersRemove(r)
      PROVE  Fresh'
  <2>1. CASE ServiceCompletes(r)
    BY <2>1 DEF TypeOK, StepsFit, Fresh, Finished, At, ServiceCompletes, Becomes
  <2>2. CASE ServiceFails(r)
    BY EventTyped, <2>2 DEF TypeOK, StepsFit, Fresh, Finished, At, ServiceFails, Becomes, EventKinds
  <2>3. CASE OthersRemove(r)
    BY EventTyped, <2>3 DEF TypeOK, StepsFit, Fresh, Finished, At, OthersRemove, Becomes, EventKinds
  <2> QED
    BY <1>2, <2>1, <2>2, <2>3
<1>3. CASE UNCHANGED vars
  BY <1>3 DEF TypeOK, StepsFit, Fresh, Finished, At, vars, resources
<1> QED
  BY <1>1, <1>2, <1>3 DEF Next

LEMMA BudgetStep ==
  ASSUME TypeOK, Fresh, Budget, [Next]_vars PROVE Budget'
<1>1. ASSUME NEW n \in Nodes,
             BeginCreate(n) \/ BeginDelete(n) \/ Attempt(n) \/ Refuse(n)
             \/ RequestRaises(n) \/ GiveUp(n) \/ Crash(n)
      PROVE  Budget'
  <2>1. CASE BeginCreate(n)
    BY <2>1 DEF TypeOK, Fresh, Budget, Still, At, EventKinds, BeginCreate, Begins, resources
  <2>2. CASE BeginDelete(n)
    BY <2>2 DEF TypeOK, Fresh, Budget, Still, At, EventKinds, BeginDelete, Begins, resources
  <2>3. CASE Prepare(n)
    BY <2>3 DEF TypeOK, Fresh, Budget, Still, At, EventKinds, Prepare, Ends, Goto, resources
  <2>4. CASE LookupShare(n)
    BY <2>4 DEF TypeOK, Fresh, Budget, Still, At, EventKinds, LookupShare, Mine, Ends, Goto, At, resources
  <2>5. CASE MakeShare(n)
    BY <2>5 DEF TypeOK, Fresh, Budget, Still, At, EventKinds, MakeShare, Makes, Ends, At
  <2>6. CASE n = Network /\ MakeNetwork
    BY <2>6 DEF TypeOK, Fresh, Budget, Still, At, EventKinds, MakeNetwork, Makes, Ends, At
  <2>7. CASE CheckError(n)
    BY <2>7 DEF TypeOK, Fresh, Budget, Still, At, EventKinds, CheckError, Mine, Ends, Goto, resources
  <2>8. CASE CheckAvailable(n)
    BY <2>8 DEF TypeOK, Fresh, Budget, Still, At, EventKinds, CheckAvailable, Mine, Ends, resources
  <2>9. CASE CheckReady(n)
    BY <2>9 DEF TypeOK, Fresh, Budget, Still, At, EventKinds, CheckReady, Mine, Goto, resources
  <2>10. CASE DeleteShare(n)
    BY <2>10 DEF TypeOK, Fresh, Budget, Still, At, EventKinds, DeleteShare, Mine, MineIs, Goto, At
  <2>11. CASE CheckFailed(n)
    BY <2>11 DEF TypeOK, Fresh, Budget, Still, At, EventKinds, CheckFailed, Mine, Ends, Goto, resources
  <2>12. CASE CheckGone(n)
    BY <2>12 DEF TypeOK, Fresh, Budget, Still, At, EventKinds, CheckGone, Mine, Ends, resources
  <2>13. CASE n = Network /\ LookupNetwork
    BY <2>13 DEF TypeOK, Fresh, Budget, Still, At, EventKinds, LookupNetwork, Mine, Ends, Goto, At, resources
  <2>14. CASE n = Network /\ DeleteNetwork
    BY <2>14 DEF TypeOK, Fresh, Budget, Still, At, EventKinds, DeleteNetwork, MineIs, Ends, At
  <2>15. CASE Store(n)
    BY <2>15 DEF TypeOK, Fresh, Budget, Still, At, EventKinds, Store, Goto, resources
  <2>16. CASE Refuse(n)
    BY EventTyped, <2>16 DEF TypeOK, Fresh, Budget, Still, At, EventKinds, Refuse, Ends, At, resources
  <2>17. CASE RequestRaises(n)
    BY EventTyped, <2>17 DEF TypeOK, Fresh, Budget, Still, At, EventKinds, RequestRaises, Ends, resources
  <2>18. CASE GiveUp(n)
    BY EventTyped, <2>18 DEF TypeOK, Fresh, Budget, Still, At, EventKinds, GiveUp, resources
  <2>19. CASE Crash(n)
    BY EventTyped, <2>19 DEF TypeOK, Fresh, Budget, Still, At, EventKinds, Crash, resources
  <2> QED
    BY <1>1, <2>1, <2>2, <2>3, <2>4, <2>5, <2>6, <2>7, <2>8, <2>9, <2>10, <2>11, <2>12, <2>13, <2>14, <2>15, <2>16, <2>17, <2>18, <2>19 DEF Attempt
<1>2. ASSUME NEW r \in Nodes \X Serials,
             ServiceCompletes(r) \/ ServiceFails(r) \/ OthersRemove(r)
      PROVE  Budget'
  <2>1. CASE ServiceCompletes(r)
    BY <2>1 DEF TypeOK, Fresh, Budget, Still, At, EventKinds, ServiceCompletes, Becomes
  <2>2. CASE ServiceFails(r)
    BY EventTyped, <2>2 DEF TypeOK, Fresh, Budget, Still, At, EventKinds, ServiceFails, Becomes
  <2>3. CASE OthersRemove(r)
    BY EventTyped, <2>3 DEF TypeOK, Fresh, Budget, Still, At, EventKinds, OthersRemove, Becomes
  <2> QED
    BY <1>2, <2>1, <2>2, <2>3
<1>3. CASE UNCHANGED vars
  BY <1>3 DEF TypeOK, Fresh, Budget, Still, At, EventKinds, vars, resources
<1> QED
  BY <1>1, <1>2, <1>3 DEF Next

LEMMA OneStep ==
  ASSUME TypeOK, StepsFit, Fresh, OneIsLeft, Emptied, [Next]_vars PROVE OneIsLeft'
<1>1. ASSUME NEW n \in Nodes,
             BeginCreate(n) \/ BeginDelete(n) \/ Attempt(n) \/ Refuse(n)
             \/ RequestRaises(n) \/ GiveUp(n) \/ Crash(n)
      PROVE  OneIsLeft'
  <2>1. CASE BeginCreate(n)
    BY <2>1 DEF TypeOK, Fresh, OneIsLeft, Emptied, Current, At, BeginCreate, Begins, resources
  <2>2. CASE BeginDelete(n)
    BY <2>2 DEF TypeOK, Fresh, OneIsLeft, Emptied, Current, At, BeginDelete, Begins, resources
  <2>3. CASE Prepare(n)
    BY <2>3 DEF TypeOK, Fresh, OneIsLeft, Emptied, Current, At, Prepare, Ends, Goto, resources
  <2>4. CASE LookupShare(n)
    BY <2>4 DEF TypeOK, Fresh, OneIsLeft, Emptied, Current, At, LookupShare, Mine, Ends, Goto, At, resources
  <2>5. CASE MakeShare(n)
    BY <2>5 DEF TypeOK, Fresh, OneIsLeft, Emptied, Current, At, MakeShare, Makes, Ends, At
  <2>6. CASE n = Network /\ MakeNetwork
    BY <2>6 DEF TypeOK, Fresh, OneIsLeft, Emptied, Current, At, MakeNetwork, Makes, Ends, At
  <2>7. CASE CheckError(n)
    BY <2>7 DEF TypeOK, Fresh, OneIsLeft, Emptied, Current, At, CheckError, Mine, Ends, Goto, resources
  <2>8. CASE CheckAvailable(n)
    BY <2>8 DEF TypeOK, Fresh, OneIsLeft, Emptied, Current, At, CheckAvailable, Mine, Ends, resources
  <2>9. CASE CheckReady(n)
    BY <2>9 DEF TypeOK, Fresh, OneIsLeft, Emptied, Current, At, CheckReady, Mine, Goto, resources
  <2>10. CASE DeleteShare(n)
    BY <2>10 DEF TypeOK, Fresh, OneIsLeft, Emptied, Current, At, DeleteShare, Mine, MineIs, Goto, At
  <2>11. CASE CheckFailed(n)
    BY <2>11 DEF TypeOK, Fresh, OneIsLeft, Emptied, Current, At, CheckFailed, Mine, Ends, Goto, resources
  <2>12. CASE CheckGone(n)
    BY <2>12 DEF TypeOK, Fresh, OneIsLeft, Emptied, Current, At, CheckGone, Mine, Ends, resources
  <2>13. CASE n = Network /\ LookupNetwork
    BY <2>13 DEF TypeOK, Fresh, OneIsLeft, Emptied, Current, At, LookupNetwork, Mine, Ends, Goto, At, resources
  <2>14. CASE n = Network /\ DeleteNetwork
    BY <2>14 DEF TypeOK, Fresh, OneIsLeft, Emptied, Current, At, DeleteNetwork, MineIs, Ends, At
  <2>15. CASE Store(n)
    BY <2>15 DEF TypeOK, Fresh, OneIsLeft, Emptied, Current, At, Store, Goto, resources
  <2>16. CASE Refuse(n)
    BY EventTyped, <2>16 DEF TypeOK, Fresh, OneIsLeft, Emptied, Current, At, Refuse, Ends, At, resources, EventKinds
  <2>17. CASE RequestRaises(n)
    BY EventTyped, <2>17 DEF TypeOK, Fresh, OneIsLeft, Emptied, Current, At, RequestRaises, Ends, resources, EventKinds
  <2>18. CASE GiveUp(n)
    BY EventTyped, <2>18 DEF TypeOK, Fresh, OneIsLeft, Emptied, Current, At, GiveUp, resources, EventKinds
  <2>19. CASE Crash(n)
    BY EventTyped, <2>19 DEF TypeOK, Fresh, OneIsLeft, Emptied, Current, At, Crash, resources, EventKinds
  <2> QED
    BY <1>1, <2>1, <2>2, <2>3, <2>4, <2>5, <2>6, <2>7, <2>8, <2>9, <2>10, <2>11, <2>12, <2>13, <2>14, <2>15, <2>16, <2>17, <2>18, <2>19 DEF Attempt
<1>2. ASSUME NEW r \in Nodes \X Serials,
             ServiceCompletes(r) \/ ServiceFails(r) \/ OthersRemove(r)
      PROVE  OneIsLeft'
  <2>1. CASE ServiceCompletes(r)
    BY <2>1 DEF TypeOK, Fresh, OneIsLeft, Emptied, Current, At, ServiceCompletes, Becomes
  <2>2. CASE ServiceFails(r)
    BY EventTyped, <2>2 DEF TypeOK, Fresh, OneIsLeft, Emptied, Current, At, ServiceFails, Becomes, EventKinds
  <2>3. CASE OthersRemove(r)
    BY EventTyped, <2>3 DEF TypeOK, Fresh, OneIsLeft, Emptied, Current, At, OthersRemove, Becomes, EventKinds
  <2> QED
    BY <1>2, <2>1, <2>2, <2>3
<1>3. CASE UNCHANGED vars
  BY <1>3 DEF TypeOK, Fresh, OneIsLeft, Emptied, Current, At, vars, resources
<1> QED
  BY <1>1, <1>2, <1>3 DEF Next

LEMMA EmptiedStep ==
  ASSUME TypeOK, StepsFit, OneIsLeft, Emptied, [Next]_vars PROVE Emptied'
<1>1. ASSUME NEW n \in Nodes,
             BeginCreate(n) \/ BeginDelete(n) \/ Attempt(n) \/ Refuse(n)
             \/ RequestRaises(n) \/ GiveUp(n) \/ Crash(n)
      PROVE  Emptied'
  <2>1. CASE BeginCreate(n)
    BY <2>1 DEF TypeOK, StepsFit, OneIsLeft, Emptied, Current, At, BeginCreate, Begins, resources
  <2>2. CASE BeginDelete(n)
    BY <2>2 DEF TypeOK, StepsFit, OneIsLeft, Emptied, Current, At, BeginDelete, Begins, resources
  <2>3. CASE Prepare(n)
    BY <2>3 DEF TypeOK, StepsFit, OneIsLeft, Emptied, Current, At, Prepare, Ends, Goto, resources
  <2>4. CASE LookupShare(n)
    BY <2>4 DEF TypeOK, StepsFit, OneIsLeft, Emptied, Current, At, LookupShare, Mine, Ends, Goto, At, resources
  <2>5. CASE MakeShare(n)
    BY <2>5 DEF TypeOK, StepsFit, OneIsLeft, Emptied, Current, At, MakeShare, Makes, Ends, At
  <2>6. CASE n = Network /\ MakeNetwork
    BY <2>6 DEF TypeOK, StepsFit, OneIsLeft, Emptied, Current, At, MakeNetwork, Makes, Ends, At
  <2>7. CASE CheckError(n)
    BY <2>7 DEF TypeOK, StepsFit, OneIsLeft, Emptied, Current, At, CheckError, Mine, Ends, Goto, resources
  <2>8. CASE CheckAvailable(n)
    BY <2>8 DEF TypeOK, StepsFit, OneIsLeft, Emptied, Current, At, CheckAvailable, Mine, Ends, resources
  <2>9. CASE CheckReady(n)
    BY <2>9 DEF TypeOK, StepsFit, OneIsLeft, Emptied, Current, At, CheckReady, Mine, Goto, resources
  <2>10. CASE DeleteShare(n)
    BY <2>10 DEF TypeOK, StepsFit, OneIsLeft, Emptied, Current, At, DeleteShare, Mine, MineIs, Goto, At
  <2>11. CASE CheckFailed(n)
    BY <2>11 DEF TypeOK, StepsFit, OneIsLeft, Emptied, Current, At, CheckFailed, Mine, Ends, Goto, resources
  <2>12. CASE CheckGone(n)
    BY <2>12 DEF TypeOK, StepsFit, OneIsLeft, Emptied, Current, At, CheckGone, Mine, Ends, resources
  <2>13. CASE n = Network /\ LookupNetwork
    BY <2>13 DEF TypeOK, StepsFit, OneIsLeft, Emptied, Current, At, LookupNetwork, Mine, Ends, Goto, At, resources
  <2>14. CASE n = Network /\ DeleteNetwork
    BY <2>14 DEF TypeOK, StepsFit, OneIsLeft, Emptied, Current, At, DeleteNetwork, MineIs, Ends, At
  <2>15. CASE Store(n)
    BY <2>15 DEF TypeOK, StepsFit, OneIsLeft, Emptied, Current, At, Store, Goto, resources
  <2>16. CASE Refuse(n)
    BY EventTyped, <2>16 DEF TypeOK, StepsFit, OneIsLeft, Emptied, Current, At, Refuse, Ends, At, resources, EventKinds
  <2>17. CASE RequestRaises(n)
    BY EventTyped, <2>17 DEF TypeOK, StepsFit, OneIsLeft, Emptied, Current, At, RequestRaises, Ends, resources, EventKinds
  <2>18. CASE GiveUp(n)
    BY EventTyped, <2>18 DEF TypeOK, StepsFit, OneIsLeft, Emptied, Current, At, GiveUp, resources, EventKinds
  <2>19. CASE Crash(n)
    BY EventTyped, <2>19 DEF TypeOK, StepsFit, OneIsLeft, Emptied, Current, At, Crash, resources, EventKinds
  <2> QED
    BY <1>1, <2>1, <2>2, <2>3, <2>4, <2>5, <2>6, <2>7, <2>8, <2>9, <2>10, <2>11, <2>12, <2>13, <2>14, <2>15, <2>16, <2>17, <2>18, <2>19 DEF Attempt
<1>2. ASSUME NEW r \in Nodes \X Serials,
             ServiceCompletes(r) \/ ServiceFails(r) \/ OthersRemove(r)
      PROVE  Emptied'
  <2>1. CASE ServiceCompletes(r)
    BY <2>1 DEF TypeOK, StepsFit, OneIsLeft, Emptied, Current, At, ServiceCompletes, Becomes
  <2>2. CASE ServiceFails(r)
    BY EventTyped, <2>2 DEF TypeOK, StepsFit, OneIsLeft, Emptied, Current, At, ServiceFails, Becomes, EventKinds
  <2>3. CASE OthersRemove(r)
    BY EventTyped, <2>3 DEF TypeOK, StepsFit, OneIsLeft, Emptied, Current, At, OthersRemove, Becomes, EventKinds
  <2> QED
    BY <1>2, <2>1, <2>2, <2>3
<1>3. CASE UNCHANGED vars
  BY <1>3 DEF TypeOK, StepsFit, OneIsLeft, Emptied, Current, At, vars, resources
<1> QED
  BY <1>1, <1>2, <1>3 DEF Next

LEMMA InvInit == Init => Inv
<1> SUFFICES ASSUME Init PROVE Inv
  OBVIOUS
<1>1. TypeOK /\ StepsFit
  BY DEF Init, TypeOK, StepsFit, Statuses, EventKinds
<1>2. Fresh /\ Budget
  BY DEF Init, Fresh, Finished, Budget, Still, At, EventKinds
<1>3. OneIsLeft /\ Emptied
  BY DEF Init, OneIsLeft, Emptied, At
<1> QED
  BY <1>1, <1>2, <1>3 DEF Inv

LEMMA InvStep == Inv /\ [Next]_vars => Inv'
BY TypeStep, StepsStep, FreshStep, BudgetStep, OneStep, EmptiedStep DEF Inv

LEMMA Invariant == Spec => []Inv
BY InvInit, InvStep, PTL DEF Spec

(***************************************************************************)
(* Every variable keeps its type; in particular there is always an id for  *)
(* what a node makes, since it makes one resource in each install and one  *)
(* more after each crash.                                                  *)
(***************************************************************************)
THEOREM TypeCorrect == Spec => []TypeOK
<1>1. Inv => TypeOK
  BY DEF Inv
<1> QED
  BY <1>1, Invariant, PTL

(***************************************************************************)
(* After a delete that succeeded there is nothing left of the node, however*)
(* many attempts, errors and removals by others there were, unless a worker*)
(* died between a request and the end of its attempt.                      *)
(***************************************************************************)
THEOREM NothingLeft == Spec => []DeletedIsGone
<1>1. Inv => DeletedIsGone
  BY DEF Inv, TypeOK, Fresh, Finished, OneIsLeft, Current, DeletedIsGone
<1> QED
  BY <1>1, Invariant, PTL
=============================================================================
