--------------------------- MODULE RequestSeries ---------------------------
(***************************************************************************)
(* Operations that make a series of requests, any of which may fail:       *)
(*   "project"          start of a project: roles of users, then of groups *)
(*   "external_project" create of an existing project: the same            *)
(*   "project_quota"    update of the quota of three services              *)
(*   "flavor"           create of a flavor: extra specs, access of tenants *)
(*   "security_group"   configure of a security group: its rules           *)
(*   "find_and_delete"  of an RBAC policy: find it by the object related   *)
(*                      to its node, clean its network, delete it          *)
(*   "unlink"           of an RBAC policy: clean its network               *)
(*                                                                         *)
(* Nothing is stored between two requests and nothing is undone: when the  *)
(* series breaks off, what was done stays, and an operation whose worker   *)
(* died is executed again from the first request.  The names in a request  *)
(* (a user, a role, a tenant) are looked up and may have gone by then.     *)
(*                                                                         *)
(* Inputs are sets: a list without duplicates whose order does not matter. *)
(* A user or group is named with one role at least.                        *)
(***************************************************************************)
EXTENDS Naturals, Sequences

CONSTANTS Users, Groups, Roles,   \* names known to the identity service
          Tenants,                \* projects a flavor may be open to
          Flavor, Specs,          \* a flavor name, its extra specs
          DefaultRules,           \* the egress rules of a new security group
          ExtraRules,             \* other rules of that group
          ElsewhereRules,         \* rules that name another security group
          Subnets, Ports,         \* the subnets and ports of a network
          DhcpPort,               \* its port for dhcp
          Policies,               \* RBAC policies
          None,                   \* no policy
          MaxFaults               \* a bound on the faults of each kind

\* Those that assign roles: start, and create of an external project.
RoleKinds == {"project", "external_project"}
Kinds == RoleKinds \union {"project_quota", "flavor", "security_group",
                           "find_and_delete", "unlink"}
FaultKinds == {"crash", "transient", "removal", "arrival"}

ASSUME BudgetAssumption == MaxFaults \in [FaultKinds -> Nat]
\* The network service has no id twice.
ASSUME PoliciesAssumption == Policies \intersect (Subnets \union Ports \union {DhcpPort}) = {}

OwnRules == DefaultRules \union ExtraRules
Members == (Users \union Groups) \X Roles
Services == {"nova", "neutron", "cinder"}

(***************************************************************************)
(* The relationship of an RBAC policy to the object it is for: exactly one,*)
(* none with an object that has id and type, several, or one although the  *)
(* properties or inputs name an object too.                                *)
(***************************************************************************)
ObjectRelations == {"once", "never", "many", "twice"}

VARIABLES
  kind,     \* the operation
  option,   \* its switch: quota given, egress rules disabled, dhcp disabled
  clean,    \* clean_ports
  related,  \* how the object of an RBAC policy is given
  wanted,   \* the members, tenants, rules or policies its inputs name
  cloud,    \* what exists: names, rules, ports, policies, subnets with dhcp, ...
  before,   \* history: what existed when the operation began
  at,       \* the stage of the operation
  todo,     \* the requests of the stage that are still to be made
  target,   \* the policy find_and_delete found
  outcome,   \* "running", "done" or "failed"
  faults    \* faults so far, by kind

inputs == <<kind, option, clean, related, wanted, before>>
seriesVars == <<inputs, cloud, at, todo, target, outcome, faults>>

(***************************************************************************)
(* The states in which an operation may begin.  A new security group has   *)
(* the default rules; a network with dhcp on a subnet has a port for it.   *)
(***************************************************************************)
Start ==
  \/ /\ kind \in RoleKinds
     /\ wanted \in SUBSET Members
     /\ cloud \in SUBSET (Users \union Groups \union Roles)
  \/ /\ kind = "project_quota"
     /\ wanted \in SUBSET Services
     /\ cloud = {}
  \/ /\ kind = "flavor"
     /\ wanted \in SUBSET (Tenants \union {Specs})
     /\ cloud \in SUBSET (Tenants \union {Flavor})
  \/ /\ kind = "security_group"
     /\ wanted \in SUBSET (OwnRules \union ElsewhereRules)
     /\ \E there \in SUBSET ElsewhereRules : cloud = DefaultRules \union there
  \/ /\ kind \in {"find_and_delete", "unlink"}
     /\ wanted \in SUBSET Policies
     /\ \E served \in SUBSET Subnets, used \in SUBSET Ports :
          cloud = Policies \union served \union used \union
                  IF served = {} THEN {} ELSE {DhcpPort}

Plan == [project |-> <<"begin", "check_users", "assign_users",
                       "check_groups", "assign_groups", "quota">>,
         external_project |-> <<"begin", "check_users", "assign_users",
                                "check_groups", "assign_groups">>,
         project_quota |-> <<"begin", "quotas">>,
         flavor |-> <<"begin", "create", "specs", "access">>,
         security_group |-> <<"begin", "clear", "rules">>,
         find_and_delete |-> <<"begin", "prepare", "find", "dhcp", "ports",
                               "delete">>,
         unlink |-> <<"begin", "dhcp", "ports">>]
Stage == Plan[kind][at]

SeriesInit ==
  /\ kind \in Kinds /\ option \in BOOLEAN /\ clean \in BOOLEAN
  /\ related \in IF kind = "find_and_delete"
                 THEN ObjectRelations ELSE {"never"}
  /\ Start
  /\ before = cloud
  /\ at = 1 /\ todo = {} /\ target = None /\ outcome = "running"
  /\ faults = [k \in FaultKinds |-> 0]

Fault(k) == /\ faults[k] < MaxFaults[k]
            /\ faults' = [faults EXCEPT ![k] = @ + 1]

-----------------------------------------------------------------------------
\* The names _validate_users and _validate_groups look up.
Names(subjects) ==
  LET named == {m \in wanted : m[1] \in subjects}
  IN {m[1] : m \in named} \union {m[2] : m \in named}

\* Mutant: only default rules are listed for deletion.
Listed_Defaults(stage) ==
  CASE stage = "check_users"   -> Names(Users)
    [] stage = "assign_users"  -> wanted \intersect (Users \X Roles)
    [] stage = "check_groups"  -> Names(Groups)
    [] stage = "assign_groups" -> wanted \intersect (Groups \X Roles)
    [] stage = "quota"         -> IF option THEN {"quota"} ELSE {}
    [] stage = "quotas"        -> wanted
    [] stage = "create"        -> {Flavor}
    [] stage = "specs"         -> wanted \intersect {Specs}
    [] stage = "access"        -> wanted \ {Specs}
    [] stage = "clear"         -> IF option THEN cloud \intersect DefaultRules ELSE {}
    [] stage = "rules"         -> wanted
    [] stage = "dhcp"          -> IF option THEN cloud \intersect Subnets ELSE {}
    [] stage = "ports"         -> IF clean THEN cloud \intersect (Ports \union {DhcpPort})
                                  ELSE {}
    [] stage = "prepare"       -> {"object"}
    [] stage = "find"          -> {}
    [] stage = "delete"        -> {target}

(***************************************************************************)
(* The requests of a stage, as the inputs and the lists read at its start  *)
(* give them.  All rules of the group are listed, not only default ones,   *)
(* and all ports of the network, whoever made them.                        *)
(***************************************************************************)
Listed(stage) ==
  CASE stage = "check_users"   -> Names(Users)
    [] stage = "assign_users"  -> wanted \intersect (Users \X Roles)
    [] stage = "check_groups"  -> Names(Groups)
    [] stage = "assign_groups" -> wanted \intersect (Groups \X Roles)
    [] stage = "quota"         -> IF option THEN {"quota"} ELSE {}
    [] stage = "quotas"        -> wanted
    [] stage = "create"        -> {Flavor}
    [] stage = "specs"         -> wanted \intersect {Specs}
    [] stage = "access"        -> wanted \ {Specs}
    [] stage = "clear"         -> IF option THEN cloud \intersect OwnRules ELSE {}
    [] stage = "rules"         -> wanted
    [] stage = "dhcp"          -> IF option THEN cloud \intersect Subnets ELSE {}
    [] stage = "ports"         -> IF clean THEN cloud \intersect (Ports \union {DhcpPort})
                                  ELSE {}
    [] stage = "prepare"       -> {"object"}
    [] stage = "find"          -> {}
    [] stage = "delete"        -> {target}

-----------------------------------------------------------------------------
Running(stages) == outcome = "running" /\ Stage \in stages

\* Mutant: an error answer is logged and the next request made.
Request_Ignored(item, accepted, effect) ==
  /\ item \in todo
  /\ cloud' = IF accepted THEN effect ELSE cloud
  /\ todo' = todo \ {item}
  /\ UNCHANGED <<inputs, at, target, outcome, faults>>

\* A request has its effect, or its error is the end of the operation.
Request(item, accepted, effect) ==
  /\ item \in todo
  /\ \/ /\ accepted
        /\ cloud' = effect
        /\ todo' = todo \ {item}
        /\ UNCHANGED outcome
     \/ /\ ~accepted
        /\ outcome' = "failed"
        /\ UNCHANGED <<cloud, todo>>
  /\ UNCHANGED <<inputs, at, target, faults>>

\* _validate_users, _validate_groups: a name is looked up.
Validate ==
  /\ Running({"check_users", "check_groups"})
  /\ \E n \in todo : Request(n, n \in cloud, cloud)

\* _assign_users, _assign_groups: the names are looked up again.
Assign ==
  /\ Running({"assign_users", "assign_groups"})
  /\ \E m \in todo : Request(m, {m[1], m[2]} \subseteq cloud, cloud \union {m})

\* start of a project refuses a quota, after everything else.
RefuseQuota ==
  /\ Running({"quota"})
  /\ \E q \in todo : Request(q, FALSE, cloud)

\* update_quota_sets
SetQuota ==
  /\ Running({"quotas"})
  /\ \E s \in todo : Request(s, TRUE, cloud \union {s})

\* Names of flavors are unique.
CreateFlavor ==
  /\ Running({"create"})
  /\ Request(Flavor, Flavor \notin cloud, cloud \union {Flavor})

SetSpecs ==
  /\ Running({"specs"})
  /\ Request(Specs, Flavor \in cloud, cloud \union {Specs})

AddAccess ==
  /\ Running({"access"})
  /\ \E t \in todo : Request(t, {Flavor, t} \subseteq cloud,
                             cloud \union {<<Flavor, t>>})

\* configure looks a rule up before it deletes it.
DeleteRule ==
  /\ Running({"clear"})
  /\ \E r \in todo : Request(r, r \in cloud, cloud \ {r})

\* The network service refuses a rule that exists.
CreateRule ==
  /\ Running({"rules"})
  /\ \E r \in todo : Request(r, r \notin cloud, cloud \union {r})

(***************************************************************************)
(* _prepare_rbac_policy_object.  The object must be the target of exactly  *)
(* one relationship, and not given by the properties or inputs as well.    *)
(* Given there alone it is never read: the attribute is misspelt.          *)
(***************************************************************************)
ObjectIsRelated == related = "once"
PrepareObject ==
  /\ Running({"prepare"})
  /\ Request("object", ObjectIsRelated, cloud)

\* _disable_dhcp_for_subnets
DisableDhcp ==
  /\ Running({"dhcp"})
  /\ \E s \in todo : Request(s, TRUE, cloud \ {s})

\* _clean_ports_from_network: update, then delete, both of which look the
\* port up.
CleanPort ==
  /\ Running({"ports"})
  /\ \E p \in todo : Request(p, p \in cloud, cloud \ {p})

\* A policy is in use as long as its network has ports.
DeletePolicy ==
  /\ Running({"delete"})
  /\ Request(target,
             target \in cloud /\ (Ports \union {DhcpPort}) \intersect cloud = {},
             cloud \ {target})

\* When a stage is over the next one begins.
NextStage ==
  /\ outcome = "running" /\ todo = {} /\ at < Len(Plan[kind])
  /\ at' = at + 1
  /\ todo' = Listed(Plan[kind][at + 1])
  /\ UNCHANGED <<inputs, cloud, outcome, faults>>

Advance ==
  /\ Stage # "find"
  /\ NextStage
  /\ UNCHANGED target

\* find_and_delete takes the first policy that matches its inputs, and only
\* warns if there is none.
Find ==
  /\ Running({"find"})
  /\ target' \in wanted \intersect cloud
  /\ NextStage

FindNothing ==
  /\ Running({"find"})
  /\ wanted \intersect cloud = {}
  /\ outcome' = "done"
  /\ UNCHANGED <<inputs, cloud, at, todo, target, faults>>

Finish ==
  /\ outcome = "running" /\ todo = {} /\ at = Len(Plan[kind])
  /\ outcome' = "done"
  /\ UNCHANGED <<inputs, cloud, at, todo, target, faults>>

\* A request fails without effect: that is the end of the operation.
Fail ==
  /\ outcome = "running" /\ Fault("transient")
  /\ outcome' = "failed"
  /\ UNCHANGED <<inputs, cloud, at, todo, target>>

\* After a crash the operation is executed again from its first request.
WorkerDies ==
  /\ outcome = "running" /\ Fault("crash")
  /\ at' = 1 /\ todo' = {} /\ target' = None
  /\ UNCHANGED <<inputs, cloud, outcome>>

-----------------------------------------------------------------------------
\* The dhcp agent gives its port up some time after the last subnet with dhcp.
AgentLeaves ==
  /\ kind \in {"find_and_delete", "unlink"}
  /\ DhcpPort \in cloud /\ Subnets \intersect cloud = {}
  /\ cloud' = cloud \ {DhcpPort}
  /\ UNCHANGED <<inputs, at, todo, target, outcome, faults>>

\* Somebody else removes something.
OthersDelete ==
  /\ outcome = "running" /\ Fault("removal")
  /\ \E x \in cloud : cloud' = cloud \ {x}
  /\ UNCHANGED <<inputs, at, todo, target, outcome>>

\* Somebody else adds a port to the network.
OthersAdd ==
  /\ outcome = "running" /\ kind \in {"find_and_delete", "unlink"}
  /\ Fault("arrival")
  /\ \E p \in Ports \ cloud : cloud' = cloud \union {p}
  /\ UNCHANGED <<inputs, at, todo, target, outcome>>

-----------------------------------------------------------------------------
Handler == \/ Validate \/ Assign \/ RefuseQuota \/ SetQuota
           \/ CreateFlavor \/ SetSpecs \/ AddAccess
           \/ DeleteRule \/ CreateRule
           \/ PrepareObject \/ DisableDhcp \/ CleanPort \/ DeletePolicy
           \/ Advance \/ Find \/ FindNothing \/ Finish

SeriesNext == \/ Handler \/ Fail \/ WorkerDies
        \/ AgentLeaves \/ OthersDelete \/ OthersAdd

SeriesSpec == SeriesInit /\ [][SeriesNext]_seriesVars

-----------------------------------------------------------------------------
\* Each kind of operation has inputs of its own, and is at a stage of its plan.
SeriesTypeOK ==
  /\ kind \in Kinds /\ option \in BOOLEAN /\ clean \in BOOLEAN
  /\ related \in ObjectRelations
  /\ kind \in RoleKinds => wanted \subseteq Members
  /\ kind = "project_quota" => wanted \subseteq Services
  /\ kind = "flavor" => wanted \subseteq Tenants \union {Specs}
  /\ kind = "security_group" => wanted \subseteq OwnRules \union ElsewhereRules
  /\ kind \in {"find_and_delete", "unlink"} => wanted \subseteq Policies
  /\ at \in 1..Len(Plan[kind])
  /\ target \in Policies \union {None}
  /\ outcome \in {"running", "done", "failed"}
  /\ faults \in [FaultKinds -> Nat]

(***************************************************************************)
(* An operation that succeeds, with crashes and re-executions in between,  *)
(* has done all that its inputs ask for, if nobody removed or added        *)
(* anything meanwhile: every role is assigned; the flavor has its specs    *)
(* and tenants; the rules of the group are the wanted ones and, unless     *)
(* disabled, the default ones; if a policy matches, one is gone, and its   *)
(* network has no dhcp and no ports if that was asked for.                 *)
(***************************************************************************)
Undisturbed == faults["removal"] = 0 /\ faults["arrival"] = 0

Complete ==
  CASE kind \in RoleKinds \union {"project_quota"} -> wanted \subseteq cloud
    [] kind = "flavor" -> /\ {Flavor} \union (wanted \intersect {Specs}) \subseteq cloud
                          /\ \A t \in wanted \ {Specs} : <<Flavor, t>> \in cloud
    [] kind = "security_group" ->
         cloud = wanted \union (before \ IF option THEN OwnRules ELSE {})
    [] OTHER -> kind = "unlink" \/ wanted # {} =>
                  /\ option => Subnets \intersect cloud = {}
                  /\ clean => Ports \intersect cloud = {}
                  /\ kind = "find_and_delete" => ~(wanted \subseteq cloud)

DoneIsComplete == outcome = "done" /\ Undisturbed => Complete

(***************************************************************************)
(* Resumable in fact: a project whose users, groups and roles exist, its   *)
(* quota, and a security group that replaces its rules, are set up however *)
(* often the worker dies on the way; the operation does not trip over what *)
(* an earlier execution of it did.                                         *)
(***************************************************************************)
Repeatable ==
  \/ kind = "project_quota"
  \/ /\ (kind = "project" /\ ~option) \/ kind = "external_project"
     /\ Names(Users \union Groups) \subseteq before
  \/ kind = "security_group" /\ option /\ wanted \subseteq OwnRules

RepeatableSucceeds ==
  outcome = "failed" /\ Repeatable =>
    faults["transient"] + faults["removal"] > 0
=============================================================================
