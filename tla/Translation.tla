---------------------------- MODULE Translation ----------------------------
(***************************************************************************)
(* Nodes of plugin version 2: before every operation its properties and    *)
(* inputs are translated to those that the operation expects.  The module  *)
(* follows one operation of one node, from the type of the node to what    *)
(* the handler is called with.  The translation looks names up, and may    *)
(* refuse.  Settings are functions from keys to values.                    *)
(***************************************************************************)
EXTENDS FiniteSets, Functions, TLC

CONSTANTS Names,      \* names of resources, and other values
          Empty, No,  \* the empty value, and FALSE
          Generated,  \* the name that is made of type, deployment, instance
          Cases(_, _), \* node and cloud, settings, args, and a dictionary
                       \* within them, for a type and an operation
          SomeRules    \* rules of a security group

\* What a lookup of a name finds, and an identifier of the same form.
Id(n) == <<n>>
Identifiers == {Id(n) : n \in Names}
ASSUME ValuesAssumption ==
  /\ Empty # No /\ Generated \notin {Empty, No}
  /\ {Empty, No, Generated} \intersect (Names \union Identifiers) = {}
  /\ Names \intersect Identifiers = {}

-----------------------------------------------------------------------------
\* The settings of version 3; others are passed as its "kwargs".
ResourceConfig == [
  flavor |-> {"name", "ram", "disk", "vcpus"},
  aggregate |-> {"name", "availability_zone"},
  image |-> {"name", "container_format", "disk_format", "tags"},
  keypair |-> {"name", "public_key"},
  server_group |-> {"name", "policies"},
  server |-> {"name", "description", "image_id", "flavor_id", "availability_zone",
              "user_data", "metadata", "security_groups", "networks", "key_name"},
  user |-> {"name", "default_project_id", "domain_id", "enabled", "password", "email"},
  project |-> {"name", "description", "is_domain", "domain_id", "parent_id", "tags"},
  volume |-> {"name", "description", "project_id", "size", "availability_zone",
              "imageRef", "snapshot_id", "volume_type"},
  network |-> {"name", "admin_state_up"},
  subnet |-> {"name", "enable_dhcp", "network_id", "dns_nameservers",
              "allocation_pools", "host_routes", "ip_version", "gateway_ip", "cidr",
              "prefixlen", "ipv6_address_mode", "ipv6_ra_mode"},
  port |-> {"name", "allowed_address_pairs", "device_id", "device_owner",
            "fixed_ips", "network_id", "security_groups"},
  floatingip |-> {"description", "floating_network_id", "floating_network_name",
                  "fixed_ip_address", "floating_ip_address", "port_id",
                  "subnet_id", "dns_domain", "dns_name"},
  router |-> {"name"},
  security_group |-> {"name", "description"},
  rbac_policy |-> {"target_tenant", "object_type", "object_id", "action"}]

\* The filters that lists of version 3 take, and those with another name there.
ListParams == [
  flavor |-> {"limit", "marker", "is_public", "sort_key", "sort_dir", "min_disk", "min_ram"},
  server_group |-> {"all_projects", "limit", "marker"},
  image |-> {"limit", "marker", "name", "visibility", "member_status", "owner",
             "status", "size_min", "size_max", "protected", "is_hidden", "sort_key",
             "sort_dir", "sort", "tag", "created_at", "updated_at"},
  server |-> {"limit", "marker", "image", "flavor", "name", "status", "host",
              "sort_key", "sort_dir", "reservation_id", "tags", "is_deleted",
              "ipv4_address", "ipv6_address", "changes_since", "all_projects"},
  user |-> {"limit", "marker", "domain_id", "name", "password_expires_at", "enabled"},
  project |-> {"limit", "marker", "domain_id", "is_domain", "name", "parent_id",
               "tags", "any_tags", "not_tags", "not_any_tags"},
  volume |-> {"limit", "marker", "name", "status", "project_id", "all_tenants"}]
ParamsMap == [detailed |-> "details", offset |-> "marker"]
Ignored(t) == {"retrieve_all", "page_reverse"} \union
              (IF t = "keypair" THEN {"user_id", "marker", "limit"} ELSE {})

UserParams == {"default_project_id", "enabled", "name", "description", "email", "password"}
ProjectParams == {"name", "is_domain", "description", "domain_id", "enabled", "tags"}
UpdateParams == [user |-> UserParams, project |-> ProjectParams]
CreateParams == [
  user |-> {"domain_id"} \union UserParams,
  project |-> {"parent_id"} \union ProjectParams,
  volume |-> {"name", "description", "size", "imageRef", "project_id", "multiattach",
              "availability_zone", "source_volid", "consistencygroup_id",
              "volume_type", "snapshot_id", "metadata", "scheduler_hints"},
  keypair |-> ResourceConfig.keypair]

\* Settings that name a resource, and those that have its identifier.
IdKeys == [
  user |-> [user |-> "user", domain |-> "domain_id",
            default_project |-> "default_project_id"],
  project |-> [project |-> "project", parent |-> "parent_id", domain |-> "domain_id"],
  server |-> [flavor |-> "flavor_id", image |-> "image_id"]]

NetworkKeys == "net-id" :> "uuid" @@ "port-id" :> "port" @@
               "v4-fixed-ip" :> "fixed_ip" @@ "v6-fixed-ip" :> "fixed_ip"

ResourceTypes == DOMAIN ResourceConfig
OperationKinds == {"create", "update", "list", "other"}

-----------------------------------------------------------------------------
VARIABLES
  type, operation,  \* of the node ("routes" and "unknown" too), and which one
  node,       \* the node, its relationship, the inputs other than args,
              \* and the names that exist on the cloud
  given,      \* history: the settings and args before they were translated
  stage,      \* the step of the translation
  rule,       \* a rule of the security group
  config,     \* the settings of the node
  args, nested,  \* args of the inputs, and a dictionary within them
  account,    \* whose openstack_config is used, and if old items are left in it
  resource_id,
  resource_config, kwargs,  \* the translated settings
  query       \* the filters of a list

situation == <<type, operation, node, given>>
settings == <<config, args, nested>>
target == <<resource_id, resource_config, kwargs, query>>
translationVars == <<situation, stage, rule, settings, account, target>>

Nothing == << >>
\* first, and what only second has.
Over(first, second) ==
  [k \in DOMAIN first \union DOMAIN second |-> IF k \in DOMAIN first THEN first[k] ELSE second[k]]
With(c, k, v) == [j \in DOMAIN c \union {k} |-> IF j = k THEN v ELSE c[j]]
Only(c, K) == Restrict(c, DOMAIN c \intersect K)
Without(c, K) == Restrict(c, DOMAIN c \ K)
IsSet(v) == v \notin {Empty, No}
Has(c, k) == k \in DOMAIN c /\ IsSet(c[k])
At(c, k) == IF k \in DOMAIN c THEN c[k] ELSE Empty
Goto(p) == stage' = p

-----------------------------------------------------------------------------
\* get_openstack_resource_id: by name or identifier; one that is missing is
\* refused unless create_if_missing is set.
NameOf(v) == IF v \in Identifiers THEN v[1] ELSE v
IsThere(v) == NameOf(v) \in node.there
Resolved(v) == IF IsThere(v) THEN Id(NameOf(v)) ELSE Empty
Refused(V) == \E v \in V : ~IsThere(v) /\ ~node.create_if_missing

\* The rest of a step that looks V up follows if it finds them.
After(V, rest) ==
  IF Refused(V) THEN stage' = "refused" /\ UNCHANGED <<rule, settings, account, target>>
                ELSE rest

-----------------------------------------------------------------------------
NoRule == [port |-> Empty, min |-> Empty, max |-> Empty, prefix |-> Empty,
           group |-> Empty, group_node |-> Empty, group_name |-> Empty]
Everywhere == "0.0.0.0/0"

\* A rule says which network its prefix is, or says nothing of it.
ASSUME RulesAssumption ==
  /\ Everywhere \notin {Empty, No}
  /\ \A r \in SomeRules : /\ DOMAIN r = DOMAIN NoRule /\ r.prefix # No
                         /\ r.group_node \in Names \union {Empty, No}
                         /\ r.group_name \in Names \union Identifiers \union {Empty, No}

TranslationInit ==
  /\ type \in ResourceTypes \union {"routes", "unknown"}
  /\ operation \in OperationKinds
  /\ \E c \in Cases(type, operation) :
       node = c.node /\ config = c.config /\ args = c.args /\ nested = c.nested
  /\ rule \in IF type = "security_group" /\ operation = "other" THEN SomeRules ELSE {NoRule}
  /\ given = [config |-> config, args |-> args, nested |-> nested, rule |-> rule]
  /\ account = [owner |-> "node", old |-> node.old_item]
  /\ resource_id = node.resource_id
  /\ resource_config = Nothing /\ kwargs = Nothing /\ query = Nothing
  /\ stage = "lookup"

\* The handler of the first known type in the hierarchy of the node.
LookupHandler ==
  /\ stage = "lookup"
  /\ Goto(CASE type = "unknown" -> "refused"
            [] type = "server" -> "server"
            [] type = "security_group" -> "rules"
            [] type = "routes" -> "routes"
            [] OTHER -> "inputs")
  /\ UNCHANGED <<situation, rule, settings, account, target>>

-----------------------------------------------------------------------------
\* The settings under K move to other keys.
Reworded(c, keys, K) ==
  Over([k \in {keys[j] : j \in K} |-> c[CHOOSE j \in K : keys[j] = k]], Without(c, K))

\* A network in the words of version 3.
Mapped(network) == Reworded(network, NetworkKeys, DOMAIN NetworkKeys \intersect DOMAIN network)

(***************************************************************************)
(* _map_server_networks_config: nics become networks.  A key that is added *)
(* to a dictionary while it is walked ends the operation.                  *)
(***************************************************************************)
NicsOnly(c) == Has(c, "nics") /\ "networks" \notin DOMAIN c
NetworksMapped(c) ==
  IF Has(c, "nics") THEN With(c, "networks", Mapped(c["nics"]))
  ELSE IF Has(c, "networks") THEN With(c, "networks", Mapped(c["networks"])) ELSE c

GroupsMapped(c) ==
  IF Has(c, "security_groups")
  THEN With(c, "security_groups", [name |-> c["security_groups"]]) ELSE c

\* Which of the keys K name something in c.  An empty name is looked up too,
\* and not found, except for servers and lists.
Naming(c, K) ==
  {k \in K \intersect DOMAIN c : type = "server" \/ operation = "list" => IsSet(c[k])}
Named(c, K) == {c[k] : k \in Naming(c, K)}

\* Names are replaced by identifiers, under other keys.
IdsMapped(c, keys) ==
  LET named == Naming(c, DOMAIN keys)
      moved == Reworded(c, keys, named)
  IN [k \in DOMAIN moved |->
        IF k \in {keys[j] : j \in named} THEN Resolved(moved[k]) ELSE moved[k]]

\* The settings of a server in the words of version 3.
ServerMapped(c) == IdsMapped(GroupsMapped(NetworksMapped(c)), IdKeys.server)

\* _transform_server: settings and args, before the inputs are merged.
MapServer ==
  /\ stage = "server"
  /\ IF NicsOnly(config) \/ NicsOnly(args)
     THEN Goto("refused") /\ UNCHANGED <<rule, settings, account, target>>
     ELSE After(Named(config, {"flavor", "image"}) \union Named(args, {"flavor", "image"}),
       /\ config' = ServerMapped(config)
       /\ args' = ServerMapped(args)
       /\ Goto("inputs") /\ UNCHANGED <<rule, nested, account, target>>)
  /\ UNCHANGED situation

-----------------------------------------------------------------------------
(***************************************************************************)
(* _process_security_group_rules.  A remote group is given by identifier,  *)
(* by the node of the deployment, or by name; without any, the rule is     *)
(* restricted to a prefix, by default to all addresses.  Of a node the     *)
(* external_id counts, which only an external resource has.                *)
(***************************************************************************)
WithDefaults(r) ==
  [r EXCEPT !.port = IF IsSet(@) THEN Empty ELSE @,
            !.min = IF IsSet(r.port) THEN r.port ELSE IF @ = Empty THEN "1" ELSE @,
            !.max = IF IsSet(r.port) THEN r.port ELSE IF @ = Empty THEN "65535" ELSE @,
            !.prefix = IF @ = Empty THEN Everywhere ELSE @]

\* Mutant: the prefix is cleared only for an identifier.
Remote_KeepsPrefix(r, id) == [r EXCEPT !.group = id]

Remote(r, id) == [r EXCEPT !.group = id, !.prefix = Empty]

ByNode(r) ==
  IF node.group_node \in {"none", "several"}
  THEN Goto("refused") /\ UNCHANGED rule
  ELSE /\ rule' = Remote([r EXCEPT !.group_node = Empty],
                    IF node.group_node = "external" THEN Id(r.group_node) ELSE Empty)
       /\ Goto("inputs")
ByName(r) ==
  IF Refused({r.group_name})
  THEN Goto("refused") /\ UNCHANGED rule
  ELSE /\ rule' = Remote([r EXCEPT !.group_name = Empty], Resolved(r.group_name))
       /\ Goto("inputs")

Described(c) == IF IsSet(node.description) THEN With(c, "description", node.description) ELSE c

ProcessRule ==
  /\ stage = "rules"
  /\ LET r == WithDefaults(rule) IN
     CASE rule = NoRule -> Goto("inputs") /\ UNCHANGED rule
       [] IsSet(r.group) -> Goto("inputs") /\ rule' = [r EXCEPT !.prefix = Empty]
       [] ~IsSet(r.group) /\ IsSet(r.group_node) -> ByNode(r)
       [] ~IsSet(r.group) /\ ~IsSet(r.group_node) /\ IsSet(r.group_name) -> ByName(r)
       [] OTHER -> Goto("inputs") /\ rule' = r
  /\ config' = Described(config)
  /\ UNCHANGED <<situation, args, nested, account, target>>

-----------------------------------------------------------------------------
\* Mutant: the settings are mapped for every operation.
Handled_Always == IF operation = "list" /\ args # Nothing THEN "list" ELSE "create"

\* What there is to do for the operation.
Handled ==
  CASE operation = "create" -> "create"
    [] operation \in {"list", "update"} /\ (args # Nothing \/ nested # Nothing) -> operation
    [] OTHER -> "identify"

(***************************************************************************)
(* _process_operation_inputs: inputs override openstack_config and         *)
(* resource_id.  An old item among the inputs is dropped there, and only   *)
(* then not from openstack_config.                                         *)
(***************************************************************************)
MergeInputs ==
  /\ stage = "inputs"
  /\ account' = [owner |-> IF node.input_config THEN "inputs" ELSE "node",
                 old |-> account.old /\ node.old_input]
  /\ resource_id' = IF IsSet(node.input_id) THEN node.input_id ELSE resource_id
  /\ Goto(Handled)
  /\ UNCHANGED <<situation, rule, settings, resource_config, kwargs, query>>

\* Mutant: what the node has is left as it is.
Merged_Node(over, c) == Over(c, over)

\* Inputs win.
Merged(over, c) == Over(over, c)

\* Keys that name something, by identifier; other keys if they are allowed.
NamesMapped(c, keys, allowed) == Only(IdsMapped(c, keys),
  allowed \union {keys[k] : k \in Naming(c, DOMAIN keys)})

\* FALSE is not empty.
NotEmpty(c) == Restrict(c, {k \in DOMAIN c : c[k] # Empty})

(***************************************************************************)
(* _process_create_operation_inputs.  (A volume records its size.)         *)
(***************************************************************************)
CreateInputs ==
  /\ stage = "create"
  /\ LET c == Merged(args, config)
         done(new) == /\ config' = NotEmpty(new) /\ args' = Nothing
                      /\ Goto("identify") /\ UNCHANGED <<rule, nested, account, target>>
     IN IF type \in {"user", "project"}
        THEN After(Named(c, DOMAIN IdKeys[type]),
                   done(NamesMapped(c, IdKeys[type], CreateParams[type])))
        ELSE done(IF type \in DOMAIN CreateParams THEN Only(c, CreateParams[type]) ELSE c)
  /\ UNCHANGED situation

\* Mutant: search_opts and filters are not unpacked.
Flat_Not(c, inner) == c

\* filters of an image, search_opts of a server or a volume.
Flat(c, inner) == Over(inner, c)

(***************************************************************************)
(* _process_list_operation_inputs.  Of a key and an old word for it, both  *)
(* given, the later one counts.                                            *)
(***************************************************************************)
Queries(c) ==
  IF type \in DOMAIN ListParams
  THEN LET supported == Only(c, ListParams[type])
           old == DOMAIN c \intersect (DOMAIN ParamsMap \ ListParams[type])
           renamed == [k \in {ParamsMap[j] : j \in old} |->
                         c[CHOOSE j \in old : ParamsMap[j] = k]]
       IN {Over(supported, renamed), Over(renamed, supported)}
  ELSE {Without(c, Ignored(type))}

ListInputs ==
  /\ stage = "list"
  /\ LET c == Flat(args, nested)
         done(new) == /\ query' \in Queries(new) /\ args' = Nothing /\ nested' = Nothing
                      /\ Goto("identify")
                      /\ UNCHANGED <<rule, config, account, resource_id, resource_config, kwargs>>
     IN IF type \in {"user", "project"}
        THEN After(Named(c, {"domain"}), done(IdsMapped(c, [domain |-> "domain_id"])))
        ELSE done(c)
  /\ UNCHANGED situation

(***************************************************************************)
(* _process_update_operation_inputs.  An identifier that may not be        *)
(* updated replaces one found by name, and is dropped, if it comes later.  *)
(***************************************************************************)
ImageUpdate(c) ==
  LET kept == Without(c, {"image_id", "remove_props"})
  IN IF "image_id" \in DOMAIN c THEN With(kept, "image", c["image_id"]) ELSE kept

UserUpdates(c) ==
  LET own == Without(c, {"domain"})
      mapped == NamesMapped(own, IdKeys[type], UpdateParams[type])
      both == {k \in DOMAIN mapped \intersect DOMAIN own :
                 k \notin UpdateParams[type] \union DOMAIN IdKeys[type]}
  IN {Without(mapped, later) : later \in SUBSET both}

UpdateInputs ==
  /\ stage = "update"
  /\ LET done(new) == /\ args' \in new /\ nested' = Nothing
                      /\ Goto("identify") /\ UNCHANGED <<rule, config, account, target>>
     IN IF type \in {"user", "project"}
        THEN After(Named(args, DOMAIN IdKeys[type] \ {"domain"}), done(UserUpdates(args)))
        ELSE done({CASE type = "aggregate" -> nested
                     [] type = "image" -> ImageUpdate(args)
                     [] OTHER -> args})
  /\ UNCHANGED situation

-----------------------------------------------------------------------------
\* validate_resource_identifier: what looks like an identifier is one.
IsIdentifier(v) == v \in Identifiers

(***************************************************************************)
(* populate_resource_id: the resource_id of an external resource is looked *)
(* up, that of another is its name.                                        *)
(***************************************************************************)
Identity(v) ==
  IF ~IsSet(v) THEN Nothing
  ELSE IF node.use_external
       THEN IF IsThere(v) THEN [id |-> Resolved(v)]
            ELSE IF IsIdentifier(v) THEN [id |-> v] ELSE [name |-> v]
       ELSE IF operation = "update" THEN Nothing ELSE [name |-> v]

Identify ==
  /\ stage = "identify" /\ type # "routes"
  /\ After(IF node.use_external /\ IsSet(resource_id) THEN {resource_id} ELSE {},
       /\ resource_config' = Identity(resource_id)
       /\ Goto("split")
       /\ UNCHANGED <<rule, settings, account, resource_id, kwargs, query>>)
  /\ UNCHANGED situation

\* _transform, and the policy of a server group.
Split ==
  /\ stage = "split"
  /\ LET c == Over(Only(config, ResourceConfig[type]), resource_config) IN
     resource_config' = IF type = "server_group" /\ IsSet(node.policy)
                        THEN With(c, "policies", node.policy) ELSE c
  /\ kwargs' = Without(config, ResourceConfig[type])
  /\ Goto("prepare")
  /\ UNCHANGED <<situation, rule, settings, account, resource_id, query>>

\* prepare_resource_instance: types with a name get one.
HasName == "name" \in ResourceConfig[type]
PrepareInstance ==
  /\ stage = "prepare"
  /\ LET c == Over(kwargs, resource_config)
     IN resource_config' = IF HasName /\ ~Has(c, "name") THEN With(c, "name", Generated) ELSE c
  /\ kwargs' = Nothing
  /\ Goto("done")
  /\ UNCHANGED <<situation, rule, settings, account, resource_id, query>>

(***************************************************************************)
(* _transform_routes: the router of the relationship, else that of         *)
(* resource_id, whose name is looked up; inputs do not count.              *)
(***************************************************************************)
TransformRoutes ==
  /\ stage = "routes"
  /\ IF node.router # Empty
     THEN /\ resource_config' = [id |-> node.router] /\ Goto("done")
          /\ UNCHANGED <<rule, settings, account, resource_id, kwargs, query>>
     ELSE IF ~IsSet(resource_id) \/ (operation = "update" /\ ~node.use_external)
     THEN Goto("refused") /\ UNCHANGED <<rule, settings, account, target>>
     ELSE After({resource_id},
            /\ resource_config' = [id |->
                 IF IsThere(resource_id) THEN Resolved(resource_id)
                 ELSE IF node.use_external /\ IsIdentifier(resource_id) THEN resource_id ELSE Empty]
            /\ Goto("done")
            /\ UNCHANGED <<rule, settings, account, resource_id, kwargs, query>>)
  /\ UNCHANGED situation

TranslationNext ==
  \/ LookupHandler \/ MapServer \/ ProcessRule
  \/ MergeInputs \/ CreateInputs \/ ListInputs \/ UpdateInputs
  \/ Identify \/ Split \/ PrepareInstance \/ TransformRoutes

TranslationSpec == TranslationInit /\ [][TranslationNext]_translationVars

-----------------------------------------------------------------------------
Done(op) == stage = "done" /\ operation = op /\ type \in ResourceTypes

The(V) == IF V = {} THEN Empty ELSE CHOOSE v \in V : TRUE

\* Where c names what has its identifier under k.
NamesOf(c, k) ==
  IF type \in DOMAIN IdKeys
  THEN {j \in Naming(c, DOMAIN IdKeys[type]) : IdKeys[type][j] = k} ELSE {}

(***************************************************************************)
(* The setting k that c asks for: the identifier of what it names there,   *)
(* else what it says itself, in the words of version 3.                    *)
(***************************************************************************)
Asks(c, k) ==
  CASE NamesOf(c, k) # {} -> {Resolved(c[The(NamesOf(c, k))])}
    [] type = "server" /\ k = "networks" /\ Has(c, "nics") -> {Mapped(c["nics"])}
    [] type = "server" /\ k = "networks" /\ ~Has(c, "nics") /\ Has(c, k) -> {Mapped(c[k])}
    [] type = "server" /\ k = "security_groups" /\ Has(c, k) -> {[name |-> c[k]]}
    [] OTHER -> {c[j] : j \in {k} \intersect DOMAIN c}

\* Those of a user or project are merged before names are looked up: a name
\* in the settings wins over an identifier in the args.
AskedFor(k) ==
  LET first == IF type \in {"user", "project"} THEN Asks(Over(given.args, given.config), k)
               ELSE Asks(given.args, k)
  IN The(IF first # {} THEN first ELSE Asks(given.config, k))

Supported(k) ==
  \/ type \notin DOMAIN CreateParams \/ k \in CreateParams[type]
  \/ type \in DOMAIN IdKeys /\ k \in Range(IdKeys[type])
  
Known ==
  UNION ({ResourceConfig[t] : t \in ResourceTypes} \union {DOMAIN IdKeys[t] : t \in DOMAIN IdKeys}
         \union {DOMAIN given.config, DOMAIN given.args, {"id"}})

Wanted(k) ==
  LET asked == IF Supported(k) THEN AskedFor(k) ELSE Empty
      own == Identity(resource_id)
  IN CASE type = "server_group" /\ k = "policies" /\ IsSet(node.policy) -> node.policy
       [] type = "security_group" /\ k = "description" /\ IsSet(node.description)
            /\ k \notin DOMAIN given.args -> node.description
       [] k \in {"id", "name"} /\ asked = Empty /\ k \in DOMAIN own -> own[k]
       [] k = "name" /\ ~IsSet(asked) /\ HasName
            /\ ~(asked = Empty /\ k \in DOMAIN own) -> Generated
       [] OTHER -> asked

(***************************************************************************)
(* A create request has the settings that args and node ask for, each with *)
(* its value, args first, and no others: by identifier what is named,      *)
(* without what version 3 does not take, and FALSE is a value.             *)
(***************************************************************************)
OnlyNames ==
  IF type \in DOMAIN IdKeys THEN DOMAIN IdKeys[type] \ Range(IdKeys[type]) ELSE {}

CreatedAsAsked ==
  Done("create") =>
    /\ \A k \in Known \ OnlyNames : At(resource_config, k) = Wanted(k)
    /\ \A k \in OnlyNames : ~IsSet(At(resource_config, k))

\* What an update may have under k.
Updates(k) ==
  LET own == Without(given.args, {"domain"})
      named == NamesOf(own, k)
  IN CASE type = "aggregate" -> {At(given.nested, k)}
       [] type = "image" /\ k = "image" /\ "image_id" \in DOMAIN own -> {own["image_id"]}
       [] type = "image" /\ k \in {"image_id", "remove_props"} -> {Empty}
       [] type = "server" ->
            {IF k \in Naming(given.args, DOMAIN IdKeys.server) THEN Empty
             ELSE The(Asks(given.args, k))}
       [] type \in {"user", "project"} /\ named # {} ->
            Asks(own, k) \union IF k \in DOMAIN own \ (UpdateParams[type] \union named)
                                THEN {Empty} ELSE {}
       [] type \in {"user", "project"} /\ named = {} ->
            {IF k \in UpdateParams[type] THEN At(own, k) ELSE Empty}
       [] OTHER -> {At(given.args, k)}

\* The filters of a list that the args ask for, and that it does not get.
LostFilters ==
  IF type = "server" THEN Naming(given.args, DOMAIN IdKeys.server) \ DOMAIN given.nested ELSE {}

\* What the filters of a list may have under k.
Filters(k) ==
  LET c == Over(given.nested, given.args)
      old == {j \in DOMAIN c \intersect DOMAIN ParamsMap : ParamsMap[j] = k}
      own == IF type \in {"user", "project"} /\ k = "domain_id" /\ Has(c, "domain")
             THEN {Resolved(c["domain"])} ELSE {c[j] : j \in {k} \intersect DOMAIN c}
      all == IF type \in DOMAIN ListParams
             THEN (IF k \in ListParams[type] THEN own ELSE {}) \union {c[j] : j \in old}
             ELSE IF k \in Ignored(type) THEN {} ELSE own
  IN IF all = {} THEN {Empty} ELSE all

InputKeys ==
  UNION ({DOMAIN c : c \in {args, query, given.args, given.nested}} \union
         {Range(ParamsMap), Range(IdKeys.user), Range(IdKeys.project), {"image"}})

(***************************************************************************)
(* An update gets the args, and a list the filters, that were asked for in *)
(* the words of version 3, each with its value, and no others.  Only of a  *)
(* key and an older word for it, both given, either may win, and of the    *)
(* name and the identifier of a parent.                                    *)
(*                                                                         *)
(* Two filters that a list of servers takes (SERVER_LIST_PARAMS) never get *)
(* there: flavor and image of the args were replaced by flavor_id and      *)
(* image_id in _transform_server, and these are no filters (LostFilters).  *)
(***************************************************************************)
InputsAsAsked ==
  /\ Done("update") => \A k \in InputKeys : At(args, k) \in Updates(k)
  /\ Done("list") => /\ args = Nothing
                     /\ \A k \in InputKeys \ LostFilters : At(query, k) \in Filters(k)
                     /\ \A k \in LostFilters : At(query, k) = Empty

(***************************************************************************)
(* A rule of a security group is restricted to a group or to a prefix,     *)
(* never to both: to the group that it gives by identifier, by the node of *)
(* an existing group, or by the name of one that exists; without any of    *)
(* these, to its prefix.                                                   *)
(*                                                                         *)
(* Two rules name a group and are open to all: the node has created its    *)
(* group, and only external_id of the node is read; and the name is of no  *)
(* group, but create_if_missing lets the lookup find nothing.  In both     *)
(* cases _process_security_group_rules clears the prefix "since            *)
(* remote_group_id is set", which it is not.                               *)
(***************************************************************************)
GroupByNode == ~IsSet(given.rule.group) /\ IsSet(given.rule.group_node)
GroupByName ==
  ~IsSet(given.rule.group) /\ ~IsSet(given.rule.group_node) /\ IsSet(given.rule.group_name)

OpenToAll ==
  \/ GroupByNode /\ node.group_node # "external"
  \/ GroupByName /\ ~IsThere(given.rule.group_name) /\ node.create_if_missing

Restricted ==
  /\ ~IsSet(rule.group) \/ ~IsSet(rule.prefix)
  /\ OpenToAll <=> ~IsSet(rule.group) /\ ~IsSet(rule.prefix)
  /\ IsSet(given.rule.group) => rule.group = given.rule.group
  /\ GroupByNode /\ ~OpenToAll => rule.group = Id(given.rule.group_node)
  /\ GroupByName /\ ~OpenToAll => rule.group = Id(NameOf(given.rule.group_name))
  /\ IsSet(rule.group) => IsSet(given.rule.group) \/ GroupByNode \/ GroupByName

RuleIsRestricted == stage = "done" /\ rule # NoRule => Restricted

\* What the translation looks up: what the inputs name, and the settings of
\* a node that needs it.
InputNames ==
  IF type \in DOMAIN IdKeys
  THEN DOMAIN IdKeys[type] \ IF operation = "update" THEN {"domain"} ELSE {} ELSE {}
NodeNames ==
  IF type = "server" THEN {"flavor", "image"}
  ELSE IF type \in DOMAIN IdKeys /\ operation = "create" THEN DOMAIN IdKeys[type] ELSE {}
Sought ==
  Named(given.args, InputNames) \union Named(given.nested, InputNames)
  \union Named(given.config, NodeNames)
  \union {v \in {resource_id} : IsSet(v) /\ node.use_external}
  \union {v \in {given.rule.group_name} : IsSet(v)}

(***************************************************************************)
(* The translation refuses only what cannot be done: it names something    *)
(* that is missing and may not be, or nothing where something must be      *)
(* named, or has nics without networks.  In particular an operation that   *)
(* does not create the node needs neither its domain, its project nor its  *)
(* parent, but the image and flavor of a server.                           *)
(***************************************************************************)
RefusalsHaveCauses ==
  stage = "refused" =>
    \/ type = "unknown"
    \/ type = "routes" /\ node.router = Empty
    \/ type = "server" /\ (NicsOnly(given.config) \/ NicsOnly(given.args))
    \/ IsSet(given.rule.group_node) /\ node.group_node \in {"none", "several"}
    \/ Refused(Sought)
=============================================================================
