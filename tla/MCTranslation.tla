--------------------------- MODULE MCTranslation ---------------------------
(* Translation on small instances: the keys of each type that matter.      *)
EXTENDS Translation

CONSTANTS n1, n2

\* Functions from at most two of the keys K.
Choices(K, V) == UNION {[D -> V] : D \in {S \in SUBSET K : Cardinality(S) <= 2}}

\* Keys with a meaning of their own, and one of each kind of the others.
NameKeysOf(t) == IF t \in DOMAIN IdKeys THEN DOMAIN IdKeys[t] ELSE {}
PlainKeysOf(t) ==
  CASE t = "server" -> {"name", "flavor_id", "config_drive"}
    [] t = "user" -> {"name", "domain_id", "email", "phone"}
    [] t = "project" -> {"name", "parent_id", "enabled", "phone"}
    [] t = "volume" -> {"name", "imageRef", "bootable"}
    [] t = "keypair" -> {"name", "public_key", "bits"}
    [] t = "server_group" -> {"name", "policies", "rules"}
    [] t = "security_group" -> {"description", "stateful"}
    [] t = "floatingip" -> {"port_id", "name"}
    [] OTHER -> {"name", "id", "other"}

Networks == {"net-id" :> n1, "v6-fixed-ip" :> n1}
Combined(N, P) == {c @@ d : c \in N, d \in P}
SomeNames(t, v) == Choices(NameKeysOf(t), {v})
Flags == {"name", "enabled", "config_drive", "bootable", "stateful", "other"}
SomePlain(t, v) == {c \in Choices(PlainKeysOf(t), {v, Empty, No}) :
                      \A k \in DOMAIN c : c[k] = No => k \in Flags}
SomeNics(t) ==
  IF t = "server"
  THEN {Nothing} \union {"networks" :> Empty @@ "nics" :> w : w \in Networks}
       \union {k :> w : k \in {"nics", "networks"}, w \in Networks}
       \union {"security_groups" :> n1}
  ELSE {Nothing}

Small(C) == {c \in C : Cardinality(DOMAIN c) <= 2}
MCConfig(t) ==
  IF t \in ResourceTypes
  THEN Small(Combined(SomeNames(t, n1), Combined(SomePlain(t, n1), SomeNics(t)))) ELSE {Nothing}

\* Version 2 has an update for five types only.
MCArgs(t, o) ==
  IF t \notin ResourceTypes THEN {Nothing}
  ELSE CASE o = "create" -> {c \in Combined(SomeNames(t, n2), Combined(SomePlain(t, n2), SomeNics(t))) :
                               Cardinality(DOMAIN c) <= 1}
         [] o = "update" /\ t \in {"project", "user", "router", "aggregate", "image"} ->
              Choices({"image_id", "image", "remove_props", "name", "domain"} \union
                      NameKeysOf(t) \union PlainKeysOf(t), {n1})
         [] o = "list" ->
              Choices({"name", "offset", "marker", "detailed", "domain", "domain_id",
                       "retrieve_all", "user_id", "tags", "flavor"}, {n1})
         [] OTHER -> {Nothing}

MCNested(t, o) ==
  CASE (o = "list" /\ t \in {"image", "server", "volume"}) \/ (o = "update" /\ t = "aggregate") ->
         Choices({"name", "status", "offset"}, {n2})
    [] OTHER -> {Nothing}

MCRules == [port : {Empty, n1}, min : {Empty}, max : {Empty, n2}, prefix : {Empty, n1},
            group : {Empty, Id(n1)}, group_node : {Empty, n1}, group_name : {Empty, n2}]

AllSituations(t) ==
  {s \in [resource_id : {Empty, n1}, input_id : {Empty, n2, Id(n2)},
          use_external : BOOLEAN, create_if_missing : BOOLEAN,
          input_config : BOOLEAN, old_item : BOOLEAN, old_input : BOOLEAN,
          policy : {Empty, n2}, description : {Empty, n2}, router : {Empty, Id(n1)},
          group_node : {"external", "created", "none", "several"},
          there : SUBSET Names] :
     /\ s.policy # Empty => t = "server_group"
     /\ s.description # Empty => t = "security_group"
     /\ s.router # Empty => t = "routes"
     /\ s.group_node # "none" => t = "security_group"
     /\ s.old_item \/ s.old_input => t = "network"
     /\ s.use_external => s.resource_id # Empty}
PlainSituations(t) ==
  {s \in AllSituations(t) : /\ ~s.use_external /\ s.input_id = Empty /\ ~s.old_item
                            /\ s.there # {n2} /\ ~s.input_config /\ s.group_node = "none"}

Of(N, C, A, D) == [node : N, config : C, args : A, nested : D]
MCCases(t, o) ==
  LET few == {Nothing} \union {c \in MCConfig(t) : Cardinality(DOMAIN c) = 1}
  IN Of(AllSituations(t), few, {Nothing}, {Nothing}) \union
     IF o = "create" THEN Of(PlainSituations(t), MCConfig(t), MCArgs(t, o), {Nothing})
     ELSE Of(PlainSituations(t), {Nothing}, MCArgs(t, o), MCNested(t, o))
=============================================================================
