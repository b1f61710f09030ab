----------------------------- MODULE ServerNics -----------------------------
(***************************************************************************)
(* The network interfaces of a server node, from the blueprint to Nova     *)
(* (openstack_plugin/resources/compute/server.py).                         *)
(*                                                                         *)
(* A server lists NICs in its own "networks" property, and it is related   *)
(* to network and port nodes.  For a new server the create handler merges  *)
(* both lists into one request.  For an external server it attaches one    *)
(* interface after the other to the running machine, and the stop handler  *)
(* detaches those that create recorded.                                    *)
(*                                                                         *)
(* A NIC names a network, a port, or both.  A target of a relationship is  *)
(* a network or a port that exists, and no target is related twice.  The   *)
(* identifier of an interface is that of its port.  Networks are told      *)
(* apart by name as well as by id.                                         *)
(***************************************************************************)
EXTENDS Naturals, FiniteSets, Sequences, SequencesExt

CONSTANTS Nets,      \* networks
          Ports,     \* ports that nodes of the blueprint stand for
          NetOf,     \* the network of each of these ports
          AutoPorts, \* ports that Nova creates for a NIC without one
          None,      \* no network, no port, no address
          MaxTargets,\* a bound on the relationships of the server
          MaxNics,   \* a bound on the NICs of the server's own property
          MaxFaults  \* a bound on the faults of each kind

ASSUME PortsAssumption == /\ NetOf \in [Ports -> Nets]
                          /\ Nets \intersect (Ports \union AutoPorts) = {}
                          /\ Ports \intersect AutoPorts = {}
                          /\ None \notin Nets \union Ports \union AutoPorts
ASSUME LengthsAssumption == MaxTargets \in Nat /\ MaxNics \in Nat

\* "crash": the worker dies; "transient": a request fails without effect.
FaultKinds == {"crash", "transient"}

VARIABLES
  node,      \* what the blueprint says of the server
  request,   \* the NICs that were sent to Nova to create the server
  ifs,       \* the interfaces of the server
  foreign,   \* history: those an external server had from the beginning
  todo,      \* NICs to attach, or interfaces to detach, in this attempt
  added,     \* interfaces attached in this attempt
  store,     \* runtime property server_interface_ids
  networks,  \* runtime property networks, stored with the attempt
  addresses, \* history: what Nova listed when the addresses were read
  ip,        \* the address that runtime property ip shows
  orphans,   \* history: interfaces of attempts of create that broke off
  step,     \* the step the server's lifecycle is at
  faults     \* faults so far, by kind

given == <<node, foreign>>
nicsVars == <<given, request, ifs, todo, added, store, networks, addresses,
          ip, orphans, step, faults>>

NetNic(n) == [uuid |-> n, port |-> None]
PortNic(p) == [uuid |-> None, port |-> p]
NicOf(t) == IF t \in Nets THEN NetNic(t) ELSE PortNic(t)
Nics == [uuid : Nets \union {None}, port : Ports \union {None}]
Interfaces == [id : Ports \union AutoPorts, net : Nets]
Addresses == [net : Nets, version : {4, 6}, kind : {"fixed", "floating"}]
AddressOn(n, version, kind) == [net |-> n, version |-> version, kind |-> kind]
ASSUME NoAddressAssumption == None \notin Addresses

SeqWithoutRepeats(S, n) ==
  {s \in BoundedSeq(S, n) : \A i, j \in DOMAIN s : i # j => s[i] # s[j]}

\* The network a NIC leads to.
NetOfNic(nic) == IF nic.port = None THEN nic.uuid ELSE NetOf[nic.port]

Fault(kind) == /\ faults[kind] < MaxFaults[kind]
               /\ faults' = [faults EXCEPT ![kind] = @ + 1]

-----------------------------------------------------------------------------
(* The algorithm that prepares the list of NICs.                           *)

\* get_networks_from_relationships
NicsFromRels == [i \in DOMAIN node.targets |-> NicOf(node.targets[i])]

\* find_openstack_ids_of_connected_nodes_by_openstack_type(ctx, 'port')
RelatedPorts == ToSet(node.targets) \intersect Ports
RelatedNets == ToSet(node.targets) \intersect Nets

(***************************************************************************)
(* The loop of _clean_duplicate_networks: a NIC of the property is removed *)
(* from the list of the relationships if it is there too.                  *)
(***************************************************************************)
WithoutThoseOfNode(rels) ==
  FoldLeft(LAMBDA l, nic : RemoveFirst(l, nic), rels, node.nics)

(***************************************************************************)
(* port_nic of _remove_duplicated_nics_from_relationships: for a network   *)
(* of the list, the last related port that is on it.                       *)
(***************************************************************************)
PortFor(rels) ==
  LET on(n) == {i \in DOMAIN node.targets :
                  node.targets[i] \in Ports /\ NetOf[node.targets[i]] = n}
      nets == {n \in Nets : on(n) # {} /\ Contains(rels, NetNic(n))}
  IN [n \in nets |-> node.targets[Max(on(n))]]

\* A network and the port that was found for it become the same NIC.
MergedNic(portFor, nic) ==
  CASE nic.uuid \in DOMAIN portFor -> [nic EXCEPT !.port = portFor[nic.uuid]]
    [] \E n \in DOMAIN portFor : portFor[n] = nic.port -> [nic EXCEPT !.uuid = NetOf[nic.port]]
    [] OTHER -> nic

\* The list with nic, if it is not there.
With(list, nic) == IF Contains(list, nic) THEN list ELSE Append(list, nic)

\* Mutant: the port of a network is looked up, and its own NIC kept as it is.
Merged_PortStays(rels) ==
  LET portFor == PortFor(rels)
      merge(nic) == IF nic.uuid \in DOMAIN portFor
                    THEN [nic EXCEPT !.port = portFor[nic.uuid]] ELSE nic
      kept[i \in 0..Len(rels)] ==
        IF i = 0 THEN <<>> ELSE With(kept[i - 1], merge(rels[i]))
  IN IF DOMAIN portFor = {} THEN rels ELSE kept[Len(rels)]

(***************************************************************************)
(* _remove_duplicated_nics_from_relationships: merged NICs are kept once,  *)
(* at their first place in the list.                                       *)
(***************************************************************************)
Merged(rels) ==
  LET portFor == PortFor(rels)
      kept[i \in 0..Len(rels)] ==
        IF i = 0 THEN <<>> ELSE With(kept[i - 1], MergedNic(portFor, rels[i]))
  IN IF DOMAIN portFor = {} THEN rels ELSE kept[Len(rels)]

(***************************************************************************)
(* _update_nics_config.  With no NIC at all it compares the configured API *)
(* versions with a number, which raises if one of the two is missing.      *)
(***************************************************************************)
NicsRefused ==
  IF node.nics = <<>> /\ node.targets = <<>>
  THEN ~node.versions
  ELSE node.nics # <<>> /\ node.targets # <<>> /\ ~node.compat

RequestedNics == node.nics \o Merged(WithoutThoseOfNode(NicsFromRels))

-----------------------------------------------------------------------------
NicsInit ==
  /\ node \in [external : BOOLEAN, compat : BOOLEAN, versions : BOOLEAN,
               use : SUBSET {"public", "ipv6"},
               targets : SeqWithoutRepeats(Nets \union Ports, MaxTargets),
               nics : {[i \in DOMAIN s |-> NicOf(s[i])] :
                         s \in SeqWithoutRepeats(Nets \union Ports, MaxNics)}]
  /\ node.external => node.nics = <<>> /\ ~node.compat /\ node.versions
  /\ \/ foreign = {}
     \/ node.external /\ \E p \in AutoPorts, n \in Nets : foreign = {[id |-> p, net |-> n]}
     \/ node.external /\ \E p \in Ports : foreign = {[id |-> p, net |-> NetOf[p]]}
  /\ ifs = foreign
  /\ request = <<>> /\ todo = <<>> /\ added = <<>> /\ store = <<>>
  /\ networks = <<>> /\ addresses = {} /\ ip = None /\ orphans = {} /\ step = "create"
  /\ faults = [k \in FaultKinds |-> 0]

MoveTo(p) == step' = p

\* The interfaces Nova may make for a list of NICs on top of those it has.
MadeFrom(nics) ==
  LET named(i) == IF nics[i].port = None THEN AutoPorts ELSE {nics[i].port}
      free(ids) == /\ \A i \in DOMAIN nics : ids[i] \in named(i)
                   /\ \A i \in DOMAIN nics, f \in ifs : f.id # ids[i]
                   /\ IsInjective(ids)
  IN {[i \in DOMAIN nics |-> [id |-> ids[i], net |-> NetOfNic(nics[i])]] :
        ids \in {s \in [DOMAIN nics -> Ports \union AutoPorts] : free(s)}}

-----------------------------------------------------------------------------
(* A new server.                                                           *)

\* create is refused before anything was requested.
CreateRefused ==
  /\ step = "create" /\ ~node.external
  /\ NicsRefused
  /\ MoveTo("refused")
  /\ UNCHANGED <<given, request, ifs, todo, added, store, networks,
               addresses, ip, orphans, faults>>

\* create prepares the NICs and the names of their networks and sends them.
Create ==
  /\ step = "create" /\ ~node.external
  /\ ~NicsRefused
  /\ request' = RequestedNics
  /\ networks' = [i \in DOMAIN request' |-> NetOfNic(request'[i])]
  /\ MoveTo("requested")
  /\ UNCHANGED <<given, ifs, todo, added, store, addresses, ip, orphans,
               faults>>

\* Nova boots the server, unless a port is named twice.
Boot ==
  /\ step = "requested"
  /\ \/ \E made \in MadeFrom(request) : /\ ifs' = ToSet(made)
                                        /\ MoveTo("active")
     \/ /\ MadeFrom(request) = {}
        /\ MoveTo("refused")
        /\ UNCHANGED ifs
  /\ UNCHANGED <<given, request, todo, added, store, networks, addresses, ip,
               orphans, faults>>

(***************************************************************************)
(* What Nova may list of a server: any address on the network of an        *)
(* interface, a floating one beside the fixed IPv4 address that it is for. *)
(***************************************************************************)
Listings ==
  {A \in SUBSET Addresses :
     \A a \in A : /\ \E f \in ifs : f.net = a.net
                  /\ a.kind = "floating" =>
                       a.version = 4 /\ AddressOn(a.net, 4, "fixed") \in A}

\* The first address of a kind, in the order of the recorded networks.
FirstListed(nets, A, version, kind) ==
  LET having == {i \in DOMAIN nets : AddressOn(nets[i], version, kind) \in A}
  IN IF having = {} THEN None ELSE AddressOn(nets[Min(having)], version, kind)

(***************************************************************************)
(* _set_server_ips_runtime_properties: the first fixed IPv4 address on any *)
(* of the recorded networks, without one the first of IPv6, unless ip is   *)
(* already set; then use_public_ip puts the first floating address in its  *)
(* place, or else use_ipv6_ip the first of IPv6.                           *)
(***************************************************************************)
AddressOf(nets, A) ==
  LET v4 == FirstListed(nets, A, 4, "fixed")
      v6 == FirstListed(nets, A, 6, "fixed")
      public == FirstListed(nets, A, 4, "floating")
      private == CASE ip # None -> ip
                   [] ip = None /\ v4 # None -> v4
                   [] OTHER -> v6
  IN CASE "public" \in node.use /\ public # None -> public
       [] node.use = {"ipv6"} /\ v6 # None -> v6
       [] OTHER -> private

\* configure of a server that has become active.
Configure ==
  /\ step = "active"
  /\ addresses' \in Listings
  /\ ip' = AddressOf(networks, addresses')
  /\ MoveTo("started")
  /\ UNCHANGED <<given, request, ifs, todo, added, store, networks, orphans,
               faults>>

-----------------------------------------------------------------------------
(* An external server.                                                     *)

\* Mutant: only the related ports are compared.
AlreadyConnected_PortsOnly == \E f \in ifs : f.id \in RelatedPorts

\* _validate_external_server_networks: a related port or network is attached.
AlreadyConnected ==
  \E f \in ifs : f.id \in RelatedPorts \/ f.net \in RelatedNets

(***************************************************************************)
(* The head of _connect_networks_to_external_server: the validation, and   *)
(* the names of the networks, those of the existing interfaces last.       *)
(***************************************************************************)
Validate ==
  /\ step = "create" /\ node.external
  /\ LET nics == Merged(NicsFromRels)
     IN \/ /\ AlreadyConnected
           /\ MoveTo("refused")
           /\ UNCHANGED <<todo, networks, faults>>
        \/ /\ ~AlreadyConnected
           /\ todo' = nics
           /\ \E order \in SetToSeqs(ifs) :
                networks' = [i \in DOMAIN nics |-> NetOfNic(nics[i])]
                            \o [i \in DOMAIN order |-> order[i].net]
           /\ MoveTo("attach")
           /\ UNCHANGED faults
        \/ /\ Fault("transient")
           /\ MoveTo("refused")
           /\ UNCHANGED <<todo, networks>>
  /\ added' = <<>>
  /\ UNCHANGED <<given, request, ifs, store, addresses, ip, orphans>>

(***************************************************************************)
(* One turn of its loop: an interface for the next NIC.  If the request    *)
(* fails, the attempt ends and the interfaces of its earlier turns are     *)
(* recorded nowhere.                                                       *)
(***************************************************************************)
Attach ==
  /\ step = "attach" /\ todo # <<>>
  /\ \/ \E made \in MadeFrom(<<Head(todo)>>) :
          /\ ifs' = ifs \union ToSet(made)
          /\ added' = Append(added, made[1].id)
          /\ todo' = Tail(todo)
          /\ UNCHANGED <<step, orphans, faults>>
     \/ /\ Fault("transient")
        /\ MoveTo("refused")
        /\ orphans' = orphans \union ToSet(added)
        /\ UNCHANGED <<ifs, added, todo>>
  /\ UNCHANGED <<given, request, store, networks, addresses, ip>>

(***************************************************************************)
(* Its end: the interfaces are recorded, then the server is read for its   *)
(* addresses, and the attempt stores the properties even if that fails.    *)
(***************************************************************************)
Record ==
  /\ step = "attach" /\ todo = <<>>
  /\ store' = IF added = <<>> THEN store ELSE added
  /\ \/ /\ addresses' \in Listings
        /\ ip' = AddressOf(networks, addresses')
        /\ MoveTo("started")
        /\ UNCHANGED faults
     \/ /\ Fault("transient")
        /\ MoveTo("refused")
        /\ UNCHANGED <<addresses, ip>>
  /\ UNCHANGED <<given, request, ifs, todo, added, networks, orphans>>

\* The worker dies: create is executed again from its first line.
CreateCrash ==
  /\ step = "attach"
  /\ Fault("crash")
  /\ MoveTo("create")
  /\ orphans' = orphans \union ToSet(added)
  /\ todo' = <<>> /\ added' = <<>> /\ networks' = <<>>
  /\ UNCHANGED <<given, request, ifs, store, addresses, ip>>

(***************************************************************************)
(* stop, called by an uninstall workflow whether create succeeded or not,  *)
(* and by another one if stop failed:                                      *)
(* _disconnect_resources_from_external_server.                             *)
(***************************************************************************)
Stop ==
  /\ node.external
  /\ step \in {"started", "refused", "stopFailed"}
  /\ MoveTo("detach")
  /\ todo' = store
  /\ UNCHANGED <<given, request, ifs, added, store, networks, addresses, ip,
               orphans, faults>>

\* Mutant: the record is written before the interface is deleted.
Detach_SaveFirst ==
  /\ step = "detach" /\ todo # <<>>
  /\ store' = RemoveFirst(store, Head(todo))
  /\ \/ /\ ifs' = {f \in ifs : f.id # Head(todo)}
        /\ MoveTo("save")
        /\ UNCHANGED faults
     \/ /\ Fault("transient")
        /\ MoveTo("stopFailed")
        /\ UNCHANGED ifs
  /\ UNCHANGED <<given, request, todo, added, networks, addresses, ip,
               orphans>>

\* One turn of its loop; an interface that is gone already is no error.
Detach ==
  /\ step = "detach" /\ todo # <<>>
  /\ \/ /\ ifs' = {f \in ifs : f.id # Head(todo)}
        /\ MoveTo("save")
        /\ UNCHANGED faults
     \/ /\ Fault("transient")
        /\ MoveTo("stopFailed")
        /\ UNCHANGED ifs
  /\ UNCHANGED <<given, request, todo, added, store, networks, addresses, ip,
               orphans>>

\* The interface is taken off the record, which is stored at once.
Save ==
  /\ step = "save"
  /\ store' = RemoveFirst(store, Head(todo))
  /\ todo' = Tail(todo)
  /\ MoveTo("detach")
  /\ UNCHANGED <<given, request, ifs, added, networks, addresses, ip,
               orphans, faults>>

StopCrash ==
  /\ step \in {"detach", "save"}
  /\ Fault("crash")
  /\ MoveTo("detach")
  /\ todo' = store
  /\ UNCHANGED <<given, request, ifs, added, store, networks, addresses, ip,
               orphans>>

StopEnds ==
  /\ step = "detach" /\ todo = <<>>
  /\ MoveTo("stopped")
  /\ UNCHANGED <<given, request, ifs, todo, added, store, networks,
               addresses, ip, orphans, faults>>

-----------------------------------------------------------------------------
NicsNext == \/ CreateRefused \/ Create \/ Boot \/ Configure
        \/ Validate \/ Attach \/ Record \/ CreateCrash
        \/ Stop \/ Detach \/ Save \/ StopCrash \/ StopEnds

NicsSpec == NicsInit /\ [][NicsNext]_nicsVars

-----------------------------------------------------------------------------
(***************************************************************************)
(* The request for a new server has a NIC for every target of its          *)
(* relationships, in their order.  Each related port is in exactly one     *)
(* NIC; a network is asked for on its own at most once, and not at all if  *)
(* a related port is on it (the comment in                                 *)
(* _remove_duplicated_nics_from_relationships).                            *)
(*                                                                         *)
(* Of the addresses that Nova lists, the ip property shows one if there is *)
(* any.  It is of IPv6 only if no network has an IPv4 address or if the    *)
(* node asks for IPv6, it is a floating one exactly if the node asks for   *)
(* the public one and there is one, and no NIC earlier in the request has  *)
(* an address of its version and kind.                                     *)
(*                                                                         *)
(* Version 2 nodes are left out: when both their lists name NICs, the      *)
(* joined list may name a port twice, which Nova refuses.                  *)
(***************************************************************************)
Serves(nic, t) == IF t \in Ports THEN nic.port = t ELSE NetOfNic(nic) = t
Place(nic) == Min({i \in DOMAIN node.targets : node.targets[i] \in {nic.uuid, nic.port}})

IsListed(version, kind) ==
  \E a \in addresses : a.version = version /\ a.kind = kind

AddressAsAsked ==
  /\ ip = None <=> addresses = {}
  /\ ip # None =>
       /\ ip \in addresses
       /\ ip.kind = "floating" <=> "public" \in node.use /\ IsListed(4, "floating")
       /\ ip.version = 6 <=> \/ ~IsListed(4, "fixed")
                             \/ node.use = {"ipv6"} /\ IsListed(6, "fixed")
       /\ \A j \in DOMAIN request :
            AddressOn(NetOfNic(request[j]), ip.version, ip.kind) \in addresses =>
              \E i \in DOMAIN request : i <= j /\ NetOfNic(request[i]) = ip.net

NicsMatchTargets ==
  step \in {"requested", "active", "started"} /\ ~node.external
    /\ ~node.compat /\ node.targets # <<>> =>
    /\ \A i \in DOMAIN node.targets :
         \E j \in DOMAIN request : Serves(request[j], node.targets[i])
    /\ \A j, k \in DOMAIN request :
         request[j].port = request[k].port /\ request[j].port # None => j = k
    /\ \A j \in DOMAIN request : request[j].port = None =>
         \A k \in DOMAIN request \ {j} : NetOfNic(request[k]) # request[j].uuid
    /\ \A j, k \in DOMAIN request :
         j < k => Place(request[j]) < Place(request[k])
    /\ step = "started" => AddressAsAsked

(***************************************************************************)
(* However often create is executed again, an external server gets at most *)
(* one interface of the plugin's own making on a network: the validation   *)
(* sees the one of an attempt that broke off.                              *)
(***************************************************************************)
NoDoubleInterface ==
  \A f, g \in ifs \ foreign :
    node.external /\ f.net = g.net /\ f.id \in AutoPorts => f = g

(***************************************************************************)
(* Stop takes from an external server what create recorded and nothing     *)
(* else, whatever happens to stop itself.  What is left is what the server *)
(* had before, and the interfaces of attempts of create that broke off.    *)
(***************************************************************************)
InterfacesAccountedFor ==
  /\ foreign \subseteq ifs
  /\ step = "stopped" => {f.id : f \in ifs \ foreign} = orphans
=============================================================================
