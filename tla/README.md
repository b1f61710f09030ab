# Verification of the Cloudify OpenStack plugin

TLA+ models of `openstack_plugin` and `openstack_sdk`, the TLC runs that check
them on small instances, and TLAPS proofs of what holds on every instance. Paths
below are relative to `src/`, and `server.py` etc. are the files of
`openstack_plugin/resources/`.

1. [The system and its parts](#1-the-system-and-its-parts)
2. [What makes each part correct](#2-what-makes-each-part-correct)
3. [Modules](#3-modules)
4. [Runs](#4-runs)
5. [Fairness and deadlock](#5-fairness-and-deadlock)
6. [Proofs](#6-proofs)
7. [Where the code and its documentation disagree](#7-where-the-code-and-its-documentation-disagree)
8. [Assumptions](#8-assumptions)
9. [What is not modelled](#9-what-is-not-modelled)
10. [Plan](#10-plan)

## 1. The system and its parts

A Cloudify *workflow* (install, uninstall, heal, execute_operation, snapshots)
runs *operations* on *node instances*. An operation of this plugin is a Python
function behind two decorators (`openstack_plugin/decorators.py`):
`with_compat_node` translates version 2 nodes, and `with_openstack_resource`
prepares the OpenStack object and decides whether the handler runs at all. The
handlers (`openstack_plugin/resources/**`) call `openstack_sdk`, a thin layer
over the OpenStack client library.

The only state the plugin keeps is the *runtime properties* of node instances.
An attempt of an operation works on a copy; the dispatcher stores the copy when
the attempt ends, even if it failed, and a handler may store it earlier with
`ctx.instance.update()`. Everything else is state of OpenStack, which changes
asynchronously and also behind the plugin's back. All operations are declared
resumable: when a worker dies, the engine executes the operation again from its
first line with the runtime properties that were last stored. An operation that
raises `OperationRetry` (or calls `ctx.operation.retry`) is executed again in
the same way, with a `retry_number` that tells it so.

| Part | State | Operations | What is hard |
|---|---|---|---|
| wrapper (`decorators.py`, `utils.py`) | `id`, `type`/`name`, `conditionally_created`, `external_resource` | head and tail of every operation | crash between request and save, failed lookups, external resources |
| server: lifecycle (`compute/server.py`) | task flags for stop, start, delete, backup, restore | create, configure, stop, delete, reboot, suspend, resume, snapshots | asynchronous tasks polled by retries, flags that outlive their task |
| server: interfaces | `interfaces` of an external server, `ip`, `networks` | create, configure, stop | two lists merged pair by pair, one request per interface |
| server: floating addresses | `ip`, `public_ip_address`, `last_ip` | configure, connect/disconnect | one record for all addresses, concurrent relationships |
| server: groups and volumes | attachment ids and task keys, stored payload | connect/disconnect, attach/detach | relationships run concurrently and share one set of runtime properties |
| volume (`volume/volume.py`) | backup/snapshot ids and task flags, delete flag | lifecycle, backup, restore | as for servers; copies matched by name or volume |
| host aggregate | `hosts` | configure, add, remove, delete | one request per host, any of them may fail |
| port, router, floating ip, subnet, network, security group, rbac policy | ids, addresses | lifecycle, attach, update | partial updates, lists replaced instead of merged |
| project, user, group, role | quota, users, groups | lifecycle, assignment | several requests per operation |
| share, share network (`share/`) | `id` | create, delete | polled without flags; client errors are retried |
| image, flavor, key pair, server group, volume type, DNS | ids | lifecycle | several requests per operation (flavor) |
| compat (`compat.py`) | none; looks names up | translation before every operation | two property languages, merging of inputs, refusals |
| SDK layer (`openstack_sdk`) | none | lookup by id or name, validation | name clashes |

Interactions: the wrapper calls the handlers and owns `id`; every other part
keeps its keys in the runtime properties whose life is that of the wrapper. A
server reads the runtime properties of the networks, ports, groups and volumes
it is related to; the relationship operations of one server write the runtime
properties of the *server's* instance, concurrently. Ports carry the groups that
connect and disconnect operations change.

## 2. What makes each part correct

* *Wrapper*: the plugin never deletes what it did not create; what it creates is
  named by the stored runtime properties, so that an uninstall finds it; a
  conditionally created resource stays marked as such.
* *Server*: a request is made once over all retries; success of stop, snapshot
  and restore means that the server is in the state asked for; no flag outlives
  the server, and only a crash makes a server that nobody owns.
* *Interfaces*: every related network and port is served once; the address shown
  is of the kind asked for; stop removes from an external server exactly what
  create recorded.
* *Groups*: a connected group is on all ports, a disconnected one on none, and
  the groups a port has from elsewhere are never touched.
* *Volume attachments*: the attachment of a volume is the recorded one, unless a
  store that conflicted or a crash lost it; an operation on a volume whose record
  was not lost fails only for a cause, and other volumes' operations are none.
* *Volume*: a copy is made once and is ready on success; other volumes' copies
  are not deleted; an uninstalled volume leaves no snapshot.
* *Host aggregate*: the runtime property `hosts` and the hosts of the aggregate
  agree between operations, so that delete can empty the aggregate.
* *Shared lists* (routes, address pairs): an uninstalled node has no entry on the
  list, and entries of others stay.
* *Floating addresses*: what the server's runtime properties say is what is
  connected; an address in use elsewhere is taken only where that is allowed.
* *Shares*: a delete that succeeds leaves nothing; operations end.
* *Translation*: the request has what node and inputs ask for and nothing else;
  a rule of a security group keeps its restriction, but for two cases that are
  named; what can be done is not refused.
* *Series of requests*: success means that everything was done; an operation
  that broke off can be executed again.

`PROJECT.json` lists the hazards behind these properties, each at its line.

## 3. Modules

Each component has one module. An action is one request to OpenStack, or one
step between two requests, of one attempt of an operation; faults and the
asynchronous services are actions of their own. `MC*` modules only give TLC the
bounds on faults. `map` in `PROJECT.json` relates every definition to its lines.

| Module | Models | State ↔ code | Actions ↔ code |
|---|---|---|---|
| `NodeOperation` | `decorators.py:156` and the helpers of `utils.py` around the handlers of `network.py` | `store`/`rp`: runtime properties and the attempt's copy; `res`: `resource_id` of the SDK object; `live`, `origin`: resources with the node's name | steps of an attempt in the order of the decorator: lookup of the external resource, recording, the guards for external nodes, handler, tail; `BeginCreate`, `BeginOther`: the workflow; `Environment`: others create and remove |
| `OwnedResource` | the abstract owner of at most one resource | | `Acquire`, `Release`, `OthersCreate` |
| `ServerTasks` | lifecycle, power and snapshot operations of `server.py` | `server`: status and task of Nova; `images`; flags of the runtime properties as `none`, `PENDING`, `DONE` | one action per branch of the handlers, `Retry` and `GiveUp` of the engine, `ServiceCompletes`, `ServiceFails`, `UserInterferes` |
| `VolumeTasks` | `volume.py` | `volume`: status; `copies`: backups and snapshots of all volumes; `later`: a `ctx.operation.retry()` that has not taken effect | as in `ServerTasks`, with `VolumeSettles`, `CopySettles` |
| `HostAggregate` | `host_aggregate.py` | `hosts` of the aggregate; `stored`, `hasKey`: the runtime property, which may be missing or empty | one request per host: `AddHost`, `RemoveHost`; `RequestRaises`, `Crash` |
| `VolumeAttachments` | `attach_volume`, `detach_volume` | per volume: its keys in the store and in the attempt's copy, `stale`: whether somebody stored since the copy was read | `Attempt(v)`: load, request, poll, save or conflict |
| `ServerNics` | the `networks` of `create` (`server.py:587` on), external servers' interfaces, `ip` | `node`: the blueprint; `request`: NICs sent to Nova; `ifs`; `added`, `store`: recorded interfaces; `addresses`: what Nova listed when `ip` was recorded | `Create`, `Configure`, `Attach`, `Record`, `Detach`, `Save`, crashes; `PortFor`, `MergedNic`: the merge of the two lists; `AddressOf`: the choice of `ip` |
| `ServerLinks` | `connect_security_group`, `disconnect_security_group`, `port.detach` | `groups` of each port, `bound`: ports of the server, `payload`: ports the server was created with; `step`: where each operation is | `Connect`, `Add`, `Disconnect`, `RemoveFromServer`, `ReadPort`, `WritePort`, `DetachPort` |
| `RequestSeries` | the operations of project, flavor, security group and RBAC policy that make several requests | `cloud`: what exists; `at`, `todo`: the place in the series | one action per request; `Plan` gives the stages of each operation |
| `SharedLists` | `router.py` start/stop (`Routes` nodes of `compat.yaml`), `port.py` create/delete with `use_external_resource` | `list` on the cloud; `copy`: what an uninstall has read; `stored`: routes in the runtime properties | one action per request: `CheckAddresses`, `WriteWanted`, `CheckNetwork`, `ReadList`, `WriteRemaining`; `OthersAdd`, `OthersRemove` |
| `ServerAddresses` | `connect_floating_ip`, `disconnect_floating_ip`, addresses of `configure`, `use_external_floating_ip` | `holder` of each address on the cloud; `store`, `copy`: runtime properties of the server and the copy of each attempt | `Create`, `Configure`, `Begin`, then `Load`, `Connect`/`Disconnect`/`Validate`, `Save` or `Conflict`, `Report` |
| `Translation` | `compat.py`, `prepare_resource_instance` | `stage`: the step of `Compat.transform`; `config`, `args`, `nested`: settings and inputs on their way; `resource_config`, `query`: what comes out | one action per stage, in the order of `Compat.transform`: `MapServer`, `ProcessRule`, `MergeInputs`, `CreateInputs`/`ListInputs`/`UpdateInputs`, `Identify`, `Split`, `PrepareInstance` |
| `FileShares` | `share/file_share.py`, `share/network_share.py`, `manila.py` | `status` of every share and network made; `store`, `known`: the id stored and that of the attempt | one action per request of create and delete, `Store`, `GiveUp`, `Crash`; `ServiceCompletes`, `ServiceFails`, `OthersRemove` |
| `WrapperProofs` | theorems about `NodeOperation` and `Translation` | | |
| `ServerProofs` | theorems about `ServerTasks` and `ServerLinks` | | |
| `NetworkProofs` | theorems about `ServerNics` and `SharedLists` | | |
| `SeriesProofs` | theorems about `RequestSeries` and `FileShares` | | |
| other `*Proofs` | theorems about the module of that name | | |

Where one module proves about two components they share nothing but the file:
each theorem is about one specification.


`NodeOperation` is the composition every other module relies on: what happens
before the handler and after it, and when the runtime properties are stored.
The other modules start where the handler starts, and keep the life of the
runtime properties (copy, save at the end, loss in a crash) as `NodeOperation`
has it. They do not share variables otherwise: no two of them write the same key
or the same object of OpenStack, except for interfaces (`ServerNics`) and groups
(`ServerLinks`) of one server, which different operations change, and the `ip` of
a server, which `configure` sets from its networks (`ServerNics`) and from its
floating addresses (`ServerAddresses`).

### Abstractions

* Retries are unbounded; `GiveUp` says that the engine's limit is reached.
* A resource is what carries the node's name; listing by name is a set.
* NICs are pairs of a network and a port; images, passwords and metadata are not
  represented. An address is known by its network, its version and whether it is
  fixed or floating.
* `RequestSeries` takes lists as sets: the order in which the requests of one
  stage are made is nondeterministic, which contains the order of the code.
* Settings of version 2 are functions from keys to abstract values: a name, the
  identifier it resolves to, empty, or FALSE. Two settings per node and one
  dictionary among the inputs.
* Routes and address pairs are pairs of a key and a detail: destination and next
  hop, or address and MAC address.
* The flags keep `none`, `PENDING` and `DONE` apart; two keys that are set and
  deleted together are one field.

## 4. Runs

All use two workers and end within the times given (measured on two cores).
A run checks what its component promises; type invariants are theorems
instead (section 6).

| Run | Instance | Size | Shows |
|---|---|---|---|
| `node_operation` | 3 identifiers, 2 install cycles, one fault of each of 4 kinds, all together | 627 k states, seconds | `ForeignSurvives`, `NoOrphan`, `WorkflowsComplete`, `CreatedStaysDeletable`, and that the wrapper implements `OwnedResource` |
| `server_tasks` | 1 snapshot name, one fault of each of 5 kinds, two kinds per behaviour | 2.5 M, 2 min | requests made once, success of stop, configure, snapshot and restore, clean uninstall but for a crashed create, termination |
| `volume_tasks` | 2 copies of any volume, 2 names, as above | 3.4 M, 1 min | `CopyIsReady`, `OthersAreKept`, clean uninstall but for a crashed create |
| `host_aggregate` | 3 hosts, 2 of the node, 2 crashes, 1 failed request, 1 lost answer | 289 k, seconds | the recorded hosts are there, when delete can fail |
| `volume_attachments` | 2 volumes, at most 2 attachments each, one event of any kind | 385 k, under 1 min | known attachments, real successes, independence of volumes, termination |
| `server_nics` | 3 ports, 2 on one network; every list of up to 3 targets and 2 NICs; any addresses listed, `use_public_ip`, `use_ipv6_ip`, both or none | 4.5 M, 1 min | the request for a new server and its address, the interfaces of an external one |
| `server_links` | 2 related groups, 2 others, 2 ports, one fault of each kind | 275 k, seconds | connected and disconnected groups, groups from elsewhere |
| `request_series` | one or two of everything, one crash, failure, removal, arrival | 4.4 M, 1 min | success means done; which operations can be executed again |
| `shared_lists` | 2 nodes with 3 possible sets of entries, one network mismatch, 2 installs each, one crash, failure, addition and removal, two kinds per behaviour | 3.6 M, 1 min | uninstalled entries are gone, entries of others stay |
| `server_addresses` | 2 floating addresses, one existing, 2 connects each, one crash, failure, store and move, two kinds per behaviour | 3.2 M, 1 min | `public_ip_address` and `ip` against what is connected, reallocation |
| `translation` | every type, at most 2 settings of the keys in `MCTranslation`, one arg, two filters or updates; 2 names, any of which exist | 4.3 M, under 1 min | the request against what is asked, key by key; restrictions of rules; refusals |
| `file_shares` | 1 share and its network, 2 installs, 2 errors, one crash, failure, abandoned retry and removal, three kinds per behaviour | 155 k, under 1 min | a delete that succeeds leaves nothing; every operation ends but for the states of `Waits` |

Why the bounds suffice. Three identifiers are one foreign resource, one the
plugin makes, and one that is made while either exists; two install cycles let
an earlier life of the instance disturb the next. The wrapper has no loop whose
length depends on data. The flags of a server or volume do not count; two faults
of different kinds are needed to make one attempt lose its flag and the next act
on the loss, and no property was found to need three (`MaxKinds` keeps the state
space in reach; `MaxFaults` bounds each kind). Two copies are the one asked for
and one that must be left alone, of this or another volume. With three hosts a
loop can be cut at its beginning, middle and end, and one host is not the
node's. The merge of NICs compares pairs, so three targets with two NICs reach
every combination of its branches: two ports on one network, a port with and
without its network, a NIC that equals a target. Two groups and two ports are
what a lost update needs. `MaxAttachments` allows a volume to be attached again
after it was detached. Two nodes on one shared list are the one that writes and
the one that writes back what it read before; the sets of entries agree in no
key, in one key with one detail, or in one key with two. One floating address
exists and one is made, since the code treats them differently, and a second
connect meets what the first left. A translation treats each setting by itself
and compares only a key with its older word, so two settings reach every pair.
What holds for every value is in section 6.

Every passing property has a mutant in `PROJECT.json`: a plausible slip in the
modelled code (a dropped guard, a missing reset, a swapped order) under which
TLC finds the property violated in the same configuration.

## 5. Fairness and deadlock

* `WF(Attempt)`: a worker that does not die goes on with the attempt it runs.
  The handlers contain no blocking call besides requests, each of which returns
  or raises.
* `WF(Retry)`: the engine executes an operation again that asked for it. `GiveUp`
  is never forced.
* `WF(ServiceCompletes)`, `WF(PasswordPosted)`, `WF(ImageRemoved)`,
  `WF(VolumeSettles)`: Nova, Cinder and Manila finish, with success or an error,
  the tasks they accepted. The plugin's polls rely on it.
* No fairness is assumed of workflows, faults or other users: nothing has to
  begin, and nothing has to go wrong. Fairness is weak throughout: an action that
  is disabled again by another is not forced.
* `CHECK_DEADLOCK FALSE` everywhere: the plugin acts on request; after the last
  workflow, or when the bounds on cycles and faults are used up, nothing more
  happens. That operations do not get stuck is what `OperationsEnd` says, of
  servers, volume attachments and shares.

`OperationsEnd` of servers excludes what the code cannot do: `stop` and
`snapshot_apply` that find a flag of an earlier operation may wait for ever, as
may an operation after somebody else stopped or deleted the server. That of
shares excludes three states (`Waits`): delete of a share in status `error`,
which is never asked for; delete of a network that a share still uses; create of
a share that somebody deleted, whose old id the client refuses.

## 6. Proofs

`tlapm` checks all of them: every safety property that a run checks, and the
type correctness of every component but `Translation`, whose values are whatever
a blueprint contains. They hold for every value of the constants under the named
assumptions of the modules: `None` is no identifier; bounds on faults, installs,
rounds and lengths are numbers; `NodeHosts` is among `Hosts`; groups of the
server and other groups are disjoint, as are the names of ports, networks and
steps, and policies and what they are cleaned of; the fixed address is no
floating address; entries of a list are pairs of a key and a detail, one of which is the port's
own MAC address (`EntriesAssumption`); empty, FALSE
and generated values are no names, and an identifier is no name
(`ValuesAssumption`); a rule has the fields of a rule, and a prefix that is not
FALSE (`RulesAssumption`).

**Wrapper** (`WrapperProofs`). `TypeCorrect`; `ForeignSafe`; `NothingOrphaned`,
`WorkflowsDoTheirWork`, `MarkIsKept`; `Refinement`. None of the properties is
inductive: each speaks of the time between operations, or of the effects of a
delete, and says nothing of an attempt that is half way. Two invariants do.
`ForeignInv` says, by the kind of node, what the copy and the SDK object may name
at each step: of a plain node only what the plugin created; of an external node
that its handler is never reached for delete; of a `create_if_missing` node, as
long as there was no fault, that `conditionally_created` and the recorded id
agree. `BookInv` keeps the books: `FlowInv` relates the operation to the state of
the instance, `IdInv` the recorded id to the step, `OwnedInv` what the plugin
owns to the copies of the runtime properties, and the refinement follows from the
latter: a create is reached only when nothing is owned, and what ends ownership
is a delete or somebody else.

**Translation** (`WrapperProofs`). `CreatedIsAsAsked`, `InputsAreAsAsked`,
`RulesRestricted`, `RefusalsAreJustified`. The properties speak of the end of a
chain of steps, so the invariants say what each step has made of what was given.
`RequestInv` does so until the inputs are merged: `StagesFit` (a node reaches
only the steps of its type), `AsGiven` (the settings are the given ones, mapped
by `ServerMapped` or `Described`), `RuleFits`. After that `InputsFit` and
`CreatedFits` do so for each key: the lemmas `UpdateFits`, `ListFits` and
`CreateFits` relate the translated dictionaries to the given ones key by key, of
which `ServerMappedAt`, `NamesMappedAt` and `QueriesAt` say what the single maps
do (a name moves to the key of its identifier, no two names to the same key).
`FiltersLeft` and `FiltersWithout` say which filters of a list are left, and
that the lost ones never come back. `PartsAt` says that what `Split` takes apart
and `PrepareInstance` puts together again is the same. All of it is inductive
because node, cloud and what was given never change (`situation`).

**Server: operations** (`ServerProofs`). `TypeCorrect`, `RequestsAreMadeOnce`,
`StopsWhenDone`, `UninstallCleans`, `SnapshotsComplete`, `ApplyRestores`,
`GroupsAreReplaced`. The copy of an attempt is the store with what the attempt
has changed (`CopyFits`), so that `Now` is what the plugin knows at any time.
`AskedFit` is why no request is made twice without a crash: a request that was
made left its flag (`Flagged`), in the copy or the store, and `AskedOf` says that
requests of other operations were not made. `IdsFit` says that without an id there
is neither server nor flag. `StopCalm`, `ImageComes` and `RestoreCalm` follow the
task of Nova that a request started, as long as nobody interferes, until the
poll that ends the operation. `OrphanFits` is why only a crash leaves a second
server: `Create` is reached only when the node knows none, and without a crash
then there is none. `GroupsFit` says how far the replacement of the
groups is when it is cut short.

**Server: groups** (`ServerProofs`). `LinksTypeCorrect`, `OthersKept`, `LinkedOn`,
`SerialUnlinkedOff`. `OthersAreKept` is not inductive since `WritePort` writes
what an earlier step read; `ReadIsCurrent` adds that the groups from elsewhere in
what was read are still the port's, because no operation changes those.
`LinkedIsOn` needs `AllOrNone` (a group is on all ports of the server or on none,
so that finding it on one port, as `connect_security_group` does at
`server.py:2105`, is finding it on all while nothing is unlinked). `SerialInv` is
for workflows that run relationship operations one at a time: then the ports that
may still carry a group are in the list the operation has yet to write.

**Server: interfaces** (`NetworkProofs`). `StopTakesItsOwn`, `OneInterface`,
`NicsServeTargets`. `NicsInv` accounts for the interfaces of an external server
at each step (`Accounted`), and for what is recorded of them (`RecordFits`).
`ListInv` is about the lists: `NewServer` says what the request for a server
contains, `ToAttach` what an external server still gets, `OwnFits` that what it
got is a target. The lists come out of a loop over targets and NICs, whose
result is proved by its least counterexample: a nonempty set of numbers has a
least element (`LeastOf`), which is not the first, so that the claim holds for
the one before it. `KeptExists`, `WithOne` and `MergedLists` are the claims. Of
the address, `FirstFits` says what the search over the recorded networks yields,
and `ConfigureTakes` what follows for each of the cases of `AddressOf`.

**Series of requests** (`SeriesProofs`). `SeriesTypeCorrect`, `SeriesComplete`,
`RepeatsSucceed`. What an operation has done when it succeeds, its stages have
done one after the other, some of them in an execution that a crash cut short.
`SeriesInv` says for each kind of operation what the stages that are over have
left, and the present one up to the requests it has still to make (`TodoFits`):
`RolesFit`, `QuotaFit`, `FlavorFit`, `RulesFit` and `CleanFit`.

**Shares** (`SeriesProofs`). `TypeCorrect`, `NothingLeft`. `OneIsLeft` is the
center: of all that a node made at most one still exists, and it is the one whose
id the attempt knows or, between attempts, is stored, unless a worker died after
a request. `Fresh` says that nothing is made where an id is known. `Budget`
counts what may still be made: one for each install and one for each crash, so
that there is always an id left.

**Shared lists** (`NetworkProofs`). `TypeCorrect`, `UninstallRemoves`,
`OthersStay`. Several nodes have copies of one list at a time. `Off` says of which
nodes nothing should be on the list: `OffTheList` is about the list,
`OffTheCopies` about the copies that others will write back, except those read
before the node's own write. `Owned` says that every route is wanted by some node
or was there before, and `CopiesKeep` that what must be kept is in each copy that
is to be written back.

**Host aggregates** (`HostAggregateProofs`). `AllRecorded`, `AllThere`,
`DeleteDoesNotFail`. While a loop runs, the aggregate and the property differ by
what the loop has done: `Added` and `Removed` name that difference, `Recorded` and
`There` are the two inclusions with it, `Attempts` says what `todo` and the copy
are at each step.

**Volume attachments** (`VolumeAttachmentsProofs`). `AttachmentsKnown`,
`LinksReal`, `CausesOnly`. The invariant is a conjunction over volumes of `Known`
(where the id of the attachment is, at each step), `Real` (what a success has
reached) and `Healthy` (a volume no event hit is never in a state in which its
operation fails). `Same` says what the steps of one volume leave of another, so
that each action is proved once for its own volume and once by the frame lemma
`SameLocal`.

**Volumes** (`VolumeTasksProofs`). `TypeCorrect`, `SnapshotIsReady`,
`UninstallClean`, `OthersStay`. An attempt works on a copy of the runtime
properties and may die at any step, so `IdsFit` says at each step how the copy,
the store and the volume are related: without an id nothing is known and no
volume is there, except when a create has just ended; while an attempt runs its
copy is the store. `OrphanFits` is as for servers. `SnapshotsFirst` (no snapshot
without a volume) holds because Cinder refuses to delete a volume that has one.
`DeletesOwn` is why backups of others survive: what a clean-up listed has the
name or the volume of this node, and names of this node are used by no other
(`NamedAreOwn`). `PendingIsMine` carries a copy that was asked for over the
retries until it is available.

**Floating addresses** (`ServerAddressesProofs`). `TypeCorrect`,
`PublicConnected`, `OnlyAllowedIsTaken`, `AddressIsShown`. Several operations have
copies of the same properties. `CopiesAreFresh` says that a copy that may be
stored is the store with the changes of its own operation, so that none brings
back an address that another has removed; `PublicOrUnstored` and
`ConnectedInCopy` then relate `public_ip`, in the store and in the copies, to what
the server has. `AddressFollows` is about one address at a time: `OneAtATime` says
that then all operations are of the one linked address, and `Right`, under
`ShownIsHeld`, what `ip` and `last_ip` are at each step of its operation, which is
where they differ from what the server has (after the request of a connect,
before its copy is stored). `IsPlain` is about `last_ip`: it is the fixed address
until a connect is executed again after its store, and a floating one from then.

Only model-checked is liveness (the termination of operations of servers, volume
attachments and shares), which is out of the prover's reach.

The proofs also corrected what the runs had not shown, since they allow every
instance. A repeated `backup` was decided by a bounded counter, which agreed with
the code only within the bound. A name in the settings of a node that is empty is
looked up too, except for servers and lists, and a name that is FALSE is replaced
by a generated one (`utils.py`, `get_resource_name`): the properties of
translation now say so.

## 7. Where the code and its documentation disagree

The models do what the code does in these cases; the properties are stated
around them, and say so where an exception is needed:

* Any failed request while a `create_if_missing` resource is looked up counts as
  "the resource is missing" (`utils.py:558`); during delete, the existing resource
  is then deleted by name, although `plugin.yaml:27` speaks of resources that are
  missing. `ForeignSurvives` allows it only of such a node after a fault.
* `restore_state` of a server is not cleared (`server.py:371`), so that a second
  `snapshot_apply` restores nothing and succeeds (`server.py:1800`: "Restore
  server from backup | snapshot."). `FreshApplyRestores` is about the first.
* Backups match by name *or* volume (`volume.py:76`), so that deleting one deletes
  all of the volume; the comment at 71 means only backups without a name.
  `OthersAreKept` is about other volumes.
* Two concurrent disconnects of security groups write back the groups each of
  them read, and one group returns (`server.py:1346` against the comment at 2146).
  `SerialUnlinkedIsOff` is about one at a time.
* Deleting a conditionally created resource succeeds and then the operation
  fails: `set_external_resource` reads the resource again (`utils.py:1078`).
* A `create` that is resumed after a crash leaves a second resource that nothing
  records (`network.py:55`, `server.py:1589`, `volume.py:381`; `CHANGELOG.txt:73`
  announces resumable actions). The properties of uninstalls allow it after a
  crash.
* A volume is deleted while its snapshots still are: `ctx.operation.retry()`
  returns (`volume.py:498`, and the comment above it).
* `backup_done` stays, so that a second `snapshot_create` of a server asks for
  nothing; a retried `snapshot_delete` fails when the image has gone meanwhile,
  and keeps the flags.
* `snapshot_create` of a server looks only at the task of the server
  (`server.py:343`, `445`; the comment says "Wait for finish upload"), and succeeds
  when the upload of the image has failed. `SnapshotIsComplete` is about a service
  without errors.
* The delete flag of a server is stored only when the attempt ends: after a crash
  the request is repeated, and once the server is gone `delete` fails each time it
  is executed (`server.py:1651`).
* A volume copy that failed keeps its id and flag (`volume.py:177`), and later
  copies wait for it.
* A server with no NIC at all compares an unset API version with a number
  (`server.py:883`; the comment at 871 expects a request without networks).
* Interfaces of a broken-off `create` on an external server are recorded nowhere
  and stay (`server.py:1155`).
* A version 2 server related to a port and to that port's network asks for the
  port twice. `NicsMatchTargets` leaves nodes of version 2 out.
* `disconnect_security_group`, executed again after a crash, fails because the
  group was removed by the first execution (`server.py:2144`).
* A second floating address of a server overwrites the recorded first
  (`server.py:2045`), so that disconnecting both leaves the first as the server's
  `ip`, or none. A connect that is executed again after its properties were stored
  saves the floating address as `last_ip`, which disconnect puts back
  (`server.py:2045-2048`). `AddressFollows` is about one address at a time, and
  says what `ip` is after such a repetition. A disconnect that is executed again
  after its request fails, and leaves the address in the properties.
* Unknown groups of a project are refused only after the roles of its users were
  assigned (`project.py:83`: "before doing any role assignment"), and a quota is
  refused after everything else was done.
* A flavor, and a security group that keeps its default rules, cannot be created
  again after a crash: names and rules of the first execution conflict.
* `rbac_policy.py:183` reads a misspelt attribute; a clean-up that is executed
  again with some of the inputs may delete a second matching policy.
* The address pairs of an external port are replaced (`port.py:180`), although
  the docstring speaks of attaching new addresses, and before the network of the
  port is checked; uninstalling such a port writes back addresses without their
  MAC addresses, and uninstalling one whose create was refused removes addresses
  that were there before. `start` of a router replaces its routes likewise.
* A version 2 server with `nics` and without `networks` ends every operation: a
  key is added to a dictionary while it is walked (`compat.py:823`), which Python 3
  refuses.
* A rule whose `remote_group_node` was created by the plugin gets no group and no
  prefix, and is open to all: only external groups have an `external_id`
  (`compat.py:634`). So does one whose `remote_group_name` is of no group, if
  `create_if_missing` lets the lookup find nothing (`compat.py:639`; the comment
  at 636 says the prefix is cleared "since remote_group_id is set").
  `RuleIsRestricted` names both cases (`OpenToAll`).
* The image and flavor of a server, and the group a rule names, are looked up
  before the `openstack_config` of the inputs is merged (`compat.py:661` promises
  it for all operations), and at every operation, also delete. Inputs do not count
  for `Routes`.
* A name in the settings of a user or project wins over an identifier in the args;
  of `offset` and `marker`, and of `parent` and `parent_id`, the order of a
  dictionary decides; an old item given in both places stays in the
  configuration.
* `flavor` and `image` among the args of a server's `list` are looked up and moved
  to `flavor_id` and `image_id` (`compat.py:1047`), which `list` does not take and
  drops, although `SERVER_LIST_PARAMS` (`compat.py:254`) has both as filters: the
  list is not restricted. `LostFilters` names these two.
* `create` of a share stores the id in an attribute that nothing reads
  (`manila.py:44`), looks the share up by its name, and is always executed again.
  delete of a share in status `error` says that it "is still being deleted" and
  never asks for it; errors of the client are retried, unlike those of other
  services, since `EXCEPTIONS` in `constants.py` does not list them.

## 8. Assumptions

Outside `src/`, modelled from how the code uses it:

* The engine stores runtime properties with a version check; a conflicting store
  is refused and the operation is tried again (`VolumeAttachments`). It keeps
  them over an uninstall. Relationship operations of one node run concurrently;
  the stop operation of an uninstall runs even if create failed.
* Nova, Cinder and Neutron are tasks with the statuses the code tests for.
  Queries that the SDK passes to them are applied as the code intends. Glance
  removes an image whose upload failed. Nova lists any addresses on the networks
  of a server's interfaces, a floating one beside the fixed one it is for.
* Lists of hosts and of related targets have no duplicates. The payload's
  `networks` are the NICs that were requested. When a server is created, a
  related group is on all of its ports or on none of them.
* A lookup of several names for validation is one step (`RequestSeries`).
* Neutron replaces a list of routes or address pairs as a whole, and gives a pair
  without a MAC address that of the port. Nova takes a floating address from the
  server that has it, and refuses to remove one that the server does not have.
* Manila refuses to delete a share network that is in use; a share in status
  `available` is deleted in the background. Its client's `create` takes no id.
* Shares are installed after their network and uninstalled before it.

## 9. What is not modelled

* How create requests of ports, subnets, routers and floating addresses find the
  network they name, by property, relationship or external name, and fixed
  addresses of ports: each is one request, of the wrapper, with a refusal when the
  sources disagree.
* The rest of a server's request (boot volumes, key pair, server group, user
  data), the key pair of an external server.
* Interfaces of a router: one request each, with an existence check for external
  resources.
* `allow` and `deny` of shares: one request each; what the client returns from
  them is not in the repository.
* DNS: one request per operation, as in `NodeOperation`, with no state of its own.
* The runtime properties that version 2 nodes get besides (`external_id`,
  `external_name`, ...), lookups of the translation that fail for a while, and
  the removal of duplicate routes.
* `update_project`, `list` operations, and the quota check of
  `creation_validation`: they read, or change only the blueprint of another
  system, and the service checks the quota again; connection, authentication,
  logging, formatting: I/O.

## 10. Plan

Written in this order: the wrapper with its abstract specification; the tasks of
servers and volumes; host aggregates and volume attachments, where concurrent
and partial updates meet; interfaces and groups; series of requests; shared lists
of routes and address pairs; floating addresses; translation; shares.

Every safety property of the runs is proved. Next, in order of importance:

1. How create requests of ports, subnets, routers and floating addresses find
   their network, and the rest of a server's request.
2. Interfaces of a router, and the key pair of an external server.
3. Abstract specifications for server groups and volume attachments (a set of
   linked groups, a map from volumes to attachments), with refinements proved from
   the invariants of section 6.
