# Scaleway cloud controller manager: TLA+ models and proofs

These modules model the parts of the cloud controller manager (CCM) that keep
state in two systems at once: Kubernetes objects (Services, Nodes) and Scaleway
resources (load balancers, their frontends, backends and private networks, and
the servers behind the nodes). TLC checks the models on small instances; TLAPS
proves their main safety properties for all values of the constants.

Paths below are relative to `src/scaleway/` unless they start with `src/`.

## 1. The system

| Part | Source | State it keeps or changes | Operations | Hard parts |
|---|---|---|---|---|
| Load balancer lifecycle | `loadbalancers.go` 98-594 | the ID annotation of the Service; the LBs and their IPs | `GetLoadBalancer`, `EnsureLoadBalancer`, `UpdateLoadBalancer`, `EnsureLoadBalancerDeleted`, `fetchLoadBalancer`, `createLoadBalancer`, `deleteLoadBalancer` | stale informer copies, lost answers, crashes, racing node syncs, users in the console |
| LB reconciliation | `loadbalancers.go` 597-795, 1131-1778 | frontends, backends, servers, type and SSL level of an LB | `updateLoadBalancer`, `removeExternallyManagedResources` | order of deletions and rewiring, partial failure, racing calls |
| Nodes as targets | `loadbalancers.go` 351-376, 604-629, 1096-1128, 1943-1971 | the servers of a backend | `filterNodes`, `nodesInitialized`, `extractNodes...Ips` | addresses that come after the last event, a wait that must end |
| ACLs | `acl.go` | the rules of a frontend | `reconcileACLs`, `makeACLSpecs`, `aclsEquals` | rules of at most `MaxEntriesPerACL` (60) entries, their order, an open window after a creation |
| Private networks | `loadbalancers.go` 797-932 | attachments of an LB | `attachPrivateNetworks` | failure between detach and attach, needless cuts |
| Servers | `servers.go`, `instances.go`, `baremetal.go` | none: their answers decide on Nodes | `InstanceExists`, `InstanceShutdown`, `InstanceMetadata` | two APIs asked in turn, servers that share a name, "not found" against an error, IPAM that answers late |
| Tag synchronisation | `sync.go` | labels and taints of Nodes, labels of Services; a workqueue | `processNextActionItem`, `syncNodeTags`, `SyncNodesTags`, `SyncLBTags` | two goroutines, stale copies, retry limit |
| Patcher | `patcher.go` | none | `Patch` | no resourceVersion: a late patch is never refused |
| Annotations | `loadbalancers_annotations.go` | none | getters of one annotation each | lists of ports, error or default |
| LB status | `loadbalancers.go` 935-1093 | none | `createServiceStatus` | an error blocks a deletion |
| Zones | `zones.go` | none | delegate to the servers | none |
| Start-up | `cloud.go`, `client.go`, `src/cmd/` | environment | `newCloud`, `Initialize` | none over time |

The components interact through the two APIs only. The controllers of
`k8s.io/cloud-provider` (an external library) call the CCM: the service
controller calls the first four operations of the lifecycle, one worker per
Service and a separate node sync that takes no lock; the cloud node controller
and the node lifecycle controller ask the servers about a Node and write what
they hear into it. `EnsureLoadBalancer` and `UpdateLoadBalancer` call
`updateLoadBalancer`, which takes its targets from the Nodes and calls
`attachPrivateNetworks` and `reconcileACLs`. The lifecycle and the tag
synchronisation write Services and Nodes through the patcher, from copies of
their informers.

What makes each part correct:

- lifecycle: one LB per Service, none left behind, no foreign LB deleted, no IP
  released that the user reserved; the Service ends up with the LB it asks for
  and a deleted Service goes away;
- reconciliation: a call that succeeds leaves exactly what the Service asks for,
  whatever was interrupted before; ports that stay are not cut; the owner's
  objects on an externally managed LB are not touched;
- targets and ACLs: the backend ends up with the addresses of the selected
  nodes, however late they get them, and no node holds the Service up for ever;
  the rules admit exactly whom they should;
- private networks: the same as reconciliation, for attachments;
- servers: no node of a living server is lost or tainted, the node of a deleted
  server goes, a node gets the addresses of one server;
- tags: the object follows the tags in the end; other people's labels and taints
  stay.

## 2. The modules

Each module has its state as variables, `Init`, one action per API call or
handler, `Next`, `Spec` (safety) and `FairSpec` (with fairness), then the
properties. A step of a handler that makes no API call belongs to the action of
the call before it. Definitions keep the names of the Go functions they
translate. A `Mutant` is a plausible wrong version of the definition after it;
`PROJECT.json` says which property it breaks.

```
ServiceLB   <-- refined by --  LBLifecycle       the LBs of one Service
                               LBReconcile       what is in one LB
                               PrivateNetworks   its attachments
NodeLife    <-- refined by --  Nodes  (extends Servers)
   ^
   +------- extended by -----  NodePool          its targets and ACLs
                               TagSync           one Node or Service and its tags
```

### LBLifecycle and ServiceLB (with MCLBLifecycle)

One Service and the LBs of the project. `svc` is the object in the API server,
`cache` the informer's copy and `watch` what it has not seen; `lbs` are the LBs
with name, IP and readiness; `wk` holds for each worker the point it has reached
(`pc`), the `*v1.Service` argument (`snap`) and its `lb` variable. Three kinds of
history variables record what is not visible in a state: `missed`, `dropped` /
`released` and `orphaned`.

| Action | Code |
|---|---|
| `BeginSync`, `BeginNodeSync` | the calls of the service controller |
| `FetchRefused`, `FetchByID`, `FetchByName`, `AnnotateFound` | `fetchLoadBalancer`, `getLoadbalancerByName` |
| `CreateLB`, `AnnotateNew` | `createLoadBalancer` |
| `Unannotate`, `DeleteLB` | `deleteLoadBalancer` |
| `Configure` | `updateLoadBalancer` and the status, as one step |
| `Cleanup` | `removeExternallyManagedResources`, as one step |
| `RemoveFinalizer` | the service controller, after `LoadBalancerNotFound` or nil |
| `Fail`, `Crash`, `Deliver`, `BecomeReady`, `EditService`, `DeleteService`, `ConsoleDelete`, `ConsoleRename` | the environment |

`Found` and `NotFound` are what the callers of `fetchLoadBalancer` do with its
result. `missed` becomes true when the service worker acts on the ID annotation
alone (a 404 of `GetLB`, a renamed LB that is spared, an externally managed LB
that is cleaned) while a live LB bears the Service's name. The code cannot know
of that LB, since it looks for one by name only without an annotation; the
properties that the lookup by name guarantees are stated up to `missed`.

`ServiceLB` is the abstract specification: of each LB whether it runs under the
Service's name, without any copy, call or failure. An LB is created only for a
Service that is there and has none, a Service is let go only when it has none,
only LBs created for it are deleted, and users do as they like. `LBLifecycle`
implements it under the mapping in `ImplementsServiceLB`, where `hidden` is
`missed`.

### LBReconcile (with MCLBReconcile)

One LB that exists and is ready. `want` is the Service with the addresses of its
nodes, `fes` and `bes` the frontends and backends by id (ids grow and lists are
in that order), `level` the LB's own settings. A call in `wk` keeps its
arguments and its two lists, `F` and `B`. `RemoveF`, `UpdateF`, `KeepF`,
`CreateF` and their counterparts for backends are `compareFrontends` and
`compareBackends`. The dozens of annotations that configure frontends and
backends are one value, `conf`; a backend has `health` apart, since
`updateBackend` writes it in a second call. For an externally managed LB that is
released, `removeExternallyManagedResources` is the same call with no port
wanted.

`LBReconcileLone` (with MCLBReconcileLone) adds one history variable, `lone`: the
call in progress that began when no other ran and beside which none has run
since. Calls that race may leave several frontends on a port and several backends
on a node port; `lone` is what it takes to say what the next call that nobody
disturbs makes of that. `PrivateNetworksLone` does the same for attachments; no
run is about it, its two properties are proved.

### NodePool (with MCNodePool), on NodeLife

Where the addresses of LBReconcile come from. The nodes live as `NodeLife` says;
`service` has the target labels, the source ranges and the address family of the
Service; `pool` are the servers of the backend and `acls` the rules of the
frontend. `due` says that the service controller has a call to make, `sync` is
the call.

| Action | Code |
|---|---|
| `BeginSync` | `filterNodes`, `nodesInitialized` and `targetIPs` at the head of `updateLoadBalancer` |
| `SetBackendServers` | the comparison of `backend.Pool` and the API call |
| `SetACLs` | `reconcileACLs`: `ListACLs`, `makeACLSpecs`, `aclsEquals`, `SetACLs` |
| `NodeComes`, `NodeGoes`, `NodeInitialized`, `NodeDescribed` | the actions of `NodeLife`, with what the service controller makes of them |
| `Age` | the three minutes after which `nodesInitialized` no longer waits |
| `FailSync`, `EditService` | the environment |

The service controller makes a call when a node comes or goes or gets its
provider ID. New addresses alone trigger nothing: this is why `nodesInitialized`
must make a call fail, and be tried again, until the addresses are there.
`passed` and `moved` are history: the nodes a call left out because of their age
and those whose addresses changed after the last call.

### Servers, Nodes and NodeLife (with MCNodes)

`Servers` has the servers (`srv`), whether IPAM has booked the addresses of their
NICs (`leased`), and the look-ups as operators: `Lookup` by name or provider ID in
one API, `LookupFails` (two servers of that name, a malformed ID, a request
without zone), `AsksBaremetalNext`, `AddressesOf`. `Nodes` adds the Nodes of the
API server and the calls of the two node controllers, `cn` and `lc`, one action
per API call.

| Action | Code |
|---|---|
| `BeginMetadata`, `LookupMetadata`, `ReadAddresses` | `InstanceMetadata`: the `node-public-ip` label, the look-up in one API and then in the other, the addresses |
| `UpdateNode`, `PatchAddresses` | the cloud node controller writes the result (external) |
| `BeginMonitor`, `InstanceExists`, `InstanceShutdown` | the two calls of the node lifecycle controller; the `disable-lifecycle` label |
| `DeleteNode`, `TaintNode`, `UntaintNode` | the node lifecycle controller (external) |
| `FailMetadata`, `FailLifecycle`, `JoinNode`, `ServerStep` | the environment |

The `alive` and `up` fields of a lifecycle call are history: the servers that
have existed, and been up, ever since it began. `NodeLife` is what the rest of
the CCM may rely on: a node is registered with the taint and without addresses,
never gets the taint back nor loses its provider ID, and only has addresses that
belong together. `Nodes` implements it (`ImplementsNodeLife`) and `NodePool` is
built on it, so the two compose.

### PrivateNetworks (with MCPrivateNetworks)

`att` is the attachment of the LB to each private network (the empty set: none).
The actions are the API calls of `attachPrivateNetworks`: the list, each detach
of an extra network, the look-up of IPs, each detach and each attach of the last
loop, in any order, as the loops are over Go maps.

### TagSync (with MCTagSync)

One Node or one Service (`kind`), the informer's `cache` and `watch`, the `tags`
in the cloud, the workqueue (`queued`, `retries`) and two goroutines: `Queue`
(`processNextActionItem`) and `Periodic` (`SyncNodesTags` or `SyncLBTags`). A
patch changes labels key by key (`Merge`) and replaces the list of taints when
it differs in content or order (`TaintsDiffer`).

## 3. What the runs check

| Run | Instance | Checks |
|---|---|---|
| `lifecycle_safety` | 2 LB ids, a foreign LB, a reserved IP, a node sync, 1 edit, 2 failures, lag 1 | `TypeOK`, `OwnUnique`, `NoLeak`, `ForeignSafe`, `NoChurn`, `ReleasedOnlyIfDropped`, `SettledAtRest` |
| `lifecycle_liveness` | 2 LB ids, a node sync, 1 edit, 1 failure, lag 1, under `FairSpec` | `Settles`, `DeletionCompletes`, `ImplementsServiceLB` |
| `lifecycle_orphanip` | 3 LB ids, a reserved IP | finds `EphemeralIPReleased` violated |
| `reconcile_sequential` | 1 worker, 4 Services of 1 or 2 ports, 2 edits, 1 failure | `TypeOK`, `SuccessMeansMatch`, `MatchesAtRest`, `RemovedBackendsUnreferenced`, `NoOutage`, `Converges` |
| `reconcile_concurrent` | 2 workers, 2 Services of 1 port, 2 edits, sets of addresses interchangeable | `NoCrossWiring`, `LoneCallMatches`, `OwnersObjectsUntouched`, `NoOutage` |
| `reconcile_duplicates` | 2 workers, 1 Service, 1 edit | finds `DuplicateBackendsRemoved` violated |
| `reconcile_mixed` | 1 worker, a Service with UDP and TCP | finds `UnsupportedPortsSkipped` violated |
| `targets` | 2 nodes, 3 Services (labels, source ranges, families), rules of 2 entries, 4 changes | `TypeOK`, `SyncedExactly`, `FollowsNodesAtRest`, `SyncsComplete`, `PoolComplete` |
| `nodes` | 2 instances in two zones and a bare metal server, all of one name, provider IDs with, without zone or absent, 1 event, 2 registrations, 1 failure | `NodesTypeOK`, `NodeKept`, `ImplementsNodeLife`, `GhostNodesGo`, `NodesDescribed` |
| `networks_sequential` | 1 worker, 3 networks, 3 IPs (2 in one network), 1 edit, 2 failures | `TypeOK`, `SuccessMeansAttached`, `AttachedAtRest`, `NoNeedlessCut`, `OwnersNetworksUntouched`, `AttachmentsConverge` |
| `tags_converge` | a Node or a Service, 4 lists of tags, 1 retry, 1 edit, 2 failures, lag 2 | `TypeOK`, `OthersLabelsKept`, `PatchSyncs`, `TagsConverge` |
| `tags_taints` | a Node, 2 lists of tags | finds `NonPrefixedTaintsKept` violated |

`SettledAtRest`, `MatchesAtRest`, `FollowsNodesAtRest` and `AttachedAtRest` are
the safety half of the convergence properties: whenever nobody owes another call
(no key queued, no call due or in progress, and in the lifecycle no version of the
Service on its way to the informer), the state is what the Service asks for. A
lost retry or a wrong "nothing to do" breaks them at once, without fairness. The
liveness properties (`Settles`, `Converges`, `PoolComplete`,
`AttachmentsConverge`) add that the system does come to rest.

Bounds. `MaxEdits` counts what users (and, in LBReconcile, nodes) do, `MaxFails`
failures and restarts, `MaxLag` the versions an informer lags behind, `MaxId` the
frontends or backends ever created, `MaxEvents` what happens to servers,
`MaxJoins` the registrations of nodes, `MaxChanges` (NodePool) all of what nodes,
users and failures do, `MaxRetries` stands for `exponentialMaxRetries` (30) and
`MaxEntriesPerACL` keeps its name (60 in the code, 2 in the run). But for the
last two they bound the environment, never the code: every call can be
interrupted at each of its API calls, and an edit can happen in each state.

- Two LB ids are enough for "a second LB"; one foreign LB, since nothing relates
  two of them. In the lifecycle, one edit and two failures give a stale copy (a
  patch of the CCM is a new version too), a lost answer and a crash, and a race
  with the node sync; a lag of one version is enough for a worker to act on an
  old copy, and the theorems hold for every lag.
- Two node ports and two service ports are what a swap needs. `MaxId` limits a
  run only where a call would create more objects than the LB has room for; with
  the edits given it does not happen in `reconcile_sequential`. `UniquePorts`
  says whether the API refuses a second frontend on a port: with one worker the
  properties hold even if it does not; with two `NoOutage` needs it, as the code
  has no check of its own. So in `reconcile_concurrent` calls that race leave two
  backends on a node port and frontends of an older Service, which a lone call
  then has to deal with, but never two frontends on a port; the theorems about
  lone calls hold for both kinds of API. The run has no failures (`MaxFails` 0):
  a call that is not over when another one begins is not alone, whatever stops
  it, and a call that races may stay where it is for as long as the run lasts.
- Three private networks are the cluster's, one the user names and one that is
  extra; two IPs in one network make `TooManyIPs` happen.
- Three servers of one name are needed for "duplicated among the instances, and
  one more in the other API". All but one may exist from the start, and one
  event is enough to change the answer between the two look-ups of a call.
  Two registrations: a node comes back while a verdict on its predecessor is on
  its way.
- With two addresses in a rule, the nodes and source ranges of the run make one,
  two and three rules, full and partly filled, with an address that is both a
  node's and a source range's. Four changes are a node that comes, gets its
  addresses, and an edit or a failure, in any order.

Deadlock is not checked where the system may come to rest (no user action left,
nothing queued); in TagSync the periodic walk never stops, so it is checked.

### Fairness

- LBLifecycle: `BeginSync`, the steps of a call that has begun, `Deliver` and
  `BecomeReady` are weakly fair. The service controller's workers take keys from
  a queue and requeue a key on error; API calls have timeouts; informers
  resume their watch; an LB is set up by the cloud. Edits, failures, the
  console and `BeginNodeSync` owe nothing.
- LBReconcile and PrivateNetworks: a pending call begins and goes on. A call
  that returned an error is pending again (the key is requeued).
- NodePool: a call that is due is made in the end if `nodesInitialized` lets it
  again and again (strong fairness of `BeginSync`: the service controller comes
  back with a growing delay, and a node that comes may block it in between), its
  steps go on, and time passes. Nobody owes a node its initialisation.
- Nodes: both node controllers walk over all nodes for ever and finish their
  calls. The walk over one node is strongly fair, as the controller is busy with
  others in between; the lifecycle controller looks only at nodes that are not
  ready, so it owes a call only to a node whose server is gone (`Ghost`).
- TagSync: `wait.Until` runs the periodic walk for ever; the queue, the informer
  and calls that have begun go on. Retries of the queue are limited, so
  convergence rests on the periodic walk.

### What the violations show

| Property | Code | What is said elsewhere |
|---|---|---|
| `EphemeralIPReleased` | `loadbalancers.go:335` looks at the new Service, not at the old LB's IP | the comment on that line |
| `DuplicateBackendsRemoved` | a frontend matches by port and may stay wired to the duplicate (`loadbalancers.go:746`) | `loadbalancers.go:1625`, "Will remove duplicated backends" |
| `UnsupportedPortsSkipped` | the loop at `loadbalancers.go:672` meets ports `serviceToLB` skipped | `loadbalancers.go:1390`, "skipping unsupported protocol" |
| `NonPrefixedTaintsKept` | `sync.go:263` sends the whole list of taints from a stale copy | `src/docs/tags.md:36`, "the taint won't get removed" |

## 4. What is proved

All theorems hold for every value of the constants that the named assumptions of
the modules allow (`ConstantsAssumption`, `ServersAssumption`,
`NodesAssumption`): sets that stand for different things are disjoint, functions
have the types their comments say, bounds are natural numbers. No number of
workers, LBs, servers, edits, failures or lost versions is fixed, unless said.

| Theorem | States | Module |
|---|---|---|
| `TypeCorrect`, `OneLBPerService`, `NoLBLeftBehind`, `ForeignLBsSurvive` | `TypeOK`, `OwnUnique`, `NoLeak`, `ForeignSafe` | `LBLifecycleProofs` |
| `LifecycleImplementsServiceLB` | `Spec => ImplementsServiceLB` | `LBLifecycleProofs` |
| `ReservedIPsKept`, `NoSecondLB` | `ReleasedOnlyIfDropped`, `NoChurn` | `LBLifecycleHistoryProofs` |
| `ServiceSettledAtRest` | `SettledAtRest` | `LBLifecycleHistoryProofs` |
| `ReconcileTypeCorrect`, `OwnersKeepTheirObjects` | `TypeOK`, `OwnersObjectsUntouched`, any number of racing calls | `LBReconcileProofs` |
| `RacingCallsKeepServing` | `NoOutage`, any number of racing calls, under `UniquePorts` | `LBReconcileProofs` |
| `OwnersStayApart` | `NoCrossWiring`, any number of racing calls | `LBReconcileProofs` |
| `LoneCallSucceeds`, `LoneCallServes` | `LoneCallMatches`, `LoneCallKeepsServing`, after any number of racing calls, under `DistinctPorts` | `LBReconcileSuccessProofs` |
| `OneCallMatches`, `OneCallRewiresFirst`, `OneCallKeepsServing` | `SuccessMeansMatch`, `RemovedBackendsUnreferenced`, `NoOutage`, under `OneCaller` and `DistinctPorts` | `LBReconcileSuccessProofs` |
| `AtRestMatches` | `MatchesAtRest`, under `OneCaller` and `DistinctPorts` | `LBReconcileSuccessProofs` |
| `NetworksTypeCorrect`, `OwnersKeepTheirNetworks` | `TypeOK`, `OwnersNetworksUntouched`, any number of racing calls | `PrivateNetworksProofs` |
| `OneCallAttaches`, `AtRestAttached`, `OneCallCutsNothing` | `SuccessMeansAttached`, `AttachedAtRest`, `NoNeedlessCut`, under `OneCaller` | `PrivateNetworksProofs` |
| `LoneCallSucceeds`, `LoneCallKeeps` | `LoneCallAttaches`, `LoneCallCutsNothing`, after any number of racing calls | `PrivateNetworksProofs` |
| `PoolTypeCorrect`, `SyncsAreExact`, `NodesAreFollowed` | `TypeOK`, `SyncedExactly`, `FollowsNodesAtRest` | `NodePoolProofs` |
| `NodesTypeCorrect`, `NodesKept` | `NodesTypeOK`, `NodeKept` | `NodesProofs` |
| `NodesImplementNodeLife` | `NodesSpec => ImplementsNodeLife` | `NodesProofs` |
| `TagsTypeCorrect`, `OthersKeepTheirLabels`, `CurrentTagsSync` | `TypeOK`, `OthersLabelsKept`, `PatchSyncs` | `TagSyncProofs` |

### The lifecycle

`OwnUnique` is not inductive: nothing in it says why the service worker may call
`CreateLB`. The strengthening `IInv` adds five facts. `NodeSyncInv`: node syncs
only fetch, annotate and configure, so they neither create nor delete.
`SvcWorkerInv`: which steps of the service worker belong to which call, and that
it deletes only an LB whose copy bears the Service's name. `WatchInv`: a deletion
timestamp never goes away along `cache`, `watch` and `svc`. `DeletionInv`: once
the Service is gone, the service worker begins no call that creates. `OwnInv`
contains `OwnUnique` and `NoLeak`, and says what that worker knows of the LBs of
the Service's name: there is none when it is about to create one or to let the
Service go, and none but the one it holds when it is about to annotate, replace
or delete that one. It is the only worker that creates or deletes, so the steps of
others cannot invalidate this, and users only take LBs away or rename them.
The proof has one lemma per group of actions and a frame lemma for the steps that
touch no LB of that name. `ForeignInv` is simpler: a foreign LB never bears the
Service's name, nor does any copy of it, so `deleteLoadBalancer` always spares it.
The refinement maps each group of actions to a step of `ServiceLB` or to a
stutter; `IInv` and `ForeignInv` give the guards.

`ReservedIPsKept` is about the order of versions. `IPInv` says of every IP an LB
has or a worker's copy asks for that it is still asked for by all the later
versions on the way (`cache`, then `watch`, then `svc`), or that the user has
dropped it since. `NoSecondLB` rests on `ChurnInv`: as long as no user
intervenes, all versions of the Service wish the same, at most one LB has ever
been created, it fits that wish, and what the worker holds is a copy of it; so no
comparison asks for a new one.

`ServiceSettledAtRest` needs an invariant about what is on its way, `RestInv`.
The last version on the watch is the Service (`LatestInv`), so that an informer
that has caught up has the Service; a service worker whose key is not queued
again works on the informer's copy (`TakenInv`); an annotation names an LB that
has been created (`BornInv`), so a patch with the ID of a new LB always makes a
new version (`PatchInv`), which queues the key again, as does every version a
late patch of a node sync makes. What the service worker has in its hands when
it goes on to configure then fits the Service, or the key is queued or a version
is on its way (`FittingInv`): returning nil is only final when the LB is right.

### What is in an LB

`OwnersKeepTheirObjects`: a call may hold lists of any age, but an object that
was the Service's when it was listed is still the Service's or gone, as ids are
not reused and no step makes an object the owner's. `CallInv` says this of all
that a call holds: its lists, its objects to remove, and the backend and frontend
in hand; every write is to one of those, or to a fresh id. The same argument,
shorter, gives `OwnersKeepTheirNetworks` (`todo` has only the cluster's network).

`RacingCallsKeepServing` is about calls that race with lists of any age, on an
API that refuses a second frontend on a port (`UniquePorts`; without it two calls
may create a frontend each, and a later call that lists both removes the second
although a call of an older Service has removed the first by then). A frontend keeps its port
all its life and no two have the same, so a list has no duplicates, ever; what a
call marks for removal is therefore on a port that it does not want, and this
stays true of the frontend with that id however late the removal comes
(`Remembers`, in `ServeInv`). `FrontendsStep` reduces the actions to what they may
do to the frontends: rewrite one and keep its port, add one on a free port, or
delete a marked one.

`OwnersStayApart`: of an externally managed LB, calls that race may list an
owner's backend with the node port of the Service, and still none wires a frontend
to it: the backend in hand comes from a list without the owner's objects, or was
just created, and a backend that becomes the Service's has no owner's frontend.

`LoneCallSucceeds` and `LoneCallServes` are about a call that runs alone, of any
ports, node ports, settings and pools, on whatever earlier calls have left: racing
ones, interrupted ones, duplicates of both kinds included. `updateLoadBalancer`
takes no lock, so this is all the code can promise beside a node sync, and it is
partial: the removal of a duplicate backend may be refused (`reconcile_duplicates`),
and then the call fails. `DistinctPorts` says that a TCP port shares its port and
node port with no other entry of its Service: Kubernetes grants that among TCP
ports, and with a UDP one no call succeeds (finding `UnsupportedPortsSkipped`).
`WorldInv` is what holds whatever races: on an externally managed LB no frontend is
wired across (`Apart`). `Progress` says how far the lone call is, of the objects it
does not take for duplicates (`LiveF`, `LiveB`; `DupF` and `DupB` are decided once,
when the lists are made): there is one per port, those of the ports it has not
come to are as it listed them (`FSame`, `BSame`), those of the ports it has done
are as the Service asks (`FDone`, `BDone`), the object in hand has the settings
written so far (`Loop`), and what is still to be removed is exactly what should
not stay (`FTodo`, `BTodo`). `FSame` is what makes the lists harmless: deciding
from the list is deciding from the LB. `FSame` also says that of the duplicates on
a wanted port the first is there when the others go, so that none is cut. At the
end every port is done and nothing else is left; that the LB then has as many
frontends as ports is a bijection from the objects to their ports. Each action has
a lemma (`ListFrontendsGoes`, ...) that it keeps the call on its course and cuts no
port (`Goes`); `LoneMoves` adds that beside a lone call the others only find that
they have no call to make.

`OneCallMatches`, `OneCallRewiresFirst`, `OneCallKeepsServing` and `AtRestMatches`
say that a system that makes one call at a time (`OneCaller`: no node sync beside
the service worker) does what it should, interrupted anywhere. Every call is alone
there, so `Progress` holds of each (`AllGo`). `AtRestMatches` adds `RestInv`: a call
in progress while none is due is for the Service and the nodes as they are now, as
every edit makes a call due and a call keeps its arguments or ends with an error
and is due again. `OneCallRewiresFirst` adds `NoDuplicates`: such a system never
has two backends on a node port. It needs this, as the rewiring alone does not
free a backend that is removed as a duplicate.

`OneCallAttaches` and `OneCallCutsNothing` assume `OneCaller`, at most one
worker. `LoopInv` is the invariant of the call's loops: the attachments still to
be changed are as they were listed, all others are as the Service asks (`Fits`),
and nothing extra is left after the first loop. `LoneCallSucceeds` and
`LoneCallKeeps` are the same of a call that runs alone beside any number of
callers: what is attached when it begins does not matter, as it reads the list
itself, and a worker that is idle cannot move without ending the call's solitude.
`AtRestAttached` follows as `AtRestMatches` does; annotations that contradict each
other keep a call due for ever, so they are never at rest.

### Targets and access control lists

`SyncsAreExact` holds for any number of nodes, addresses and source ranges and
for every `MaxEntriesPerACL` above zero. The rules come out of a sort and of
`chunkArray`; the lemmas say, for every input, what the two preserve
(`SortedRange`: a sorted list has the elements it had; `ChunksCover`: the pieces
of a list have its elements, no more and no less), from which `SpecsExact` gives
that the rules let in the whitelist and no one else. `EqualRules` covers the call
that finds its rules equal to those that are there and leaves them. These lemmas
need induction, which the proofs make as the choice of a least counterexample
(`LeastNatural`). `RulesInv` is the invariant: every rule names addresses only,
and a call that is done has left the rules of its own list.

`NodesAreFollowed` rests on `CallKeepsUp`: while a call is in progress and no
other is due, every address in its list is an address its node has now, unless
the node has moved since, and the nodes it passed over for their age are
remembered. It holds because each change of a node either makes a call due or is
one of the four of `QuietChange`, and because `nodesInitialized` refuses to begin
with a young node that has no address (`FreshList`).

### Nodes

`NodesKept`: the invariant `CallInv` of the lifecycle controller says that each
look-up that came out empty has ruled out the servers of its API among those
that have lived since the call began, so that the verdict after the last one
leaves none. `NodesImplementNodeLife`: `HonestInv` says that the node, the copy
and the answer in the hands of the cloud node controller have addresses of one
server of the node's name (`Told`) and provider IDs of such servers; every write
to a node (`NodeWrite`) is then a step of `NodeLife` (`WriteRefines`).

### Tags

`OthersKeepTheirLabels` is a property of the patch: `MergeKeeps` shows that the
difference between any copy and what is wanted never deletes an unprefixed key,
so a merge into whatever is there now keeps it. `CurrentTagsSync` is one too:
`MergedFits` shows that a label that is as the tags want it stays so whatever the
copy was, and `WantedTaintsFit` that the list of taints sent is always as the tags
want it. Only older tags, not an older copy, can put an object out of sync.

### Only model-checked

All liveness properties and what they need of fairness (`Settles`,
`DeletionCompletes`, `Converges`, `AttachmentsConverge`, `SyncsComplete`,
`PoolComplete`, `GhostNodesGo`, `NodesDescribed`, `TagsConverge`): the prover has
no rule for fairness. Every invariant and every action property of a passing run
is a theorem. `LoneCallKeepsServing`, `LoneCallAttaches` and `LoneCallCutsNothing` are
the reverse: theorems that no run of the project checks. Not all theorems are as wide as the runs or the code: those about
success need a call that runs alone, since two racing calls may leave duplicates
(`reconcile_duplicates`), and `NoOutage` is proved for one caller, or for an API
that refuses a second frontend on a port.

## 5. What is not modelled

- Zones of LBs: every LB is in one zone, as without the zone annotation.
- A Service whose type stops being LoadBalancer: the service controller makes
  the same calls as for a deletion.
- `spec.loadBalancerClass`: every operation returns at once.
- The status of the Service (`createServiceStatus`, `ipMode`), and the error it
  may cause in `GetLoadBalancer`.
- The values of annotations, beyond those that choose an LB, its mode, IPs,
  private networks, targets and source ranges.
- Two calls of `attachPrivateNetworks` at once: the module allows it; the
  properties about success are stated for one that runs alone, if only since it
  began.
- In NodePool: two calls at once, and IPv6 (it is one more address). Source
  ranges are addresses: the normalisation that cuts `/32` and `/128` off is
  taken as done, and ranges that overlap without being equal are left out.
  `stringArrayEqual` tells a missing pool from an empty one, so with no target
  at all `SetBackendServers` is called at every sync; the effect is the same.
- In Servers: a list over all zones is one step; host names and DNS names; the
  older `Instances` interface, which the controllers do not call. Provider IDs
  without zone lead to the SDK's default zone, although the comment at
  `instances.go:327` says that all zones are tried; they are in the run, but
  `NodeKept` and `GhostNodesGo` promise nothing for those that lead elsewhere
  (`Locatable`).
- The syntax of tags. A tag without prefix is taken to name another key than
  those with the prefix and the exclude label.
- Zones, start-up: see the table of components in `PROJECT.json`.

## 6. Plan

Done: all the modules above, the abstract specifications of a Service's LBs and
of a node, and the proofs of section 4. What would add most from here:

1. The removal of the frontends of a deleted Service against a late node sync:
   what it leaves on the owner's LB, and who removes it.
2. The pure functions of the annotations (`isPortInRange`, `getValueForPort`,
   `getCertificateIDs`) against reference definitions.
3. Zones in LBLifecycle; the status and its error.
