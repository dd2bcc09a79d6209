# TLA+ models of the k8s-ovs control plane

These modules model the control plane of k8s-ovs. The master hands out
per-Node subnets (HostSubnets) and per-namespace virtual network ids (VNIDs,
stored as NetNamespaces). Each node turns the HostSubnets into OVS flows. They are written from the Go source under `src/`.
Every definition that models code is listed with its source lines in
`PROJECT.json` under `"map"`.

## The system

| Part | Source | What it does |
|------|--------|--------------|
| etcd v2 registry | `pkg/etcdmanager/etcdv2/registry.go`, `manager.go` | Keeps HostSubnets under `.../subnets/<HostIP>` and NetNamespaces under `.../netnamespaces/<name>`. Create uses `PrevNoExist`. Renew is an unconditional `Set`, which re-creates a deleted key. Delete fails on a missing key. A watch returns one event after a cursor. When the cursor leaves etcd's history (`EventIndexCleared`), the manager lists the directory instead (`*WatchReset`). A delete event carries only the etcd key (`parse*WatchResponse`). |
| Watchers | `pkg/etcdmanager/watch.go` | `subnetWatcher` and `netnamespaceWatcher` keep a list cache. They turn raw events into `EventAdded`/`EventRemoved` batches. After a reset they diff a snapshot against the cache. Each watcher goroutine blocks on an unbuffered channel to a handler goroutine (`Run*Watch`). |
| Event queue | `ksdn/common.go` | Kubernetes Nodes and Namespaces arrive through an event queue: one entry per object, holding its newest delta. A delta whose handler fails is dropped. A relist every 30 minutes re-delivers live objects. |
| Master subnets | `ksdn/subnets.go` | `SubnetStartMaster` builds the subnet allocator from etcd. `watchNodes` runs `addNode` or `deleteNode` per Node delta and keeps a UID→address memo. `masterHandleSubnetEvent` reacts to HostSubnets that other clients pre-assign (`Assign=true`) and releases the subnets of removed HostSubnets. |
| Master VNIDs | `ksdn/vnids_master.go` | `masterVNIDMap` (ids, allocator, a lock around every method). `assignVNID`/`revokeVNID` handle Namespace deltas. `updateVNID` applies an administrator's Action (Global, Join, Isolate) written into a NetNamespace and clears it. `populateVNIDs` rebuilds the map at start. |
| Process start | `ksdn/master.go`, `main.go` | Leader election, then `StartMaster`. A new leader, or a restarted process, starts from etcd alone. A master that loses the leadership is never stopped. |
| Node subnets | `ksdn/subnets.go` (node half), `controller.go`, `node.go` | `StartNode` waits for the node's own HostSubnet (`getLocalSubnet`). `SetupSDN` keeps br0 when `alreadySetUp`, else rebuilds it. A subnet watcher then feeds `nodeHandleSubnetEvent`, which adds or deletes a table 1 tunnel flow and table 8 route flows for every other node. |
| Pod manager | `ksdn/pod.go`, `pod_linux.go`, end of `node.go` | Kubelet's CNI calls arrive on a channel (`handleCNIRequest`) and one goroutine (`processCNIRequests`) runs `setup`, `update` or `teardown` per request and sends the result back. `setup` takes a lease from host-local, configures the veth and runs the k8s-sdn-ovs script; a failure after the lease releases it in a deferred `ipamDel`. `teardown` deletes the flows and then the lease; if the netns is gone it only releases the lease. After `SetupSDN` re-created br0, `StartNode` sends an update for every pod `GetLocalPods` reports Running, then marks the pod network ready. |

The master components and the nodes interact only through etcd and the watch. Inside
each component, the Kubernetes handler and the watch handler are separate
goroutines. `masterVNIDMap` holds a lock; the subnet side has none. On a
node, the pod manager shares one channel between kubelet's calls and
`StartNode`'s update pass, and it is the only writer of the host-local
store and the per-pod flows.

## Modules

### `MasterSubnet.tla`

State:

| Variable | Models |
|----------|--------|
| `knodes` | The Kubernetes Nodes and their addresses. |
| `nodeQueue` | The FIFO event queue of Node deltas. |
| `memo` | `nodeAddressMap`, keyed by UID. |
| `reg` | etcd `subnets/` keyed by HostIP. |
| `wq` | etcd events not yet fetched. |
| `wcache` | `subnetWatcher.subnets`, a sequence with the same swap-delete as `deleteSubnet`. |
| `inflight`, `handling` | The channel and the batch being handled. |
| `alloc` | The subnet allocator: the set in use and the `next` cursor. |
| `nw`, `sh` | The program counters of the two handlers between their etcd calls. |

Actions:

- `NodeAdded`, `NodeAddressChanged`, `NodeDeleted` and `Relist` are Kubernetes and the reflector.
- `Preassign` is another client writing an `Assign=true` HostSubnet (spec 4.F).
- `NodePop` then `NodeAddWrite` is `watchNodes`: `GetSubnet`, then the create or renew.
- `WatcherFetch`, `WatcherReset` and `HandlerReceive` are the watch goroutines. A reset may happen whether or not events of this directory are pending, since writes elsewhere in etcd also move its history window.
- `HandleSubnetEvent`, `HandlerGet` and `HandlerAddWrite` are `masterHandleSubnetEvent` with its `RevokeSubnet` and `addNode` calls.
- `MasterRestart` (with `SubnetStartMaster`) is a restart.

`addNode` is one read step followed by one write step, because another
goroutine can write in between. Its outcome is computed by the pure
operators `AddNodeRenew` and `AddNodeCreate`.

### `MasterVNID.tla`

State:

| Variable | Models |
|----------|--------|
| `kns` | The namespaces. |
| `nsQueue` | The FIFO event queue. |
| `reg` | etcd `netnamespaces/`. |
| `wq`, `wcache`, `inflight`, `handling` | The watch. |
| `vmap` | `masterVNIDMap`: its ids and its allocator bitmap. |

Every `masterVNIDMap` method holds the lock for its whole body, etcd write
included, so each of these is a single action:

- `HandleNamespace` (`assignVNID`/`revokeVNID`);
- `HandleNetnsEvent` (`updateVNID`, one event of a batch);
- `MasterRestart` (`populateVNIDs`).

`WriteAction` is the administrator's read-modify-write of a record.

### `SubnetWatcher.tla`

`SubnetWatcher.tla` holds the pure operators of `subnetWatcher`, which the
master and every node share:

- `CacheUpdate`, `CacheAdd` and `CacheRemove` handle one watch event;
- `ResetScan` and `ResetBatch` diff a listing against the cache;
- `DeleteAt` is the swap-delete of `deleteSubnet`.

The cache is compared by Host, as the code compares it.

### `SubnetRegistry.tla`: the abstract registry

`SubnetRegistry` states what the etcd subnets directory promises a watcher.

- A `Write` of a key carries a whole record. It never takes a subnet that
  another key holds, and it never changes the subnet of a live key.
- A `Delete` appends a key-only `Removed` event.
- `Deliver` hands the events out in order.
- `Compact` drops the pending history, which is the reset.

`MasterSubnet` instantiates it:

```
Registry == INSTANCE SubnetRegistry WITH Records <- HostSubnet
```

`MasterSubnet` takes the registry's `Snapshots` (the listing a reset or a
restart reads) from it. With the master as the only writer, its `reg` and
`wq` change only as the abstract registry allows by the form of its
actions: `addNode` creates or renews one key with a free subnet,
`RevokeSubnet` and `deleteNode` delete one key, and each appends that key's
event. This is why `NodeSubnet` may use `SubnetRegistry` as its environment
instead of the whole master. No run checks `Registry!Spec` as a property:
with one writer it would restate `SubnetsDisjoint` and the form of those
actions.

### `NodeSubnet.tla`

State:

| Variable | Models |
|----------|--------|
| `reg`, `wq` | The abstract registry (`SubnetRegistry`). |
| `wcache`, `inflight` | The node's `subnetWatcher` and its channel. |
| `ovs` | Tables 1 and 8 of br0, as `tun` (the tunnel sources accepted) and `route` (subnet to node IP). |
| `phase` | `"init"` while the node is in `getLocalSubnet`, `"running"` once the watcher is started. |
| `localSubnet` | The subnet br0 was set up for, which `alreadySetUp` compares against. |
| `budget` | Counters for the bounds. |

Actions:

- `RegistryWrite` and `RegistryDelete` are the master and other writers, limited to `SubnetRegistry`.
- `StartNode` is `getLocalSubnet`, `SetupSDN` and `SubnetStartNode`. The watcher starts with no cursor, which is a listing diffed against an empty cache.
- `NodeRestart` is the node process exiting. OVS keeps its flows.
- `WatcherFetch` and `WatcherReset` are the node's watch goroutine.
- `HandleBatch` is `RunSubnetWatch` plus `nodeHandleSubnetEvent` over the whole batch. The handler reads nothing that another goroutine writes, so receiving and handling the batch is one step.

Each OVS transaction (`AddHostSubnetRules`, `DeleteHostSubnetRules`) applies
all of its flows or none. It may fail when `OvsFailures` is TRUE.

### `MasterFailover.tla`: two masters after a change of leader

`main` runs the leader election. Its callback only stores the leader's name.
A goroutine polls that name every 10 s, calls `StartMaster` once the
process is the leader, and then stops polling. No code stops a master when
its process loses the leadership. `MasterFailover` therefore composes two
instances of `MasterSubnet`, `Old` and `New`, with `INSTANCE ... WITH`:

- The Kubernetes Nodes (`knodes`, `uid`), etcd (`reg`) and the bounds are shared.
- Each master has its own event queue, watcher, goroutines and allocator.
- `TakeOver` is the new leader's poll starting its master, which is `MasterSubnet`'s restart from etcd.
- A Node change reaches both masters' queues (`NodeEvent`).
- Every etcd write of one master is appended to the other master's watch stream too (`OldStep`, `NewStep`).

### `PodManager.tla`

State:

| Variable | Models |
|----------|--------|
| `requests` | `podManager.requests`, the channel to the worker. |
| `reply`, `nodeReply` | The `Result` channel of a kubelet call, and of `StartNode`'s `UpdatePod` call. |
| `lease` | host-local's store: address to container. |
| `flows` | The per-pod flows the script writes, keyed by the pod address as tables 6 and 7 are. |
| `veth`, `netns` | The address on the sandbox's eth0, and whether its netns exists. |
| `kubelet`, `running` | Kubelet's view of each sandbox, and the pod's API phase. |
| `phase`, `toUpdate`, `ready` | The node process, the pods `StartNode` still has to update, and `podNetworkReady`. |

Actions:

- `ProcessAdd`, `ProcessUpdate` and `ProcessDel` each pop one request, run the whole handler and reply. Each has every return of its handler as a disjunct: a config or IPAM error before a lease, a veth or script error after it (with the deferred `ipamDel`, which may itself fail when `RollbackFails`), an update without a sandbox or address, and a teardown that stops at `getVethInfo`, at the script or at `ipamDel`. The handlers run in the single worker, so each is one step.
- `setUp` is what `alreadySetUp` looks for: br0 carries the version flow of this build and tun0 the local gateway and route. `networkChanged` is `SetupSDN`'s result, `~setUp`; a full setup re-creates br0 without pod flows and writes the version flow last.
- `NodeStart` is `StartNode` from `newPodManager` on. When `networkChanged` holds, br0 has no pod flows and `toUpdate` is the pods `GetLocalPods` lists, in any order. `UpdatePod` sends one update; `UpdatePodDone` logs its result, moves on and marks the network ready after the last pod.
- `NodeRestart` is the node process exiting: the channel, the update pass and the replies in flight are lost. The next process may be a new version, whose version flow differs (spec S6), so `setUp` may become FALSE; otherwise br0 is kept.
- Kubelet (`KubeletAdd`, `KubeletAddDone`, `StatusSync`, `KubeletDelete`, `NetnsLost`, `KubeletTeardown`, `KubeletDelDone`) is modelled from the spec. A failed ADD or a deleted pod is torn down. A failed DEL is retried, and a successful one removes the sandbox. A pod whose sandbox was removed may get a new one (`MaxRecreates`).

Assumption about the script (not in `src/`): setup writes the flows of the
pod's address, teardown deletes the flows of the address it is given, and
update rewrites them for the veth it is given. Update must re-attach the
port, because it is what restores pods on a br0 that was just re-created.

### Modules modelled from their documented behaviour

Two parts are used by the code but are not in the repository. They are
modelled from their documented behaviour and marked `spec_modelled` in the map:

- The event queue's compression (`Enqueue`). A key keeps its place and its delta is replaced.
- In `NodeSubnet`, the other writers of the registry (`RegistryWrite`, `RegistryDelete`) and the node process exit (`NodeRestart`).
- The allocators (`NextFree`, `GetNetwork`, `ReleaseNetwork`, `NewSubnetAllocator`, `AllocateNext`).
- In `PodManager`, kubelet, the node process exit and host-local's free addresses (`FreeIPs`).

### MC modules

`MCMasterSubnet.tla`, `MCMasterVNID.tla`, `MCNodeSubnet.tla`, `MCMasterFailover.tla` and `MCPodManager.tla` give the constants their values:

- two Nodes and two or three addresses;
- two tenant namespaces and the admin namespace, with VNIDs 1..2;
- address layouts: fixed, shared (an address reused after a delete), and moving;
- for the node model, the local node and two peers, each with its own address and subnet (`OwnAddrs`, `OwnNets`). The alternative layouts `SharedAddrs` and `RenumberNets` are used in the exploratory configurations below;
- for the pod manager, two pods and two addresses (`MCPods2`, `MCPodIPs`), or one address (`MCPodIPs1`) so that a released address is at once re-issued.

## Runs

Every run uses the MC module of its component.

### Passing runs

| Run | Checks | What it shows |
|-----|--------|---------------|
| `vnid_safety` | `TypeOK`, `RegistryMatchesMaster`, `NetIDRefCount` | The map, the allocator and etcd agree through creations, deletions, an Action, a restart and a watch reset. Symmetry over the two tenants. |
| `vnid_live` | `NamespacesConverge`, `ActionEventuallyCleared` | Without restarts, resets or failed writes, etcd ends up with a NetNamespace for exactly the live namespaces, and every Global or Isolate Action is applied and cleared. |
| `subnet_safety` | `TypeOK`, `AllocatorCoversRegistry` | With failed writes, a pre-assignment, a restart and a reset, every subnet the master owns in etcd is marked used in its allocator. |
| `subnet_live` | `SubnetsDisjoint`, `NoStaleSubnets` | With fixed addresses and two subnets, no two HostSubnets share a subnet, and deleted Nodes leave no HostSubnet. The watch resets twice. |
| `subnet_move_live` | `NodesGetSubnets` | A Node that changes its address still gets a subnet at its current address. |
| `node_live` | `TypeOK`, `RoutesConverge` | Across creates, deletes, two watch resets and a node restart, a running node ends up with the tunnel and route flows of every other node that has a HostSubnet. This holds when each node keeps one address and one subnet and OVS transactions do not fail. |
| `pod_live` | `UniqueAddresses`, `LeasesReleased` | Through failed setups (before and after the lease), failed and retried teardowns, a vanished sandbox, a recreated sandbox, a restart that loses replies, and a lagging pod status: no two running pods share an address, and every lease of a torn-down sandbox is eventually released. |

### Violation runs

Each violation run checks one property. Its finding is described in
`PROJECT.json`.

| Run | Property | What TLC finds |
|-----|----------|----------------|
| `vnid_writefail` | `NetIDRefCount` | `updateVNID` changes memory before `RenewNetNamespace` and does not roll back when the write fails. |
| `vnid_stale_action` | `NetIDChangesOnlyByAction` | With no injected fault: an administrator writes a Join to adm into n1, n1 is deleted and created again (new NetID 1), and the master's handler then processes the Join's watch event. `updateVNID` takes the Action from the event, not from etcd, and `RenewNetNamespace` overwrites the new record, so the re-created n1 gets adm's NetID 0 without any Action written into it (spec 4.G). |
| `subnet_leak` | `SubnetsReleased` | A delete event carries only the key, so `masterHandleSubnetEvent` never releases a deleted Node's subnet. |
| `subnet_failover` | `SubnetsDisjoint` (of `MasterFailover`) | The new leader starts its master while etcd is empty. The old master gives nA subnet 0. The new master's allocator never hears of it, because `masterHandleSubnetEvent` ignores Added events without Assign, so it gives nB subnet 0 as well. |
| `pod_update_race` | `PodsHaveFlows` | With no injected fault: a pod is deleted while the node restarts and re-creates br0. `GetLocalPods` still lists it, and its update is queued behind its DEL and a new pod's ADD. The DEL releases the address, the ADD takes it, and the update, finding the old sandbox not yet removed, rewrites the address's flows to the deleted pod. The new pod stays unreachable. |

### Observed in exploratory configurations

These were found with configurations that are not kept, because of the run
budget:

- A restart loses queued deletions, in both components.
- A failed `deleteNode` is never retried.
- `MCMasterVNID` with `SelfJoin` TRUE violates `NetIDRefCount`: a Join whose peer is the namespace itself frees its own id while etcd keeps it.
- `MCMasterSubnetMoveLive` with `NoStaleSubnets` is violated: an address change never retires the HostSubnet at the old address.
- `MCNodeSubnet.cfg` with `OvsFailures <- TRUE` violates `RoutesConverge`. A failed `AddHostSubnetRules` is dropped. The cache already holds the record, so no reset re-delivers it, although spec 4.H says it does.
- `MCNodeSubnet.cfg` with `HostNets <- RenumberNets` and `NumSubnets <- 4` violates `RoutesConverge`. A peer's HostSubnet is deleted and re-created with another subnet while the watch is behind. The reset finds the Host cached, reports nothing, and the new route is never installed (scenario S2).
- `MCNodeSubnet.cfg` with `HostAddrs <- SharedAddrs` violates `RoutesConverge`. A deleted peer stays cached because its delete event is key-only. The reset then reports it as Removed after its address passed to another node, and `DeleteHostSubnetRules` deletes the live node's tunnel flow.
- `MCNodeSubnet.cfg` with `FlowsMatchRegistry` is violated: a key-only delete matches no flow, so a deleted node's flows stay.
- `MCMasterVNID.cfg` with `AdminActions = TRUE`, `MaxActionWrites = 2`, `MaxRestarts = 0`, `MaxResets = 0` and only `AdminIsGlobal` is violated: `updateVNID` applies a Join to the admin namespace and moves it off NetID 0, which spec 3 reserves for it.
- `MCMasterVNIDLive.cfg` with `MaxResets = 1` and only `ActionEventuallyCleared` is violated: an Action written while the watch is behind etcd's history is never seen, because `netnamespaceWatcher.reset` only reports names new to its cache.
- `MCMasterSubnetLive.cfg` with `NodeAddrs <- SharedAddrs`, `MaxNodeEvents = 5`, `MaxResets = 1` and only `SubnetsDisjoint` is violated. The cache is keyed by Host while etcd is keyed by HostIP. After an address is reused, a reset releases a subnet still in use, and it is handed out twice.
- `MCPodUpdateRace.cfg` with `StatusLag = TRUE` violates `PodsHaveFlows` another way: a pod whose API status still says Pending when br0 is re-created is not listed by `GetLocalPods` and never gets its flows back.
- `MCPodUpdateRace.cfg` with `UpdateFails = TRUE` and `MaxFailures = 1` violates `PodsHaveFlows`: a failed `UpdatePod` is only logged and never retried.
- `MCPodManager.cfg` with `AddFailAt = {"script"}`, `MaxRestarts = 0` and only `PodsHaveFlows` is violated. The setup script fails after eth0 has its address, and the rollback frees the lease while eth0 keeps it. Another pod gets the address, and the failed sandbox's DEL deletes that pod's flows.
- `MCPodManager.cfg` with `AddFailAt = {"veth"}`, `RollbackFails = TRUE`, `MaxRestarts = 0` and only `LeasesReleased` is violated. The deferred `ipamDel` fails, and teardown can never release the lease, because `getVethInfo` fails on an eth0 without an address.
- Every ADD that fails before eth0 has an address leaves a sandbox whose DEL fails for as long as its netns exists: `teardown` returns at `getVethInfo` before `ipamDel`. Spec 4.K says IPAM DEL is always attempted. In `pod_live` such pods stay in kubelet's teardown retry forever.
- `MCMasterSubnetMoveLive.cfg` with `IPs <- MCIPs`, `NodeAddrs <- FixedAddrs`, `NumSubnets = 4`, `MaxNodeEvents = 3`, `MaxPreassign = 1` and `MaxResets = 0` violates `NodesGetSubnets`. `watchNodes` reads the pre-assigned record, the handler revokes it, and `watchNodes`' unconditional `Set` re-creates it without a subnet. The handler's `addNode` then sees a matching record, so the Node never gets a subnet.
- `MCPodUpdateRace.cfg` with `Pods <- MCPods1` and `MaxRestarts = 2` violates `PodsHaveFlows`. A restart into a new version re-creates br0 and starts the UpdatePod pass. A second restart during the pass finds the version flow written, so `SetupSDN` reports no change and the pod never gets its flows back: `networkChanged` is not persisted.
- `MCNodeSubnet.cfg` with `HostNets <- MovedOwnNets`, `NumSubnets = 4`, `MaxWrites = 3` and only `LocalSubnetCurrent` is violated. The master deletes the node's own HostSubnet and creates it again with another subnet. `nodeHandleSubnetEvent` skips events of the local address and `getLocalSubnet` ran only at start, so br0, tun0 and IPAM stay on the old subnet.

`PROJECT.json` lists them as hazards at their source lines.

### Mutants

Each property of a passing run has a mutant in `PROJECT.json`. A mutant is a
plausible bug in a mapped definition, and TLC finds the property violated
under that run's configuration. The mutants are:

- `populateVNIDs` without the GlobalVNID skip;
- a revoke that only frees memory;
- a renew that keeps the stale id;
- a release without the reference count;
- a watch cursor that skips an event;
- a watcher update that treats every event as an add;
- a watcher add that appends without the Host lookup;
- a reset that does not consume the cached entry;
- a delete by the wrong key;
- a memo check that ignores the address;
- an `AddHostSubnetRules` without the table 1 flow;
- a host-local release that ignores the container id (it breaks `UniqueAddresses`);
- a `teardown` that returns on any `IsNSorErr` error, a vanished netns too (it breaks `LeasesReleased`).

## Bounds

Every unbounded input is capped by a named constant:

| Bound | Caps |
|-------|------|
| `MaxNodeEvents` / `MaxNsEvents` | Kubernetes changes. |
| `MaxActionWrites` | Administrator writes. |
| `MaxPreassign` | Pre-assignments. |
| `MaxRestarts` | Master restarts. |
| `MaxResets` | Watch resets. |
| `MaxWrites` | Registry writes and deletes in `NodeSubnet`. |
| `MaxFailures` | Injected failures of the pod handlers. |
| `MaxNetnsLoss` | Sandboxes whose netns vanishes before their DEL. |
| `MaxRecreates` | New sandboxes for pods whose sandbox was removed. |

With two Nodes or two tenants these bounds are enough for the cases that
matter: a Node or tenant deleted and re-created, an address reused by the
other Node, a Join followed by a delete, and a restart or reset in the
middle of any of them. Every violation above needs only these bounds.

For the node, three nodes with six writes are enough to create every peer,
delete one and re-create it, with a reset or a restart in between.

For pods, two pods and two addresses let one pod take the address the other
released, or find none left. Two failures put a setup failure and a teardown
failure, or a failure and its rollback, in one behaviour. One restart and one
recreated sandbox are enough for every pod violation above, which needs at
most 20 steps.

Relist is unbounded: it only appends live, unqueued objects, so the queue
length stays at most the number of objects.

## Fairness

These steps are weakly fair:

- the event queue's pop;
- both handlers' steps;
- the watcher's fetch and the handler's receive;
- the relist;
- in `NodeSubnet`: `StartNode`, `WatcherFetch` and `HandleBatch`.

The code justifies this:

- each of these is a goroutine started with `utilwait.Forever` that loops on a blocking receive;
- the reflector relists on a 30 minute timer;
- `getLocalSubnet` polls every 3 s, and after 60 s the process exits and is started again, so it keeps polling while the HostSubnet exists.

In `PodManager`, these steps are weakly fair:

- the worker's three handlers, because `processCNIRequests` loops on the channel;
- `NodeStart` and the update loop, because `StartNode` runs straight through (and a restarted node is started again);
- kubelet reading each result, retrying a teardown in its sync loop, and the status manager reporting the pod Running.

Creating and deleting pods, failures, restarts and vanished sandboxes are not
fair. `pod_live` and `pod_update_race` set `CHECK_DEADLOCK FALSE`: once every
pod is gone, or stuck in a teardown that keeps failing, the node waits on the
channel.

`node_live` sets `CHECK_DEADLOCK FALSE`. Once the writes are used up and
the watch is drained, the node really has nothing to do: it waits on the
watch.

Kubernetes changes, administrator writes, write failures, restarts and
resets have no fairness. The environment may stop changing things, and the
liveness properties are stated as "eventually always" so that they apply once
it stops.

## What is not modelled

- In the pod manager: the CNI server's socket (`cniserver`, not in `src/`), `getIPAMConfig` and `getBandwidth` (formatting of configuration), and the VNID argument of the script. Only the single-tenant plugin is modelled, so every pod has VNID 0. The request channel's capacity of 20 is not reached by the model.
- Kubelet, host-local and the k8s-sdn-ovs script are not in `src/`. They are modelled from the spec, with the script assumption stated under `PodManager.tla`.
- The node's NetNamespace watcher (`VnidStartNode`), iptables and routes in `SetupSDN`. A full setup is modelled only by its effect on tables 1 and 8, which start empty. The `ovs` package that builds the bridge is not in `src/`.
- The OVS transaction semantics. A transaction is taken to apply all of its flows or none.
- Network-config watch and parsing, `NetworkInfo` validation, and the leader election library. `MasterFailover` covers only the subnet half of two masters; the VNID half has the same structure and is not composed. `AddServiceRules` and `DeleteServiceRules` have no caller. `validateNodeIP` is assumed to accept every address in the model.
- Watch errors other than index-cleared. They sleep and retry with the same cursor, which is a stutter here.
- A Node with several addresses. The model gives each Node one address, so `isValidNodeIP(node, oldNodeIP)` reduces to an equality check.
