---------------------------- MODULE MasterSubnet ----------------------------
(***************************************************************************)
(* The master's HostSubnet management (src/ksdn/subnets.go) over the etcd  *)
(* subnets directory (src/pkg/etcdmanager/etcdv2) and the master's subnet  *)
(* watcher (subnetWatcher, src/pkg/etcdmanager/watch.go).                  *)
(*                                                                         *)
(* Two master goroutines write etcd without a common lock:                 *)
(*  - watchNodes pops Node deltas and runs addNode / deleteNode;           *)
(*  - masterHandleSubnetEvent handles the subnet watcher's batches: it     *)
(*    re-creates externally pre-assigned HostSubnets and releases the      *)
(*    subnets of removed ones.                                             *)
(* addNode reads the HostSubnet (GetSubnet) and then writes it; the two    *)
(* etcd calls are separate steps, so the goroutines interleave between     *)
(* them. The SubnetAllocator (k8s-ovs/pkg/snalloc, not in src) is modelled *)
(* from spec 4.B.                                                          *)
(***************************************************************************)
EXTENDS Naturals, Sequences, FiniteSets, FiniteSetsExt, SequencesExt, SubnetWatcher

CONSTANTS
    Nodes,          \* node names (model values)
    IPs,            \* node IPs (model values); HostSubnets are keyed by IP
    NodeAddrs,      \* NodeAddrs[n]: the addresses node n may have
    NumSubnets,     \* subnets of the cluster network, numbered 0..NumSubnets-1
    Nil,            \* absent key / absent value / unparsable field
    MaxNodeEvents,  \* bound: Node creations, deletions and address changes
    MaxPreassign,   \* bound: HostSubnets created with Assign=true by others
    MaxRestarts,    \* bound: master process restarts
    MaxResets,      \* bound: the subnet watch falls out of etcd's history
    WriteFailures   \* may an etcd request fail without being applied?

ASSUME NodeAddrs \in [Nodes -> SUBSET IPs]
ASSUME NumSubnets \in Nat \ {0}
ASSUME WriteFailures \in BOOLEAN

Subnets == 0..(NumSubnets - 1)

\* etcdmanager.HostSubnet. A record decoded from a delete event has only
\* Host set, to the full etcd key, which is no node name: all Nil here.
HostSubnet == [host: Nodes, ip: IPs, subnet: Subnets \cup {Nil}, assign: BOOLEAN]
KeyOnly == [host |-> Nil, ip |-> Nil, subnet |-> Nil, assign |-> FALSE]

Event == [type: {"added", "removed"}, sub: HostSubnet \cup {KeyOnly}]

\* The state of one addNode call in a goroutine.
Worker == [pc: {"idle", "get", "write"}, node: Nodes \cup {Nil},
           ip: IPs \cup {Nil}, sub: HostSubnet \cup {Nil}, uid: Nat]
IdleWorker == [pc |-> "idle", node |-> Nil, ip |-> Nil, sub |-> Nil, uid |-> 0]

VARIABLES
    knodes,     \* knodes[n]: the address of Node n in Kubernetes, or Nil
    nodeQueue,  \* FIFO of Nodes with their newest delta (kind, address if Deleted)
    memo,       \* watchNodes' nodeAddressMap (node -> address)
    nw,         \* the watchNodes goroutine
    reg,        \* etcd <prefix>/<network>/subnets/<ip>
    wq,         \* etcd events after the subnet watcher's cursor
    wcache,     \* subnetWatcher.subnets, a list
    inflight,   \* batch sent on the unbuffered receiver channel
    handling,   \* rest of the batch masterHandleSubnetEvent is working on
    sh,         \* the masterHandleSubnetEvent goroutine
    alloc,      \* SubnetAllocator: subnets in use and the cursor
    uid,        \* uid[n]: incarnation of Node n (a re-created node has a new UID)
    budget

vars == <<knodes, nodeQueue, memo, nw, reg, wq, wcache, inflight, handling,
          sh, alloc, uid, budget>>

-----------------------------------------------------------------------------
(* SubnetAllocator (spec 4.B).                                             *)

\* GetNetwork: the first free subnet from the cursor on, modulo the space;
\* the cursor moves past it. Nil when none is left.
NextFree(a) ==
    LET order == [i \in 0..(NumSubnets - 1) |-> (a.next + i) % NumSubnets]
        free  == {i \in 0..(NumSubnets - 1) : order[i] \notin a.inuse}
    IN  IF free = {} THEN Nil ELSE order[Min(free)]

GetNetwork(a, s) == [inuse |-> a.inuse \cup {s}, next |-> (s + 1) % NumSubnets]

\* ReleaseNetwork: unknown subnets are no-ops.
ReleaseNetwork(a, s) == [a EXCEPT !.inuse = @ \ {s}]

\* NewSubnetAllocator with the subnets already in etcd marked in use.
NewSubnetAllocator(inUse) == [inuse |-> inUse, next |-> 0]

-----------------------------------------------------------------------------
(* Helpers                                                                 *)

Outcomes == IF WriteFailures THEN BOOLEAN ELSE {TRUE}

-----------------------------------------------------------------------------
Init ==
    /\ knodes = [n \in Nodes |-> Nil]
    /\ nodeQueue = <<>>
    /\ memo = [n \in Nodes |-> Nil]
    /\ nw = IdleWorker
    /\ reg = [ip \in IPs |-> Nil]
    /\ wq = <<>>
    /\ wcache = <<>>
    /\ inflight = <<>>
    /\ handling = <<>>
    /\ sh = IdleWorker
    /\ alloc = NewSubnetAllocator({})
    /\ uid = [n \in Nodes |-> 0]
    /\ budget = [node |-> 0, pre |-> 0, restart |-> 0, reset |-> 0]


-----------------------------------------------------------------------------
(* Environment: Kubernetes Nodes and other writers of HostSubnets.         *)
(* The event queue keeps only the newest delta of a Node.                  *)

NodeOwning(ip) == {m \in Nodes : knodes[m] = ip}

\* The event queue keeps a Node's place while it has a delta queued and
\* replaces the delta by the newest one; a Node without one joins the tail.
Enqueue(q, n, kind, ip) ==
    LET d  == [node |-> n, kind |-> kind, ip |-> ip]
        is == {i \in 1..Len(q) : q[i].node = n}
    IN  IF is = {} THEN Append(q, d) ELSE [q EXCEPT ![Min(is)] = d]

Queued(q) == {q[i].node : i \in 1..Len(q)}

\* Sync deltas for the given Nodes, in the order of a listing.
SyncDeltas(ns) ==
    {[i \in 1..Len(o) |-> [node |-> o[i], kind |-> "sync", ip |-> Nil]] : o \in SetToSeqs(ns)}

\* A Node is created with an address no live Node has; it has a new UID.
NodeAdded(n, ip) ==
    /\ knodes[n] = Nil
    /\ ip \in NodeAddrs[n]
    /\ NodeOwning(ip) = {}
    /\ budget.node < MaxNodeEvents
    /\ knodes' = [knodes EXCEPT ![n] = ip]
    /\ uid' = [uid EXCEPT ![n] = @ + 1]
    /\ nodeQueue' = Enqueue(nodeQueue, n, "sync", Nil)
    /\ budget' = [budget EXCEPT !.node = @ + 1]
    /\ UNCHANGED <<memo, nw, reg, wq, wcache, inflight, handling, sh, alloc>>

\* A Node is deleted; its Deleted delta carries its last address.
NodeDeleted(n) ==
    /\ knodes[n] # Nil
    /\ budget.node < MaxNodeEvents
    /\ knodes' = [knodes EXCEPT ![n] = Nil]
    /\ nodeQueue' = Enqueue(nodeQueue, n, "deleted", knodes[n])
    /\ budget' = [budget EXCEPT !.node = @ + 1]
    /\ UNCHANGED <<memo, nw, reg, wq, wcache, inflight, handling, sh, alloc, uid>>

\* A Node's address changes (an Updated delta).
NodeAddressChanged(n, ip) ==
    /\ knodes[n] \notin {Nil, ip}
    /\ ip \in NodeAddrs[n]
    /\ NodeOwning(ip) = {}
    /\ budget.node < MaxNodeEvents
    /\ knodes' = [knodes EXCEPT ![n] = ip]
    /\ nodeQueue' = Enqueue(nodeQueue, n, "sync", Nil)
    /\ budget' = [budget EXCEPT !.node = @ + 1]
    /\ UNCHANGED <<memo, nw, reg, wq, wcache, inflight, handling, sh, alloc, uid>>

\* The reflector's periodic relist re-delivers every live Node that has no
\* delta queued.
Relist ==
    /\ \E ds \in SyncDeltas({n \in Nodes : knodes[n] # Nil} \ Queued(nodeQueue)) :
         nodeQueue' = nodeQueue \o ds
    /\ UNCHANGED <<knodes, memo, nw, reg, wq, wcache, inflight, handling, sh,
                   alloc, uid, budget>>

\* Another client creates a HostSubnet with Assign=true and no subnet for a
\* live Node at its address, asking the master to allocate one (a create
\* with PrevNoExist).
Preassign(n, ip) ==
    /\ knodes[n] = ip
    /\ reg[ip] = Nil
    /\ budget.pre < MaxPreassign
    /\ LET rec == [host |-> n, ip |-> ip, subnet |-> Nil, assign |-> TRUE]
       IN  /\ reg' = [reg EXCEPT ![ip] = rec]
           /\ wq' = Append(wq, Added(rec))
    /\ budget' = [budget EXCEPT !.pre = @ + 1]
    /\ UNCHANGED <<knodes, nodeQueue, memo, nw, wcache, inflight, handling, sh,
                   alloc, uid>>

-----------------------------------------------------------------------------
(* addNode(nodeName, nodeIP, false) after its GetSubnet read returned sub. *)
(* Returns the registry, the etcd events, the allocator and whether it     *)
(* succeeded, for the outcome ok of its etcd write.                        *)

\* RenewSubnet: an unconditional Set (PrevIndex 0) of the key; it re-creates
\* a key deleted since the read.
AddNodeRenew(name, ip, sub, ok) ==
    LET rec == [sub EXCEPT !.host = name, !.assign = FALSE]
    IN  IF ok THEN [reg |-> [reg EXCEPT ![ip] = rec], ev |-> <<Added(rec)>>,
                    alloc |-> alloc, ok |-> TRUE]
              ELSE [reg |-> reg, ev |-> <<>>, alloc |-> alloc, ok |-> FALSE]

\* GetNetwork, then AcquireSubnet (a create with PrevNoExist); a failed
\* create gives the subnet back.
AddNodeCreate(name, ip, ok) ==
    LET s   == NextFree(alloc)
        rec == [host |-> name, ip |-> ip, subnet |-> s, assign |-> FALSE]
    IN  IF s = Nil
        THEN [reg |-> reg, ev |-> <<>>, alloc |-> alloc, ok |-> FALSE]
        ELSE IF ok /\ reg[ip] = Nil
        THEN [reg |-> [reg EXCEPT ![ip] = rec], ev |-> <<Added(rec)>>,
              alloc |-> GetNetwork(alloc, s), ok |-> TRUE]
        ELSE [reg |-> reg, ev |-> <<>>,
              alloc |-> ReleaseNetwork(GetNetwork(alloc, s), s), ok |-> FALSE]

addNode(name, ip, sub, ok) ==
    IF sub = Nil THEN AddNodeCreate(name, ip, ok)
    ELSE IF sub.host = name /\ ~sub.assign
         THEN [reg |-> reg, ev |-> <<>>, alloc |-> alloc, ok |-> TRUE]
    ELSE AddNodeRenew(name, ip, sub, ok)

ApplyAddNode(r) ==
    /\ reg' = r.reg
    /\ wq' = wq \o r.ev
    /\ alloc' = r.alloc

-----------------------------------------------------------------------------
(* watchNodes                                                              *)

\* Mutant: any remembered address of the UID counts as current.
MemoMatchesAnyIP(n, ip) == memo[n] # Nil /\ memo[n].uid = uid[n]

MemoMatches(n, ip) == memo[n] = [uid |-> uid[n], ip |-> ip]

\* RevokeSubnet: an etcd Delete, which fails when the key is absent; the
\* watch sees a delete event carrying only the key.
RevokeSubnet(ip) ==
    \E ok \in Outcomes :
        IF ok /\ reg[ip] # Nil
        THEN /\ reg' = [reg EXCEPT ![ip] = Nil]
             /\ wq' = Append(wq, Removed(KeyOnly))
        ELSE UNCHANGED <<reg, wq>>

\* Mutant: deleteNode deletes a key that does not exist (the node's name
\* instead of its address), so nothing is deleted.
deleteNodeWrongKey(ip) == UNCHANGED <<reg, wq>>

deleteNode(ip) == RevokeSubnet(ip)

\* Pop a Node's newest delta. Sync/Added/Updated with a new address runs
\* addNode's GetSubnet; Deleted forgets the address and deletes the
\* HostSubnet of its last address (RevokeSubnet).
NodePop ==
    /\ nw.pc = "idle"
    /\ nodeQueue # <<>>
    /\ nodeQueue' = Tail(nodeQueue)
    /\ LET n == Head(nodeQueue).node IN
       IF Head(nodeQueue).kind = "sync"
       THEN /\ IF MemoMatches(n, knodes[n])
               THEN UNCHANGED nw
               ELSE nw' = [pc |-> "write", node |-> n, ip |-> knodes[n],
                           sub |-> reg[knodes[n]], uid |-> uid[n]]
            /\ UNCHANGED <<memo, reg, wq>>
       ELSE LET ip == Head(nodeQueue).ip
            IN  /\ memo' = [memo EXCEPT ![n] = Nil]
                /\ deleteNode(ip)
                /\ UNCHANGED nw
    /\ UNCHANGED <<knodes, wcache, inflight, handling, sh, alloc, uid, budget>>

\* The rest of addNode; on success the address is remembered for the UID.
NodeAddWrite ==
    /\ nw.pc = "write"
    /\ \E ok \in Outcomes :
         LET r == addNode(nw.node, nw.ip, nw.sub, ok)
         IN  /\ ApplyAddNode(r)
             /\ memo' = IF r.ok /\ nw.uid = uid[nw.node]
                        THEN [memo EXCEPT ![nw.node] = [uid |-> nw.uid, ip |-> nw.ip]]
                        ELSE memo
    /\ nw' = IdleWorker
    /\ UNCHANGED <<knodes, nodeQueue, wcache, inflight, handling, sh, uid, budget>>


-----------------------------------------------------------------------------
(* The subnet watch (watch.go, SubnetWatcher) and the receiver channel.    *)

\* The subnets directory as the abstract registry (SubnetRegistry) sees
\* it: the same records, keys and watch events.
Registry == INSTANCE SubnetRegistry WITH Records <- HostSubnet

\* One watch response with an event; the batch waits on the channel.
WatcherFetch ==
    /\ inflight = <<>>
    /\ wq # <<>>
    /\ LET r == CacheUpdate(wcache, Head(wq))
       IN  /\ wcache' = r.cache
           /\ inflight' = <<r.ev>>
    /\ wq' = Tail(wq)
    /\ UNCHANGED <<knodes, nodeQueue, memo, nw, reg, handling, sh, alloc, uid, budget>>

\* The cursor fell out of etcd's history (EventIndexCleared): a listing
\* replaces the pending events and is diffed against the cache.
\* Writes elsewhere in etcd also move its history window, so the cursor
\* may be cleared while no event of this directory is pending.
WatcherReset ==
    /\ inflight = <<>>
    /\ budget.reset < MaxResets
    /\ \E snap \in Registry!Snapshots :
         /\ wcache' = snap
         /\ inflight' = ResetBatch(snap, wcache)
    /\ wq' = <<>>
    /\ budget' = [budget EXCEPT !.reset = @ + 1]
    /\ UNCHANGED <<knodes, nodeQueue, memo, nw, reg, handling, sh, alloc, uid>>

\* RunSubnetWatch hands a received batch to masterHandleSubnetEvent.
HandlerReceive ==
    /\ sh.pc = "idle"
    /\ handling = <<>>
    /\ inflight # <<>>
    /\ handling' = inflight
    /\ inflight' = <<>>
    /\ UNCHANGED <<knodes, nodeQueue, memo, nw, reg, wq, wcache, sh, alloc, uid, budget>>

-----------------------------------------------------------------------------
(* masterHandleSubnetEvent                                                 *)

\* One event of the batch. Added with Assign: RevokeSubnet of its HostIP,
\* then addNode(Host, HostIP, false). Removed without Assign: release its
\* subnet if it parses.
HandleSubnetEvent ==
    /\ sh.pc = "idle"
    /\ handling # <<>>
    /\ LET e == Head(handling)
       IN  \/ /\ e.type = "added" /\ e.sub.assign
              /\ \E ok \in Outcomes :
                   IF ok /\ reg[e.sub.ip] # Nil
                   THEN /\ reg' = [reg EXCEPT ![e.sub.ip] = Nil]
                        /\ wq' = Append(wq, Removed(KeyOnly))
                        /\ sh' = [IdleWorker EXCEPT !.pc = "get",
                                     !.node = e.sub.host, !.ip = e.sub.ip]
                   ELSE UNCHANGED <<reg, wq, sh>>
              /\ UNCHANGED alloc
           \/ /\ e.type = "removed" /\ ~e.sub.assign
              /\ alloc' = IF e.sub.subnet = Nil THEN alloc
                          ELSE ReleaseNetwork(alloc, e.sub.subnet)
              /\ UNCHANGED <<reg, wq, sh>>
           \/ /\ e.type = "added" /\ ~e.sub.assign
              /\ UNCHANGED <<reg, wq, sh, alloc>>
    /\ handling' = Tail(handling)
    /\ UNCHANGED <<knodes, nodeQueue, memo, nw, wcache, inflight, uid, budget>>

\* addNode's GetSubnet.
HandlerGet ==
    /\ sh.pc = "get"
    /\ sh' = [sh EXCEPT !.pc = "write", !.sub = reg[sh.ip]]
    /\ UNCHANGED <<knodes, nodeQueue, memo, nw, reg, wq, wcache, inflight,
                   handling, alloc, uid, budget>>

\* The rest of addNode.
HandlerAddWrite ==
    /\ sh.pc = "write"
    /\ \E ok \in Outcomes : ApplyAddNode(addNode(sh.node, sh.ip, sh.sub, ok))
    /\ sh' = IdleWorker
    /\ UNCHANGED <<knodes, nodeQueue, memo, nw, wcache, inflight, handling, uid, budget>>

-----------------------------------------------------------------------------
(* Master restart: SubnetStartMaster rebuilds the allocator from etcd; the *)
(* new watchNodes lists the live Nodes with an empty address map; the new  *)
(* subnet watcher starts without a cursor, a reset against an empty cache. *)

SubnetStartMaster ==
    /\ alloc' = NewSubnetAllocator({reg[ip].subnet : ip \in {k \in IPs : reg[k] # Nil}} \ {Nil})
    /\ nodeQueue' \in SyncDeltas({n \in Nodes : knodes[n] # Nil})
    /\ memo' = [n \in Nodes |-> Nil]
    /\ \E snap \in Registry!Snapshots :
         /\ wcache' = snap
         /\ inflight' = ResetBatch(snap, <<>>)

MasterRestart ==
    /\ budget.restart < MaxRestarts
    /\ SubnetStartMaster
    /\ nw' = IdleWorker
    /\ sh' = IdleWorker
    /\ wq' = <<>>
    /\ handling' = <<>>
    /\ budget' = [budget EXCEPT !.restart = @ + 1]
    /\ UNCHANGED <<knodes, reg, uid>>

-----------------------------------------------------------------------------
Next ==
    \/ \E n \in Nodes, ip \in IPs : NodeAdded(n, ip) \/ NodeAddressChanged(n, ip)
    \/ \E n \in Nodes : NodeDeleted(n)
    \/ NodePop
    \/ \E n \in Nodes, ip \in IPs : Preassign(n, ip)
    \/ Relist
    \/ NodeAddWrite
    \/ WatcherFetch
    \/ WatcherReset
    \/ HandlerReceive
    \/ HandleSubnetEvent
    \/ HandlerGet
    \/ HandlerAddWrite
    \/ MasterRestart

\* The queue, the watcher, the receiver and the handler are goroutines run
\* by utilwait.Forever; the reflector relists every 30 minutes.
Fairness ==
    /\ WF_vars(NodePop)
    /\ WF_vars(NodeAddWrite)
    /\ WF_vars(WatcherFetch)
    /\ WF_vars(HandlerReceive)
    /\ WF_vars(HandleSubnetEvent)
    /\ WF_vars(HandlerGet)
    /\ WF_vars(HandlerAddWrite)
    /\ WF_vars(Relist)

Spec == Init /\ [][Next]_vars /\ Fairness

-----------------------------------------------------------------------------
(* Properties                                                              *)

TypeOK ==
    /\ knodes \in [Nodes -> IPs \cup {Nil}]
    /\ nodeQueue \in Seq([node: Nodes, kind: {"sync", "deleted"}, ip: IPs \cup {Nil}])
    /\ memo \in [Nodes -> [uid: Nat, ip: IPs] \cup {Nil}]
    /\ nw \in Worker /\ sh \in Worker
    /\ reg \in [IPs -> HostSubnet \cup {Nil}]
    /\ wq \in Seq(Event) /\ inflight \in Seq(Event) /\ handling \in Seq(Event)
    /\ wcache \in Seq(HostSubnet)
    /\ alloc \in [inuse: SUBSET Subnets, next: Subnets]

\* HostSubnets the master allocated: no Assign flag and a subnet.
MasterOwned == {ip \in IPs : reg[ip] # Nil /\ ~reg[ip].assign /\ reg[ip].subnet # Nil}

\* No two HostSubnets the master allocated share a subnet (spec 8.1): the
\* allocator never hands out a subnet a HostSubnet still holds.
SubnetsDisjoint ==
    \A a, b \in MasterOwned : a # b => reg[a].subnet # reg[b].subnet

\* Every subnet the master allocated and etcd still holds is marked in use
\* in the allocator, so GetNetwork cannot hand it out again.
AllocatorCoversRegistry ==
    \A ip \in MasterOwned : reg[ip].subnet \in alloc.inuse

\* Once the Nodes stop changing, each live Node has a HostSubnet with a
\* subnet at its address, naming it: watchNodes' addNode and the handling
\* of pre-assigned HostSubnets converge.
NodesGetSubnets ==
    \A n \in Nodes :
        <>[](knodes[n] # Nil => /\ reg[knodes[n]] # Nil
                                /\ reg[knodes[n]].host = n
                                /\ reg[knodes[n]].subnet # Nil)

\* Once the Nodes stop changing, every HostSubnet belongs to the live Node
\* at its address: deleteNode removes what a Node no longer uses.
NoStaleSubnets ==
    \A ip \in IPs :
        <>[](reg[ip] # Nil => reg[ip].host \in NodeOwning(ip))

\* Once the Nodes stop changing, the allocator holds exactly the subnets of
\* the HostSubnets in etcd: deleting a Node gives its subnet back.
SubnetsReleased ==
    <>[](alloc.inuse = {reg[ip].subnet : ip \in MasterOwned})

=============================================================================
