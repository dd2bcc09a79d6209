----------------------------- MODULE NodeSubnet -----------------------------
(***************************************************************************)
(* A node's half of the HostSubnet protocol (src/ksdn/subnets.go,          *)
(* src/ksdn/controller.go, src/ksdn/node.go): the node waits for its own   *)
(* HostSubnet (getLocalSubnet), sets up its bridge unless it is already    *)
(* set up (SetupSDN), then runs a subnet watcher whose batches             *)
(* nodeHandleSubnetEvent turns into OVS flows for every other node:        *)
(*   table 1: accept VXLAN traffic from tun_src=<HostIP>;                  *)
(*   table 8: send nw_dst=<Subnet> (arp and ip) to tun_dst=<HostIP>.       *)
(* The registry is the abstract SubnetRegistry, which the master is        *)
(* checked to implement: any sequence of writes that keeps subnets         *)
(* disjoint, each with its watch event. The node process may restart; OVS  *)
(* keeps its flows across a restart.                                       *)
(***************************************************************************)
EXTENDS Naturals, Sequences, FiniteSets, SequencesExt, SubnetWatcher

CONSTANTS
    Hosts,        \* node names (model values)
    IPs,          \* node IPs (model values), the keys of the subnets directory
    LocalIP,      \* the address of the node this model runs on
    NumSubnets,   \* subnets of the cluster network, numbered 0..NumSubnets-1
    Nil,          \* absent key / absent value / field of a key-only record
    HostAddrs,    \* HostAddrs[h]: the addresses a HostSubnet of h may have
    HostNets,     \* HostNets[h]: the subnets a HostSubnet of h may be given
    MaxWrites,    \* bound: writes and deletes of the subnets directory
    MaxResets,    \* bound: the node's watch falls out of etcd's history
    MaxRestarts,  \* bound: restarts of the node process
    OvsFailures   \* may an OVS transaction fail?

Subnets == 0..(NumSubnets - 1)

ASSUME LocalIP \in IPs
ASSUME HostAddrs \in [Hosts -> SUBSET IPs] /\ HostNets \in [Hosts -> SUBSET Subnets]
ASSUME OvsFailures \in BOOLEAN

\* etcdmanager.HostSubnet as the master writes it.
HostSubnet == [host: Hosts, ip: IPs, subnet: Subnets, assign: {FALSE}]

\* Tables 1 and 8 of br0: the tunnel sources accepted and the node each
\* remote subnet is routed to (the arp and ip flows of a subnet are added
\* and deleted together).
Flows == [tun: SUBSET IPs, route: [Subnets -> IPs \cup {Nil}]]

VARIABLES
    reg,          \* etcd <prefix>/<network>/subnets/<ip>
    wq,           \* etcd events after the node's watch cursor
    wcache,       \* the node's subnetWatcher.subnets
    inflight,     \* batch waiting on the unbuffered receiver channel
    ovs,          \* the OVS flows of tables 1 and 8
    phase,        \* "init": in getLocalSubnet; "running": watching subnets
    localSubnet,  \* the subnet br0 and tun0 are set up for, or Nil
    budget

vars == <<reg, wq, wcache, inflight, ovs, phase, localSubnet, budget>>

Reg == INSTANCE SubnetRegistry WITH Records <- HostSubnet

-----------------------------------------------------------------------------
(* OVS flows (controller.go). Each transaction adds or deletes its flows   *)
(* as a whole, or fails and changes nothing. An added flow replaces one    *)
(* with the same match. A delete matches by tun_src and nw_dst, so a       *)
(* record without HostIP and Subnet (a key-only delete event) matches no   *)
(* flow.                                                                   *)

EmptyFlows == [tun |-> {}, route |-> [s \in Subnets |-> Nil]]

\* Mutant: the table 1 flow is left out of the transaction.
AddHostSubnetRulesNoTunnel(f, sub) ==
    [f EXCEPT !.route[sub.subnet] = sub.ip]

AddHostSubnetRules(f, sub) ==
    [tun |-> f.tun \cup {sub.ip}, route |-> [f.route EXCEPT ![sub.subnet] = sub.ip]]

DeleteHostSubnetRules(f, sub) ==
    [tun   |-> f.tun \ {sub.ip},
     route |-> [s \in Subnets |-> IF s = sub.subnet THEN Nil ELSE f.route[s]]]

\* EndTransaction: the result of one transaction.
OvsOutcomes == IF OvsFailures THEN BOOLEAN ELSE {TRUE}

-----------------------------------------------------------------------------
(* nodeHandleSubnetEvent: one batch, in order, with the batch-local set    *)
(* `subnets` of HostIPs whose rules this batch added. Events of the local  *)
(* node are skipped; validateNodeIP accepts every address of the model.    *)
(* st is [ovs, seen]; ok is the outcome of the event's transaction.        *)

HandleEvent(st, e, ok) ==
    LET sub == e.sub IN
    IF sub.ip = LocalIP THEN st
    ELSE IF e.type = "removed"
         THEN [ovs  |-> IF ok THEN DeleteHostSubnetRules(st.ovs, sub) ELSE st.ovs,
               seen |-> st.seen \ {sub.ip}]
    ELSE IF sub.ip \in st.seen \/ ~ok THEN st
    ELSE [ovs |-> AddHostSubnetRules(st.ovs, sub), seen |-> st.seen \cup {sub.ip}]

nodeHandleSubnetEvent(f, batch, oks) ==
    LET RECURSIVE Go(_, _)
        Go(st, i) == IF i > Len(batch) THEN st
                     ELSE Go(HandleEvent(st, batch[i], oks[i]), i + 1)
    IN  Go([ovs |-> f, seen |-> {}], 1).ovs

-----------------------------------------------------------------------------
Init ==
    /\ Reg!Init
    /\ wcache = <<>>
    /\ inflight = <<>>
    /\ ovs = EmptyFlows
    /\ phase = "init"
    /\ localSubnet = Nil
    /\ budget = [write |-> 0, reset |-> 0, restart |-> 0]

(* The master, and other writers, change the subnets directory.            *)

RegistryWrite(h, ip, s) ==
    /\ ip \in HostAddrs[h]
    /\ s \in HostNets[h]
    /\ budget.write < MaxWrites
    /\ Reg!Write(ip, [host |-> h, ip |-> ip, subnet |-> s, assign |-> FALSE])
    /\ budget' = [budget EXCEPT !.write = @ + 1]
    /\ UNCHANGED <<wcache, inflight, ovs, phase, localSubnet>>

RegistryDelete(ip) ==
    /\ budget.write < MaxWrites
    /\ Reg!Delete(ip)
    /\ budget' = [budget EXCEPT !.write = @ + 1]
    /\ UNCHANGED <<wcache, inflight, ovs, phase, localSubnet>>

-----------------------------------------------------------------------------
(* StartNode up to the subnet watcher.                                     *)

\* alreadySetUp: the bridge carries the current version flow and tun0 the
\* gateway of the local subnet, i.e. the bridge was set up for this subnet.
alreadySetUp(s) == localSubnet = s

\* getLocalSubnet: GetSubnet(localIP) returns a HostSubnet with a subnet.
\* It polls every 3 s; a missing key or an empty subnet means wait, and
\* after 60 s the process exits and is started again, which is waiting too.
getLocalSubnet == reg[LocalIP] # Nil

\* SetupSDN keeps the bridge if it is already set up for subnet s; else it
\* re-creates br0 with the fixed pipeline, tables 1 and 8 without flows.
SetupSDN(s) ==
    /\ localSubnet' = s
    /\ ovs' = IF alreadySetUp(s) THEN ovs ELSE EmptyFlows

\* SubnetStartNode starts a watcher without a cursor: a listing of the
\* directory diffed against an empty cache.
SubnetStartNode ==
    /\ Reg!Compact
    /\ \E snap \in Reg!Snapshots :
         /\ wcache' = snap
         /\ inflight' = ResetBatch(snap, <<>>)

\* StartNode, once getLocalSubnet has returned.
StartNode ==
    /\ phase = "init"
    /\ getLocalSubnet
    /\ SetupSDN(reg[LocalIP].subnet)
    /\ SubnetStartNode
    /\ phase' = "running"
    /\ UNCHANGED budget

\* The node process exits; OVS keeps br0 and its flows.
NodeRestart ==
    /\ phase = "running"
    /\ budget.restart < MaxRestarts
    /\ phase' = "init"
    /\ wcache' = <<>>
    /\ inflight' = <<>>
    /\ budget' = [budget EXCEPT !.restart = @ + 1]
    /\ UNCHANGED <<reg, wq, ovs, localSubnet>>

-----------------------------------------------------------------------------
(* The node's subnet watch: WatchSubnets and RunSubnetWatch.               *)

\* One watch response with an event; the batch waits on the channel.
WatcherFetch ==
    /\ phase = "running"
    /\ inflight = <<>>
    /\ Reg!Deliver
    /\ LET r == CacheUpdate(wcache, Head(wq))
       IN  /\ wcache' = r.cache
           /\ inflight' = <<r.ev>>
    /\ UNCHANGED <<ovs, phase, localSubnet, budget>>

\* EventIndexCleared: a listing replaces the pending events and is diffed
\* against the cache.
\* Writes elsewhere in etcd also move its history window, so the cursor
\* may be cleared while no event of this directory is pending.
WatcherReset ==
    /\ phase = "running"
    /\ inflight = <<>>
    /\ budget.reset < MaxResets
    /\ Reg!Compact
    /\ \E snap \in Reg!Snapshots :
         /\ wcache' = snap
         /\ inflight' = ResetBatch(snap, wcache)
    /\ budget' = [budget EXCEPT !.reset = @ + 1]
    /\ UNCHANGED <<ovs, phase, localSubnet>>

\* RunSubnetWatch receives the batch and runs nodeHandleSubnetEvent. The
\* handler reads nothing another goroutine writes, so receiving and
\* handling the batch is one step.
HandleBatch ==
    /\ phase = "running"
    /\ inflight # <<>>
    /\ \E oks \in [1..Len(inflight) -> OvsOutcomes] :
         ovs' = nodeHandleSubnetEvent(ovs, inflight, oks)
    /\ inflight' = <<>>
    /\ UNCHANGED <<reg, wq, wcache, phase, localSubnet, budget>>

-----------------------------------------------------------------------------
Next ==
    \/ \E h \in Hosts, ip \in IPs, s \in Subnets : RegistryWrite(h, ip, s)
    \/ \E ip \in IPs : RegistryDelete(ip)
    \/ StartNode
    \/ NodeRestart
    \/ WatcherFetch
    \/ WatcherReset
    \/ HandleBatch

\* getLocalSubnet polls until it succeeds (the process is restarted after a
\* timeout); the watcher and the handler are goroutines that loop forever.
Fairness ==
    /\ WF_vars(StartNode)
    /\ WF_vars(WatcherFetch)
    /\ WF_vars(HandleBatch)

Spec == Init /\ [][Next]_vars /\ Fairness

-----------------------------------------------------------------------------
(* Properties                                                              *)

TypeOK ==
    /\ reg \in [IPs -> HostSubnet \cup {Nil}]
    /\ wq \in Seq([type: {"added", "removed"}, sub: HostSubnet \cup {Reg!KeyOnly}])
    /\ wcache \in Seq(HostSubnet)
    /\ inflight \in Seq([type: {"added", "removed"}, sub: HostSubnet \cup {Reg!KeyOnly}])
    /\ ovs \in Flows
    /\ phase \in {"init", "running"}
    /\ localSubnet \in Subnets \cup {Nil}

\* The other nodes with a HostSubnet.
Peers == Reg!Live \ {LocalIP}

\* Once the subnets directory stops changing, a running node accepts
\* tunnel traffic from every other node with a HostSubnet and routes that
\* node's subnet to it (spec 4.H and scenario S2): nodeHandleSubnetEvent,
\* the watcher's update and its reset after falling behind converge on
\* the registry, across restarts of the node.
RoutesConverge ==
    <>[](phase = "running" =>
            \A ip \in Peers : ip \in ovs.tun /\ ovs.route[reg[ip].subnet] = ip)

\* Once the subnets directory stops changing, tables 1 and 8 hold flows for
\* exactly the other nodes' HostSubnets (spec 3: the flow tables are a
\* function of the peer map): a deleted HostSubnet leaves no flow behind.
FlowsMatchRegistry ==
    <>[](phase = "running" =>
            /\ ovs.tun = {reg[ip].ip : ip \in Peers}
            /\ \A s \in Subnets :
                 ovs.route[s] # Nil => \E ip \in Peers : reg[ip].subnet = s /\ ovs.route[s] = ip)

\* Once the subnets directory stops changing, a running node is set up for
\* the subnet etcd records for its own address (spec 2: LocalSubnet is the
\* node's HostSubnet): the subnet getLocalSubnet returned, which br0, tun0
\* and the IPAM configuration of the pod manager are built from, follows a
\* HostSubnet the master deleted and created again with another subnet,
\* although nodeHandleSubnetEvent skips every event of the local address.
LocalSubnetCurrent ==
    <>[](phase = "running" /\ reg[LocalIP] # Nil => localSubnet = reg[LocalIP].subnet)

=============================================================================
