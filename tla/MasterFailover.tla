--------------------------- MODULE MasterFailover ---------------------------
(***************************************************************************)
(* Leader election and the start of the master (src/main.go) composed with *)
(* two masters' subnet handling (MasterSubnet).                            *)
(*                                                                         *)
(* Every k8s-ovs process runs the election. The election's callback only  *)
(* records the leader's name; a goroutine polls it every 10 s and, once    *)
(* the process is the leader, calls StartMaster and stops polling. Nothing *)
(* stops a master whose process later loses the leadership, so after a     *)
(* change of leader the old master (Old) and the new one (New) both run:   *)
(* each with its own Node event queue, watcher, goroutines and subnet      *)
(* allocator, over the same Kubernetes Nodes and the same etcd directory.  *)
(* Every etcd write produces one event, seen by both masters' watches.     *)
(***************************************************************************)
EXTENDS Naturals, Sequences

CONSTANTS Nodes, IPs, NodeAddrs, NumSubnets, Nil,
          MaxNodeEvents, MaxPreassign, MaxRestarts, MaxResets, WriteFailures

\* State shared by both masters: Kubernetes, etcd and the bounds.
VARIABLES knodes, reg, uid, budget

\* Each master's own state (see MasterSubnet).
VARIABLES nodeQueue1, memo1, nw1, wq1, wcache1, inflight1, handling1, sh1, alloc1,
          nodeQueue2, memo2, nw2, wq2, wcache2, inflight2, handling2, sh2, alloc2

\* The leader election: has the new leader's poll started its master?
VARIABLE started2

own1 == <<nodeQueue1, memo1, nw1, wq1, wcache1, inflight1, handling1, sh1, alloc1>>
own2 == <<nodeQueue2, memo2, nw2, wq2, wcache2, inflight2, handling2, sh2, alloc2>>
vars == <<knodes, reg, uid, budget, own1, own2, started2>>

Old == INSTANCE MasterSubnet
         WITH nodeQueue <- nodeQueue1, memo <- memo1, nw <- nw1, wq <- wq1,
              wcache <- wcache1, inflight <- inflight1, handling <- handling1,
              sh <- sh1, alloc <- alloc1

New == INSTANCE MasterSubnet
         WITH nodeQueue <- nodeQueue2, memo <- memo2, nw <- nw2, wq <- wq2,
              wcache <- wcache2, inflight <- inflight2, handling <- handling2,
              sh <- sh2, alloc <- alloc2

\* The events a step of one master appended to its own watch stream
\* (its etcd writes), which the other master's watch sees as well.
Appended(q) == SubSeq(q', Len(q) + 1, Len(q'))

Init ==
    /\ Old!Init
    /\ New!Init
    /\ started2 = FALSE

\* A step of one master's goroutines. The events of its etcd writes reach
\* the other master's watch too (the new master's only once it has started:
\* it lists the directory when it starts). A step that writes nothing
\* appends nothing.
OldStep(A) ==
    /\ A
    /\ IF started2 THEN wq2' = wq2 \o Appended(wq1) ELSE UNCHANGED wq2
    /\ UNCHANGED <<nodeQueue2, memo2, nw2, wcache2, inflight2, handling2, sh2,
                   alloc2, started2>>

NewStep(A) ==
    /\ started2
    /\ A
    /\ wq1' = wq1 \o Appended(wq2)
    /\ UNCHANGED <<nodeQueue1, memo1, nw1, wcache1, inflight1, handling1, sh1,
                   alloc1, started2>>

\* A Kubernetes change reaches the informer of every running master.
NodeEvent(OldA, NewA) ==
    /\ OldA
    /\ IF started2 THEN NewA ELSE UNCHANGED own2
    /\ UNCHANGED started2

\* The poll of the new leader sees its own name and calls StartMaster:
\* SubnetStartMaster lists etcd and the Nodes, as a restarted master does.
TakeOver ==
    /\ ~started2
    /\ New!MasterRestart
    /\ started2' = TRUE
    /\ UNCHANGED own1

Next ==
    \/ \E n \in Nodes, ip \in IPs :
         \/ NodeEvent(Old!NodeAdded(n, ip), New!NodeAdded(n, ip))
         \/ NodeEvent(Old!NodeAddressChanged(n, ip), New!NodeAddressChanged(n, ip))
    \/ \E n \in Nodes : NodeEvent(Old!NodeDeleted(n), New!NodeDeleted(n))
    \/ TakeOver
    \/ OldStep(Old!NodePop) \/ OldStep(Old!NodeAddWrite) \/ OldStep(Old!Relist)
    \/ OldStep(Old!WatcherFetch) \/ OldStep(Old!WatcherReset)
    \/ OldStep(Old!HandlerReceive) \/ OldStep(Old!HandleSubnetEvent)
    \/ OldStep(Old!HandlerGet) \/ OldStep(Old!HandlerAddWrite)
    \/ NewStep(New!NodePop) \/ NewStep(New!NodeAddWrite) \/ NewStep(New!Relist)
    \/ NewStep(New!WatcherFetch) \/ NewStep(New!WatcherReset)
    \/ NewStep(New!HandlerReceive) \/ NewStep(New!HandleSubnetEvent)
    \/ NewStep(New!HandlerGet) \/ NewStep(New!HandlerAddWrite)

Spec == Init /\ [][Next]_vars

-----------------------------------------------------------------------------
(* Properties                                                              *)

\* No two HostSubnets either master allocated share a subnet (spec 8.1),
\* while the old master keeps running after the leadership moved: each
\* master's allocator must cover the subnets the other one hands out.
SubnetsDisjoint == Old!SubnetsDisjoint

=============================================================================
