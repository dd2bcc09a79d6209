---------------------------- MODULE MCNodeSubnet ----------------------------
(* Instantiation of NodeSubnet for TLC: the local node and two others.     *)
EXTENDS NodeSubnet, TLC

CONSTANTS hSelf, hA, hB, i0, i1, i2

MCHosts == {hSelf, hA, hB}
MCIPs == {i0, i1, i2}

\* Every node keeps its address and its subnet.
OwnAddrs == [h \in MCHosts |-> CASE h = hSelf -> {i0} [] h = hA -> {i1} [] h = hB -> {i2}]
OwnNets  == [h \in MCHosts |-> CASE h = hSelf -> {0} [] h = hA -> {1} [] h = hB -> {2}]
RenumberNets == [h \in MCHosts |-> CASE h = hSelf -> {0} [] h = hA -> {1, 3} [] h = hB -> {2}]

\* The local node's HostSubnet may be created again with another subnet.
MovedOwnNets == [h \in MCHosts |-> CASE h = hSelf -> {0, 3} [] h = hA -> {1} [] h = hB -> {2}]

\* hB may come up at hA's address; subnets stay with their nodes.
SharedAddrs == [h \in MCHosts |-> CASE h = hSelf -> {i0} [] OTHER -> {i1}]
=============================================================================
