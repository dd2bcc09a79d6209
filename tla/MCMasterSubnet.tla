--------------------------- MODULE MCMasterSubnet ---------------------------
(* Instantiation of MasterSubnet for TLC: two Nodes, two addresses.        *)
EXTENDS MasterSubnet, TLC

CONSTANTS nA, nB, i1, i2, i3

MCNodes == {nA, nB}
MCIPs == {i1, i2}

\* A third address, for a Node that moves.
MCIPs3 == {i1, i2, i3}

\* Each Node keeps its own address.
FixedAddrs == [n \in MCNodes |-> IF n = nA THEN {i1} ELSE {i2}]

\* nB may take nA's first address after nA is deleted; nA may move on.
SharedAddrs == [n \in MCNodes |-> IF n = nA THEN {i1, i2} ELSE {i1}]

\* nA may move between two addresses of its own.
MovingAddrs == [n \in MCNodes |-> IF n = nA THEN {i1, i3} ELSE {i2}]
=============================================================================
