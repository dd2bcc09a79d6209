-------------------------- MODULE MCMasterFailover --------------------------
(* Instantiation of MasterFailover for TLC: two Nodes with fixed addresses. *)
EXTENDS MasterFailover, TLC

CONSTANTS nA, nB, i1, i2

MCNodes == {nA, nB}
MCIPs == {i1, i2}

\* Each Node keeps its own address.
FixedAddrs == [n \in MCNodes |-> IF n = nA THEN {i1} ELSE {i2}]
=============================================================================
