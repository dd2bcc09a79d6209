---------------------------- MODULE MCPodManager ----------------------------
(* Model values for PodManager: the pods of one node and the addresses     *)
(* host-local may hand out.                                                *)
EXTENDS PodManager, TLC

CONSTANTS p1, p2, p3, a1, a2

MCPods == {p1, p2, p3}
MCPodIPs == {a1, a2}

\* Two pods, enough for one to take the address the other released.
MCPods2 == {p1, p2}
MCPods1 == {p1}

\* One address: host-local runs out as soon as one pod holds it.
MCPodIPs1 == {a1}

=============================================================================
