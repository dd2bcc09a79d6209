\* Liveness of the master's subnet handling: Nodes with fixed addresses,
\* two watch resets, no restart, two subnets: the subnets stay disjoint and
\* deleted Nodes leave no HostSubnet behind.
CONSTANTS
    nA = nA
    nB = nB
    i1 = i1
    i2 = i2
    i3 = i3
    Nil = Nil
    Nodes <- MCNodes
    IPs <- MCIPs
    NodeAddrs <- FixedAddrs
    NumSubnets = 2
    MaxNodeEvents = 5
    MaxPreassign = 0
    MaxRestarts = 0
    MaxResets = 2
    WriteFailures = FALSE
SPECIFICATION Spec
INVARIANT SubnetsDisjoint
PROPERTY NoStaleSubnets
