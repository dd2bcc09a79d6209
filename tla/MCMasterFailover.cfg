\* The leadership moves once, with the old master still running: two Nodes
\* with fixed addresses, two subnets, no failures, no resets.
CONSTANTS
    nA = nA
    nB = nB
    i1 = i1
    i2 = i2
    Nil = Nil
    Nodes <- MCNodes
    IPs <- MCIPs
    NodeAddrs <- FixedAddrs
    NumSubnets = 2
    MaxNodeEvents = 2
    MaxPreassign = 0
    MaxRestarts = 1
    MaxResets = 0
    WriteFailures = FALSE
SPECIFICATION Spec
INVARIANT SubnetsDisjoint
CHECK_DEADLOCK FALSE
