\* Liveness when a Node changes its address: it still gets a subnet at
\* the new address.
CONSTANTS
    nA = nA
    nB = nB
    i1 = i1
    i2 = i2
    i3 = i3
    Nil = Nil
    Nodes <- MCNodes
    IPs <- MCIPs3
    NodeAddrs <- MovingAddrs
    NumSubnets = 5
    MaxNodeEvents = 5
    MaxPreassign = 0
    MaxRestarts = 0
    MaxResets = 2
    WriteFailures = FALSE
SPECIFICATION Spec
PROPERTY NodesGetSubnets
