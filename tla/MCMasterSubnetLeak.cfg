\* A deleted Node's subnet is never given back to the allocator.
CONSTANTS
    nA = nA
    nB = nB
    i1 = i1
    i2 = i2
    i3 = i3
    Nil = Nil
    Nodes <- MCNodes
    IPs <- MCIPs
    NodeAddrs <- FixedAddrs
    NumSubnets = 3
    MaxNodeEvents = 4
    MaxPreassign = 0
    MaxRestarts = 0
    MaxResets = 0
    WriteFailures = FALSE
SPECIFICATION Spec
PROPERTY SubnetsReleased
