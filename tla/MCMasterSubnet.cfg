\* Safety of the master's subnet allocation: Nodes with fixed addresses,
\* one restart and one watch reset.
CONSTANTS
    nA = nA
    nB = nB
    i1 = i1
    i2 = i2
    i3 = i3
    Nil = Nil
    Nodes <- MCNodes
    IPs <- MCIPs
    NodeAddrs <- FixedAddrs
    NumSubnets = 3
    MaxNodeEvents = 3
    MaxPreassign = 1
    MaxRestarts = 1
    MaxResets = 1
    WriteFailures = TRUE
SPECIFICATION Spec
INVARIANT TypeOK
INVARIANT AllocatorCoversRegistry
