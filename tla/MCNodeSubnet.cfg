\* Liveness of a node's remote-subnet flows: two other nodes that keep
\* their addresses and subnets and may be deleted and re-created, two watch
\* resets and a restart of the node process.
\* The node really stops: with the directory unchanged, its watch blocks.
CONSTANTS
    hSelf = hSelf
    hA = hA
    hB = hB
    i0 = i0
    i1 = i1
    i2 = i2
    Nil = Nil
    Hosts <- MCHosts
    IPs <- MCIPs
    LocalIP = i0
    HostAddrs <- OwnAddrs
    HostNets <- OwnNets
    NumSubnets = 3
    MaxWrites = 6
    MaxResets = 2
    MaxRestarts = 1
    OvsFailures = FALSE
SPECIFICATION Spec
INVARIANT TypeOK
PROPERTY RoutesConverge
CHECK_DEADLOCK FALSE
