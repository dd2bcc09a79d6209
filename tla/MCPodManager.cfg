\* The pod manager with two pods and two addresses, setup failing before or
\* after ipamAdd, teardown failures retried, a sandbox that dies, one
\* restart that may re-create br0, and a pod status that lags its ADD.
CONSTANTS
    p1 = p1
    p2 = p2
    p3 = p3
    a1 = a1
    a2 = a2
    Nil = Nil
    Pods <- MCPods2
    PodIPs <- MCPodIPs
    AddFailAt = {"ipam", "veth"}
    RollbackFails = FALSE
    TeardownFails = TRUE
    UpdateFails = FALSE
    StatusLag = TRUE
    MaxFailures = 2
    MaxRestarts = 1
    MaxNetnsLoss = 1
    MaxRecreates = 1
SPECIFICATION Spec
INVARIANT UniqueAddresses
PROPERTY LeasesReleased
\* Every pod may end gone or stuck in a teardown kubelet retries forever;
\* a node whose pods are all torn down has nothing to do.
CHECK_DEADLOCK FALSE
