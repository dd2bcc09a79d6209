\* No injected failure and no lost sandbox: two pods share one address, the
\* node restarts once and may re-create br0. The UpdatePod pass after the
\* restart can race a DEL of a pod being deleted.
CONSTANTS
    p1 = p1
    p2 = p2
    p3 = p3
    a1 = a1
    a2 = a2
    Nil = Nil
    Pods <- MCPods2
    PodIPs <- MCPodIPs1
    AddFailAt = {}
    RollbackFails = FALSE
    TeardownFails = FALSE
    UpdateFails = FALSE
    StatusLag = FALSE
    MaxFailures = 0
    MaxRestarts = 1
    MaxNetnsLoss = 0
    MaxRecreates = 0
SPECIFICATION Spec
PROPERTY PodsHaveFlows
CHECK_DEADLOCK FALSE
