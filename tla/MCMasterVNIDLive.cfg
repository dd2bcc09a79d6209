\* Liveness of the VNID lifecycle: no restart, no watch reset, no failed write.
CONSTANTS
    n1 = n1
    n2 = n2
    adm = adm
    Namespaces <- MCNamespaces
    AdminNamespaces <- MCAdminNamespaces
    MinVNID = 1
    MaxVNID = 2
    Nil = Nil
    None = None
    MaxNsEvents = 3
    MaxActionWrites = 1
    MaxRestarts = 0
    MaxResets = 0
    WriteFailures = FALSE
    SelfJoin = FALSE
    AdminActions = FALSE
SPECIFICATION Spec
PROPERTY NamespacesConverge
PROPERTY ActionEventuallyCleared
