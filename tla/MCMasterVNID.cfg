\* Safety of the VNID lifecycle across a master restart and a watch reset.
CONSTANTS
    n1 = n1
    n2 = n2
    adm = adm
    Namespaces <- MCNamespaces
    AdminNamespaces <- MCAdminNamespaces
    MinVNID = 1
    MaxVNID = 2
    Nil = Nil
    None = None
    MaxNsEvents = 3
    MaxActionWrites = 1
    MaxRestarts = 1
    MaxResets = 1
    WriteFailures = FALSE
    SelfJoin = FALSE
    AdminActions = FALSE
SYMMETRY TenantSymmetry
SPECIFICATION Spec
INVARIANT TypeOK
INVARIANT RegistryMatchesMaster
INVARIANT NetIDRefCount
