\* etcd writes that fail: updateVNID has changed memory before RenewNetNamespace.
CONSTANTS
    n1 = n1
    n2 = n2
    adm = adm
    Namespaces <- MCNamespaces
    AdminNamespaces <- MCAdminNamespaces
    MinVNID = 1
    MaxVNID = 2
    Nil = Nil
    None = None
    MaxNsEvents = 3
    MaxActionWrites = 2
    MaxRestarts = 0
    MaxResets = 0
    WriteFailures = TRUE
    SelfJoin = FALSE
    AdminActions = FALSE
SPECIFICATION Spec
INVARIANT NetIDRefCount
