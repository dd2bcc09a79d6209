\* A stale Join: an Action applied from a watch event after its namespace was re-created.
CONSTANTS
    n1 = n1
    n2 = n2
    adm = adm
    Namespaces <- MCNamespaces
    AdminNamespaces <- MCAdminNamespaces
    MinVNID = 1
    MaxVNID = 2
    Nil = Nil
    None = None
    MaxNsEvents = 3
    MaxActionWrites = 1
    MaxRestarts = 0
    MaxResets = 0
    WriteFailures = FALSE
    SelfJoin = FALSE
    AdminActions = FALSE
SPECIFICATION Spec
PROPERTY NetIDChangesOnlyByAction
