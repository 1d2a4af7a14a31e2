CONSTANTS
    Loaders = {l1, l2}
    Addons = {o}
    Host = Host
    Workers = {w1, w2}
    Identifiers <- IconAndAlias
    WorkCapacity = 1
    CompletionCapacity = 1
    CallbackLimit = 1
    MaxRequests = 3
    MaxCallbacks = 0
CHECK_DEADLOCK FALSE
SYMMETRY ThreadSymmetry
SPECIFICATION Spec
INVARIANTS
    CancelledNeverRegistered
    TexturesAreKept
    NamesKeepResolving
