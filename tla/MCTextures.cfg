CONSTANTS
    Loaders = {l1, l2}
    Addons = {o}
    Host = Host
    Workers = {w1, w2}
    Identifiers <- Icon
    WorkCapacity = 1
    CompletionCapacity = 1
    CallbackLimit = 2
    MaxRequests = 2
    MaxCallbacks = 2
CHECK_DEADLOCK FALSE
SPECIFICATION FairSpec
INVARIANTS
    TypeOK
    CalledOnce
    CleanedUpIsGone
PROPERTIES
    CallbacksAreAnswered
