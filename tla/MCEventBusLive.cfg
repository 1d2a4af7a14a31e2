CONSTANTS
    Threads = {t1, t2}
    Subs <- PairSubs
    EventOf <- SameEvent
    OwnerOf <- Addons
    CallbackOf <- SameCallback
    MaxDepth = 2
    Nobody = Nobody
SPECIFICATION FairSpec
PROPERTIES
    CallsReturn
\* Two callbacks may wait for each other for ever: CallsReturn says that
\* nothing else stops the bus.
CHECK_DEADLOCK FALSE
