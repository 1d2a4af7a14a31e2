CONSTANTS
    Threads = {t1, t2}
    Subs <- PairSubs
    EventOf <- SameEvent
    OwnerOf <- Generations
    CallbackOf <- SameCallback
    MaxDepth = 3
    Nobody = Nobody
SPECIFICATION Spec
SYMMETRY Symmetry
INVARIANTS
    TypeOK
    QuiescentReportIsSilent
    UnsubscriberIsAlone
    CountersMatchFrames
    CleanedOwnerHasNoSubscription
    NothingLeftToReap
\* Two callbacks may wait for each other for ever: CallsReturn says that
\* nothing else stops the bus.
CHECK_DEADLOCK FALSE
