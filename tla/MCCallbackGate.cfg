CONSTANTS
    Calls = {c1, c2, c3}
    Waiters = {w1, w2}
    Free = Free
SPECIFICATION FairSpec
INVARIANTS
    TypeOK
    DrainedMeansSilent
    CountIsExact
    NoLostWakeup
PROPERTIES
    ImplementsAdmissionGate
    ClosedGateDrains
\* Every waiter may have drained a closed gate: nothing is left to do.
CHECK_DEADLOCK FALSE
