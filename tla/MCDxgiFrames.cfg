CONSTANTS
    Chains = {c1, c2}
    Threads = {t1, t2}
    Nobody = Nobody
    Intents = {TRUE}
    Surfaces = {1, 2}
    Colors = {1}
    Unknown = 0
    MaxSequence = 2
    MaxEvents = 3
    FailuresBeforeCooldown = 1
    CooldownSequences = 1
    CooldownsBeforeDisable = 2
SYMMETRY ThreadAndChainSymmetry
SPECIFICATION Spec
INVARIANTS
    TypeOK
    RetirementsAreDelivered
    CaptureHasALiveSession
    DeactivatedHoldsNoSession
    FailuresBelongToGeneration
    LeasesMatchStates
CHECK_DEADLOCK FALSE
