CONSTANTS
    Signatures = {1}
    FlagSets <- NoFlag
    MaxGeneration = 2
    Calls = {c1}
    None = None
    Paths = {p1}
    StaleTokens = FALSE
SPECIFICATION Spec
INVARIANTS
    DrainingIsHeld
