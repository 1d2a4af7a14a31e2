CONSTANTS
    Signatures = {1}
    FlagSets <- NoFlagOrBoth
    MaxGeneration = 2
    Calls = {c1}
    None = None
    Paths = {p1, p2}
    StaleTokens = FALSE
SPECIFICATION Spec
SYMMETRY Symmetry
CONSTRAINT StartupMatters
INVARIANTS
    TypeOK
    
    
    UnloadCalledOnce
    RegistrationsAreMapped
    IndexedOwnersAreMapped
    OneGenerationPerSignature
    HostAgrees
    LaunchOnlyLoadedOnce
PROPERTIES
    GenerationsIncrease
