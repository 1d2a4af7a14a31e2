CONSTANTS
    Objects <- Pointers
    Highest <- DerivedIsHighest
    Threads = {t1, t2}
    Methods <- QueryAndPresent1
    MaxTables = 2
    MaxForeign = 1
SYMMETRY ThreadSymmetry
SPECIFICATION Spec
INVARIANTS
    TypeOK
    CallsReachNative
    DrainedRunsNoHandler
    RefsMatchShadows
