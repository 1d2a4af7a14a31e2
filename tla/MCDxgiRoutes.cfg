CONSTANTS
    Objects <- Pointers
    Highest <- DerivedIsHighest
    Threads = {t1, t2}
    Methods <- OnlyPresent
    MaxTables = 2
    MaxForeign = 0
SYMMETRY ThreadSymmetry
SPECIFICATION Spec
INVARIANTS
    RouteAbsentOnlyAfterRestoration
