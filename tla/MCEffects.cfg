SPECIFICATION AllSpec
CONSTANTS
    t1 = t1
    t2 = t2
    a1 = a1
    a = a
    b = b
    p = p
    q = q
    Threads = {t1, t2}
    Main = t1
    Addresses = {a1}
    Elsewhere = Elsewhere
    Breaker = Breaker
    MaxTracked = 2
    MaxBreakpoints = 1
    MaxBreaks = 1
    MaxFaults = 1
    Writers = {a, b}
    Names = {p, q}
    MaxOutside = 1
    MaxCrashes = 1
    Connections = {a, b}
    MaxConnections = 2
    MaxRegistered = 2
    MaxDiagnostics = 3
    Kinds <- SomeKinds
    MaxItems = 1
INVARIANTS
    EngineIsTrue
    OutcomesAreTrue
    OnlyInPlaceTears
    NothingIsLeaked
PROPERTIES
    NoUpdateIsLost
CHECK_DEADLOCK FALSE
