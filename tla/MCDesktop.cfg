SPECIFICATION AllSpec
CONSTANTS
    w1 = w1
    u1 = u1
    c1 = c1
    Watches = {w1}
    Waits = {u1}
    Conns = {c1}
    Owner <- OwnerOf
    Persistent = {}
    Target <- TargetOf
    AnyWatch = AnyWatch
    MaxRecords = 2
    MaxActive = 2
    MaxRetained = 1
    MaxEvents = 4
    MaxIds = 2
    MaxCalls = 2
    MaxLives = 1
    NoRecord = NoRecord
    NoSave = NoSave
    Captures = {w1, u1}
    MaxCaptures = 2
    MaxPulses = 2
    MaxRefits = 1
INVARIANTS
    WaitVerdictIsTrue
    SweptIsStopped
    GlowIsTrue
PROPERTIES
    TerminalStays
CHECK_DEADLOCK FALSE
