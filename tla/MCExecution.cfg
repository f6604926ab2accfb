SPECIFICATION AllSpec
CONSTANTS
    j1 = j1
    p1 = p1
    c1 = c1
    x = x
    y = y
    Starts = {j1, p1}
    Conns = {c1}
    Owner <- OwnerOfAll
    Persistent = {p1}
    Terminals = {p1}
    WithStdin = {j1}
    Timed = {}
    Resident = TRUE
    MaxRecords = 1
    MaxBudget = 2
    Faults = {"save"}
    NoSave = NoSave
    Byte = {x, y}
    Lost = Lost
    Retained = 2
    MaxBytes = 5
    MaxChunk = 3
INVARIANTS
    RanIsAccountedOnDisk
    ReservationsAreExact
    EvictedTreesAreDead
    CleanShutdown
    RecordTellsTruth
PROPERTIES
    DiskNeverGoesBack
    ImplementsStream
CHECK_DEADLOCK FALSE
