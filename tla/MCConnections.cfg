SPECIFICATION AllSpec
CONSTANTS
    a = a
    b = b
    c = c
    p = p
    q = q
    r = r
    NoRecord = NoRecord
    NoSave = NoSave
    Sessions = {a, b, c}
    Connections = {p}
    Owner <- OwnerOf
    Persistent = {b}
    MaxActive = 1
    MaxRetained = 2
    Host = Host
INVARIANTS
    NothingHeldAfterCleanup
    RecordsFollowTasks
PROPERTIES
    FailedStartIsUndone
    WorkflowEnds
CHECK_DEADLOCK FALSE
