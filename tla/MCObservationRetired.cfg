SPECIFICATION Spec
CONSTANTS
    a = a
    c = c
    Watches = {a}
    Waits = {}
    Conns = {c}
    Owner <- OwnerOf
    Persistent = {}
    Target <- TargetOf
    AnyWatch = AnyWatch
    MaxRecords = 1
    MaxActive = 1
    MaxRetained = 1
    MaxEvents = 4
    MaxIds = 0
    MaxCalls = 1
    MaxLives = 1
    NoRecord = NoRecord
    NoSave = NoSave
INVARIANT RetainedIsRemovable
CHECK_DEADLOCK FALSE
