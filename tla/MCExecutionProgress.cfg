SPECIFICATION AllSpec
CONSTANTS
    t = t
    c = c
    Starts = {t}
    Conns = {c}
    Owner <- OwnerOfAll
    Persistent = {}
    Terminals = {t}
    WithStdin = {}
    Timed = {t}
    Resident = TRUE
    MaxRecords = 1
    MaxBudget = 2
    Faults = {"create", "spawn", "resume", "kill", "read"}
    NoSave = NoSave
    Clients = {c}
    Host = Host
    MaxConnections = 1
    MaxRegistered = 2
    MaxDiagnostics = 3
    Kinds <- AllKinds
    MaxItems = 2
PROPERTIES
    StopEnds
    Progress
CHECK_DEADLOCK FALSE
