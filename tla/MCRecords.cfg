SPECIFICATION AllSpec
CONSTANTS
    p = p
    a = a
    u = u
    c = c
    AnyWatch = AnyWatch
    Flows = {p}
    Conns = {}
    Owner <- NoOwner
    Persistent = {p}
    Plan <- Plans
    MaxWorkflows = 2
    MaxActive = 2
    MaxLives = 2
    NoRecord = NoRecord
    NoSave = NoSave
INVARIANTS
    DispatchIsRecorded
    HonestReport
    ScopeEndsWithWorkflow
    CleanShutdown
    ReportedIsKept
CHECK_DEADLOCK FALSE
