SPECIFICATION AllSpec
CONSTANTS
    job1 = job1
    term1 = term1
    conn1 = conn1
    Starts = {job1, term1}
    Conns = {conn1}
    Owner <- OwnerOfAll
    Persistent = {}
    Terminals = {term1}
    WithStdin = {}
    Timed = {job1}
    Resident = FALSE
    MaxRecords = 2
    MaxBudget = 3
    Faults = {}
    NoSave = NoSave
    hw1 = hw1
    hw2 = hw2
    caller1 = caller1
    Hwnds = {hw1, hw2}
    WindowCallers = {caller1}
    MaxLives = 2
    MaxTracked = 1
    MaxRefs = 1
    MaxCalls = 2
    MaxEpoch = 2
    None = None
INVARIANTS
    NoOrphanTree
    WindowsAreTrue
PROPERTIES
    OutcomesStay
CHECK_DEADLOCK FALSE
