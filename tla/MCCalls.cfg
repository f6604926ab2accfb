SPECIFICATION AllSpec
CONSTANTS
    click = click
    hang = hang
    read = read
    Calls = {click, hang, read}
    Interactive = {click, hang}
    Stuck = {hang}
    Capacity = 2
    a = a
    b = b
    c = c
    Writes = {a, b, c}
    Size <- SizeOf
    QueueMax = 1
    MaxPending = 3
    NoWrite = NoWrite
INVARIANTS
    PermitsAreSound
    NoLostWakeup
    InputIsTrue
PROPERTIES
    CallsEnd
    BudgetComesBack
CHECK_DEADLOCK FALSE
