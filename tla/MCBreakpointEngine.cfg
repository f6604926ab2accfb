SPECIFICATION Spec
CONSTANTS
    t1 = t1
    t2 = t2
    a1 = a1
    Threads = {t1, t2}
    Main = t1
    Addresses = {a1}
    Elsewhere = Elsewhere
    Breaker = Breaker
    MaxTracked = 2
    MaxBreakpoints = 1
    MaxBreaks = 1
    MaxFaults = 0
INVARIANT QueuedTrapsAreHandled
CHECK_DEADLOCK FALSE
