SPECIFICATION AllSpec
CONSTANTS
    t1 = t1
    t2 = t2
    p1 = p1
    p2 = p2
    p3 = p3
    remove = remove
    add = add
    detach = detach
    script = script
    launch = launch
    look = look
    v1 = v1
    v2 = v2
    m1 = m1
    d1 = d1
    d2 = d2
    d3 = d3
    f1 = f1
    f2 = f2
    l1 = l1
    n1 = n1
    r1 = r1
    r2 = r2
    r3 = r3
    Nobody = Nobody
    Nothing = Nothing
    Idle = Idle
    Traces = {t1, t2}
    Processes = {p1, p2, p3}
    Owner <- Owners
    Deadline = 2
    Hints = {0, 2}
    DefaultHint = 1
    MaxCheckpoint = 1
    MaxInstances = 2
    Wishes <- SomeWishes
    MaxChanges = 3
    Calls = {remove, add, detach, script, launch, look}
    Task <- Tasks
    Volumes = {v1, v2}
    Mounts = {m1}
    Slots = 2
    MaxCalls = 2
    MaxImages = 2
    Directories = {d1, d2, d3}
    Files = {f1, f2}
    Links = {l1}
    Names = {n1, m1}
    Entries <- Tree
    TheRoot = d1
    DepthLimit = 2
    TargetLimit = 4
    MaxOutside = 1
    MaxSwaps = 1
    MaxRootSwaps = 3
    Requests = {r1, r2, r3}
    Leaky = {r1}
    Size = 2
    NoWorker = NoWorker
INVARIANT NothingHappensUntold
CHECK_DEADLOCK FALSE
