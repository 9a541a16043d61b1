SPECIFICATION Spec
CONSTANTS
    NumStages = 3
    NumTasks = 2
    NumRanges = 3
    MaxPages = 2
    MinLength = 1
    MaxLength = 40
    MaxBlockSize = 12
    NumBlocks = 2
    NumWorkers = 3
    MaxCalls = 1
    MaxRemovals = 0
    s = s
    a = a
    b = b
    a1 = a1
    a2 = a2
    b1 = b1
    w1 = w1
    w2 = w2
INVARIANTS
INVARIANT
    StopClosesServers
CHECK_DEADLOCK FALSE
