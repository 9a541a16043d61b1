CONSTANTS
    s = s
    a = a
    b = b
    a1 = a1
    a2 = a2
    b1 = b1
    Nodes <- MCNodes
    Seeder = s
    Workers <- MCWorkers
    Callers <- MCCallers
    NodeOf <- MCNodeOf
    NumBlocks = 2
    MaxCalls = 1
    MaxRemovals = 1
SPECIFICATION Spec
PROPERTY
    GetBlocksReturns
CHECK_DEADLOCK FALSE
