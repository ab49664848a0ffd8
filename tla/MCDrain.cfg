SPECIFICATION DrainSpec
CONSTANTS
    MaxExec = 2
    Handler = {h1}
    h1 = h1
    Buffer = 2
    BatchSize = 2
INVARIANT DrainDispatches
CHECK_DEADLOCK FALSE
