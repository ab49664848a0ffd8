SPECIFICATION LiveSpec
CONSTANTS
    MaxExec = 2
    Handler = {h1}
    h1 = h1
    Buffer = 1
    BatchSize = 1
    MaxFaults = 2
INVARIANTS GracefulExitDrains
PROPERTIES ClaimedOnce EventuallyDispatched ShutdownCompletes
