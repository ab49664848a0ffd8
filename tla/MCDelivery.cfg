SPECIFICATION MCSpec
CONSTANTS
    Proc = {p1, p2, p3}
    Threshold = 2
    Probes = 2
    Cooldown = 1
    MaxFailures = 5
    Worker = {w1, w2}
    SlotsEach = 2
    MaxReserve = 3
    MaxIdle = 3
    MaxQueue = 3
INVARIANTS PermitsExact SlotsExact
PROPERTIES EventuallyCloses QueueDrains CancelReturns
CHECK_DEADLOCK FALSE
