CONSTANTS
    Exec = {e1}
    Proc = {p1, p2}
    NoExec = NoExec
    Lease = 1
    MaxAttempts = 1
    MaxGen = 4
    MaxFaults = 1
SPECIFICATION LiveSpec
PROPERTY EventuallySettled
