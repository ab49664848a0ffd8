CONSTANTS
    Inst = {i1, i2}
    Sess = {a, b, c, d}
    NoSess = NoSess
    Duty = {"scheduler"}
    MaxFaults = 3
SPECIFICATION LiveSpec
INVARIANTS OverlapOnlyAfterConnLoss
PROPERTIES EventuallyOneLeader
