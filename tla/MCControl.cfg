CONSTANTS
    Proc = {p1, p2}
    NumJobs = 2
    Views = {v1, v2}
    MaxViews = 1
    MaxPending = 2
    MaxBatches = 3
    MaxClock = 2
    Runner = {m1, m2}
    NoRunner = NoRunner
    NumVersions = 4
    Manual = {3}
    Repeatable = {2, 3}
    MaxStarts = 3
    Groups <- SettingGroups
    MaxInt = 35
SPECIFICATION MCSpec
INVARIANTS
    
    QuotasKept
    DeadlockOnlyOnDelete
    MigrationsAreSafe
    
    
PROPERTIES RecordIsTrue 
SYMMETRY Symmetry
CHECK_DEADLOCK FALSE
