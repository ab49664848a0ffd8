CONSTANTS
    Job = {1}
    Sched = {s1}
    Plans = {{3, 4}}
    PageSize = 2
    MaxFires = 2
    Interval = 1
    MaxTime = 4
SPECIFICATION HistorySpec
INVARIANT NoBackfill
