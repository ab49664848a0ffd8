CONSTANTS
    Job = {1, 2}
    Sched = {s1}
    Plans = {{3, 4, 5}}
    PageSize = 1
    MaxFires = 1
    Interval = 1
    MaxTime = 5
    Sick = {1}
    MaxStops = 1
SPECIFICATION LiveSpec
PROPERTY EventuallyInserted
