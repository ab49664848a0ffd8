CONSTANTS
    Job = {1, 2}
    Sched = {s1, s2}
    Plans <- AllPlans
    PageSize = 1
    MaxFires = 1
    Interval = 1
    MaxTime = 5
    PagesTime = 4
SPECIFICATION MCSpec
SYMMETRY Symmetry
INVARIANTS NoConcealedSlot CursorSound
CHECK_DEADLOCK FALSE
