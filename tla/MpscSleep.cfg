CONSTANTS
    M = 1
    W = 4
    seg_count = 2
    Producers = {p1, p2}
    MaxSends = 3
    MaxPanics = 1
SPECIFICATION FairSpec
INVARIANTS SleepersAreSeen
PROPERTIES ProducersWake Drains
CHECK_DEADLOCK FALSE
