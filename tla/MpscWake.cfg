CONSTANTS
    M = 2
    W = 4
    Producers = {p1, p2}
    ConsumerSleeps = TRUE
    MaxPanics = 1
SPECIFICATION FairSpec
INVARIANTS SleeperIsSeen
PROPERTIES ProducersWake
