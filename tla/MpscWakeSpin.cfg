\* Depth 4: the consumer looks for sleeping producers at every second message.
CONSTANTS
    M = 4
    W = 8
    Producers = {p1, p2}
    ConsumerSleeps = FALSE
    MaxPanics = 0
SPECIFICATION FairSpec
PROPERTIES ProducersWake
