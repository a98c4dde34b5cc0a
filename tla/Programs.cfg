CONSTANTS
    Lines <- MCLines
    COUNT = 6
    CHECK_EVERY = 2
    MaxChecks = 1
    MaxTrips = 4
    STOP = 7
    Commands <- MCCommands
    IpmDepth = 1
    IpmSegs = 2
    Nobody = Nobody
SPECIFICATION Spec
INVARIANTS NoPanic ReportsAll HandoverExact
PROPERTIES Finishes
CHECK_DEADLOCK FALSE
