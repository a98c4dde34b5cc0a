CONSTANTS
    M = 2
    W = 8
    seg_count = 2
    Msg = {m1}
    NoMsg = NoMsg
    NoSeg = NoSeg
    NoSwitch = NoSwitch
    MaxDeaths = 3
SPECIFICATION Spec
INVARIANTS ResumeExact SegmentsExact ScansSettle
PROPERTIES ImplementsFifo
