CONSTANTS
    M = 2
    W = 4
    seg_count = 2
    Msg = {m1, m2}
    NoMsg = NoMsg
    NoSeg = NoSeg
SPECIFICATION Spec
INVARIANTS FreeSegmentIsEmpty SkippedLoadIsClaimable SwitchesAgree
PROPERTIES ImplementsFifo
