CONSTANTS
    M = 1
    W = 4
    seg_count = 3
    Producers = {p1, p2}
    Msg = {m1}
    NoMsg = NoMsg
    Open = Open
    Dead = Dead
    MaxSends = 5
SPECIFICATION Spec
SYMMETRY Symmetry
INVARIANTS SealsFollowClaims SegmentsAccounted
PROPERTIES ImplementsClaimQueue
