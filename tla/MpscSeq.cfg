CONSTANTS
    M = 2
    W = 8
    Msg = {m1}
    NoMsg = NoMsg
    Producers = {p1, p2}
    Versions = {"v0", "v1"}
    Open = Open
    Dead = Dead
SPECIFICATION FairSpec
INVARIANTS SeqAgrees
PROPERTIES FullWasFull ImplementsClaimQueue LockFree
