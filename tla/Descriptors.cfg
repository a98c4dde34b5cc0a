\* Type-tags are the sizes 1 and 2, which look like links.
CONSTANTS
    M = 2
    W = 4
    Msg <- Descs
    NoMsg <- NoDesc
    geometry <- MCGeometry
    NIL = NIL
    AppData = {1, 2}
    Sizes = {1, 2}
    R = 2
    NoBuf = NoBuf
SPECIFICATION Spec
INVARIANTS OneOwner TakenBackIntact
PROPERTIES EachStackIsPool ImplementsFifo
