CONSTANTS
    L = 4
    Lines = {2, 4}
    Lens = {16, 24, 28, 36, 60, 90}
    Geometries <- MCGeometries
    MaxCap = 4
    POOL_NIL = 8
    Procs = {p, q}
    NoGeo = NoGeo
    Bufs = {0, 1}
    Asks <- MCAsks
    MAX_SEGMENTS = 3
    MAX_SEG_CAPACITY = 4
    PoolLines = 9
    max_producers = 1
    RingProcs = {p, q}
    Creator = p
    MaxApp = 1
    MaxUses = 2
    MaxReads = 2
    Versions = {"spsc3", "mpsc2", "spsc4", "mpsc3", "mpsc4"}
SPECIFICATION Spec
INVARIANTS AttachedIsWhole RoleKeepsRing BuffersConserved ConsumerResumes
CHECK_DEADLOCK FALSE
