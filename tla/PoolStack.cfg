CONSTANTS
    buf_count = 3
    NIL = NIL
    AppData = {0, garbage}
SPECIFICATION FairSpec
INVARIANTS StackIsFree LinksSpellStack PopNotStale
PROPERTIES PopReturns
