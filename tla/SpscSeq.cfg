\* Two slots, words of eight values: four laps of the slots per wrap.
CONSTANTS
    M = 2
    W = 8
    Msg = {m1, m2}
    NoMsg = NoMsg
SPECIFICATION FairSpec
INVARIANTS SeqAgrees SlotExclusive
PROPERTIES ImplementsFifo Drains
