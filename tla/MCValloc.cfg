CONSTANTS
    Cores = {c1, c2}
    Arenas = {a1, a2}
    Extendable = {a1}
    Slots = 2
    Extended = 3
SPECIFICATION FairSpec
INVARIANTS  GarbageKept
PROPERTIES MemoryReturned
CHECK_DEADLOCK FALSE
