CONSTANTS
    Cpus = {c1, c2}
    Cores <- MCCores
    TicketCount = 5
SPECIFICATION FairUSpec
INVARIANTS
    MutualExclusion
    NoSelfDeadlock
    InterruptsNotLost
PROPERTIES
    ImplementsFifoLock
    AcquireTerminates
