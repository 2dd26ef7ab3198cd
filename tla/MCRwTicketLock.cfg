CONSTANTS
    Cores = {c1, c2, c3}
    TicketCount = 4
    TryAtLast = FALSE
SPECIFICATION FairSpec
INVARIANTS
    WriterExclusion
    TailsCount
PROPERTIES
    TicketOrder
    AcquireTerminates
