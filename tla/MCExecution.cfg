CONSTANTS
    Functions = {"SchedulerTick", "Test1"}
    Count = 3
    Counts = 8
    TightTiming = FALSE
    Threads = {1, 2, 3}
    BootstrapThread = 1
    Owner <- MCOwner
    FpuUsers = {2}
    TickDelay = 1
    PostponeDelay = 1
    MaxPostpones = 1
    Capacity = 4
    Actors = {1, 2, 3}
    Delays = {2}
SPECIFICATION FairSpec
INVARIANTS ThreadsKept IdsKept TickKept
PROPERTIES NeverEarly TimersFire EveryThreadRuns
