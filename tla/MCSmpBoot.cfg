CONSTANTS
    Cores = {bsp, a1, a2, a3}
    BSP = bsp
    StepCount = 3
    SmpEnabled = TRUE
    Slow = FALSE
SPECIFICATION FairBootSpec
INVARIANTS
    HandshakeKept
    InitializationSerial
PROPERTIES
    BootCompletes
    ImplementsRendezvous
    ReachTerminates
CHECK_DEADLOCK FALSE
