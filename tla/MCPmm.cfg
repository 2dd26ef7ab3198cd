CONSTANTS
    Cores = {c1, c2}
    Whole <- MCWhole
    Stray <- MCStray
    Low <- MCLow
    Requests <- MCRequests
    StrayCount = 1
    SubDescriptorsCount = 2
    IndexSpan = 8
    MaxRef = 2
    MaxOdd = 1
    MaxHeld = 4
SPECIFICATION Spec
SYMMETRY CoreSymmetry
INVARIANTS
    FramesExclusive
    FramesAccounted
    RequestsServed
    NothingLost
