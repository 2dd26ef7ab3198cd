SPECIFICATION Spec
CONSTANTS
    Cores = {c1, c2}
    Frame = {f1, f2, f3, f4}
    Pages = 3
    ListMax = 1
    None = None
SYMMETRY VmmSymmetry
INVARIANTS
    FreeFramesUncached
    MappingsKept
    NoCircularWait
    StaleTranslationsPending
CHECK_DEADLOCK FALSE
