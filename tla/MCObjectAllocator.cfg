CONSTANTS
    Cores = {c1, c2}
    Pool = {p1, p2, p3}
    Nil = Nil
    Options = {"ReleaseAll", "KeepOne", "NoRelease"}
    Quota = 2
    MaxCapacity = 2
SPECIFICATION FairSpec
INVARIANTS
    NoReleasedPoolUsed
    PoolsKept
 
