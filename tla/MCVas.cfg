SPECIFICATION Spec
CONSTANTS
    Node = {n1, n2, n3, n4, n5}
    Nil = Nil
    MaxSize = 2
    Start <- MCStart
    End <- MCEnd
    Requests <- MCRequests
SYMMETRY NodeSymmetry
INVARIANT RegionsKept
INVARIANT FaultsServed
 
CHECK_DEADLOCK FALSE
