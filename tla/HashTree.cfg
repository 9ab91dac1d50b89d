SPECIFICATION Spec
CONSTANTS
    NumChunks = 6
    n1 = n1
    n2 = n2
    n3 = n3
    Nodes = {n1, n2, n3}
    Swarms <- MCSwarms
    Faults = {"lose", "spoil", "reorder"}
    MaxFaults = 1
SYMMETRY MCSymmetry
CHECK_DEADLOCK FALSE
INVARIANTS
    TypeOK
    OnlyGenuine
    StoredIsServable
    LastChunkFound
    NeverShort
    GenuinePasses
    MutexGivenBack
