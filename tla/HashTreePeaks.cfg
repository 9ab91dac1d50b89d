SPECIFICATION Spec
CONSTANTS
    NumChunks = 5
    n1 = n1
    n2 = n2
    n3 = n3
    Nodes = {n1, n2, n3}
    Swarms <- MCSingle
    Faults = {}
    MaxFaults = 0
CHECK_DEADLOCK FALSE
INVARIANTS
    PeaksPass
