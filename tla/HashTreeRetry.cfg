SPECIFICATION Spec
CONSTANTS
    NumChunks = 6
    n1 = n1
    n2 = n2
    n3 = n3
    Nodes = {n1, n2, n3}
    Swarms <- MCSingle
    Faults = {"lose"}
    MaxFaults = 1
CHECK_DEADLOCK FALSE
INVARIANTS
    RetryHelps
