SPECIFICATION Spec
CONSTANTS
    NumChunks = 6
    c1 = c1
    c2 = c2
    Channels = {c1, c2}
    PeerRange <- MCSeeders
    MaxRetry = 1
    InitialRetryCounts = {0}
    MaxFaults <- MCNoFaults
CHECK_DEADLOCK FALSE
INVARIANTS
    FinishedFileComplete
