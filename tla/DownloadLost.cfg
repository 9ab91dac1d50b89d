SPECIFICATION FairSpec
CONSTANTS
    NumChunks = 6
    c1 = c1
    c2 = c2
    Channels = {c1}
    PeerRange <- MCSeeders
    MaxRetry = 1
    InitialRetryCounts = {0}
    MaxFaults <- MCLoss
CHECK_DEADLOCK FALSE
PROPERTIES
    StalledIsRetriedOrClosed
