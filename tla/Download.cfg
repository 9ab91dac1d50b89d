SPECIFICATION Spec
CONSTANTS
    NumChunks = 6
    c1 = c1
    c2 = c2
    Channels = {c1, c2}
    PeerRange <- MCPartial
    MaxRetry = 1
    InitialRetryCounts = {0, 2}
    MaxFaults <- MCFaults
CHECK_DEADLOCK FALSE
INVARIANTS
    TypeOK
    RequestsAccounted
    SingleFetch
    LastChunkRight
    FinishedHasAll
    QuietIsFinished
