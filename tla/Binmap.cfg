SPECIFICATION Spec
CONSTANTS
    NumChunks = 5
    ChunkSize = 2
    LastSize = 1
    Threads = {t1, t2}
    NoThread = NoThread
    PeerLists <- MCPeerLists
    PaddedEnd = 7
SYMMETRY MCSymmetry
INVARIANTS
    TypeOK
    RangesExact
    CPExact
    NoStaleRequest
    DiskBacksMap
    FinishSound
    FinishComplete
    FinishedFileComplete
    AnnouncesLongestRun
PROPERTIES
    StoreSpec
