SPECIFICATION FairSpec
CONSTANTS
    p1 = p1
    p2 = p2
    Clients = {p1, p2}
    NoClient = NoClient
    KeepAliveInterval = 1
    MaxQueue = 2
    MaxDatagrams = 2
CHECK_DEADLOCK FALSE
INVARIANTS
    TypeOK
    ChannelsDistinct
    ListedIsAlive
    ReceiverOutlived
    NoneAfterOwnStop
PROPERTIES
    StoppedIsDeleted
