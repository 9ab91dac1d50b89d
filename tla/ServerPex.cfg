SPECIFICATION FairSpec
CONSTANTS
    p1 = p1
    p2 = p2
    Clients = {p1, p2}
    NoClient = NoClient
    KeepAliveInterval = 0
    MaxQueue = 1
    MaxDatagrams = 2
CHECK_DEADLOCK FALSE
PROPERTIES
    ConnectionClosed
