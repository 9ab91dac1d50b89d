SPECIFICATION Spec
CONSTANTS
    a = a
    b = b
    Nodes = {a, b}
    Configurations <- MCSHA256Only
    Connections <- MCOneWay
    KeepAliveInterval = 1
    MaxChannels = 2
    MaxFaults <- MCNoFaults
CHECK_DEADLOCK FALSE
INVARIANT EqualsAccepted
