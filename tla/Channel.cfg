SPECIFICATION Spec
CONSTANTS
    a = a
    b = b
    Nodes = {a, b}
    Configurations <- MCConfigurations
    Connections <- MCOneWay
    KeepAliveInterval = 1
    MaxChannels = 2
    MaxFaults <- MCFaults
CHECK_DEADLOCK FALSE
INVARIANTS
    TypeOK
    Reciprocal
    ParametersAgree
    EqualsAccepted
PROPERTIES
    JoinedOrClosed
