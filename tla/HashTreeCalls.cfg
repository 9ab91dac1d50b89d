SPECIFICATION Spec
CONSTANTS
    d1 = d1
    d2 = d2
    u = u
    NumChunks = 6
    Downloads = {d1, d2}
    Uploads = {u}
    NoThread = NoThread
    RetryCount = 0
CHECK_DEADLOCK FALSE
SYMMETRY MCSymmetry
INVARIANTS
    TypeOK
    NoDeadlock
    NothingLost
    ServedIsEnough
