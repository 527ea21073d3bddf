CONSTANTS
    c1 = c1
    c2 = c2
    Conn = {c1}
    Capacity = 1
    SocketBuffer = 2
    MaxSent = 3
    MaxRequests = 3
SPECIFICATION FairSpec
INVARIANTS
    TypeOK
    PacketsWhole
    NoGaps
PROPERTIES
    NotificationsForwarded
    ForwardersEnd
CHECK_DEADLOCK FALSE
