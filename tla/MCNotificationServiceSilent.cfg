CONSTANTS
    c1 = c1
    c2 = c2
    Conn = {c1}
    Capacity = 1
    SocketBuffer = 2
    MaxSent = 2
    MaxRequests = 1
SPECIFICATION FairSpec
PROPERTIES
    KeepsSending
CHECK_DEADLOCK FALSE
