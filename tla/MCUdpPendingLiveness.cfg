\* Two packets, of one key or of two with room for one pending sniff.
SPECIFICATION FairSpec
CONSTANTS
    Keys = {k1, k2}
    Sessions = {s1}
    None = None
    MaxPackets = 2
    Permits = 2
    MaxPending = 1
    MaxCached = 2
    NoClueLimit = 2
    Window = 1
    ReapInterval = 1
PROPERTIES
    TasksEnd
    PendingEnds
\* A loop that has been stopped receives no more packets.
CHECK_DEADLOCK FALSE
