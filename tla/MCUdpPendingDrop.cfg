\* A datagram cached while the reaper makes a session for its key.
SPECIFICATION Spec
CONSTANTS
    Keys = {k1}
    Sessions = {s1}
    None = None
    MaxPackets = 3
    Permits = 2
    MaxPending = 1
    MaxCached = 2
    NoClueLimit = 2
    Window = 1
    ReapInterval = 1
PROPERTIES
    CachedUntilFlushed
\* A loop that has been stopped receives no more packets.
CHECK_DEADLOCK FALSE
