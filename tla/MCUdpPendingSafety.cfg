\* Two keys and room for one pending sniff: three packets, two at a time, make
\* enforcements collide and locks be reaped while they are waited for.
SPECIFICATION Spec
CONSTANTS
    Keys = {k1, k2}
    Sessions = {s1}
    None = None
    MaxPackets = 3
    Permits = 2
    MaxPending = 1
    MaxCached = 2
    NoClueLimit = 2
    Window = 1
    ReapInterval = 1
SYMMETRY Symmetry
INVARIANTS
    TypeOK
    KeyExclusive
    NoDuplicate
    PendingBounded
    SniffedHostUsed
PROPERTIES
    InOrderUnlessReaped
    DroppedOnlyBehindReaper
\* A loop that has been stopped receives no more packets.
CHECK_DEADLOCK FALSE
