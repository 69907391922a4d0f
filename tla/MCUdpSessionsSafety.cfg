\* A packet task and the UDP loop on two keys; two sessions are created at
\* most, so a key is created again after an eviction.
SPECIFICATION Spec
CONSTANTS
    Keys = {k1, k2}
    Handlers = {h1}
    Loops = {l1}
    Sessions = {s1, s2}
    None = None
    Timeout = 1
    MaxTime = 1
SYMMETRY Symmetry
INVARIANTS
    TypeOK
    SingleLiveSession
    ReadyIsServed
    WaiterHasNotifier
    NoStraySession
    ClearedStaysEmpty
PROPERTIES
    EvictedOnlyIdle
    ImplementsRegistry
\* A generation that has been shut down stops.
CHECK_DEADLOCK FALSE
