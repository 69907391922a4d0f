\* Up to two reloads, one connection.
SPECIFICATION FairSpec
CONSTANTS
    Conns = {c1}
    MaxGens = 3
    Configs <- MCConfigs
INVARIANTS
    AlwaysServing
    ShutdownIsComplete
    ReloadKeepsConnections
PROPERTIES
    NoSocketAfterClose
    RetiredIsReleased
\* The process ends.
CHECK_DEADLOCK FALSE
