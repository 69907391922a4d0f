\* One key, where a packet task and the UDP loop wait for one another.
SPECIFICATION FairSpec
CONSTANTS
    Keys = {k1}
    Handlers = {h1}
    Loops = {l1}
    Sessions = {s1, s2}
    None = None
    Timeout = 1
    MaxTime = 1
PROPERTIES
    WaitersReleased
    PacketsFinish
    IdleEvicted
    ShutdownFinishes
    ReceiveLoopsEnd
\* A generation that has been shut down stops.
CHECK_DEADLOCK FALSE
