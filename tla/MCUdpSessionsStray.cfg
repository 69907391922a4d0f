\* A creation whose UDP loop is aborted by the shutdown.
SPECIFICATION FairSpec
CONSTANTS
    Keys = {k1}
    Handlers = {h1}
    Loops = {l1}
    Sessions = {s1, s2}
    None = None
    Timeout = 1
    MaxTime = 1
PROPERTIES
    AllReceiveLoopsEnd
\* A generation that has been shut down stops.
CHECK_DEADLOCK FALSE
