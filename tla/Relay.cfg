\* Two directions of up to two bytes, buffers of two.
SPECIFICATION FairRelay
CONSTANTS
    Directions = {"up", "down"}
    Buffer = 2
    MaxBytes = 2
    Grace = 2
INVARIANTS
    ReclaimedOnlyIfSilent
    CopyWinsOverTimer
PROPERTIES
    HalfClosedEnds
\* A relay ends.
CHECK_DEADLOCK FALSE
