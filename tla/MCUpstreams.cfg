\* Operations in any order, one upstream with all its scores, another beside it.
SPECIFICATION Spec
CONSTANTS
    u1 = u1
    u2 = u2
    Conns = {k1, k2}
    Chunk = 102400
    Reports <- MCReports
    Relative = {TRUE, FALSE}
    RelScores = {0, 1000}
    Weight = 40
    Stale = 20
    FailThreshold = 1
    Start = 100
    Period = 10
    MaxChunks = 1
    MaxOps = 4
    Scored = u1
    Others = {u2}
    OtherScore <- MCOtherScore
    Gain = 100
    Tolerance = 50
    Window = 10
    None = None
SYMMETRY MCSymmetry
INVARIANTS
    PenaltyHolds
    RateNotOverestimated
    StatsConsistent
\* The number of operations is bounded.
CHECK_DEADLOCK FALSE
