SPECIFICATION Spec
CONSTANTS
    a = a
    b = b
    t = t
    h = h
    admin1 = admin1
    Ids <- TwoIds
    Metrics <- TwoMetrics
    Operators <- OneAdmin
    MaxTime = 4
INVARIANT TypeOK
INVARIANT ApprovalIsGiven
PROPERTY NewestSurvives
PROPERTY OneSeriesIsKept
SYMMETRY Swaps
CHECK_DEADLOCK FALSE
