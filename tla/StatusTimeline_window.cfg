SPECIFICATION Spec
CONSTANTS
    Levels = {"", warning, error}
    Span = 2
    MaxTime = 3
    MaxLogs = 3
SYMMETRY Alike
PROPERTY SegmentsTile
PROPERTY TimelineIsHistory
CHECK_DEADLOCK FALSE
