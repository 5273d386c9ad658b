SPECIFICATION FairSpec
CONSTANTS
    Devices = {1, 2}
    Metrics = {1}
    All = 0
    Limit = 2
    MaxRange = 2
    MaxTime = 3
INVARIANT NothingSkipped
PROPERTY LastPageCompletes
PROPERTY PagesAdvance
PROPERTY PagesGoOn
CHECK_DEADLOCK FALSE
