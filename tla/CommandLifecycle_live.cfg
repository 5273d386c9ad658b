SPECIFICATION FairSpec
CONSTANTS
    c1 = c1
    c2 = c2
    Commands <- One
    ActionOf <- OneSet
    Assumed <- LongSleeper
    MaxWire = 4
    MaxUp = 2
PROPERTY CommandConcludes
CHECK_DEADLOCK FALSE
