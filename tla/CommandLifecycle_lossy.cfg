SPECIFICATION Spec
CONSTANTS
    c1 = c1
    c2 = c2
    Commands <- Two
    ActionOf <- TwoSets
    Assumed <- LossySleeper
    MaxWire = 2
    MaxUp = 1
INVARIANT TypeOK
INVARIANT NoInventedSuccess
PROPERTY TerminalIsFinal
CHECK_DEADLOCK FALSE
SYMMETRY Swap
