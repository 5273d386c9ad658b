SPECIFICATION Spec
CONSTANTS
    c1 = c1
    c2 = c2
    Commands <- Two
    ActionOf <- RequestAndUpdate
    Assumed <- Orderly
    MaxWire = 3
    MaxUp = 2
INVARIANT UpdateSuccessIsTrue
INVARIANT UpdateSentOnce
PROPERTY WakeIsNoticed
PROPERTY ImplementsLedger
CHECK_DEADLOCK FALSE
