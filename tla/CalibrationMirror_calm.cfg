SPECIFICATION FairSpec
CONSTANTS
    a1 = a1
    k1 = k1
    k2 = k2
    Admins = {a1}
    Keys = {k1, k2}
    Offsets = {k1}
    Values = {1, 2}
    Unset = Unset
    Junk = Junk
    Nothing = Nothing
    MaxWire = 2
    MaxUp = 1
    MaxOps = 2
INVARIANT TypeOK
INVARIANT CalibrationStands
PROPERTY WipeIsRestored
CHECK_DEADLOCK FALSE
