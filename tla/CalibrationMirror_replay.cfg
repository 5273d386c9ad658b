SPECIFICATION Spec
CONSTANTS
    a1 = a1
    k1 = k1
    k2 = k2
    Admins = {a1}
    Keys = {k1}
    Offsets = {}
    Values = {1, 2}
    Unset = Unset
    Junk = Junk
    Nothing = Nothing
    MaxWire = 2
    MaxUp = 2
    MaxOps = 2
INVARIANT LastIssuedRuns
CHECK_DEADLOCK FALSE
