SPECIFICATION FairSpec
CONSTANTS
    c1 = c1
    c2 = c2
    Commands <- One
    ActionOf <- OneRequest
    Assumed <- Attentive
    MaxWire = 4
    MaxUp = 2
PROPERTY RequestConcludes
CHECK_DEADLOCK FALSE
