SPECIFICATION Spec
CONSTANTS
    Hosts = {h1, h2, h3}
    NoHost = none
    Pinned = {"o1", "o2"}
    OpThreshold = 2
    SignerLists <- MCSignerLists
    Witnesses = {0, 1}
    Threshold = 2
    Skew <- MCSkew
    CoolDowns = {0, 1}
    MinCoolDown = 1
    Times = {0, 1, 6}
    Horizon = 2
    MaxRequests = 3
    MaxAttests = 3
    MaxLog = 3
INVARIANTS
    TypeOK
    CoolDownServed
    LineageIsAuthentic
    
    ElapsedWindowServes
SYMMETRY MCSymmetry
CHECK_DEADLOCK FALSE
