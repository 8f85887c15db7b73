SPECIFICATION Spec
CONSTANTS
    Genesis = 0
    Period = 3
    SignBit = 128
    N = 3
    K = 2
    Ops = {"op"}
    Agent = "agent"
    MaxLag = 2
    DrandVerifier = {}
    WitnessToken <- MCOpenRoster
    RosterToken <- MCOpenRoster
    Skew <- MCNoSkew
    HopTimeout = 6
    RequestTimeout = 30
    StartTime = 5
    LastStart = 5
    StaleRounds = 0
INVARIANT SurvivesFaults
CHECK_DEADLOCK FALSE
