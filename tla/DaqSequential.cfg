SPECIFICATION Spec
CONSTANTS
    Genesis = 0
    Period = 2
    SignBit = 128
    N = 4
    K = 2
    Ops = {"op"}
    Agent = "agent"
    MaxLag = 1
    DrandVerifier = {1, 2}
    WitnessToken <- MCWitnessToken
    RosterToken <- MCRosterToken
    Skew <- MCSkew
    HopTimeout = 3
    RequestTimeout = 8
    StartTime = 3
    LastStart = 4
    StaleRounds = 0
INVARIANTS
    TypeOK
    PredecessorSigned
    VerifiesIffUnbroken
    HopBudget
    HealthyPrefixServed
PROPERTIES
    QuorumPromise
    RequestReturns
CHECK_DEADLOCK FALSE
