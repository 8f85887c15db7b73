SPECIFICATION Spec
CONSTANTS
    Genesis = 0
    Period = 2
    SignBit = 128
    N = 3
    K = 2
    Ops = {"op"}
    Agent = "agent"
    MaxLag = 1
    DrandVerifier = {1, 2}
    WitnessToken <- MCWitnessToken
    RosterToken <- MCRosterToken
    Skew <- MCSkew
    HttpTimeout = 4
    StartTime = 4
    LastStart = 6
    StaleRounds = 1
INVARIANTS
    TypeOK
    TicketVerifies
    NoLostQuorum
    TicketAge
PROPERTIES
    QuorumPromise
    RequestReturns
    CancelMeansTicket
CHECK_DEADLOCK FALSE
