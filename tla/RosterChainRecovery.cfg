SPECIFICATION Spec
CONSTANTS
    Operators = {o1, o2}
    Rosters <- MCRosters
    Dates = {1}
    Ceremony = {"p", "q"}
    CeremonyLists <- MCCeremonyLists
    SignerLists <- MCSignerLists
    Terms <- MCTerms
    MinWait = 1
    Announcer = "legal"
    MaxEpochs = 3
INVARIANT RemainingCanRecover
CHECK_DEADLOCK FALSE
