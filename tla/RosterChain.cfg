SPECIFICATION Spec
CONSTANTS
    Operators = {o1, o2}
    Rosters <- MCRosters
    Dates = {1}
    Ceremony = {"p", "q"}
    CeremonyLists <- MCCeremonyLists
    SignerLists <- MCSignerLists
    Terms <- MCTerms
    MinWait = 1
    Announcer = "legal"
    MaxEpochs = 3
INVARIANTS
    TypeOK
    
    
    DraftFitsItsParentOnly
SYMMETRY MCSymmetry
CHECK_DEADLOCK FALSE
