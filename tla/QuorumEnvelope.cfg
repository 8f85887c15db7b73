SPECIFICATION Spec
CONSTANTS
    Hosts = {"h1", "h2"}
    Silicon <- MCSilicon
    Secret <- MCSecret
    Reliable <- MCReliable
    MaxFlips = 2
    Rosters <- MCRosters
    Deks = {0, 83, 255}
    Coefficients = {0, 1, 142}
    Plaintext = plaintext
    MaxAnswers = 3
    MaxSeals = 3
    MaxGuess = 2
INVARIANTS
    TypeOK
    KeyIsRecoverable
    FewSharesTellNothing
    SiliconOpens
CHECK_DEADLOCK FALSE
