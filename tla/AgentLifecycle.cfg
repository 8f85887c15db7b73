SPECIFICATION Spec
CONSTANTS
    KeyIds = {1, 2, 3}
    EnrollAttempts = 2
    PostAttempts = 2
    Grace = 2
    MaxFaults = 2
INVARIANTS
    TypeOK
    OneIdentity
    ServerHoldsKey
    AttestationHasBaseline
PROPERTIES
    CutOffHalts
    RevokedHalts
    
