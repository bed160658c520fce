SPECIFICATION Spec
CONSTANTS
    Calls = {c1, c2}
    Providers = {"p1"}
    Symbols = {1, 2, 3}
    MaxAttempts = 2
    FailureThreshold = 2
    Nobody = Nobody
INVARIANTS
    TypeOK
    OneRunPerProvider
    ItemsTellTheTruth
    ReportsAgree
    CircuitProtectsProvider
CHECK_DEADLOCK FALSE
SYMMETRY MCSymmetry
