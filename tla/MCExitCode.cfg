SPECIFICATION Spec
CONSTANTS
    Calls = {c1, c2}
    Providers = {"p1"}
    Symbols = {1, 2}
    MaxAttempts = 2
    FailureThreshold = 2
    Nobody = Nobody
INVARIANT AllFailedMeansNothingStored
CHECK_DEADLOCK FALSE
