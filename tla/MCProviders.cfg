SPECIFICATION FairProviderSpec
CONSTANTS
    Calls = {c1}
    Providers = {"alpha_vantage", "finnhub", "yahoo_finance"}
    Symbols = {1, 2, 3}
    MaxAttempts = 2
    FailureThreshold = 2
    MaxRetries = 1
    PoolSize = 2
    Nobody = Nobody
INVARIANTS
    ProviderTypeOK
    OneHttpRequest
    StoredFromOneAttempt
PROPERTIES
    RunnerSpec
    CallsEnd
CHECK_DEADLOCK FALSE
