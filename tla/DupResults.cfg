\* One run, one crash.
SPECIFICATION Spec
CONSTANTS
    Jobs = {j1}
    s1 = s1
    Scenarios = {s1}
    ScenOf <- OneScenario
    NoJob = NoJob
    MaxRetries = 1
    MaxRestarts = 1
    MaxFaults = 0
    Cancellable = {}
    Signals = FALSE
    KeysExpire = FALSE
    RedisVolatile = FALSE
INVARIANTS
    OneResultSet
CHECK_DEADLOCK FALSE
