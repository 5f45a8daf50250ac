\* One run, cancelled; nothing else goes wrong.
SPECIFICATION FairSpec
CONSTANTS
    Jobs = {j1}
    s1 = s1
    Scenarios = {s1}
    ScenOf <- OneScenario
    NoJob = NoJob
    MaxRetries = 0
    MaxRestarts = 0
    MaxFaults = 0
    Cancellable = {j1}
    Signals = FALSE
    KeysExpire = FALSE
    RedisVolatile = FALSE
PROPERTIES
    CancelReachesRow
CHECK_DEADLOCK FALSE
