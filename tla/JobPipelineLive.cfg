\* Two requests for one scenario, one crash or shutdown, no failing store call,
\* the cancellation of one of them.
SPECIFICATION FairSpec
CONSTANTS
    Jobs = {j1, j2}
    s1 = s1
    Scenarios = {s1}
    ScenOf <- OneScenario
    NoJob = NoJob
    MaxRetries = 1
    MaxRestarts = 1
    MaxFaults = 0
    Cancellable = {j1}
    Signals = TRUE
    KeysExpire = FALSE
    RedisVolatile = FALSE
PROPERTIES
    EveryRunEnds
    ProcessingMovesOn
CHECK_DEADLOCK FALSE
