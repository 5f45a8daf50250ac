\* One run, one shutdown, no failing store call.
SPECIFICATION Spec
CONSTANTS
    Jobs = {j1}
    s1 = s1
    Scenarios = {s1}
    ScenOf <- OneScenario
    NoJob = NoJob
    MaxRetries = 1
    MaxRestarts = 1
    MaxFaults = 0
    Cancellable = {}
    Signals = TRUE
    KeysExpire = FALSE
    RedisVolatile = FALSE
PROPERTIES
    ClosedStaysClosed
CHECK_DEADLOCK FALSE
