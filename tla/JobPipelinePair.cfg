\* Two requests for one scenario, one crash or shutdown, one failed store call,
\* lapsed key or loss of Redis, the cancellation of either.
SPECIFICATION Spec
CONSTANTS
    Jobs = {j1, j2}
    s1 = s1
    Scenarios = {s1}
    ScenOf <- OneScenario
    NoJob = NoJob
    MaxRetries = 1
    MaxRestarts = 1
    MaxFaults = 1
    Cancellable = {j1, j2}
    Signals = TRUE
    KeysExpire = TRUE
    RedisVolatile = TRUE
SYMMETRY Symmetry
INVARIANTS
    TypeOK
    SingleCustody
    RunHasOwner
    CancelledNotQueued
    PlanBeforeDone
    RowFollowsRedis
    RetryBudget
    SolverRunsAreLogged
PROPERTIES
    CancelSticks
    FinalIsFinal
    DuplicatesOnlyByRace
    AnswerStays
    KeepsContract
CHECK_DEADLOCK FALSE
