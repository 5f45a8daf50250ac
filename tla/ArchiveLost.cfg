\* An optimize request and two DELETEs, one after the other; nothing goes wrong.
SPECIFICATION Spec
CONSTANTS
    Scenarios = {s1}
    Requests = {r1, r2, r3}
    NoScenario = NoScenario
    MaxFaults = 0
PROPERTIES
    ArchivedIsKept
CHECK_DEADLOCK FALSE
