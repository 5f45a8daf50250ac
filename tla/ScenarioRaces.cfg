\* Three requests of any kind, two scenarios, two crashes or failed statements.
SPECIFICATION Spec
CONSTANTS
    Scenarios = {s1, s2}
    Requests = {r1, r2, r3}
    NoScenario = NoScenario
    MaxFaults = 2
SYMMETRY Symmetry
INVARIANTS
    TypeOK
    RunsReferenceFrozen
    ReproduciblePlan
    ClonesAreWhole
PROPERTIES
    FrozenStays
CHECK_DEADLOCK FALSE
