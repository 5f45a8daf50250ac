SPECIFICATION Spec
CONSTANTS
    Requests = {r1, r2}
    Sheet <- Bread
    Blank = {}
    MaxScenario = 3
    MaxId = 7
    MaxArrivals = 5
SYMMETRY RequestIds
CHECK_DEADLOCK FALSE
INVARIANT TypeOK
INVARIANT CellsAgree
INVARIANT OneHop
INVARIANT ClonesAreCopies
PROPERTY OwnWrites
