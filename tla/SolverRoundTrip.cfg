\* Two products; four scenarios, with and without resources; one write
\* during the run.
SPECIFICATION Spec
CONSTANTS
    Ids <- MCIds
    Catalogs <- MCCatalogs
    Orders <- MCOrders
    Quantities = {2}
    MaxLots = 2
INVARIANTS
    TypeOK
    PlanRespectsScenario
    PlanIsBest
    ProfitAddsUp
CHECK_DEADLOCK FALSE
