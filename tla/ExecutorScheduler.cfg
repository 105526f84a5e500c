CONSTANTS
    Connections = {a, b}
    MaxEvents = 2
SPECIFICATION LiveSpec
INVARIANTS TypeOK
PROPERTIES HealthCatchesUp ListRefreshSettles EligibleGetsSchema
