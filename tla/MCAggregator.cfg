SPECIFICATION MCSpec
CONSTANTS
    Clients = {c1, c2}
    First = c1
    Tools = {a, b}
    None = None
    Attempts = 3
    MaxEvents = 3
INVARIANT StaleIsDue
PROPERTIES
    ClientsCatchUp
    DeniedIsWithdrawn
    CatalogIsKept
CHECK_DEADLOCK FALSE
