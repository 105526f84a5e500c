CONSTANTS
    A1 = a1
    A2 = a2
    B = b
    Tools = {a1, a2, b}
    ServerOf <- MCServerOf
    Offers <- MCOffers
    Missing = Missing
    Broken = Broken
    Unset = Unset
    Poller = poller
    Puller = puller
    Hydrators = {h}
    Readers = {r}
    MaxEvents = 2
SPECIFICATION MCSpec
INVARIANTS NobodyWaitsInVain
PROPERTIES CatalogsCatchUp
