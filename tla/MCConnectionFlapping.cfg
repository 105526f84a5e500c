\* One connection (connections do not influence each other), windows of four
\* samples, three healthy samples to recover.
SPECIFICATION FlapSpec
CONSTANTS
    ConnectionKeys = {c1}
    Statuses <- MCStatuses
    Healthy <- MCHealthy
    NotListed <- MCNotListed
    WindowSize = 4
    MinDegraded = 1
    MinTransitions = 2
    BasePenalty = 1
    PerDegraded = 1
    PerTransition = 1
    PerEpisode = 2
    MaxQuarantine = 8
    RecoveryHealthySamples = 3
    EpisodeCap = 5
INVARIANT CountersAgree
PROPERTIES
    GateOpensOnlyWhenStable
    HealthyConnectionIsReleased
