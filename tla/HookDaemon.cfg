CONSTANTS
    Commands = {c1, c2}
    Servers = {s1, s2, s3, s4}
    Ports = {1, 2, 3, 4}
    None = None
    MaxEvents = 2
    MaxMishaps = 1
SPECIFICATION LiveSpec
INVARIANTS OneDaemon DaemonsAreKnown
PROPERTIES StopMeansStopped ClientsFindADaemon
