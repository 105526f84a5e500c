CONSTANTS
    Runtimes = {r1}
    Tools = {t1, t2}
    Deniable = {t2}
    Key = ws
    PushLoop = loop
    Immediate = {imm}
    Nothing = Nothing
    MaxEvents = 3
SPECIFICATION PushLiveSpec
INVARIANTS HeardIsApplied
PROPERTIES LiveRuntimeIsRegistered GoneRuntimeIsForgotten RevisionIsHeard
CHECK_DEADLOCK FALSE
