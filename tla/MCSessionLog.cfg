CONSTANTS
    Tools = {t1}
    First = v1
    Versions = {v1, v2}
    Calls = {c1, c2}
    None = None
    Threshold = 2
    MaxHooks = 2
    MaxEvents = 2
SPECIFICATION MCSpec
INVARIANTS LoggedIsSeen SkippedIsSeen
PROPERTIES GateCatchesUp
