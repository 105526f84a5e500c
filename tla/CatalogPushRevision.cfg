CONSTANTS
    Runtimes = {r1}
    Tools = {t1, t2}
    Deniable = {t2}
    Key = ws
    PushLoop = loop
    Immediate = {imm}
    Nothing = Nothing
    MaxEvents = 2
SPECIFICATION PushLiveSpec
PROPERTIES NotifiedIsReloaded
CHECK_DEADLOCK FALSE
