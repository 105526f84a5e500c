CONSTANTS
    t1 = t1  t2 = t2  k1 = k1  s1 = s1  none = none
    Tools = {t1, t2}
    Skills = {k1}
    Servers = {s1}
    ServerOf <- SameServer
    NoServer = none
    EpochTicks = 2
    IdleGapTriggersEpoch = TRUE
    IdleTicks = 1
    ToolPromotionTicks = 3
    SkillPromotionTicks = 2
    LeaseCycles = 2
    CooldownCycles = 2
SPECIFICATION MCSpec
INVARIANT TiersAgreeWithUse
PROPERTIES SuccessWins IdleColdEntitySleeps NoSleepWakeThrash SleepingServerKeepsItsTools
