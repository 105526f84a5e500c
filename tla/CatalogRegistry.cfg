CONSTANTS
    Keys = {usr}
    Contents = {c1, c2}
    Instances = {i1, i2}
    Loop = Loop
    Scheduler = Scheduler
    Writers = {w1, w2}
    None = None
    Prompt = TRUE
    WaitsOut = FALSE
    WriteOutcomes = {TRUE, FALSE}
    MaxOps = 3
SPECIFICATION LiveSpec
INVARIANT OneWriter
PROPERTIES KeepsContract SnapshotRepaired LoopComesBack
