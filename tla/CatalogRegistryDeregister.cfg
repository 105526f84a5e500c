CONSTANTS
    Keys = {usr}
    Contents = {c1}
    Instances = {i1}
    Loop = Loop
    Scheduler = Scheduler
    Writers = {w1, w2}
    None = None
    Prompt = FALSE
    WaitsOut = FALSE
    WriteOutcomes = {TRUE}
    MaxOps = 2
SPECIFICATION Spec
INVARIANTS DeregisteredIsOff
