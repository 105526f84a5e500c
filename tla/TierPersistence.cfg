CONSTANTS
    Entities = {e1, e2}
    Workers = {a}
    Scheduler = s
    Leaving = {e1}
    NoThread = NoThread
    Absent = Absent
    MaxChanges = 2
    MaxEpochs = 2
    MaxFailures = 2
SPECIFICATION LiveSpec
INVARIANTS CleanMeansSaved EpochRowIsLast PromotionIsDurable
PROPERTIES RowsNeverGoBack ChangesAreSaved
