SPECIFICATION FairSpec
CONSTANTS
    old = old
    new = new
    Texts = {old, new}
    NoText = NoText
    Indexed = FALSE
    Reindexing = TRUE
    HoursAhead = 4
    MaxBurst = 2
    MaxChanges = 3
    Faults = {"disconnect", "crash", "fail"}
    MaxFaults = 1
INVARIANTS
    IndexTypeOK
    ChunksFollowSource
    NewestEventMeansCurrent
PROPERTIES
    LivingConverges
CHECK_DEADLOCK FALSE
