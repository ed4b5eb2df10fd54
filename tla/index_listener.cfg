SPECIFICATION FairSpec
CONSTANTS
    old = old
    new = new
    Texts = {old, new}
    NoText = NoText
    Indexed = TRUE
    Reindexing = FALSE
    HoursAhead = 0
    MaxBurst = 1
    MaxChanges = 4
    Faults = {}
    MaxFaults = 0
PROPERTIES
    EventsInOrder
    DeletedStaysOut
    Converges
CHECK_DEADLOCK FALSE
