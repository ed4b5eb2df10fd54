SPECIFICATION Spec
CONSTANTS
    old = old
    new = new
    Texts = {old, new}
    NoText = NoText
    Indexed = TRUE
    Reindexing = TRUE
    HoursAhead = 4
    MaxBurst = 1
    MaxChanges = 2
    Faults = {}
    MaxFaults = 0
PROPERTIES
    DeletedStaysOut
CHECK_DEADLOCK FALSE
