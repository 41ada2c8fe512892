SPECIFICATION RemoteNotesLiveSpec
CONSTANTS
    p1 = p1
    p2 = p2
    p3 = p3
    t1 = t1
    t2 = t2
    None = None
    Parents <- MCParents
    Titles <- MCTitles
    MaxNotes = 2
    MaxChanges = 0
    MaxTriggers = 2
    MaxFaults = 2
    MaxTampers = 0
PROPERTIES
    PurgeIsRepeatable
CHECK_DEADLOCK FALSE
