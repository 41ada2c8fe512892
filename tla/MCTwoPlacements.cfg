SPECIFICATION RemoteNotesLiveSpec
CONSTANTS
    p1 = p1
    p2 = p2
    p3 = p3
    t1 = t1
    t2 = t2
    None = None
    Parents <- MCParents
    Titles <- MCTitles
    MaxNotes = 2
    MaxChanges = 2
    MaxTriggers = 2
    MaxFaults = 2
    MaxTampers = 0
INVARIANTS
    OnePlacement
CHECK_DEADLOCK FALSE
