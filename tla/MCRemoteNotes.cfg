SPECIFICATION RemoteNotesLiveSpec
CONSTANTS
    p1 = p1
    p2 = p2
    p3 = p3
    t1 = t1
    t2 = t2
    None = None
    Parents <- MCThreeParents
    Titles <- MCTitles
    MaxNotes = 2
    MaxChanges = 2
    MaxTriggers = 1
    MaxFaults = 2
    MaxTampers = 1
INVARIANTS
    MoveKeepsNote
    OneNote
    PurgeLeavesNothing
PROPERTIES
    NoteFollows
CHECK_DEADLOCK FALSE
