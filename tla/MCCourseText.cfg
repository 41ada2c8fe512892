SPECIFICATION CourseTextSpec
CONSTANTS
    page1 = page1
    page2 = page2
    t0 = t0
    t1 = t1
    t2 = t2
    h1 = h1
    h2 = h2
    Machine = Machine
    Waiting = Waiting
    Pages <- MCPages
    Recognized = t0
    Texts <- MCTexts
    Wordings <- MCWording
    MaxRevisions = 2
    MaxWordings = 1
    MaxFaults = 1
INVARIANTS
    NoteMatches
    RevisedIsTranslated
PROPERTIES
    SeenBeforeReplaced
    HumanRevisionStands
SYMMETRY MCSymmetry
CHECK_DEADLOCK FALSE
