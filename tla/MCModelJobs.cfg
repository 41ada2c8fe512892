SPECIFICATION Spec
CONSTANTS
    Segments = {s1, s2}
    AsrLanes = {a1, a2}
    TextLanes = {t1}
    Calls = {c1, c2}
    None = none
    WindowParagraphs = 2
    Short = {}
    MaxAttempts = 1
    MaxLeases = 2
    MaxFailures = 1
    TopicDown = FALSE
    MaxFaults = 1
CONSTRAINT MCOneTrouble
SYMMETRY MCSymmetry
INVARIANTS
    ResultMatchesEvent
    ClosedIsRecognised
    CompletedIsGrouped
PROPERTIES
    SettledStays
CHECK_DEADLOCK FALSE
