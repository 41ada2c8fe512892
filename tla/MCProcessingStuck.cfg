SPECIFICATION FairSpec
CONSTANTS
    Segments = {s1}
    AsrLanes = {a1}
    TextLanes = {t1}
    Calls = {c1}
    None = none
    WindowParagraphs = 2
    Short = {}
    MaxAttempts = 2
    MaxLeases = 3
    MaxFailures = 0
    TopicDown = FALSE
    MaxFaults = 1
PROPERTIES
    ProcessingSettles
CHECK_DEADLOCK FALSE
