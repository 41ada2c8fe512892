SPECIFICATION FairSpec
CONSTANTS
    Segments = {s1}
    AsrLanes = {a1}
    TextLanes = {t1}
    Calls = {c1}
    None = none
    WindowParagraphs = 2
    Short = {}
    MaxAttempts = 1
    MaxLeases = 3
    MaxFailures = 0
    TopicDown = TRUE
    MaxFaults = 0
PROPERTIES
    ProcessingSettles
CHECK_DEADLOCK FALSE
