SPECIFICATION FairSpec
CONSTANTS
    Segments = {s1}
    AsrLanes = {a1}
    TextLanes = {t1, t2}
    Calls = {c1, c2}
    None = none
    WindowParagraphs = 2
    Short = {}
    MaxAttempts = 2
    MaxLeases = 3
    MaxFailures = 2
    TopicDown = FALSE
    MaxFaults = 0
PROPERTIES
    ProcessingSettles
    ParagraphsAreTranslated
CHECK_DEADLOCK FALSE
