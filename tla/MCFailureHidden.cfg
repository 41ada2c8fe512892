SPECIFICATION SummariesSpec
CONSTANTS
    Groups = {g1, g2}
    MaxCards = 1
    MaxRuns = 1
    MaxSummaryAttempts = 2
    MaxManual = 1
    MaxSummaryFaults = 2
    MayCorrect = FALSE
PROPERTIES
    FailureIsShown
CHECK_DEADLOCK FALSE
