SPECIFICATION SummariesLiveSpec
CONSTANTS
    Groups = {g1}
    MaxCards = 1
    MaxRuns = 1
    MaxSummaryAttempts = 2
    MaxManual = 1
    MaxSummaryFaults = 1
    MayCorrect = TRUE
INVARIANTS
    ShownIsOfThisRun
    SupersededIsReplaced
PROPERTIES
    DoneStays
    CompletedIsSummarised
CHECK_DEADLOCK FALSE
