\* Choices that retake a ko; the human does not come and go, and nothing fails.
SPECIFICATION FairSpec
CONSTANTS
    None = None
    KoArises = TRUE
    PromptUpdates = TRUE
    Faults = {}
    MaxFaults = 0
    MaxVersion = 3
    MaxJoins = 0
    MaxNotices = 2
PROPERTIES
    AiTakesItsTurns
CHECK_DEADLOCK FALSE
