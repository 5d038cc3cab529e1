\* One fault of any kind; updates are handled before comings and goings.
SPECIFICATION FairSpec
CONSTANTS
    None = None
    KoArises = TRUE
    PromptUpdates = TRUE
    Faults = {"join", "write", "reply", "connection"}
    MaxFaults = 1
    MaxVersion = 3
    MaxJoins = 1
    MaxNotices = 2
INVARIANTS
    TypeOK
    RestsInOrder
PROPERTIES
    AiLeaves
    AiComesBack
    AiActs
CHECK_DEADLOCK FALSE
