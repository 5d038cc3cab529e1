\* Patient clients, and one fault of any kind.
SPECIFICATION FairSpec
CONSTANTS
    NoGame = NoGame
    PatientClients = TRUE
    MaxActions = 3
    MaxNotices = 2
    Faults = {"write", "reply", "listener", "fetch", "restart"}
    MaxFaults = 1
INVARIANTS
    TypeOK
    NoLostAction
    StoredGameLegal
    QuietCopiesComplete
PROPERTIES
    ImplementsLog
    StoredActionsArrive
CHECK_DEADLOCK FALSE
