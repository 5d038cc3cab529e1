\* A failed read and a lost listener connection.
SPECIFICATION FairSpec
CONSTANTS
    NoGame = NoGame
    PatientClients = TRUE
    MaxActions = 2
    MaxNotices = 2
    Faults = {"fetch", "listener"}
    MaxFaults = 2
PROPERTIES
    ReconnectingCatchesUp
CHECK_DEADLOCK FALSE
