\* Clients that do not wait; nothing fails.
SPECIFICATION Spec
CONSTANTS
    NoGame = NoGame
    PatientClients = FALSE
    MaxActions = 3
    MaxNotices = 2
    Faults = {}
    MaxFaults = 0
INVARIANTS
    NoLostAction
CHECK_DEADLOCK FALSE
