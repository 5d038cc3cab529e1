\* Two messages, and one fault of any kind.
SPECIFICATION FairSpec
CONSTANTS
    None = None
    MaxMessages = 2
    MaxNotices = 2
    Faults = {"chat", "join", "trigger", "listener", "restart", "cleanup", "fetch"}
    MaxFaults = 1
INVARIANTS
    TypeOK
    ChatComplete
    ConnectedFlagRight
PROPERTIES
    MessagesArrive
