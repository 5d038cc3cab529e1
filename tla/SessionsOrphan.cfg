\* A client disconnects while its join is being handled.
SPECIFICATION Spec
CONSTANTS
    Socket = {s1, s2}
    Key = {k1, k2}
    None = None
    CloseWhileJoining = TRUE
    JoinWhileLeaving = FALSE
    Faults = {}
INVARIANTS
    NoOrphanedKey
