\* Comings and goings that do not overlap on a key or a socket.
SPECIFICATION Spec
CONSTANTS
    Socket = {s1, s2, s3}
    Key = {k1, k2}
    None = None
    CloseWhileJoining = FALSE
    JoinWhileLeaving = FALSE
    Faults = {"listener", "commit", "trigger"}
INVARIANTS
    TypeOK
    ClientsServed
    ManagedKeysHeard
    NoOrphanedKey
    NothingLeftBehind
PROPERTIES
    ImplementsLease
SYMMETRY Permuted
