\* A key is joined again while its last player is still leaving.
SPECIFICATION Spec
CONSTANTS
    Socket = {s1, s2}
    Key = {k1, k2}
    None = None
    CloseWhileJoining = FALSE
    JoinWhileLeaving = TRUE
    Faults = {}
INVARIANTS
    ClientsServed
