SPECIFICATION Spec
CONSTANTS
    GameId = {g1, g2}
    Manager = {m1, m2}
    Free = Free
    MaxVersion = 2
SYMMETRY Symmetry
INVARIANTS
    TypeOK
    PlayersConnectedCounts
    LoadedWhileConnected
PROPERTIES
    LeaseAndVersionSteps
    ImplementsLease
