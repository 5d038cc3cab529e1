\* Whole games on the 3x3 board that open with a ko at hand.
SPECIFICATION OpeningSpec
CONSTANTS
    Size = 3
    TwiceKomi = 2
    MaxActions = 13
INVARIANTS
    TypeOK
    GroupsHaveLiberties
    StonesConserved
    RequestsConsistent
    TurnsAlternate
    KoIsRetaking
    ResultConsistent
PROPERTIES
    EndsByAgreement
    PhasesInOrder
CHECK_DEADLOCK FALSE
