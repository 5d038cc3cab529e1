\* One placement on every board of size 3, up to symmetry.
SPECIFICATION MCFairSpec
CONSTANTS
    Size = 3
INVARIANTS
    TypeOK
    GatherFindsGroup
    PlacesByTheRules
PROPERTIES
    Returns
CHECK_DEADLOCK FALSE
