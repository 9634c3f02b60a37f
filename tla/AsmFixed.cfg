CONSTANTS
    MaxLength = 8
    POOL_RANGE = 2
    Reach = 7
    Functions <- AllFunctions
SPECIFICATION Spec
INVARIANTS
    TypeOK
    ParamsFound
    LiteralsInReach
CHECK_DEADLOCK FALSE
