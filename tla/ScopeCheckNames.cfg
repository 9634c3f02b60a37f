SPECIFICATION Spec
CONSTANTS
    Names <- AllNames
    Builtins <- BuiltinNames
    MaxScopes = 6
    MaxDepth = 3
    MaxFuncs = 2
INVARIANTS
    LoopStatementAllowed
    ReturnChecksItsFunction
    TablesFollowNesting
CHECK_DEADLOCK FALSE
