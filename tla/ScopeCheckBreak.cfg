SPECIFICATION Spec
CONSTANTS
    Names <- AllNames
    Builtins <- BuiltinNames
    MaxScopes = 6
    MaxDepth = 3
    MaxFuncs = 2
INVARIANT BreakRefusedOutsideLoop
CHECK_DEADLOCK FALSE
