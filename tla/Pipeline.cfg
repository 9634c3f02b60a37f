CONSTANTS
    Fuel = 60
    Programs <- AllPrograms
    Inputs <- AllInputs
SPECIFICATION Spec
INVARIANTS
    MeaningKept
    NoAssertionFails
    DefinitionsReachUses
    PhisMatchPredecessors
    SideEffectsKnown
    LoopsSimplified
    ConditionsLast
    EdgesMatchBranches
    NothingLiveAtEntry
    NoSelectionFault
