CONSTANTS
    Fuel = 60
    Programs <- UnrolledByTwo
    Inputs <- AllInputs
SPECIFICATION Spec
INVARIANT MeaningKept
