CONSTANTS
    Fuel = 60
    Programs <- Identities
    Inputs <- AllInputs
SPECIFICATION Spec
INVARIANT MeaningKept
