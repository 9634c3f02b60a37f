SPECIFICATION FairSpec
CONSTANTS
    Class <- Operands
    Programs <- AllPrograms
INVARIANTS
    TypeOK
    LiveOutIsMeaning
    LiveOutIsClosedForm
    LeastSolution
PROPERTIES
    Terminates
    AnalysisEnds
CHECK_DEADLOCK FALSE
