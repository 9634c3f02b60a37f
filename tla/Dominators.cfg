CONSTANTS
    MaxBlocks = 4
    Graphs <- MCGraphs
SPECIFICATION Spec
INVARIANTS
    TypeOK
    ImmediateRight
    DominatorsRight
    FrontierRight
    OperatorsAgree
PROPERTIES
    AnalysisEnds
    ImplementsDominance
