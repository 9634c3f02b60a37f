SPECIFICATION FairSpec
CONSTANTS
    MaxNode = 20
    Regs <- TwoRegs
    Colors <- TwoColors
    SP = 2
    Scratch = 1
    StackParams = {3}
    Class <- AllClass
    Programs <- SpillPrograms
INVARIANTS
    TypeOK
    NoNodeLost
    AllocationSound
PROPERTIES
    RoundsEnd
    Terminates
CHECK_DEADLOCK FALSE
