SPECIFICATION Spec
CONSTANTS
    MaxNode = 10
    Regs <- ThreeRegs
    Colors <- ThreeColors
    SP = 3
    Scratch = 2
    StackParams = {}
    Class <- SmallClass
    Programs <- CopyPrograms
PROPERTY ConstrainedEndsInterfere
CHECK_DEADLOCK FALSE
