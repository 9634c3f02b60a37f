SPECIFICATION Spec
CONSTANTS
    MaxNode = 20
    Regs <- TwoRegs
    Colors <- TwoColors
    SP = 2
    Scratch = 1
    StackParams = {}
    Class <- FloatClass
    Programs <- FloatPrograms
INVARIANT NewTempsAreTemporaries
CHECK_DEADLOCK FALSE
