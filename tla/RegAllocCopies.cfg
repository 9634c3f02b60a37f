SPECIFICATION Spec
CONSTANTS
    MaxNode = 10
    Regs <- ThreeRegs
    Colors <- ThreeColors
    SP = 3
    Scratch = 2
    StackParams = {}
    Class <- SmallClass
    Programs <- CopyPrograms
INVARIANTS
    MovesKnownToRoots
    NoMoveLeft
    CoalescedApart
    ProperColouring
PROPERTY RoundsEnd
CHECK_DEADLOCK FALSE
