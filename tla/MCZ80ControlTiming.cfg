CONSTANTS
    Opcodes     <- Bytes
    PCMod       =  1
    Interrupts  =  FALSE
    CutAnywhere =  FALSE
SPECIFICATION Spec
PROPERTY CycleOrder
PROPERTY InstrTiming
