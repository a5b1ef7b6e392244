CONSTANTS
    Opcodes     <- MCInterruptProgram
    PCMod       =  4
    Interrupts  =  TRUE
    CutAnywhere =  FALSE
SPECIFICATION Spec
PROPERTY InterruptNeverDropped
