CONSTANTS
    Opcodes     <- MCHaltProgram
    PCMod       =  4
    Interrupts  =  TRUE
    CutAnywhere =  FALSE
SPECIFICATION Spec
PROPERTY IntReturnAddress
