CONSTANTS
    Opcodes     <- MCInterruptProgram
    PCMod       =  4
    Interrupts  =  FALSE
    CutAnywhere =  TRUE
SPECIFICATION Spec
INVARIANT FetchStartsDecode
