CONSTANTS
    Opcodes     <- MCHoleProgram
    PCMod       =  4
    Interrupts  =  FALSE
    CutAnywhere =  FALSE
SPECIFICATION Spec
INVARIANT NoThrow
