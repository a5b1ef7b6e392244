CONSTANTS
    Opcodes     <- MCInterruptProgram
    PCMod       =  4
    Interrupts  =  TRUE
    CutAnywhere =  FALSE
SPECIFICATION FairSpec
INVARIANT TypeOK
INVARIANT FetchStartsDecode
PROPERTY InstrTiming
PROPERTY NoInterruptInside
PROPERTY EIDefersINT
PROPERTY ReturnAddress
PROPERTY InterruptServed
PROPERTY RetnRestores
PROPERTY NmiTaken
