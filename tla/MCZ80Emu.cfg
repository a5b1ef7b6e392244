CONSTANTS
    Opcodes     <- MCProgram
    PCMod       =  2
    CutAnywhere =  TRUE
    Hosts       <- MCHosts
SPECIFICATION Spec
PROPERTY TStatesClocked
PROPERTY ImplementsBus
PROPERTY ImplementsControl
