SPECIFICATION Spec
CONSTANTS
    Programs <- MCPrograms
    BusBytes = {0, 255}
INVARIANTS
    TypeOK
    DecimalAdjust
    BlockVerdict
    InversesCancel
    LoopRounds
    RefreshCounts
PROPERTIES
    QIsLastFlags
    ByteArithmetic
    WideArithmetic
    ShiftsMoveBits
    IndexedApart
    HandlerReturns
    BlockTransfer
    BlockEnds
