SPECIFICATION Spec
CONSTANTS
    Programs <- RThrough
    BusBytes = {0, 255}
INVARIANTS
    RefreshKeepsBit7
