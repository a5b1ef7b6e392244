SPECIFICATION Spec
CONSTANTS
    Programs <- StaleQ
    BusBytes = {0, 255}
PROPERTIES
    QIsLastFlagsOfAll
