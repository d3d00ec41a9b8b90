SPECIFICATION Spec
CONSTANTS
    Callers = {c1}
    MaxNodes = 0
    MaxEdges = 2
    MaxBatch = 1
    MaxRestarts = 0
PROPERTIES
    PartitionsKept
CHECK_DEADLOCK FALSE
