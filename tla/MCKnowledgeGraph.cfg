SPECIFICATION Spec
CONSTANTS
    Callers = {c1, c2}
    MaxNodes = 4
    MaxEdges = 1
    MaxBatch = 2
    MaxRestarts = 1
SYMMETRY Symmetric
INVARIANTS
    TypeOK
    NodesKept
    NodesStoredOnce
PROPERTIES
    NodePartitionsKept
CHECK_DEADLOCK FALSE
