SPECIFICATION Spec
CONSTANTS
    r1 = r1
    r2 = r2
    r3 = r3
    Runs = {r1, r2, r3}
    Workers = {w1, w2}
    MaxRetries = 2
    Unregistered = {r3}
    Timeout = 1
    Lag = 0
    TTL = 1
    StoreFaults = TRUE
    Sweeping = TRUE
    MaxClock = 1
    MaxStops = 1
    NoRun = NoRun
SYMMETRY Symmetric
INVARIANTS
    TypeOK
    ExclusiveExecution
    WithinBudget
    ResultMatchesStatus
PROPERTIES
    FinalResult
    CancelledBeforeStart
    OnlyFailuresOrphan
    AtMostOnce
