SPECIFICATION Spec
CONSTANTS
    r1 = r1
    r2 = r2
    r3 = r3
    Runs = {r1, r2, r3}
    Workers = {w1, w2}
    MaxRetries = 2
    Unregistered = {r3}
    Timeout = 1
    Lag = 1
    TTL = 1
    StoreFaults = FALSE
    Sweeping = FALSE
    MaxClock = 2
    MaxStops = 0
    NoRun = NoRun
PROPERTY
    CancelledIsFinal
