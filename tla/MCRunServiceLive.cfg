SPECIFICATION FairSpec
CONSTANTS
    r1 = r1
    r2 = r2
    r3 = r3
    Runs = {r1, r3}
    Workers = {w1, w2}
    MaxRetries = 2
    Unregistered = {r3}
    Timeout = 1
    Lag = 1
    TTL = 2
    StoreFaults = TRUE
    Sweeping = TRUE
    MaxClock = 1
    MaxStops = 1
    NoRun = NoRun
PROPERTIES
    ExpiryTakesOnlyOrphans
    EveryRunSettles
    WorkersComeBack
CHECK_DEADLOCK FALSE
