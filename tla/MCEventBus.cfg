SPECIFICATION Spec
CONSTANTS
    Topics = {t1, t2}
    Dlqs = {dead, spare}
    NoDlq = NoDlq
    Calls = {c1, c2}
    MaxHandlers = 3
    MaxResets = 1
SYMMETRY Symmetric
INVARIANTS
    TypeOK
    IdsNotReused
    FanOutComplete
    ParkedExactly
