SPECIFICATION Spec
CONSTANTS
    c1 = c1
    c2 = c2
    c3 = c3
    Callers = {c1, c2, c3}
    Lease = 2
    FunctionTimeout = 1
    MaxTries = 4
    MaxTime = 2
SYMMETRY Symmetric
INVARIANTS
    TypeOK
    SoleHolder
    ContentionIsSettled
PROPERTIES
    DeliveredIsPermanent
    ImplementsAtomicLedger
CHECK_DEADLOCK FALSE
