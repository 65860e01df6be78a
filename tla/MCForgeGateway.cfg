SPECIFICATION FairSpec
CONSTANTS
    Clients = {c1, c2, c3}
    Requests = {r1, r2}
    RateLimit = 2
    RateWindow = 2
    MaxTracked = 2
    ConversionTimeout = 1
    RemoteConfigured = TRUE
    MaxCount = 3
    MaxTime = 2
INVARIANTS TypeOK QuotaOverAnyWindow TableBounded ConversionBounded
PROPERTIES RefusalIsJustified ConversionEnds
CHECK_DEADLOCK FALSE
