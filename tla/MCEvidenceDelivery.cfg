SPECIFICATION LiveSpec
CONSTANTS
    e1 = e1
    e2 = e2
    Events = {e1, e2}
    Sinks = {"response", "indexer_ack", "stream"}
    MaxAttempts = 3
    MaxPolls = 2
    Timeout = 2
    MaxTime = 3
INVARIANTS
    TypeOK
    SuccessIsConfirmed
    RepeatsAreJustified
    RetryableIsExhausted
PROPERTIES
    DeliverySettles
    ImplementsAtomicDelivery
CHECK_DEADLOCK FALSE
