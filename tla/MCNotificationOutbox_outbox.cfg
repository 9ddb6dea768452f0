\* Two workers that may die: who sends what, how often, and that every delivery settles.
SPECIFICATION FairOutboxSpec
CONSTANTS
    d1 = d1
    d2 = d2
    w1 = w1
    w2 = w2
    Deliveries = {d1, d2}
    Workers = {w1, w2}
    MaxAttempts = 2
    BatchSize = 1
    MaxCrashes = 2
INVARIANTS
    OneSender
    AttemptsExplained
PROPERTIES
    SettledIsFinal
    EveryDeliverySettles
CHECK_DEADLOCK FALSE
