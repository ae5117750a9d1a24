CONSTANTS
    Keys = {k1, k2}
    NoEntry = NoEntry
    MaxHits = 2
    Window = 3
    PruneAge = 3
    PruneThreshold = 2
    MaxTime = 8
SPECIFICATION Spec
INVARIANTS
    TypeOK
    BurstBounded
    DenialJustified
    RetryAfterHonoured
CHECK_DEADLOCK FALSE
