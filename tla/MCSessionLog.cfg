CONSTANTS
    Retain = 1
    MinCompact = 4
    FallbackKeep = 1
    MaxSaid = 4
    MaxCall = 2
    MaxReload = 1
SPECIFICATION MCSpec
INVARIANTS
    TypeOK
    OnlySummariesOmit
    SampledPaired
PROPERTIES
    TailKept
CHECK_DEADLOCK FALSE
