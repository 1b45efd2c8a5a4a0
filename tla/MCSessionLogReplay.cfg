CONSTANTS
    Retain = 1
    MinCompact = 2
    FallbackKeep = 1
    MaxSaid = 3
    MaxCall = 2
    MaxReload = 1
SPECIFICATION Spec
INVARIANTS ReplayIsSurface
CHECK_DEADLOCK FALSE
