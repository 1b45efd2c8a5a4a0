SPECIFICATION Spec
CONSTANTS
    Run = {1, 2}
    None = None
    MaxCall = 2
    MaxLife = 3
INVARIANTS
    TypeOK
    DispatchOnce
    OnlyApprovedSent
    OpenWaitIsDurable
    AnsweredOnce
    OneCreatedRunActive
PROPERTIES
    EndedIsFinal
    HostWaitEnds
CHECK_DEADLOCK FALSE
