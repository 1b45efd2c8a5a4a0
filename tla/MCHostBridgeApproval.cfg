CONSTANTS
    MaxCall = 2
    MaxFault = 1
    Attempts = 2
    None = None
SPECIFICATION Spec
PROPERTIES ApprovalRespected
