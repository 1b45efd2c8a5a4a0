CONSTANTS
    c1 = c1
    c2 = c2
    Conn = {c1, c2}
    Tunnelled = {c1}
    Op = {1, 2}
    Stmt = {"write"}
    Mode = {"safe", "autonomous"}
    MaxMove = 1
    EarlyLimit = 1
    DoubleClick = FALSE
SPECIFICATION MCSpec
INVARIANTS TypeOK OnlyApproved StopHeard NoLeak
PROPERTIES NoLateResult RequestsEnd
