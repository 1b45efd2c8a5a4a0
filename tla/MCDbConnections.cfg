CONSTANTS
    t1 = t1
    t2 = t2
    a = a
    b = b
    Task = {t1}
    Conn = {a, b}
    Target = {"x", "y"}
    Optional = {"y"}
    Pw = {1, 2}
    Trim <- MCTrim
    MaxCommand = 3
    MaxFault = 2
SPECIFICATION Spec
CHECK_DEADLOCK FALSE
INVARIANTS TypeOK  ProbedTogether
