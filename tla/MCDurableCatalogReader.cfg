CONSTANTS
    t1 = t1
    t2 = t2
    t3 = t3
    Thread = {t1, t2}
    Saver = {t1}
    Record = {1, 2}
    MaxCrash = 0
    MaxFail = 0
SPECIFICATION Spec
INVARIANTS AckedSurvives
