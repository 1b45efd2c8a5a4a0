CONSTANTS
    t1 = t1
    t2 = t2
    t3 = t3
    Thread = {t1, t2, t3}
    Saver = {t1}
    Record = {1, 2}
    MaxCrash = 2
    MaxFail = 1
SPECIFICATION MCSpec
INVARIANTS TypeOK AckedSurvives
PROPERTIES ImplementsRegister CrashesKeepRecords
