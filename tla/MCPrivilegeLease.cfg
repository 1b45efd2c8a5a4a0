SPECIFICATION Spec
CONSTANTS
    l1 = l1
    a1 = a1
    a2 = a2
    k1 = k1
    k2 = k2
    Lease = {l1}
    Action = {a1, a2}
    Call = {k1, k2}
    NoLease = NoLease
    Absent = Absent
    MaxTime = 2
    MaxExec = 2
    MaxGrant = 3
    MaxRun = 5
INVARIANTS
    TypeOK
    SuccessWithinGrant
    NeverExhaustedInMap
    RunsWhatWasApproved
    RunsPerExecution
PROPERTIES
    EveryCallReturns
