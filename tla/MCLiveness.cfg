CONSTANTS
    a1 = a1
    a2 = a2
    w1 = w1
    k0 = k0
    k1 = k1
    NoKey = NoKey
    Keys <- MCKeys
    FirstKey = k0
    MaxRestarts = 2
    None = None
    Attempts <- MCAttempts
    TaskOf <- MCTaskOf
    Workers <- MCWorkers
    MaxRecords = 1
SPECIFICATION PartSpec
PROPERTIES
    AdmittedEnds
    CapacityReturns
    RotationResolves
CHECK_DEADLOCK FALSE
