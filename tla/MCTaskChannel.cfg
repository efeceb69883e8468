CONSTANTS
    a1 = a1
    a2 = a2
    b1 = b1
    w1 = w1
    w2 = w2
    None = None
    Attempts <- MCAttempts
    TaskOf <- MCTaskOf
    Workers <- MCWorkers
    MaxRecords = 2
SPECIFICATION BoundedSpec
SYMMETRY Symmetry
INVARIANTS
    ExactlyOneHolder
    NoReservationLeak
    FullOnlyAfterReadmission
    ResumeFence
PROPERTY DrainIsFinal
