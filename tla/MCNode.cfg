CONSTANTS
    \* KeyRotation
    k0 = k0
    k1 = k1
    k2 = k2
    NoKey = NoKey
    Keys <- MCKeys
    FirstKey = k0
    MaxRestarts = 2
    \* NodeConsole
    Saves = {"s1", "s2"}
    Drains = {1, 20}
    MaxBoots = 1
    \* TaskChannel
    a1 = a1
    a2 = a2
    b1 = b1
    b2 = b2
    w1 = w1
    None = None
    Attempts <- MCAttempts
    TaskOf <- MCTaskOf
    Workers <- MCWorkers
    MaxRecords = 4
SPECIFICATION PartSpec
SYMMETRY Symmetry
INVARIANTS
    NeverLockedOut

    ChannelHasRoom
    ConfigKept
    ExitDrained
PROPERTIES
    KeyNotDroppedEarly
    ImplementsHandover
CHECK_DEADLOCK FALSE
