CONSTANTS
    a1 = a1
    a2 = a2
    a3 = a3
    a4 = a4
    small = small
    large = large
    huge = huge
    Ids <- MCIds
    Events <- MCEvents
    Size <- MCSize
    MaxRecords = 3
    MaxBytes = 5
    MaxRecord = 2
    TTL = 1
    MaxTime = 2
SPECIFICATION Spec
SYMMETRY Symmetry
INVARIANTS
    ReservedNeverFull
    BytesExact
    Reopenable
PROPERTIES
    ImplementsStore
    TerminalNeverReplaced
