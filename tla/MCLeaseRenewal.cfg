CONSTANTS
    \* LeaseRenewal
    LeaseLen = 4
    Period = 2
    Backoff = 1
    ReqTimeout = 3
    Skew = 0
    MaxTime = 9
    \* WssSession
    Attempts = {"a1", "a2"}
    MaxRecords = 2
    MaxFaults = 1
SPECIFICATION ClientSpec
INVARIANT OneOwner
PROPERTIES
    LostOnlyByFault
    SessionPromise
CHECK_DEADLOCK FALSE
