CONSTANTS
    LeaseLen = 4
    Period = 2
    Backoff = 1
    ReqTimeout = 3
    Skew = 0
    MaxTime = 9
SPECIFICATION Spec
INVARIANT ExecutorFollowsRegistry
