CONSTANTS
    \* NodeManager
    MaxRuns = 2
    \* TestdataCache
    MaxVersion = 2
    \* JudgeTask
    NCases = 3
    IOScore = 4
    \* TimeoutStore
    FileIds = {"f1", "f2"}
    Ttl = 1
    \* PipeProxy
    Total = 4
    Limit = 2
    Room = 1
    \* CmdRun
    Cmds = {1, 2}
    Piped = {1}
    Ttys = {2}
    Optional = {2}
    Cached <- MCCached
    Clocked = {1}
    \* Enrollment
    NodeNames = {"n1", "n2"}
    MaxIds = 2
SPECIFICATION Spec
INVARIANTS
    OneRuntime
    DrainsWithSandbox
    DataIsWhole
    ScoreAddsUp
    TaskSettles
    OneNodePerToken
PROPERTIES
    StopEnds
    StorePromise
    ProxyPromise
    GroupPromise
CHECK_DEADLOCK FALSE
