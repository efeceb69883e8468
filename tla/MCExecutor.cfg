CONSTANTS
    \* ExecWorker
    Batch = {"r1", "r2"}
    Interactive = {"i1"}
    CmdCount <- MCCmdCount
    Loops = {"l1"}
    MaxWaiting = 1
    MaxEnvs = 4
    None = "none"
    \* WsRequests
    Reqs = {"r1", "r2"}
    IdOf <- MCIdOf
    ResultCap = 1
    NoCancel = "nil"
    \* StreamSession
    MaxOut = 2
SPECIFICATION Spec
INVARIANTS
    ContainersAccounted
    ShutdownDrains
    CancelledNeverRuns
    OutputBeforeResponse
PROPERTIES
    ImplementsService
    HandlersEnd
    SessionEnds
    GracefulShutdown
CHECK_DEADLOCK FALSE
