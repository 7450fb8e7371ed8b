CONSTANTS
    WakeModes = {FALSE, TRUE}
    OutCap = 3
    SndBuf = 2
    MaxReq = 4
    ConnectTicks = 3
    InCap = 3
    MaxFaults = 3
SPECIFICATION FairSpec
INVARIANTS
    QuietOutputHasConnection
    QuietAnswerIsForThisAttempt
    DataCallbackSet
    WaitHasAttempt
    OnlineIsServed
    ConnectFirst
    TimerMatchesState
PROPERTIES
    Recovers
