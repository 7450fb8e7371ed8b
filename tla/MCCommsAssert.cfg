CONSTANTS
    WakeModes = {TRUE}
    OutCap = 3
    SndBuf = 2
    MaxReq = 4
    ConnectTicks = 3
    InCap = 3
    MaxFaults = 3
SPECIFICATION Spec
INVARIANTS
    OutputHasConnection
