CONSTANTS
    MaxReq = 3
    ReqTimeout = 3
    PreemptModes = {FALSE, TRUE}
    MaxNow = 4
    MaxDiff = 7
SPECIFICATION Spec
INVARIANTS
    ListIsSound
    TimeBeforeInBound
    NoSlotLost
PROPERTIES
    QueueRefined
