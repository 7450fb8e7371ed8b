CONSTANTS
    Size = 4
    IdxMod = 8
    SndBuf = 3
    Lengths = {1, 2, 3}
    Tags = 5
    MaxFail = 1
    PreemptModes = {FALSE, TRUE}
SPECIFICATION Spec
INVARIANTS
    StreamIntact
    RingHoldsTheRest
PROPERTIES
    OutputMoves
