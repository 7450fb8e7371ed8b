CONSTANTS
    BufLen = 8
    Base = 8
    SubCap = 9
    Lengths = {0, 1, 3, 4, 5, 9, 10}
    MaxMsgs = 2
    MaxOther = 1
SPECIFICATION Spec
INVARIANTS
    OnlyEmptyRefused
PROPERTIES
    ChannelRefined
