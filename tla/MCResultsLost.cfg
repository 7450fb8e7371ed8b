CONSTANTS
    NDesc = 2
    Frames = 3
    MaxPolls = 3
    Headroom = 56
    HdrRoom = 36
    UDP_HLEN = 8
    IP_HLEN = 20
    SIZEOF_ETH_HDR = 14
    MaxLost = 2
SPECIFICATION Spec
INVARIANT
    NoResultLost
