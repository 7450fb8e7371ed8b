SPECIFICATION FairSpec
CONSTANTS
    AddrBits = 3
    ByteBits = 3
    MacLen = 2
    Epi <- MCEpi
    Contents <- MCContents
    NRx = 2
    MboxSize = 2
    MsgPool = 2
INVARIANTS
    StackReady
    NoFrameForgotten
PROPERTIES
    BootCompletes
    LinkFollows
