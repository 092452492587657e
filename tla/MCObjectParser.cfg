SPECIFICATION OPSpec
CONSTANTS
    StackSize = 2
    ChunkSize = 64
    Doublings = 4
    Sizes = {24}
    KeyOutMax = 2
    Kinds = {"json", "readable", "msgpack"}
    Keys <- MCKeys
    Scalars <- MCAllScalars
    InnerScalars <- MCInnerScalars
    Counts = {0, 1, 2, 16}
    Wide = 16
    MaxDepth = 3
    MaxItems = 5
    Cuts = {0, 1, 2}
    MaxLoads = 2
    TokenBlock = 2
    MaxTokens = 3
INVARIANTS
    RoundTrip
    CutIsRefused
    AccessorsRight
    TokensLive
    ZoneInv
CHECK_DEADLOCK FALSE
