CONSTANTS
    HoldCount = 2
    CountMod = 5
    FlgMod = 4
    MaxValue = 10
SPECIFICATION PadSpec
INVARIANTS PadInv NoTornRead
