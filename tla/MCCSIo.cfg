CONSTANTS
    MapCount = 4
    SeqMod = 8
    IndexMod = 8
    Horizon = 2
    MaxMade = 10
SPECIFICATION Spec
INVARIANTS TableInv NoDuplicate MissedOnlyByAlias
