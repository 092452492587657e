CONSTANTS
    o1 = o1
    o2 = o2
    v1 = v1
    v2 = v2
    v3 = v3
    Objs <- TwoObjs
    AckRegs <- TwoRegs
    RegOf <- OneReg
    Values <- ThreeValues
    Hash <- HashOf3
    Tries = 2
    MaxCalls = 1
SPECIFICATION AckFairSpec
INVARIANTS AckInv HitMeansReceived
PROPERTIES AckNeverMissed CallReturns
CHECK_DEADLOCK FALSE
