CONSTANTS
    GwCount = 2
    Stranger = stranger
    Nobody = nobody
    Callers = {a}
    MaxCalls = 2
    Powers <- SomePowers
    Numbers = {8, 9}
SPECIFICATION FairSpec
INVARIANTS MotorInv CoefReport PowerFaithful
PROPERTIES SafetyReachesGateways CoefReturns
