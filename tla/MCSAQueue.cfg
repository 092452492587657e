CONSTANTS
    Data = {z, a, b}
    Zero = z
    None = none
    MaxCount = 4
    WordMod = 16
SPECIFICATION Spec
INVARIANT RingInv
PROPERTY ImplementsDeque
