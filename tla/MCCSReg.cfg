CONSTANTS
    Waiters = {w1, w2}
    QueueMax = 2
    MaxFrames = 4
SYMMETRY Symmetry
SPECIFICATION Spec
INVARIANTS RegInv GetNotTorn EachTakenOnce
