CONSTANTS
    Pass = {p, q}
    K = 2
    Len = 4
    H16 = 2
    Meta = {2}
    Size = 14
    MaxOps = 4
    MaxFaults = 2
SPECIFICATION Spec
CHECK_DEADLOCK FALSE
SYMMETRY MCSymmetry
INVARIANTS LUKS1Kept DeletedKeysGone
