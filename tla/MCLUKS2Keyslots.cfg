CONSTANTS
    Ctx = {c1, c2}
    Slot = {0, 1}
    Digest = {0, 1}
    Token = {0}
    Pass = {p, q}
    Key = {old, new}
    FirstKey = old
    AreaLen <- MCAreaLen
    Units = 3
    JsonMax = 5
    Careless = {}
    MaxOps = 3
    MaxFaults = 1
SPECIFICATION KeyslotsSpec
CHECK_DEADLOCK FALSE
SYMMETRY MCSymmetry
INVARIANTS PassphrasesKept RevokedGone MetadataTrue
