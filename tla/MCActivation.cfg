CONSTANTS
    Proc = {p, q}
    Kinds = {"crypt", "integrity", "tcrypt"}
    FaultsAt <- MCUndone
    Careless = {"crypt", "integrity"}
    Twins = {"refresh"}
    MaxCalls = 4
    MaxFaults = 1
    MaxDeaths = 1
SPECIFICATION ActivationSpec
CHECK_DEADLOCK FALSE
SYMMETRY MCSymmetry
INVARIANTS RunsWithVolumeKey  StackSound
