CONSTANTS
    N = 3
    Lengths = {1, 2}
    Forward = TRUE
    FaultsAt <- MCAllCalls
    Headerless = TRUE
    MaxFaults = 1
    MaxDeaths = 1
    MaxWrites = 3
SPECIFICATION OnlineSpec
CHECK_DEADLOCK FALSE
INVARIANTS AppsSeeTheirData NoWriteLost StackSound
