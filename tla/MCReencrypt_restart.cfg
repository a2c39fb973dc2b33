CONSTANTS
    N = 4
    Zone = 2
    Worlds <- MCRestart
SPECIFICATION Spec
CHECK_DEADLOCK FALSE
INVARIANT RecoveryKeepsData
