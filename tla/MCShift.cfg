SPECIFICATION Spec
CONSTANTS
    Shift = 2
    Worlds <- MCWorlds
INVARIANTS
    
    NoPlaintextLeft
PROPERTY EncryptionFinishes
\* An encrypted device: the process may stop for good.
CHECK_DEADLOCK FALSE
