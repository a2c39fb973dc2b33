CONSTANTS
    N = 4
    Zone = 2
    Worlds <- MCWorlds
SPECIFICATION FairSpec
CHECK_DEADLOCK FALSE
INVARIANTS DataKept KeysInOrder
PROPERTIES ProgressKept ReencryptFinishes
