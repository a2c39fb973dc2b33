SPECIFICATION Spec
CONSTANTS
    u1 = u1
    u2 = u2
    Users = {u1, u2}
    Slot <- MCSlot
    Passphrase <- MCPassphrase
    Worlds <- MCWorlds
INVARIANTS
    PassphrasesOwed
    LastOneAsked
    KeyslotsFollow
\* All commands are done.
CHECK_DEADLOCK FALSE
