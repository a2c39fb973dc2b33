CONSTANTS
    c1 = c1  c2 = c2  c3 = c3
    u1 = u1  u2 = u2  u3 = u3
    Ctx <- MCCtx
    Update <- MCUpdate
    Worlds <- MCWorlds
SPECIFICATION FairSpec
CHECK_DEADLOCK FALSE
INVARIANTS HeaderKept HeaderIOExclusive
PROPERTIES ImplementsStore LoadHeals CallReturns
