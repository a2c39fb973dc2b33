CONSTANTS
    c1 = c1  c2 = c2
    i1 = i1  i2 = i2  i3 = i3
    NoInode = NoInode
    Ctx <- Ctx2
    Inode <- Inode3
    Removable = TRUE
    Nestable = TRUE
    Blocking <- AnyBlocking
    MaxRef = 2
    MaxFault = 2
SPECIFICATION FairSpec
INVARIANTS TypeOK HolderAtPath UnlinksOwnFile
PROPERTIES ImplementsRWLock LockIsGranted
