-------------------------- MODULE DeviceLockProofs --------------------------
(***************************************************************************)
(* Proofs about DeviceLock, for any number of contexts, any pool of inodes *)
(* and any bounds: the file-based protocol keeps a writer alone and        *)
(* implements the readers/writer lock of RWLock.                           *)
(*                                                                         *)
(* Neither property is inductive.  The argument is that a file loses its   *)
(* name only through a context that has the exclusive flock on it, so the  *)
(* inode of a verified holder stays at the path, hence all holders hold    *)
(* their flock on one and the same inode, where the kernel excludes them.  *)
(***************************************************************************)
EXTENDS DeviceLock, TLAPS

(* A context has a descriptor exactly between open and close.              *)
FdOpen == \A c \in Ctx : fd[c] = NoInode <=> pc[c] \in {"idle", "open"}

(* The flock a context has at each point of the code.                      *)
FlockAt ==
    \A c \in Ctx :
        /\ pc[c] \in {"idle", "open", "flock", "dropflock"} => flk[c] = "UN"
        /\ pc[c] \in {"verify", "held"} => flk[c] = FlockOf(type[c])
        /\ pc[c] \in {"dropstat", "unlink"} => flk[c] = "EX"

(* The kernel's guarantee: an exclusive flock is alone on its inode.       *)
FlockExclusive ==
    \A c, d \in Ctx :
        c # d /\ fd[c] # NoInode /\ fd[c] = fd[d] /\ flk[c] = "EX"
            => flk[d] = "UN"

(* A handle is referenced exactly while it is held.                        *)
Counted == \A c \in Ctx : IF pc[c] = "held" THEN refcnt[c] > 0 ELSE refcnt[c] = 0

UnlinkAtPath == \A c \in Ctx : pc[c] = "unlink" => path = fd[c]

(* A regular file is neither created nor removed by the protocol.          *)
FileStays ==
    ~Removable =>
        /\ path # NoInode
        /\ \A c \in Ctx : /\ fd[c] # NoInode => fd[c] = path
                          /\ pc[c] \notin {"dropstat", "unlink"}

LockInv ==
    /\ TypeOK
    /\ FdOpen
    /\ FlockAt
    /\ FlockExclusive
    /\ Counted
    /\ UnlinkAtPath
    /\ FileStays
    /\ HolderAtPath

(* The invariant holds before any context asks for the lock.              *)
LEMMA InitLockInv == Init => LockInv
  BY ConstantsOK DEF Init, LockInv, TypeOK, FdOpen, FlockAt, FlockExclusive,
     Counted, UnlinkAtPath, FileStays, HolderAtPath, Steps

(* Every system call of the locking code preserves the invariant.          *)
LEMMA StepLockInv == LockInv /\ [Next]_vars => LockInv'
<1> USE ConstantsOK DEF LockInv, TypeOK, FdOpen, FlockAt, FlockExclusive,
     Counted, UnlinkAtPath, FileStays, HolderAtPath, Steps, FlockOf, Goto,
     SameInode
<1> SUFFICES ASSUME LockInv, [Next]_vars PROVE LockInv'
  OBVIOUS
<1>1. ASSUME NEW c \in Ctx, NEW t \in {"READ", "WRITE"}, NEW b \in Blocking,
             Request(c, t, b)
      PROVE  LockInv'
  BY <1>1 DEF Request
<1>2. ASSUME NEW c \in Ctx, NEW t \in {"READ", "WRITE"}, Nest(c, t)
      PROVE  LockInv'
  BY <1>2 DEF Nest
<1>3. ASSUME NEW c \in Ctx, OpenHandle(c) PROVE LockInv'
  BY <1>3 DEF OpenHandle, FreeInode
<1>4. ASSUME NEW c \in Ctx, Flock(c) PROVE LockInv'
  BY <1>4 DEF Flock, FlockFree
<1>5. ASSUME NEW c \in Ctx, FlockBusy(c) PROVE LockInv'
  BY <1>5 DEF FlockBusy
<1>6. ASSUME NEW c \in Ctx, FlockInterrupted(c) PROVE LockInv'
  BY <1>6 DEF FlockInterrupted
<1>7. ASSUME NEW c \in Ctx, Verify(c) PROVE LockInv'
  <2>1. fd[c] # NoInode /\ (~Removable => path = fd[c])
    BY <1>7 DEF Verify
  <2>2. CASE path = fd[c]
    BY <1>7, <2>2 DEF Verify
  <2>3. CASE path # fd[c]
    <3>1. /\ flk' = [flk EXCEPT ![c] = "UN"]
          /\ again' = [again EXCEPT ![c] = TRUE]
          /\ pc' = [pc EXCEPT ![c] = "dropflock"]
          /\ pc[c] = "verify"
          /\ UNCHANGED <<path, fd, type, wait, refcnt, faults>>
      BY <1>7, <2>1, <2>3, Zenon DEF Verify
    <3> QED
      BY <3>1
  <2> QED
    BY <2>2, <2>3
<1>8. ASSUME NEW c \in Ctx, Unlock(c) PROVE LockInv'
  BY <1>8 DEF Unlock
<1>9. ASSUME NEW c \in Ctx, DropFlock(c) PROVE LockInv'
  BY <1>9 DEF DropFlock, FlockFree
<1>10. ASSUME NEW c \in Ctx, DropStat(c) PROVE LockInv'
  BY <1>10 DEF DropStat
<1>11. ASSUME NEW c \in Ctx, Unlink(c) PROVE LockInv'
  BY <1>11 DEF Unlink
<1>12. ASSUME NEW c \in Ctx, CloseHandle(c) PROVE LockInv'
  <2>1. /\ again' = again
        /\ type' \in [Ctx -> {"READ", "WRITE"}]
        /\ wait' \in [Ctx -> BOOLEAN]
    BY <1>12 DEF CloseHandle, Forget
  <2>2. /\ pc[c] = "close"
        /\ fd' = [fd EXCEPT ![c] = NoInode]
        /\ flk' = [flk EXCEPT ![c] = "UN"]
        /\ \/ pc' = [pc EXCEPT ![c] = "open"]
           \/ pc' = [pc EXCEPT ![c] = "idle"]
        /\ type' = type \/ type' = [type EXCEPT ![c] = "READ"]
        /\ UNCHANGED <<path, refcnt, faults>>
    BY <1>12, Zenon DEF CloseHandle, Forget
  <2>3. \A d \in Ctx : d # c => pc'[d] = pc[d] /\ type'[d] = type[d]
    BY <2>2
  <2> QED
    BY <2>1, <2>2, <2>3
<1>13. ASSUME NEW c \in Ctx, Die(c) PROVE LockInv'
  BY <1>13 DEF Die, Forget
<1>14. CASE UNCHANGED vars
  BY <1>14 DEF vars
<1> QED
  BY <1>1, <1>2, <1>3, <1>4, <1>5, <1>6, <1>7, <1>8, <1>9, <1>10, <1>11,
     <1>12, <1>13, <1>14 DEF Next, CtxNext, Proceed

(* Type correctness of the locking protocol.                               *)
THEOREM LockTypeCorrect == Spec => []TypeOK
<1>1. LockInv => TypeOK
  BY DEF LockInv
<1> QED
  BY InitLockInv, StepLockInv, <1>1, PTL DEF Spec

(* While a lock is held the resource path names the locked inode: what     *)
(* device_locked_verify tests when a locked device is opened never fails.  *)
THEOREM LockHolderAtPath == Spec => []HolderAtPath
<1>1. LockInv => HolderAtPath
  BY DEF LockInv
<1> QED
  BY InitLockInv, StepLockInv, <1>1, PTL DEF Spec

(* The stat-then-unlink sequence of release_lock_handle removes the file   *)
(* it compared, and nobody else has a flock on it.                         *)
THEOREM LockUnlinkSafe == Spec => []UnlinksOwnFile
<1>1. LockInv => UnlinksOwnFile
  BY ConstantsOK DEF LockInv, UnlinksOwnFile, UnlinkAtPath, FlockAt,
     FlockExclusive, FdOpen, TypeOK, Steps
<1> QED
  BY InitLockInv, StepLockInv, <1>1, PTL DEF Spec

-----------------------------------------------------------------------------
(* A lock handed out is compatible with the locks other contexts have: all *)
(* of them are flocks on the inode at the path.                            *)
LEMMA GrantIsCompatible ==
  ASSUME LockInv, NEW c \in Ctx, pc[c] = "verify", path = fd[c]
  PROVE  Lock!Grantable(HeldBy, c, type[c])
  BY ConstantsOK DEF LockInv, TypeOK, FdOpen, FlockAt, FlockExclusive,
     HolderAtPath, SameInode, Lock!Grantable, HeldBy, FlockOf, Steps

(* The file-based lock is a readers/writer lock: every grant happens when  *)
(* the locks of the other contexts allow it, and nothing else changes what *)
(* a context holds.                                                        *)
THEOREM LockRefines == Spec => ImplementsRWLock
<1>1. Init => Lock!Init
  BY DEF Init, Lock!Init, HeldBy
<1>2. ASSUME LockInv, [Next]_vars
      PROVE  [Lock!Next]_HeldBy
  <2> USE <1>2 DEF LockInv, TypeOK, HeldBy, Goto
  <2>0. ASSUME pc' = pc, \A d \in Ctx : pc[d] = "held" => type'[d] = type[d]
        PROVE  HeldBy' = HeldBy
    BY <2>0
  <2>1. ASSUME NEW c \in Ctx, NEW l \in Steps \ {"held"},
               pc' = [pc EXCEPT ![c] = l], pc[c] # "held",
               \A d \in Ctx \ {c} : type'[d] = type[d]
        PROVE  HeldBy' = HeldBy
    BY <2>1
  <2>2. ASSUME NEW c \in Ctx, NEW l \in Steps \ {"held"},
               pc' = [pc EXCEPT ![c] = l], pc[c] = "held",
               \A d \in Ctx \ {c} : type'[d] = type[d]
        PROVE  Lock!Release(c)
    <3>1. HeldBy' = [HeldBy EXCEPT ![c] = "none"]
      BY <2>2
    <3>2. HeldBy[c] # "none"
      BY <2>2
    <3> QED
      BY <3>1, <3>2 DEF Lock!Release
  <2>3. ASSUME NEW c \in Ctx, NEW t \in {"READ", "WRITE"},
               Nest(c, t) \/ \E b \in Blocking : Request(c, t, b)
        PROVE  HeldBy' = HeldBy
    <3>1. CASE Nest(c, t)
      BY <2>0, <3>1 DEF Nest
    <3>2. ASSUME NEW b \in Blocking, Request(c, t, b) PROVE HeldBy' = HeldBy
      BY <2>1, <3>2 DEF Request, Steps
    <3> QED
      BY <2>3, <3>1, <3>2
  <2>4. ASSUME NEW c \in Ctx, OpenHandle(c) PROVE HeldBy' = HeldBy
    BY <2>1, <2>4 DEF OpenHandle, Steps
  <2>5. ASSUME NEW c \in Ctx, Flock(c) PROVE HeldBy' = HeldBy
    BY <2>1, <2>5 DEF Flock, Steps
  <2>6. ASSUME NEW c \in Ctx, FlockBusy(c) \/ FlockInterrupted(c)
        PROVE  HeldBy' = HeldBy
    BY <2>1, <2>6 DEF FlockBusy, FlockInterrupted, Steps
  <2>7. ASSUME NEW c \in Ctx, Verify(c)
        PROVE  HeldBy' = HeldBy \/ Lock!Acquire(c, type[c])
    <3>1. CASE /\ ~Removable \/ SameInode(c)
               /\ pc' = [pc EXCEPT ![c] = "held"]
      <4>1. path = fd[c] /\ pc[c] = "verify" /\ type' = type
        BY <2>7, <3>1 DEF Verify, FileStays, FdOpen, SameInode
      <4>2. Lock!Grantable(HeldBy, c, type[c])
        BY <4>1, GrantIsCompatible
      <4>3. HeldBy[c] = "none" /\ HeldBy' = [HeldBy EXCEPT ![c] = type[c]]
        BY <3>1, <4>1
      <4> QED
        BY <4>2, <4>3 DEF Lock!Acquire
    <3>2. CASE pc' = [pc EXCEPT ![c] = "dropflock"]
      BY <2>1, <2>7, <3>2 DEF Verify, Steps
    <3> QED
      BY <2>7, <3>1, <3>2, Zenon DEF Verify
  <2>8. ASSUME NEW c \in Ctx, Unlock(c) PROVE HeldBy' = HeldBy \/ Lock!Release(c)
    BY <2>0, <2>2, <2>8 DEF Unlock, Steps
  <2>9. ASSUME NEW c \in Ctx, DropFlock(c) \/ DropStat(c) \/ Unlink(c)
        PROVE  HeldBy' = HeldBy
    BY <2>1, <2>9 DEF DropFlock, DropStat, Unlink, Steps
  <2>10. ASSUME NEW c \in Ctx, CloseHandle(c) PROVE HeldBy' = HeldBy
    <3>1. /\ pc[c] = "close"
          /\ \/ pc' = [pc EXCEPT ![c] = "open"]
             \/ pc' = [pc EXCEPT ![c] = "idle"]
          /\ type' = type \/ type' = [type EXCEPT ![c] = "READ"]
      BY <2>10, Zenon DEF CloseHandle, Forget
    <3>2. \A d \in Ctx \ {c} : type'[d] = type[d]
      BY <3>1
    <3> QED
      BY <2>1, <3>1, <3>2 DEF Steps
  <2>11. ASSUME NEW c \in Ctx, Die(c) PROVE HeldBy' = HeldBy \/ Lock!Release(c)
    BY <2>1, <2>2, <2>11 DEF Die, Forget, Steps
  <2>12. CASE UNCHANGED vars
    BY <2>0, <2>12 DEF vars
  <2>13. \A c \in Ctx : type[c] \in Lock!LockType
    BY DEF Lock!LockType
  <2>14. ASSUME NEW c \in Ctx, CtxNext(c)
         PROVE  HeldBy' = HeldBy \/ Lock!Acquire(c, type[c]) \/ Lock!Release(c)
    <3> HIDE DEF HeldBy, LockInv, TypeOK
    <3> QED
      BY <2>3, <2>4, <2>5, <2>6, <2>7, <2>8, <2>9, <2>10, <2>11, <2>14
      DEF CtxNext, Proceed
  <2> HIDE DEF HeldBy
  <2> QED
    BY <2>12, <2>13, <2>14 DEF Next, Lock!Next
<1> QED
  BY <1>1, <1>2, InitLockInv, StepLockInv, PTL
  DEF Spec, ImplementsRWLock, Lock!Spec
=============================================================================
