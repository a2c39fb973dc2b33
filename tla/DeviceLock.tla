----------------------------- MODULE DeviceLock -----------------------------
(***************************************************************************)
(* The lock of one resource as lib/utils_device_locking.c implements it,   *)
(* one action per system call.                                             *)
(*                                                                         *)
(* For a block device or a named resource the lock is flock(2) on a file   *)
(* in the locking directory, opened with O_CREAT and removed again by the  *)
(* context that drops it (Removable = TRUE).  A context may thus open a    *)
(* file, and get the flock on it only after another one removed it from    *)
(* the directory: acquire_and_verify compares the inode it locked with the *)
(* inode at the path and starts over when they differ.  For a regular file *)
(* with a header the flock is on that file and nothing is removed          *)
(* (Removable = FALSE).                                                    *)
(*                                                                         *)
(* An inode number is free again as soon as the file has no name and no    *)
(* descriptor, so a small pool of inodes models their reuse.               *)
(***************************************************************************)
EXTENDS Naturals

CONSTANTS
    Ctx,            \* contexts: struct device, or users of a named lock
    Inode,          \* inode numbers of the file system of the lock directory
    NoInode,        \* no file at the path / no open descriptor
    Removable,      \* TRUE: DEV_LOCK_BDEV, DEV_LOCK_NAME; FALSE: DEV_LOCK_FILE
    Nestable,       \* TRUE: device locks, counted; FALSE: named locks
    Blocking,       \* set of BOOLEAN: may callers wait in flock, or use LOCK_NB
    MaxRef,         \* bound on the nesting depth of one handle
    MaxFault        \* bound on process deaths and interrupted flock calls

ASSUME ConstantsOK ==
    /\ NoInode \notin Inode
    /\ Inode # {}
    /\ Removable \in BOOLEAN /\ Nestable \in BOOLEAN
    /\ Blocking \subseteq BOOLEAN
    /\ MaxRef \in Nat \ {0}
    /\ MaxFault \in Nat

VARIABLES
    path,           \* inode the resource path names, or NoInode
    fd,             \* fd[c]: inode of h->flock_fd, or NoInode
    flk,            \* flk[c]: flock on that open file description
    pc,             \* pc[c]: the system call c makes next
    type,           \* type[c]: h->type wanted or held
    wait,           \* wait[c]: the call may block (no LOCK_NB)
    again,          \* again[c]: the do/while of acquire_and_verify repeats
    refcnt,         \* refcnt[c]: h->refcnt
    faults

vars == <<path, fd, flk, pc, type, wait, again, refcnt, faults>>

Steps == {"idle", "open", "flock", "verify", "held",
          "dropflock", "dropstat", "unlink", "close"}

(* Mutation: writers take a shared flock too.                              *)
FlockOfShared(t) == "SH"

FlockOf(t) == IF t = "WRITE" THEN "EX" ELSE "SH"

TypeOK ==
    /\ path \in Inode \cup {NoInode}
    /\ fd \in [Ctx -> Inode \cup {NoInode}]
    /\ flk \in [Ctx -> {"UN", "SH", "EX"}]
    /\ pc \in [Ctx -> Steps]
    /\ type \in [Ctx -> {"READ", "WRITE"}]
    /\ wait \in [Ctx -> BOOLEAN]
    /\ again \in [Ctx -> BOOLEAN]
    /\ refcnt \in [Ctx -> 0..MaxRef]
    /\ faults \in 0..MaxFault

(* The regular file exists before it is locked, a resource file does not.  *)
Init ==
    /\ IF Removable THEN path = NoInode ELSE path \in Inode
    /\ fd = [c \in Ctx |-> NoInode]
    /\ flk = [c \in Ctx |-> "UN"]
    /\ pc = [c \in Ctx |-> "idle"]
    /\ type = [c \in Ctx |-> "READ"]
    /\ wait = [c \in Ctx |-> TRUE]
    /\ again = [c \in Ctx |-> FALSE]
    /\ refcnt = [c \in Ctx |-> 0]
    /\ faults = 0

Goto(c, l) == pc' = [pc EXCEPT ![c] = l]

(* The kernel's rule for flock on inode i by c.                            *)
FlockFree(c, i, op) ==
    \A d \in Ctx \ {c} :
        fd[d] = i => flk[d] = "UN" \/ (op = "SH" /\ flk[d] = "SH")

FreeInode(i) == i # path /\ \A d \in Ctx : fd[d] # i

-----------------------------------------------------------------------------
(* device_read_lock, device_write_lock, crypt_read_lock, crypt_write_lock  *)

(* A context without a handle starts acquire_and_verify.                   *)
Request(c, t, b) ==
    /\ pc[c] = "idle"
    /\ type' = [type EXCEPT ![c] = t]
    /\ wait' = [wait EXCEPT ![c] = b]
    /\ Goto(c, "open")
    /\ UNCHANGED <<path, fd, flk, again, refcnt, faults>>

(* A device lock already held is only counted; asking for WRITE with READ  *)
(* held fails an assertion of device_write_lock and is not a legal call.   *)
Nest(c, t) ==
    /\ Nestable
    /\ pc[c] = "held"
    /\ t = "WRITE" => type[c] = "WRITE"
    /\ refcnt[c] < MaxRef
    /\ refcnt' = [refcnt EXCEPT ![c] = @ + 1]
    /\ UNCHANGED <<path, fd, flk, pc, type, wait, again, faults>>

(* acquire_lock_handle, acquire_lock_handle_by_name: open(O_CREAT).        *)
OpenHandle(c) ==
    /\ pc[c] = "open"
    /\ again' = [again EXCEPT ![c] = FALSE]
    /\ Goto(c, "flock")
    /\ \/ /\ path # NoInode
          /\ fd' = [fd EXCEPT ![c] = path]
          /\ path' = path
       \/ /\ path = NoInode
          /\ \E i \in Inode :
                /\ FreeInode(i)
                /\ fd' = [fd EXCEPT ![c] = i]
                /\ path' = i
    /\ UNCHANGED <<flk, type, wait, refcnt, faults>>

(* flock succeeds, at once or after a wait.                                *)
Flock(c) ==
    /\ pc[c] = "flock"
    /\ FlockFree(c, fd[c], FlockOf(type[c]))
    /\ flk' = [flk EXCEPT ![c] = FlockOf(type[c])]
    /\ Goto(c, "verify")
    /\ UNCHANGED <<path, fd, type, wait, again, refcnt, faults>>

(* LOCK_NB and the lock is taken: -EBUSY, the handle is released.          *)
FlockBusy(c) ==
    /\ pc[c] = "flock"
    /\ ~wait[c]
    /\ ~FlockFree(c, fd[c], FlockOf(type[c]))
    /\ Goto(c, "dropflock")
    /\ UNCHANGED <<path, fd, flk, type, wait, again, refcnt, faults>>

(* flock fails for another reason (a signal): -EINVAL, same path.          *)
FlockInterrupted(c) ==
    /\ pc[c] = "flock"
    /\ faults < MaxFault
    /\ faults' = faults + 1
    /\ Goto(c, "dropflock")
    /\ UNCHANGED <<path, fd, flk, type, wait, again, refcnt>>

SameInode(c) == path = fd[c]

(* Mutation: verify_lock_handle is not called.                             *)
VerifyNothing(c) ==
    /\ pc[c] = "verify"
    /\ refcnt' = [refcnt EXCEPT ![c] = 1]
    /\ Goto(c, "held")
    /\ UNCHANGED <<path, fd, flk, type, wait, again, faults>>

(* Mutation: the retry locks the descriptor it already has.                *)
VerifyRetriesStaleFd(c) ==
    /\ pc[c] = "verify"
    /\ \/ /\ ~Removable \/ SameInode(c)
          /\ refcnt' = [refcnt EXCEPT ![c] = 1]
          /\ Goto(c, "held")
          /\ UNCHANGED flk
       \/ /\ Removable /\ ~SameInode(c)
          /\ flk' = [flk EXCEPT ![c] = "UN"]
          /\ Goto(c, "flock")
          /\ UNCHANGED refcnt
    /\ UNCHANGED <<path, fd, type, wait, again, faults>>

(* verify_lock_handle: the path must still name the locked inode, else the *)
(* lock is dropped and the loop of acquire_and_verify runs again.          *)
Verify(c) ==
    /\ pc[c] = "verify"
    /\ \/ /\ ~Removable \/ SameInode(c)
          /\ refcnt' = [refcnt EXCEPT ![c] = 1]
          /\ Goto(c, "held")
          /\ UNCHANGED <<flk, again>>
       \/ /\ Removable /\ ~SameInode(c)
          /\ flk' = [flk EXCEPT ![c] = "UN"]
          /\ again' = [again EXCEPT ![c] = TRUE]
          /\ Goto(c, "dropflock")
          /\ UNCHANGED refcnt
    /\ UNCHANGED <<path, fd, type, wait, faults>>

-----------------------------------------------------------------------------
(* Unlocking and release_lock_handle                                       *)

(* Mutation: unlocking only counts, the handle stays with the device.      *)
UnlockKeepsHandle(c) ==
    /\ pc[c] = "held"
    /\ refcnt' = [refcnt EXCEPT ![c] = @ - 1]
    /\ UNCHANGED <<path, fd, flk, pc, type, wait, again, faults>>

(* device_unlock_internal, crypt_unlock_internal.                          *)
Unlock(c) ==
    /\ pc[c] = "held"
    /\ refcnt' = [refcnt EXCEPT ![c] = @ - 1]
    /\ \/ /\ refcnt[c] > 1
          /\ UNCHANGED <<flk, pc>>
       \/ /\ refcnt[c] = 1
          /\ flk' = [flk EXCEPT ![c] = "UN"]
          /\ Goto(c, "dropflock")
    /\ UNCHANGED <<path, fd, type, wait, again, faults>>

(* Mutation: release_lock_handle does not lock the file to drop.           *)
DropFlockNotTaken(c) ==
    /\ pc[c] = "dropflock"
    /\ Goto(c, IF Removable THEN "dropstat" ELSE "close")
    /\ UNCHANGED <<path, fd, flk, type, wait, again, refcnt, faults>>

(* flock(LOCK_EX | LOCK_NB): only a context alone on the inode removes it. *)
DropFlock(c) ==
    /\ pc[c] = "dropflock"
    /\ \/ /\ Removable /\ FlockFree(c, fd[c], "EX")
          /\ flk' = [flk EXCEPT ![c] = "EX"]
          /\ Goto(c, "dropstat")
       \/ /\ ~Removable \/ ~FlockFree(c, fd[c], "EX")
          /\ Goto(c, "close")
          /\ UNCHANGED flk
    /\ UNCHANGED <<path, fd, type, wait, again, refcnt, faults>>

(* Mutation: release_lock_handle unlinks without comparing inodes.         *)
DropStatSkipped(c) ==
    /\ pc[c] = "dropstat"
    /\ Goto(c, "unlink")
    /\ UNCHANGED <<path, fd, flk, type, wait, again, refcnt, faults>>

(* fstat and stat: does the path still name the inode of the descriptor?   *)
DropStat(c) ==
    /\ pc[c] = "dropstat"
    /\ Goto(c, IF SameInode(c) THEN "unlink" ELSE "close")
    /\ UNCHANGED <<path, fd, flk, type, wait, again, refcnt, faults>>

(* unlink takes whatever the path names by now.                            *)
Unlink(c) ==
    /\ pc[c] = "unlink"
    /\ path' = NoInode
    /\ Goto(c, "close")
    /\ UNCHANGED <<fd, flk, type, wait, again, refcnt, faults>>

(* free(h)                                                                 *)
Forget(c) ==
    /\ type' = [type EXCEPT ![c] = "READ"]
    /\ wait' = [wait EXCEPT ![c] = TRUE]

CloseHandle(c) ==
    /\ pc[c] = "close"
    /\ fd' = [fd EXCEPT ![c] = NoInode]
    /\ flk' = [flk EXCEPT ![c] = "UN"]
    /\ \/ again[c] /\ Goto(c, "open") /\ UNCHANGED <<type, wait>>
       \/ ~again[c] /\ Goto(c, "idle") /\ Forget(c)
    /\ UNCHANGED <<path, again, refcnt, faults>>

(* The process dies: the kernel closes its descriptor, the file stays.     *)
Die(c) ==
    /\ pc[c] # "idle"
    /\ faults < MaxFault
    /\ faults' = faults + 1
    /\ fd' = [fd EXCEPT ![c] = NoInode]
    /\ flk' = [flk EXCEPT ![c] = "UN"]
    /\ again' = [again EXCEPT ![c] = FALSE]
    /\ refcnt' = [refcnt EXCEPT ![c] = 0]
    /\ Goto(c, "idle")
    /\ Forget(c)
    /\ UNCHANGED path

-----------------------------------------------------------------------------
(* The system calls of a lock or unlock call that is under way.            *)
Proceed(c) ==
    \/ OpenHandle(c) \/ Flock(c) \/ FlockBusy(c) \/ Verify(c)
    \/ DropFlock(c) \/ DropStat(c) \/ Unlink(c) \/ CloseHandle(c)

CtxNext(c) ==
    \/ \E t \in {"READ", "WRITE"} :
          Nest(c, t) \/ \E b \in Blocking : Request(c, t, b)
    \/ Proceed(c)
    \/ Unlock(c)
    \/ FlockInterrupted(c)
    \/ Die(c)

Next == \E c \in Ctx : CtxNext(c)

Spec == Init /\ [][Next]_vars

(* A process runs on until its call returns, and a holder unlocks.         *)
Fairness == \A c \in Ctx : WF_vars(Proceed(c)) /\ WF_vars(Unlock(c))

FairSpec == Spec /\ Fairness

-----------------------------------------------------------------------------
(* What the callers see: the lock of a handle that was returned to them.   *)
HeldBy == [c \in Ctx |-> IF pc[c] = "held" THEN type[c] ELSE "none"]

Lock == INSTANCE RWLock WITH held <- HeldBy

(* device_locked_verify in _open_locked: while a lock is held, the path    *)
(* names the locked inode, so no later comer can lock another file and     *)
(* opening the locked device never fails with "Failed to verify lock       *)
(* resource" (utils_device.c:250).                                         *)
HolderAtPath == \A c \in Ctx : pc[c] = "held" => SameInode(c)

(* release_lock_handle stats the path and then unlinks it (marked          *)
(* "coverity[toctou]"): the file removed is the one that was compared, and *)
(* no holder and no flock of another context is on it.                     *)
UnlinksOwnFile ==
    \A c \in Ctx : pc[c] = "unlink" =>
        /\ path = fd[c]
        /\ \A d \in Ctx \ {c} : fd[d] = path => flk[d] = "UN"

(* The locks handed out by the file-based protocol are the locks of a      *)
(* readers/writer lock.                                                    *)
ImplementsRWLock == Lock!Spec

(* No livelock: while callers wait in acquire_and_verify, retries caused   *)
(* by others removing the file end with some context having the lock, or   *)
(* with the call returning an error.                                       *)
Wanting(c) == pc[c] \in {"open", "flock", "verify"}

LockIsGranted ==
    \A c \in Ctx :
        Wanting(c) ~> (pc[c] = "idle" \/ \E d \in Ctx : pc[d] = "held")

=============================================================================
