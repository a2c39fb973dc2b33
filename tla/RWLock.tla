------------------------------- MODULE RWLock -------------------------------
(***************************************************************************)
(* What the locking layer of libcryptsetup promises to the code that reads *)
(* and writes LUKS2 metadata: a readers/writer lock.  A context holds no   *)
(* lock, a READ lock shared with other readers, or a WRITE lock alone.     *)
(* Holding ends by an explicit unlock or by the death of the process.      *)
(*                                                                         *)
(* DeviceLock implements it with flock(2) on a resource file that the last *)
(* holder removes; LUKS2Header uses it to serialise header I/O.            *)
(***************************************************************************)
EXTENDS Naturals

CONSTANT Ctx            \* the contexts (struct device) that share a lock

VARIABLE held           \* held[c]: the lock c has, "none" when it has none

LockType == {"READ", "WRITE"}

TypeOK == held \in [Ctx -> LockType \cup {"none"}]

Init == held = [c \in Ctx |-> "none"]

(* A lock of type t is granted next to the locks of the other contexts.    *)
Grantable(h, c, t) ==
    \A d \in Ctx \ {c} :
        h[d] = "none" \/ (t = "READ" /\ h[d] = "READ")

Acquire(c, t) ==
    /\ held[c] = "none"
    /\ Grantable(held, c, t)
    /\ held' = [held EXCEPT ![c] = t]

Release(c) ==
    /\ held[c] # "none"
    /\ held' = [held EXCEPT ![c] = "none"]

Next == \E c \in Ctx : Release(c) \/ \E t \in LockType : Acquire(c, t)

Spec == Init /\ [][Next]_held

(* A writer is alone.                                                      *)
Exclusion ==
    \A c, d \in Ctx : c # d /\ held[c] = "WRITE" => held[d] = "none"
=============================================================================
