---------------------------- MODULE LUKS2Header -----------------------------
(***************************************************************************)
(* The LUKS2 header on disk and the contexts (struct crypt_device) of      *)
(* several processes that load and update it                               *)
(* (lib/luks2/luks2_disk_metadata.c, LUKS2_hdr_read and LUKS2_hdr_write of *)
(* lib/luks2/luks2_json_metadata.c, the descriptor cache of                *)
(* lib/utils_device.c).                                                    *)
(*                                                                         *)
(* The header is kept twice.  An update writes the primary copy and then   *)
(* the secondary one; each write goes through a state without a valid      *)
(* checksum.  A load takes the valid copy with the higher sequence id and  *)
(* rewrites the other one.  Processes die between any two writes, the      *)
(* system crashes with writes not yet synced, writes fail, and a foreign   *)
(* tool may overwrite a copy.                                              *)
(*                                                                         *)
(* The metadata is abstracted to the set of changes it contains.  Header   *)
(* I/O is serialised by the lock of RWLock, which DeviceLock implements;   *)
(* metadata locking is enabled.                                            *)
(***************************************************************************)
EXTENDS Naturals, FiniteSets

CONSTANTS
    Ctx,            \* contexts, each in a process of its own
    Update,         \* changes contexts may make, each is made once
    Worlds          \* what may happen in a behaviour, see World

(* ctxs and updates take part; reload: contexts call crypt_load again      *)
(* after a write; setuuid: some updates are crypt_set_uuid; and bounds on  *)
(* process deaths and system crashes, on failed reads and writes, and on   *)
(* foreign overwrites of a copy.                                           *)
World == [ctxs : SUBSET Ctx, updates : SUBSET Update, reload : BOOLEAN, setuuid : BOOLEAN,
          crash : Nat, ioerr : Nat, damage : Nat]

ASSUME HeaderConstants == IsFiniteSet(Update) /\ Worlds \subseteq World

VARIABLES
    copy,           \* copy[k]: what a read of copy k returns
    dur,            \* dur[k]: copy k as last synced to the medium
    held,           \* the lock each context holds
    pc,             \* pc[c]: where c is in LUKS2_hdr_read or LUKS2_hdr_write
    hdr,            \* hdr[c]: cd->u.luks2.hdr
    rwfd,           \* rwfd[c]: device->dev_fd is open, a context keeps it
    probe,          \* probe[c]: do_blkprobe of the load under way
    seen,           \* seen[c]: header images LUKS2_disk_hdr_read has read
    done,           \* changes already used
    acked,          \* changes whose LUKS2_hdr_write returned 0
    crashes, ioerrs, damages,
    world           \* the one of Worlds this behaviour is in

vars == <<copy, dur, held, pc, hdr, rwfd, probe, seen, done, acked,
          crashes, ioerrs, damages, world>>

disk == <<copy, dur>>
budget == <<crashes, ioerrs, damages, world>>

Lock == INSTANCE RWLock

Copies == {1, 2}        \* primary and secondary

(* What the binary header identifies: the uuid as formatted or as set      *)
(* later, junk, or the signature of another format that blkid knows.       *)
Ident == {"uuid", "newuuid", "junk", "foreign"}
SeqId == 0..(Cardinality(Update) + 1)

Header == [seqid : SeqId, ident : Ident, body : SUBSET Update]

(* ok: magic, version, offset, checksum and JSON of the copy are valid.    *)
Image == [seqid : SeqId, ident : Ident, body : SUBSET Update, ok : BOOLEAN]

NoHeader == [seqid |-> 0, ident |-> "junk", body |-> {}]
ImageOf(h, b) == [seqid |-> h.seqid, ident |-> h.ident, body |-> h.body, ok |-> b]
NoImage == ImageOf(NoHeader, FALSE)
HeaderOf(i) == [seqid |-> i.seqid, ident |-> i.ident, body |-> i.body]

ReadSteps == {"read1", "read2", "decide", "recover", "recover2", "loaded", "failed"}
WriteSteps == {"write1", "write1rest", "write2", "write2rest", "written"}

TypeOK ==
    /\ copy \in [Copies -> Image]
    /\ dur \in [Copies -> Image]
    /\ held \in [Ctx -> {"none", "READ", "WRITE"}]
    /\ pc \in [Ctx -> {"idle", "relock"} \cup ReadSteps \cup WriteSteps]
    /\ hdr \in [Ctx -> Header]
    /\ rwfd \in [Ctx -> BOOLEAN]
    /\ probe \in [Ctx -> BOOLEAN]
    /\ seen \in [Ctx -> [Copies -> Image]]
    /\ done \subseteq Update
    /\ acked \subseteq done
    /\ world \in Worlds
    /\ crashes \in 0..world.crash
    /\ ioerrs \in 0..world.ioerr
    /\ damages \in 0..world.damage

NothingSeen == [k \in Copies |-> NoImage]

(* crypt_format has written both copies.                                   *)
Init ==
    /\ copy = [k \in Copies |->
                 [seqid |-> 1, ident |-> "uuid", body |-> {}, ok |-> TRUE]]
    /\ dur = copy
    /\ held = [c \in Ctx |-> "none"]
    /\ pc = [c \in Ctx |-> "idle"]
    /\ hdr = [c \in Ctx |-> NoHeader]
    /\ rwfd = [c \in Ctx |-> FALSE]
    /\ probe = [c \in Ctx |-> TRUE]
    /\ seen = [c \in Ctx |-> NothingSeen]
    /\ done = {} /\ acked = {}
    /\ crashes = 0 /\ ioerrs = 0 /\ damages = 0
    /\ world \in Worlds

Goto(c, l) == pc' = [pc EXCEPT ![c] = l]
Drop(c) == held' = [held EXCEPT ![c] = "none"]

IOError ==
    /\ ioerrs < world.ioerr
    /\ ioerrs' = ioerrs + 1
    /\ UNCHANGED <<crashes, damages, world>>

-----------------------------------------------------------------------------
(* hdr_write_disk: copy k is overwritten by header h                       *)

(* The binary header without checksum: from here the copy is invalid.      *)
WriteBin(k, h) ==
    /\ copy' = [copy EXCEPT ![k] = ImageOf(h, FALSE)]
    /\ dur' = dur

(* Mutation: no device_sync at the end of hdr_write_disk.                  *)
WriteRestUnsynced(k, h) ==
    /\ copy' = [copy EXCEPT ![k] = ImageOf(h, TRUE)]
    /\ dur' = dur

(* JSON area, binary header with checksum, device_sync.                    *)
WriteRest(k, h) ==
    /\ copy' = [copy EXCEPT ![k] = ImageOf(h, TRUE)]
    /\ dur' = copy'

(* A failed write may have hit the medium.  Only the last of the three     *)
(* writes is followed by device_sync when it fails.                        *)
WriteFails(k, h) ==
    /\ IOError
    /\ copy' \in {copy} \cup {[copy EXCEPT ![k] = ImageOf(h, b)] : b \in BOOLEAN}
    /\ dur' \in {dur, copy'}

-----------------------------------------------------------------------------
(* Loading: LUKS2_hdr_read and LUKS2_disk_hdr_read                         *)

(* device_read_lock.  crypt_repair loads without probing for signatures.   *)
StartRead(c, p) ==
    /\ pc[c] = "idle"
    /\ c \in world.ctxs
    /\ world.reload \/ hdr[c] = NoHeader
    /\ p \/ damages > 0
    /\ Lock!Acquire(c, "READ")
    /\ probe' = [probe EXCEPT ![c] = p]
    /\ Goto(c, "read1")
    /\ UNCHANGED <<disk, hdr, rwfd, seen, done, acked, budget>>

(* hdr_read_disk: copy k is read, or the read fails with -EIO.             *)
ReadCopy(c, k) ==
    /\ pc[c] = (IF k = 1 THEN "read1" ELSE "read2")
    /\ \/ /\ seen' = [seen EXCEPT ![c][k] = copy[k]]
          /\ UNCHANGED budget
       \/ /\ IOError
          /\ seen' = [seen EXCEPT ![c][k] = NoImage]
    /\ Goto(c, IF k = 1 THEN "read2" ELSE "decide")
    /\ UNCHANGED <<disk, held, hdr, rwfd, probe, done, acked>>

(* HDR_OK after the comparison of the sequence ids.                        *)
Current(s, k) ==
    s[k].ok /\ \A j \in Copies : s[j].ok => s[j].seqid <= s[k].seqid

(* Mutation: a load gives up when the primary copy is bad.                 *)
PrimaryReadable(s) == s[1].ok

Readable(s) == \E k \in Copies : s[k].ok
(* Mutation: valid copies with different sequence ids are left as they are. *)
BothValid(s) == \A k \in Copies : s[k].ok

Consistent(s) == \A k \in Copies : Current(s, k)
Good(s) == CHOOSE k \in Copies : Current(s, k)
Newest(s) == HeaderOf(s[Good(s)])

(* detect_device_signatures: blkid finds another format on the device.     *)
ForeignSignature == \E k \in Copies : copy[k].ident = "foreign"

(* Mutation: a device locked for reading may be opened for writing.        *)
AnyOpenRdwr(c) == TRUE

(* device_open_internal returns a cached read-write descriptor before it   *)
(* looks at the lock; _open_locked refuses to open one under a read lock.  *)
MayOpenRdwr(c) == rwfd[c] \/ held[c] = "WRITE"

(* Neither copy is valid, or recovery is refused: the load fails.          *)
LoadFails(c) ==
    /\ pc[c] = "decide"
    /\ \/ ~Readable(seen[c])
       \/ ~Consistent(seen[c]) /\ probe[c] /\ ForeignSignature
    /\ Goto(c, "failed")
    /\ UNCHANGED <<disk, held, hdr, rwfd, probe, seen, done, acked, budget>>

LoadsConsistent(c) ==
    /\ pc[c] = "decide"
    /\ Consistent(seen[c])
    /\ Goto(c, "loaded")
    /\ UNCHANGED <<disk, held, hdr, rwfd, probe, seen, done, acked, budget>>

(* The other copy has to be rewritten: with a descriptor for writing that  *)
(* goes on, else hdr_write_disk returns -EAGAIN and LUKS2_hdr_read drops   *)
(* the read lock and waits for the write lock.                             *)
LoadNeedsRecovery(c) ==
    /\ pc[c] = "decide"
    /\ Readable(seen[c]) /\ ~Consistent(seen[c])
    /\ ~(probe[c] /\ ForeignSignature)
    /\ \/ /\ MayOpenRdwr(c)
          /\ rwfd' = [rwfd EXCEPT ![c] = TRUE]
          /\ Goto(c, "recover")
          /\ UNCHANGED <<held, seen>>
       \/ /\ ~MayOpenRdwr(c)
          /\ Drop(c)
          /\ seen' = [seen EXCEPT ![c] = NothingSeen]
          /\ Goto(c, "relock")
          /\ UNCHANGED rwfd
    /\ UNCHANGED <<disk, hdr, probe, done, acked, budget>>

(* Mutation: the load that needs the write lock keeps its read lock.       *)
RelockUpgrades(c) ==
    /\ pc[c] = "relock"
    /\ held[c] = "READ"
    /\ Lock!Grantable(held, c, "WRITE")
    /\ held' = [held EXCEPT ![c] = "WRITE"]
    /\ Goto(c, "read1")
    /\ UNCHANGED <<disk, hdr, rwfd, probe, seen, done, acked, budget>>

(* device_write_lock without the check of the sequence id; read again.     *)
Relock(c) ==
    /\ pc[c] = "relock"
    /\ Lock!Acquire(c, "WRITE")
    /\ Goto(c, "read1")
    /\ UNCHANGED <<disk, hdr, rwfd, probe, seen, done, acked, budget>>

(* hdr_write_disk of the copy that is not current, from the one that is.   *)
(* A failure is only logged: the header is loaded all the same.            *)
Recover(c) ==
    LET s == seen[c]
        k == CHOOSE j \in Copies : ~Current(s, j)
    IN  /\ \/ /\ pc[c] = "recover"
              /\ WriteBin(k, Newest(s)) /\ Goto(c, "recover2")
              /\ UNCHANGED budget
           \/ /\ pc[c] = "recover2"
              /\ WriteRest(k, Newest(s)) /\ Goto(c, "loaded")
              /\ UNCHANGED budget
           \/ /\ pc[c] \in {"recover", "recover2"}
              /\ WriteFails(k, Newest(s)) /\ Goto(c, "loaded")
        /\ UNCHANGED <<held, hdr, rwfd, probe, seen, done, acked>>

(* hdr_from_disk into the context and unlock; a failed (re)load leaves the *)
(* header of the context as it was.                                        *)
ReadReturns(c) ==
    /\ \/ pc[c] = "loaded" /\ hdr' = [hdr EXCEPT ![c] = Newest(seen[c])]
       \/ pc[c] = "failed" /\ hdr' = hdr
    /\ Drop(c)
    /\ Goto(c, "idle")
    /\ seen' = [seen EXCEPT ![c] = NothingSeen]
    /\ probe' = [probe EXCEPT ![c] = TRUE]
    /\ UNCHANGED <<disk, rwfd, done, acked, budget>>

-----------------------------------------------------------------------------
(* Updating: LUKS2_hdr_write, LUKS2_device_write_lock, LUKS2_disk_hdr_write *)

(* Mutation: the sequence id is not checked.                               *)
SeqIdUnchecked(h) == TRUE

(* LUKS2_check_sequence_id looks at the first sector of the primary copy,  *)
(* whatever its checksum; there is nothing to check if that is no LUKS2    *)
(* header with the uuid the context has in memory.                         *)
SeqIdMatches(h) == copy[1].ident = h.ident => copy[1].seqid = h.seqid

(* The context changes its header in memory (crypt_set_uuid: the uuid      *)
(* too), takes the write lock, checks, and counts up the sequence id.      *)
StartWrite(c, u, id) ==
    /\ pc[c] = "idle"
    /\ hdr[c] # NoHeader
    /\ u \in world.updates \ done
    /\ id = hdr[c].ident \/ world.setuuid
    /\ done' = done \cup {u}
    /\ LET h == [seqid |-> hdr[c].seqid, ident |-> id, body |-> hdr[c].body \cup {u}]
       IN  \/ /\ SeqIdMatches(h)
              /\ hdr' = [hdr EXCEPT ![c] = [h EXCEPT !.seqid = @ + 1]]
              /\ Lock!Acquire(c, "WRITE")
              /\ rwfd' = [rwfd EXCEPT ![c] = TRUE]
              /\ Goto(c, "write1")
              /\ UNCHANGED budget
           \/ /\ ~SeqIdMatches(h)
              /\ hdr' = [hdr EXCEPT ![c] = h]
              /\ Lock!Grantable(held, c, "WRITE")
              /\ UNCHANGED <<held, rwfd, pc, budget>>
    /\ UNCHANGED <<disk, probe, seen, acked>>

(* hdr_write_disk of the primary and then, if that went well, of the       *)
(* secondary copy.                                                         *)
WriteCopy(c, k) ==
    /\ \/ /\ pc[c] = (IF k = 1 THEN "write1" ELSE "write2")
          /\ WriteBin(k, hdr[c])
          /\ Goto(c, IF k = 1 THEN "write1rest" ELSE "write2rest")
          /\ UNCHANGED <<held, budget>>
       \/ /\ pc[c] = (IF k = 1 THEN "write1rest" ELSE "write2rest")
          /\ WriteRest(k, hdr[c])
          /\ Goto(c, IF k = 1 THEN "write2" ELSE "written")
          /\ UNCHANGED <<held, budget>>
       \/ /\ pc[c] \in (IF k = 1 THEN {"write1", "write1rest"}
                                 ELSE {"write2", "write2rest"})
          /\ WriteFails(k, hdr[c])
          /\ Drop(c)
          /\ Goto(c, "idle")
    /\ UNCHANGED <<hdr, rwfd, probe, seen, done, acked>>

(* Mutation: changes are reported as written that are not in the header.   *)
WriteReturnsAll(c) ==
    /\ pc[c] = "written"
    /\ acked' = Update
    /\ Drop(c)
    /\ Goto(c, "idle")
    /\ UNCHANGED <<disk, hdr, rwfd, probe, seen, done, budget>>

(* device_write_unlock, the call returns 0: what the header contains is    *)
(* committed.                                                              *)
WriteReturns(c) ==
    /\ pc[c] = "written"
    /\ acked' = acked \cup hdr[c].body
    /\ Drop(c)
    /\ Goto(c, "idle")
    /\ UNCHANGED <<disk, hdr, rwfd, probe, seen, done, budget>>

-----------------------------------------------------------------------------
(* Faults                                                                  *)

(* A process dies; its lock goes with it, a write stops where it is.       *)
Die(c) ==
    /\ pc[c] # "idle" \/ hdr[c] # NoHeader
    /\ crashes < world.crash
    /\ crashes' = crashes + 1
    /\ Drop(c)
    /\ Goto(c, "idle")
    /\ hdr' = [hdr EXCEPT ![c] = NoHeader]
    /\ rwfd' = [rwfd EXCEPT ![c] = FALSE]
    /\ probe' = [probe EXCEPT ![c] = TRUE]
    /\ seen' = [seen EXCEPT ![c] = NothingSeen]
    /\ UNCHANGED <<disk, done, acked, ioerrs, damages, world>>

(* What copy k may be after a system crash: writes that were not synced    *)
(* reach the medium or not, each on its own.                               *)
AfterCrash(k) ==
    {dur[k], copy[k]} \cup
    (IF copy[k] = dur[k] THEN {} ELSE {[dur[k] EXCEPT !.ok = FALSE]})

SystemCrash ==
    /\ crashes < world.crash
    /\ crashes' = crashes + 1
    /\ copy' \in {d \in [Copies -> UNION {AfterCrash(k) : k \in Copies}] :
                    \A k \in Copies : d[k] \in AfterCrash(k)}
    /\ dur' = copy'
    /\ held' = [c \in Ctx |-> "none"]
    /\ pc' = [c \in Ctx |-> "idle"]
    /\ hdr' = [c \in Ctx |-> NoHeader]
    /\ rwfd' = [c \in Ctx |-> FALSE]
    /\ probe' = [c \in Ctx |-> TRUE]
    /\ seen' = [c \in Ctx |-> NothingSeen]
    /\ UNCHANGED <<done, acked, ioerrs, damages, world>>

(* Another tool overwrites a copy while no context works on the header.    *)
Damage(k, id) ==
    /\ damages < world.damage
    /\ damages' = damages + 1
    /\ \A c \in Ctx : held[c] = "none"
    /\ copy' = [copy EXCEPT ![k] = [ImageOf(NoHeader, FALSE) EXCEPT !.ident = id]]
    /\ dur' = copy'
    /\ UNCHANGED <<held, pc, hdr, rwfd, probe, seen, done, acked, crashes, ioerrs, world>>

-----------------------------------------------------------------------------
(* The calls of a load or an update that is under way.                     *)
Proceed(c) ==
    \/ \E k \in Copies : ReadCopy(c, k) \/ WriteCopy(c, k)
    \/ LoadFails(c) \/ LoadsConsistent(c) \/ LoadNeedsRecovery(c)
    \/ Relock(c) \/ Recover(c) \/ ReadReturns(c) \/ WriteReturns(c)

CtxNext(c) ==
    \/ \E p \in BOOLEAN : StartRead(c, p)
    \/ \E u \in Update, id \in {"uuid", "newuuid"} : StartWrite(c, u, id)
    \/ Proceed(c)
    \/ Die(c)

Next ==
    \/ \E c \in Ctx : CtxNext(c)
    \/ SystemCrash
    \/ \E k \in Copies, id \in {"junk", "foreign"} : Damage(k, id)

Spec == Init /\ [][Next]_vars

(* A process that has started a call runs on; locks are granted in turn.   *)
FairSpec == Spec /\ \A c \in Ctx : WF_vars(Proceed(c)) /\ SF_vars(Relock(c))

-----------------------------------------------------------------------------
(* Properties                                                              *)

(* No foreign overwrite and no failed I/O so far, and no change of the     *)
(* uuid, which the check of the sequence id cannot cope with.              *)
Undisturbed == ioerrs = 0 /\ damages = 0 /\ ~world.setuuid

(* The header survives: after a system crash at any moment a valid copy is *)
(* left, and the one a load would choose has every change that was         *)
(* reported as written.                                                    *)
CommittedSurvives ==
    Undisturbed => \A i1 \in AfterCrash(1), i2 \in AfterCrash(2) :
        /\ Readable(<<i1, i2>>)
        /\ acked \subseteq Newest(<<i1, i2>>).body

(* A load fails only if blkid found a foreign signature, or after a second *)
(* fault: two copies are enough for one damaged or unreadable one, and for *)
(* any number of crashes.  (With changes of the uuid for one crash: they   *)
(* pass by the check of the sequence id, and so may overwrite the primary  *)
(* copy while the secondary one is torn.)                                  *)
LoadNeverFails ==
    \A c \in Ctx : pc[c] = "failed" =>
        \/ Readable(seen[c])
        \/ /\ ioerrs + damages > 0 \/ world.setuuid
           /\ crashes + ioerrs + damages > 1

(* "Detected attempt for concurrent LUKS2 metadata update": a context      *)
(* writes only a header built on the newest one, so that nothing another   *)
(* context committed is lost.                                              *)
NoLostUpdate ==
    Undisturbed => \A c \in Ctx : pc[c] = "write1" => acked \subseteq hdr[c].body

(* The locking model "provides serialization of I/Os targeting the header":*)
(* while a context rewrites a copy no other context holds the lock.        *)
HeaderIOExclusive ==
    \A c, d \in Ctx :
        c # d /\ pc[c] \in {"recover2", "write1rest", "write2rest"}
            => held[d] = "none"

(* The two copies with their recovery are one versioned header that is     *)
(* updated atomically, in the worlds with crashes only.                    *)
CrashesOnly == world.ioerr = 0 /\ world.damage = 0 /\ ~world.setuuid
StoreCur == IF CrashesOnly THEN [seqid |-> Newest(copy).seqid, body |-> Newest(copy).body]
                           ELSE [seqid |-> 1, body |-> {}]
StoreAcked == IF CrashesOnly THEN acked ELSE {}
Store == INSTANCE VersionedHeader WITH cur <- StoreCur, acked <- StoreAcked

ImplementsStore == Store!Spec

(* Auto-recovery heals: when a load returns, both copies are valid and     *)
(* equal, unless I/O has failed, or a crash came together with a write     *)
(* that the check of the sequence id did not cover: two copies with the    *)
(* same sequence id and different contents pass for consistent.            *)
LoadHeals ==
    [][\A c \in Ctx :
         pc[c] = "loaded" /\ pc'[c] = "idle" /\ crashes' = crashes
                          /\ (Undisturbed \/ crashes + ioerrs = 0)
             => copy[1].ok /\ copy[1] = copy[2]]_vars

(* Every load and every update that is started comes to an end.            *)
CallReturns == \A c \in Ctx : pc[c] # "idle" ~> pc[c] = "idle"

(* What the two copies are for: no crash costs a committed change, no      *)
(* context overwrites one it has not seen, and no load fails while one     *)
(* copy is good (hdr_write_disk, LUKS2_disk_hdr_read, LUKS2_check_sequence_id). *)
HeaderKept == TypeOK /\ CommittedSurvives /\ NoLostUpdate /\ LoadNeverFails
=============================================================================
