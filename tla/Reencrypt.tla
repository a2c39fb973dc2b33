----------------------------- MODULE Reencrypt ------------------------------
(***************************************************************************)
(* LUKS2 in-place reencryption (lib/luks2/luks2_reencrypt.c): the hotzone  *)
(* that moves over the device, the resilience data stored for it, the      *)
(* segments of the header that say which key each sector has, the finish,  *)
(* and the recovery after a crash.                                         *)
(*                                                                         *)
(* One process at a time works on the device: the reencryption lock, held  *)
(* from the load of the context to its release, is a write lock of RWLock. *)
(* A second process gets -EBUSY and changes nothing.  The header is the    *)
(* atomically committed header of VersionedHeader.  Data and header are on *)
(* different devices (a detached header), the device is not active, and    *)
(* the mode is CRYPT_REENCRYPT_REENCRYPT without data shift.               *)
(*                                                                         *)
(* A sector is abstracted to the key that decrypts it.                     *)
(***************************************************************************)
EXTENDS Naturals, Sequences

CONSTANTS
    N,              \* size of the device in sectors
    Zone,           \* the longest hotzone that the keyslot area can protect
    Worlds          \* what the user asks for and which faults may happen

ASSUME ReencryptConstants ==
    /\ N \in Nat \ {0} /\ Zone \in 1..N
    /\ Worlds \subseteq
         [limits : SUBSET (1..Zone),    \* values of max_hotzone_size; Zone
                                        \* stands for no limit
          directions : SUBSET {"forward", "backward"},
          types : SUBSET {"none", "checksum", "journal"},
          volatile : SUBSET {"data", "area"},   \* what a power failure loses
                                        \* of what is not synced
          faultsat : SUBSET {"finish", "none", "last"}, \* faults may also hit
                                        \* the finish, a run without resilience
                                        \* or a short last hotzone
          deaths : Nat, powers : Nat, ioerrs : Nat, hasherrs : Nat]  \* bounds

VARIABLES
    hdr,            \* the committed LUKS2 header
    oldkey,         \* the key material of the old keyslot is not yet wiped
    data, synced,   \* the sectors as read now, and as last synced
    area, areasync, \* the area of the reencrypt keyslot, as above
    pc,             \* where the process is that has the reencryption lock
    mem,            \* its header in memory
    rh,             \* its struct luks2_reencrypt
    stale,          \* its sequence id was counted up by a write that failed;
                    \* not checked while crypt_reencrypt has its context
    world,          \* the member of Worlds that this behaviour is in
    deaths, powers, ioerrs, hasherrs

vars == <<hdr, oldkey, data, synced, area, areasync, pc, mem, rh, stale, world,
          deaths, powers, ioerrs, hasherrs>>
faults == <<world, deaths, powers, ioerrs, hasherrs>>

Sector == 0..(N - 1)
Content == {"old", "new", "junk"}
Key == {"old", "new", "hot"}
Segment == [key : Key, size : 1..N]

Header ==
    [flag : BOOLEAN,        \* the online-reencrypt requirement
     direction : {"forward", "backward"},
     type : {"none", "checksum", "journal"},
     reencslot : BOOLEAN,   \* the reencrypt keyslot exists
     oldslot : BOOLEAN,     \* the keyslot of the old volume key exists
     segs : UNION {[1..k -> Segment] : k \in 1..3}]

Area == [type : {"wiped", "checksum", "journal"},
         cells : UNION {[1..k -> Sector \X Content] : k \in 0..Zone}]

Context == [offset : 0..N, length : 0..N, progress : 0..(2 * N), read : 0..N,
            type : {"none", "checksum", "journal"}, recovery : BOOLEAN]

Steps == {"idle", "loop", "read", "protect", "hot", "write", "sync", "post",
          "recover", "teardown", "wipeold", "dropold", "wipereenc",
          "dropreenc", "unflag", "final"}

NoContext == [offset |-> 0, length |-> 0, progress |-> 0, read |-> 0,
              type |-> "none", recovery |-> FALSE]
Wiped == [type |-> "wiped", cells |-> <<>>]

(* A header without reencryption: all data under the old key.  The keyslot *)
(* of the new volume key exists but no segment uses it.                    *)
Formatted ==
    [flag |-> FALSE, direction |-> "forward", type |-> "none",
     reencslot |-> FALSE, oldslot |-> TRUE,
     segs |-> <<[key |-> "old", size |-> N]>>]

Init ==
    /\ hdr = Formatted /\ mem = Formatted
    /\ oldkey = TRUE /\ stale = FALSE
    /\ data = [i \in Sector |-> "old"] /\ synced = data
    /\ area = Wiped /\ areasync = Wiped
    /\ pc = "idle" /\ rh = NoContext
    /\ world \in Worlds
    /\ deaths = 0 /\ powers = 0 /\ ioerrs = 0 /\ hasherrs = 0

TypeOK ==
    /\ hdr \in Header /\ mem \in Header
    /\ oldkey \in BOOLEAN /\ stale \in BOOLEAN
    /\ data \in [Sector -> Content] /\ synced \in [Sector -> Content]
    /\ area \in Area /\ areasync \in Area
    /\ pc \in Steps
    /\ rh \in Context
    /\ world \in Worlds
    /\ deaths \in 0..world.deaths /\ powers \in 0..world.powers
    /\ ioerrs \in 0..world.ioerrs /\ hasherrs \in 0..world.hasherrs

-----------------------------------------------------------------------------
(* Segments                                                                *)

Seg(k, n) == IF n = 0 THEN <<>> ELSE <<[key |-> k, size |-> n]>>

(* Index of the segment with flag in-reencryption, 0 if there is none.     *)
HotSeg(segs) ==
    IF \E k \in DOMAIN segs : segs[k].key = "hot"
    THEN CHOOSE k \in DOMAIN segs : segs[k].key = "hot" ELSE 0

SegStart(segs, k) ==
    (IF k > 1 THEN segs[1].size ELSE 0) + (IF k > 2 THEN segs[2].size ELSE 0)

KeyOf(segs, i) ==
    segs[CHOOSE k \in DOMAIN segs :
           SegStart(segs, k) <= i /\ i < SegStart(segs, k) + segs[k].size].key

(* reencrypt_make_hot_segments, with the digests that                      *)
(* reencrypt_assign_segments gives the segments by their position.         *)
HotSegs(d, r) ==
    LET rest == N - (r.offset + r.length)
    IN  Seg(IF d = "forward" THEN "new" ELSE "old", r.offset)
            \o Seg("hot", r.length)
            \o Seg(IF d = "forward" THEN "old" ELSE "new", rest)

(* reencrypt_make_post_segments: the hot segment is joined with the new    *)
(* one.                                                                    *)
PostSegs(d, segs) ==
    LET k == HotSeg(segs)
        before == SegStart(segs, k)
    IN  IF d = "forward"
        THEN Seg("new", before + segs[k].size)
                 \o Seg("old", N - (before + segs[k].size))
        ELSE Seg("old", before) \o Seg("new", N - before)

(* LUKS2_reencrypt_status *)
Status(h) ==
    IF ~h.flag THEN "none" ELSE IF HotSeg(h.segs) = 0 THEN "clean" ELSE "crash"

(* reencrypt_assign_segments: the segments of the header in memory are     *)
(* replaced, and their digests with them.                                  *)
Assigned(m, segs) == [m EXCEPT !.segs = segs]

(* reencrypt_keyslot_update: the resilience of the run that goes on.       *)
Protected(m, t) == [m EXCEPT !.type = t]

-----------------------------------------------------------------------------
(* Sectors                                                                 *)

(* Decrypted with the old key and encrypted with the new one.              *)
Reencrypted(x) == IF x = "old" THEN "new" ELSE "junk"

HotZone(r) == {i \in Sector : r.offset <= i /\ i < r.offset + r.length}

(* reencrypt_recover_segment for sector i of a hotzone that starts at o:   *)
(* by checksum, a sector whose ciphertext is the one of the checksum is    *)
(* reencrypted; by journal, every sector is written from the journal.      *)
RecoveredSector(type, o, d, a, i) ==
    LET known == a.type = type /\ i - o + 1 \in DOMAIN a.cells
        cell == a.cells[i - o + 1]
    IN  IF type = "checksum"
        THEN IF known /\ cell = <<i, d[i]>> THEN Reencrypted(d[i]) ELSE d[i]
        ELSE IF known /\ cell = <<i, "old">> THEN "new" ELSE "junk"

(* What a write of w to the sectors of z leaves if it is cut short: sector *)
(* writes are atomic for "checksum", which requires it of the device.      *)
CutShort(type, z, w) ==
    {d \in [Sector -> Content] :
        \A i \in Sector :
            \/ d[i] = data[i]
            \/ i \in z /\ d[i] = w[i]
            \/ i \in z /\ type = "journal" /\ d[i] = "junk"}

-----------------------------------------------------------------------------
(* Faults and commits                                                      *)

(* LUKS2_reencrypt_free: the context is gone, the lock is dropped.         *)
Release ==
    /\ pc' = "idle"
    /\ rh' = NoContext /\ mem' = Formatted /\ stale' = FALSE

(* All data are under the new key and what is left is to say so, in the    *)
(* commit after the last hotzone and in the finish.                        *)
Finishing ==
    \/ pc = "post" /\ Len(PostSegs(mem.direction, mem.segs)) = 1
    \/ /\ pc \in {"loop", "teardown", "wipeold", "dropold", "wipereenc",
                  "dropreenc", "unflag", "final"}
       /\ mem.segs = <<[key |-> "new", size |-> N]>>

(* The last hotzone of a backward run is shorter than the calculated one,  *)
(* and the header may name it: CrashedContext takes it for unfinished.     *)
LastIsShort ==
    /\ pc \in {"hot", "write", "sync"}
    /\ mem.direction = "backward"
    /\ rh.offset = 0 /\ rh.length < Zone

(* Where faults happen in this instance.                                   *)
MayFail ==
    /\ "finish" \in world.faultsat \/ ~Finishing
    /\ "last" \in world.faultsat \/ ~LastIsShort
    /\ "none" \in world.faultsat \/ pc = "idle" \/ rh.type # "none"

IOError ==
    /\ ioerrs < world.ioerrs
    /\ MayFail
    /\ ioerrs' = ioerrs + 1
    /\ UNCHANGED <<world, deaths, powers, hasherrs>>

(* LUKS2_hdr_write of header m.  The sync at its end is one of the         *)
(* metadata device.                                                        *)
CommitOk(m) ==
    /\ ~stale
    /\ hdr' = m /\ areasync' = area
    /\ UNCHANGED faults

(* It fails before or after the primary copy is written, or it is refused  *)
(* because the sequence id no longer matches.                              *)
CommitFails(m) ==
    /\ areasync' = areasync
    /\ \/ stale /\ UNCHANGED <<hdr, faults>>
       \/ ~stale /\ IOError /\ hdr' \in {hdr, m}

(* The header that the process commits in its next step.                   *)
Pending ==
    CASE pc = "post" -> Assigned(mem, PostSegs(mem.direction, mem.segs))
      [] pc = "dropold" -> [mem EXCEPT !.oldslot = FALSE]
      [] pc = "dropreenc" -> [mem EXCEPT !.reencslot = FALSE]
      [] pc = "unflag" -> [mem EXCEPT !.flag = FALSE]
      [] OTHER -> mem

-----------------------------------------------------------------------------
(* Starting: reencrypt_init, reencrypt_load_by_passphrase                  *)

(* reencrypt_init: the one commit adds the reencrypt keyslot (with no      *)
(* resilience so far), the backup segments and the requirement flag.       *)
InitReencrypt(d) ==
    /\ pc = "idle"
    /\ hdr = Formatted
    /\ hdr' = [Formatted EXCEPT !.flag = TRUE, !.direction = d, !.reencslot = TRUE]
    /\ UNCHANGED <<oldkey, data, synced, area, areasync, pc, mem, rh, stale, faults>>

Least(a, b) == IF a <= b THEN a ELSE b

(* reencrypt_offset where no segment is hot: the size of what is left and  *)
(* where it starts.                                                        *)
Remaining(h) == IF Len(h.segs) = 1 THEN N ELSE h.segs[1].size

(* reencrypt_context_init with hotzones of length z: from the hot segment, *)
(* or from the border between new and old data.                            *)
ContextOf(h, t, z) ==
    LET k == HotSeg(h.segs)
        fits == IF k = 0 /\ h.direction = "backward"
                THEN Least(z, Remaining(h)) ELSE z
        offset == IF k > 0 THEN SegStart(h.segs, k)
                  ELSE IF h.direction = "backward" THEN Remaining(h) - fits
                       ELSE IF Len(h.segs) = 1 THEN 0 ELSE Remaining(h)
        length == Least(fits, N - offset)
    IN  [offset |-> offset, length |-> length,
         progress |-> IF h.direction = "backward"
                      THEN N - (offset + length) ELSE offset,
         read |-> 0, type |-> t, recovery |-> FALSE]

(* reencrypt_load_crashed: the length of the hot segment replaces the      *)
(* calculated one, which no limit of the user applies to, after the        *)
(* progress was calculated.                                                *)
CrashedContext(h) ==
    [ContextOf(h, h.type, Zone) EXCEPT
        !.length = h.segs[HotSeg(h.segs)].size, !.recovery = TRUE]

(* The keys of both volume keys and the reencrypt keyslot can be had.      *)
Unlockable(h) == h.reencslot /\ h.oldslot /\ oldkey

(* Mutation: the state is not verified to be clean after the lock is taken. *)
LoadUnverified(t, z) ==
    /\ pc = "idle"
    /\ hdr.flag /\ Unlockable(hdr)
    /\ mem' = hdr /\ rh' = ContextOf(hdr, t, z)
    /\ pc' = "loop"
    /\ UNCHANGED <<hdr, oldkey, data, synced, area, areasync, stale, faults>>

(* reencrypt_lock_and_verify, with the reload of the header, and the rest  *)
(* of reencrypt_load_by_passphrase.  Refused unless the state is clean.    *)
LoadReencrypt(t, z) ==
    /\ pc = "idle"
    /\ Status(hdr) = "clean" /\ Unlockable(hdr)
    /\ mem' = hdr /\ rh' = ContextOf(hdr, t, z)
    /\ pc' = "loop"
    /\ UNCHANGED <<hdr, oldkey, data, synced, area, areasync, stale, faults>>

-----------------------------------------------------------------------------
(* The loop of crypt_reencrypt and reencrypt_step                          *)

(* The reencrypt keyslot and the segments are updated, in memory only.     *)
StepBegin ==
    /\ pc = "loop"
    /\ rh.progress < N
    /\ mem' = Assigned(Protected(mem, rh.type), HotSegs(mem.direction, rh))
    /\ pc' = "read"
    /\ UNCHANGED <<hdr, oldkey, data, synced, area, areasync, rh, stale, faults>>

(* The user interrupts after a step, or all is done.                       *)
LoopEnds ==
    /\ pc = "loop"
    /\ rh.read > 0 \/ rh.progress >= N
    /\ pc' = "teardown"
    /\ UNCHANGED <<hdr, oldkey, data, synced, area, areasync, mem, rh, stale, faults>>

(* crypt_storage_wrapper_read of the hotzone; REENC_ROLLBACK on failure.   *)
ReadHotzone ==
    /\ pc = "read"
    /\ \/ /\ rh' = [rh EXCEPT !.read = rh.length]
          /\ pc' = IF rh.type = "none" THEN "write" ELSE "protect"
          /\ UNCHANGED <<mem, stale, faults>>
       \/ IOError /\ Release
    /\ UNCHANGED <<hdr, oldkey, data, synced, area, areasync>>

(* reencrypt_hotzone_protect_final: checksums or the ciphertext itself are *)
(* stored in the keyslot area, and ...                                     *)
StoreArea ==
    /\ pc = "protect"
    /\ \/ /\ area' = [type |-> rh.type,
                      cells |-> [k \in 1..rh.length |->
                                   <<rh.offset + k - 1, data[rh.offset + k - 1]>>]]
          /\ pc' = "hot"
          /\ UNCHANGED <<mem, rh, stale, faults>>
       \/ IOError /\ area' \in {area, Wiped} /\ Release
    /\ UNCHANGED <<hdr, oldkey, data, synced, areasync>>

(* ... the header with the hot segment is committed.                       *)
CommitHot ==
    /\ pc = "hot"
    /\ \/ CommitOk(mem) /\ pc' = "write" /\ UNCHANGED <<mem, rh, stale>>
       \/ CommitFails(mem) /\ Release
    /\ UNCHANGED <<oldkey, data, synced, area>>

Written ==
    [i \in Sector |-> IF i \in HotZone(rh) THEN Reencrypted(data[i]) ELSE data[i]]

(* crypt_storage_wrapper_encrypt_write; REENC_FATAL on failure.            *)
WriteHotzone ==
    /\ pc = "write"
    /\ \/ /\ data' = Written
          /\ pc' = IF rh.type = "none" THEN "post" ELSE "sync"
          /\ UNCHANGED <<mem, rh, stale, faults>>
       \/ /\ IOError
          /\ data' \in CutShort(rh.type, HotZone(rh), Written)
          /\ Release
    /\ UNCHANGED <<hdr, oldkey, synced, area, areasync>>

(* Mutation: the data are not synced before the header is committed.       *)
DatasyncSkipped ==
    /\ pc = "sync"
    /\ pc' = "post"
    /\ UNCHANGED <<hdr, oldkey, data, synced, area, areasync, mem, rh, stale, faults>>

(* crypt_storage_wrapper_datasync *)
Datasync ==
    /\ pc = "sync"
    /\ \/ synced' = data /\ pc' = "post" /\ UNCHANGED <<mem, rh, stale, faults>>
       \/ synced' = synced /\ IOError /\ Release
    /\ UNCHANGED <<hdr, oldkey, data, area, areasync>>

(* Mutation: the offset is not moved.                                      *)
NextContextStuck(r, d) == [r EXCEPT !.progress = @ + r.read]

(* Mutation: the last hotzone is not cut to what is left.                  *)
NextContextUncut(r, d) ==
    [r EXCEPT !.offset = IF d = "backward" THEN r.offset - Least(r.offset, r.length)
                         ELSE r.offset + r.read,
              !.progress = @ + r.read]

(* reencrypt_context_update *)
NextContext(r, d) ==
    LET offset == IF d = "backward" THEN r.offset - Least(r.offset, r.length)
                  ELSE r.offset + r.read
    IN  [r EXCEPT !.offset = offset,
                  !.length = Least(@, IF d = "backward" THEN r.offset
                                      ELSE N - offset),
                  !.progress = @ + r.read]

(* The safe point: the segments after the hotzone, committed unless the    *)
(* resilience is none, and the context moves on.                           *)
CommitPost ==
    /\ pc = "post"
    /\ \/ /\ IF rh.type = "none" THEN UNCHANGED <<hdr, areasync, faults>>
             ELSE CommitOk(Pending)
          /\ mem' = Pending /\ rh' = NextContext(rh, mem.direction)
          /\ pc' = "loop"
          /\ UNCHANGED stale
       \/ rh.type # "none" /\ CommitFails(Pending) /\ Release
    /\ UNCHANGED <<oldkey, data, synced, area>>

-----------------------------------------------------------------------------
(* reencrypt_teardown_ok                                                   *)

(* Mutation: one hotzone too early.                                        *)
AlmostFinished(r) == r.progress + Zone >= N

Finished(r) == r.progress >= N

(* Where the teardown goes on when nothing (more) is to be finished.       *)
TornDown ==
    \/ rh.recovery /\ pc' = "final" /\ UNCHANGED <<mem, rh, stale>>
    \/ ~rh.recovery /\ Release

(* Mutation: without resilience the header is not written at the end.      *)
TeardownUnwritten ==
    /\ pc = "teardown"
    /\ \/ Finished(rh) /\ pc' = "wipeold" /\ UNCHANGED <<mem, rh, stale>>
       \/ ~Finished(rh) /\ TornDown
    /\ UNCHANGED <<hdr, oldkey, data, synced, area, areasync, faults>>

Teardown ==
    /\ pc = "teardown"
    /\ \/ /\ IF rh.type = "none" THEN CommitOk(mem)
             ELSE UNCHANGED <<hdr, areasync, faults>>
          /\ \/ Finished(rh) /\ pc' = "wipeold" /\ UNCHANGED <<mem, rh, stale>>
             \/ ~Finished(rh) /\ TornDown
       \/ rh.type = "none" /\ CommitFails(mem) /\ Release
    /\ UNCHANGED <<oldkey, data, synced, area>>

(* crypt_keyslot_destroy of the old keyslot: the key material is wiped and *)
(* then the header is committed.  Failures are ignored.                    *)
WipeOld ==
    /\ pc = "wipeold"
    /\ \/ oldkey' = FALSE /\ pc' = "dropold" /\ UNCHANGED faults
       \/ oldkey' \in BOOLEAN /\ IOError /\ pc' = "wipereenc"
    /\ UNCHANGED <<hdr, data, synced, area, areasync, mem, rh, stale>>

DropOld ==
    /\ pc = "dropold"
    /\ \/ CommitOk(Pending) /\ stale' = stale
       \/ CommitFails(Pending) /\ stale' = (rh.recovery /\ hdr' = hdr)
    /\ mem' = Pending
    /\ pc' = "wipereenc"
    /\ UNCHANGED <<oldkey, data, synced, area, rh>>

(* crypt_keyslot_destroy of the reencrypt keyslot.  It does nothing if the *)
(* sequence id no longer matches.                                          *)
WipeReenc ==
    /\ pc = "wipereenc"
    /\ \/ ~stale /\ area' = Wiped /\ pc' = "dropreenc" /\ UNCHANGED faults
       \/ ~stale /\ area' \in {area, Wiped} /\ IOError /\ pc' = "unflag"
       \/ stale /\ area' = area /\ pc' = "unflag" /\ UNCHANGED faults
    /\ UNCHANGED <<hdr, oldkey, data, synced, areasync, mem, rh, stale>>

DropReenc ==
    /\ pc = "dropreenc"
    /\ \/ CommitOk(Pending) /\ stale' = stale
       \/ CommitFails(Pending) /\ stale' = (rh.recovery /\ hdr' = hdr)
    /\ mem' = Pending
    /\ pc' = "unflag"
    /\ UNCHANGED <<oldkey, data, synced, area, rh>>

(* Mutation: the flag is removed in memory only.                           *)
UnflagInMemory ==
    /\ pc = "unflag"
    /\ Release
    /\ UNCHANGED <<hdr, oldkey, data, synced, area, areasync, faults>>

(* reencrypt_erase_backup_segments and reencrypt_update_flag; the teardown *)
(* succeeds even if that fails.                                            *)
Unflag ==
    /\ pc = "unflag"
    /\ \/ CommitOk(Pending)
       \/ CommitFails(Pending)
    /\ \/ rh.recovery /\ pc' = "final" /\ mem' = Pending /\ rh' = rh
          /\ stale' = (hdr' # Pending)
       \/ ~rh.recovery /\ Release
    /\ UNCHANGED <<oldkey, data, synced, area>>

-----------------------------------------------------------------------------
(* reencrypt_recovery, run by activation or with CRYPT_REENCRYPT_RECOVERY  *)

(* The lock, the reload of the header, the keys and reencrypt_load.        *)
LoadCrashed ==
    /\ pc = "idle"
    /\ Status(hdr) = "crash" /\ Unlockable(hdr)
    /\ mem' = hdr /\ rh' = CrashedContext(hdr)
    /\ pc' = "recover"
    /\ UNCHANGED <<hdr, oldkey, data, synced, area, areasync, stale, faults>>

Recovered ==
    [i \in Sector |-> IF i \in HotZone(rh)
                      THEN RecoveredSector(rh.type, rh.offset, data, area, i)
                      ELSE data[i]]

(* reencrypt_assign_segments in memory and reencrypt_context_update, with  *)
(* n sectors recovered.                                                    *)
AfterRecovery(n) ==
    /\ mem' = Assigned(mem, PostSegs(mem.direction, mem.segs))
    /\ rh' = NextContext([rh EXCEPT !.read = n], mem.direction)
    /\ pc' = "teardown"
    /\ stale' = stale

(* reencrypt_recover_segment.  A failure of the hash is reported as        *)
(* EINVAL, not -EINVAL, and a metadata device that cannot be opened for    *)
(* the checksums as success: reencrypt_recovery goes on.                   *)
RecoverSegment ==
    /\ pc = "recover"
    /\ \/ /\ data' = Recovered
          /\ AfterRecovery(rh.length)
          /\ UNCHANGED faults
       \/ /\ IOError
          /\ data' \in CutShort(rh.type, HotZone(rh), Recovered)
          /\ Release
       \/ /\ rh.type = "checksum"
          /\ hasherrs < world.hasherrs /\ hasherrs' = hasherrs + 1
          /\ data' \in CutShort(rh.type, HotZone(rh), Recovered)
          /\ AfterRecovery(0)
          /\ UNCHANGED <<world, deaths, powers, ioerrs>>
    /\ UNCHANGED <<hdr, oldkey, synced, area, areasync>>

(* Mutation: the header is not written after recovery.                     *)
FinalWriteSkipped ==
    /\ pc = "final"
    /\ Release
    /\ UNCHANGED <<hdr, oldkey, data, synced, area, areasync, faults>>

(* The LUKS2_hdr_write at the end of reencrypt_recovery.                   *)
FinalWrite ==
    /\ pc = "final"
    /\ CommitOk(mem) \/ CommitFails(mem)
    /\ Release
    /\ UNCHANGED <<oldkey, data, synced, area>>

-----------------------------------------------------------------------------
(* Faults                                                                  *)

(* What the sectors may be if the process stops where it is.               *)
DataNow ==
    CASE pc = "write" -> CutShort(rh.type, HotZone(rh), Written)
      [] pc = "recover" -> CutShort(rh.type, HotZone(rh), Recovered)
      [] OTHER -> {data}

Die ==
    /\ pc # "idle"
    /\ MayFail
    /\ deaths < world.deaths /\ deaths' = deaths + 1
    /\ data' \in DataNow
    /\ Release
    /\ UNCHANGED <<hdr, oldkey, synced, area, areasync, world, powers, ioerrs, hasherrs>>

(* The process commits a header in its next step.                          *)
Committing ==
    \/ pc \in {"hot", "dropold", "dropreenc", "unflag", "final"}
    \/ pc = "post" /\ rh.type # "none"
    \/ pc = "teardown" /\ rh.type = "none"

(* A power failure: a header on its way reaches the medium or not, and so  *)
(* does everything that is volatile and not synced, each on its own.       *)
PowerFailure ==
    /\ MayFail
    /\ powers < world.powers /\ powers' = powers + 1
    /\ hdr' \in {hdr} \cup (IF Committing THEN {Pending} ELSE {})
    /\ data' \in {d \in [Sector -> Content] :
                    \E e \in DataNow : \A i \in Sector :
                        \/ d[i] = e[i]
                        \/ "data" \in world.volatile /\ d[i] = synced[i]}
    /\ synced' = data'
    /\ area' \in {area} \cup (IF "area" \in world.volatile THEN {areasync} ELSE {})
    /\ areasync' = area'
    /\ Release
    /\ UNCHANGED <<oldkey, world, deaths, ioerrs, hasherrs>>

-----------------------------------------------------------------------------
(* The steps of the process that holds the lock.                           *)
Proceed ==
    \/ StepBegin \/ LoopEnds \/ ReadHotzone \/ StoreArea \/ CommitHot
    \/ WriteHotzone \/ Datasync \/ CommitPost
    \/ RecoverSegment
    \/ Teardown \/ WipeOld \/ DropOld \/ WipeReenc \/ DropReenc \/ Unflag
    \/ FinalWrite

Resume == \E t \in world.types, z \in world.limits : LoadReencrypt(t, z)

Next ==
    \/ \E d \in world.directions : InitReencrypt(d)
    \/ Resume \/ LoadCrashed
    \/ Proceed
    \/ Die \/ PowerFailure

Spec == Init /\ [][Next]_vars

(* A process that runs goes on, and the user starts reencryption again, or *)
(* activates the device, until it is done.                                 *)
FairSpec ==
    Spec /\ WF_vars(Proceed) /\ WF_vars(Resume) /\ WF_vars(LoadCrashed)

-----------------------------------------------------------------------------
(* Properties                                                              *)

(* Every sector can be decrypted with the key the header names for it, and *)
(* a sector of the hotzone after recovery with the new key.  While the     *)
(* resilience is none this holds only between two runs.                    *)
Decodable ==
    LET k == HotSeg(hdr.segs)
    IN  \A i \in Sector :
          IF KeyOf(hdr.segs, i) = "hot"
          THEN RecoveredSector(hdr.type, SegStart(hdr.segs, k), data, area, i) = "new"
          ELSE data[i] = KeyOf(hdr.segs, i)

RecoveryKeepsData == (pc # "idle" /\ rh.type = "none") \/ Decodable

(* Faults that the code takes care of: one in the finish, or in a short    *)
(* last hotzone, may make the next run start over, a run without           *)
(* resilience survives none, and a failed hash goes unnoticed.             *)
Handled == world.faultsat = {} /\ hasherrs = 0

(* The data stay readable over all faults the code takes care of.          *)
DataKept == Handled => RecoveryKeepsData

(* While a segment on disk needs the old volume key, and no process works  *)
(* on the device, the old keyslot can be opened and the reencrypt keyslot  *)
(* is there.                                                               *)
KeysKept ==
    Handled /\ pc = "idle" /\ (\E k \in DOMAIN hdr.segs : hdr.segs[k].key # "new")
        => hdr.oldslot /\ oldkey /\ (hdr.flag => hdr.reencslot)

(* The old key is destroyed only when no sector needs it, whatever fails   *)
(* while reencryption is being finished.  (A failed hash goes unnoticed.)  *)
OldKeyWipedLast ==
    ~oldkey /\ hasherrs = 0 => \A i \in Sector : data[i] # "old"

(* The keys outlive what needs them, from the first hotzone to the end of  *)
(* the finish (reencrypt_teardown_ok), with every offset, length and       *)
(* progress in its range (reencrypt_context_update).                       *)
KeysInOrder == TypeOK /\ KeysKept /\ OldKeyWipedLast

(* A sector that the header has under the new key stays so, over commits,  *)
(* resumed runs and recoveries; and the requirement flag goes only when    *)
(* all data are under the new key.                                         *)
ProgressKept ==
    [][Handled =>
         /\ \A i \in Sector : KeyOf(hdr.segs, i) = "new" => KeyOf(hdr'.segs, i) = "new"
         /\ hdr.flag /\ ~hdr'.flag => \A i \in Sector : data'[i] = "new"]_vars

(* An initialised reencryption comes to its end, over crashes, failures    *)
(* and interruptions that do not hit the finish: the requirement flag is   *)
(* removed.                                                                *)
ReencryptFinishes ==
    (hdr.flag /\ "finish" \notin world.faultsat) ~> ~hdr.flag
=============================================================================
