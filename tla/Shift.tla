-------------------------------- MODULE Shift --------------------------------
(***************************************************************************)
(* Encryption of a device in place, with its header at the head of the     *)
(* same device: cryptsetup reencrypt --encrypt --reduce-device-size        *)
(* (src/cryptsetup.c, lib/luks2/luks2_reencrypt.c with data shift).        *)
(*                                                                         *)
(* The tool formats a temporary header in a file, copies the first Shift   *)
(* blocks of the device to its end, commits the segments to the file,      *)
(* writes the file over the head of the device, and then encrypts from the *)
(* end to the beginning, every block moved up by Shift.  What a hotzone is *)
(* read from is not overwritten by it, which is its only resilience.       *)
(*                                                                         *)
(* One process works on the device, offline; it may die or fail anywhere   *)
(* and be started again.  The user keeps the last 2 * Shift blocks free,   *)
(* which is the value of --reduce-device-size.  Header commits are atomic  *)
(* (VersionedHeader); what is written stays written (no power failure).    *)
(***************************************************************************)
EXTENDS Integers, Sequences

CONSTANTS
    Shift,          \* the data shift, and the data offset of the header
    Worlds          \* the size of the device and the faults that may happen

ASSUME ShiftConstants ==
    /\ Shift \in Nat \ {0}
    /\ \A w \in Worlds :
         /\ w.size \in Nat /\ w.size >= 3 * Shift
         /\ w.deaths \in Nat /\ w.ioerrs \in Nat
         /\ w.at \subseteq {"restore", "restart", "wipe", "finish", "recovered"}
            \* faults the code or the user does not take care of: the header
            \* cannot be written to the device, encryption is started over
            \* though a temporary header is left, the moved segment cannot be
            \* wiped, a death or a last failed write in the finish of a run,
            \* the same in the finish of a recovery

VARIABLES
    data,           \* the blocks of the device
    hdr,            \* the header on the device, once it is there
    file,           \* the temporary header
    pc,             \* where the process is
    mem,            \* its header in memory
    rh,             \* its struct luks2_reencrypt
    world, deaths, ioerrs

vars == <<data, hdr, file, pc, mem, rh, world, deaths, ioerrs>>
faults == <<world, deaths, ioerrs>>

D == world.size
dev_size == D - Shift
Block == 0..(D - 1)

(* The blocks of the user, which are to be kept.                           *)
Kept == 0..(D - 2 * Shift - 1)

(* Contents: block x of the user, or ciphertext for logical block iv of    *)
(* block x (-1 is no block of the user); the header or a keyslot area.     *)
Plain(x) == <<"plain", x>>
Crypt(iv, x) == <<"crypt", iv, x>>
HeadArea == <<"head">>
Junk == <<"junk">>

Encrypted(c, iv) == Crypt(iv, IF c[1] = "plain" THEN c[2] ELSE -1)

(* Segments; size 0 is "dynamic".  A header that is not there is <<>>.     *)
Seg(t, o, n) == [type |-> t, offset |-> o, size |-> n]
NoHeader == <<>>
Formatted == <<[flag |-> FALSE, slot |-> FALSE, segs |-> <<Seg("crypt", Shift, 0)>>]>>

NoContext == [offset |-> 0, length |-> 0, progress |-> 0, read |-> 0, device_size |-> 0, recovery |-> FALSE]

Init ==
    /\ world \in Worlds
    /\ data = [i \in Block |-> Plain(i)]
    /\ hdr = NoHeader /\ file = NoHeader
    /\ pc = "idle" /\ mem = NoHeader /\ rh = NoContext
    /\ deaths = 0 /\ ioerrs = 0

-----------------------------------------------------------------------------
(* Segments                                                                *)

HotSeg(segs) == {k \in DOMAIN segs : segs[k].type = "hot"}
TheHot(segs) == CHOOSE k \in HotSeg(segs) : TRUE
Linear(segs) == {k \in DOMAIN segs : segs[k].type = "linear"}

(* reencrypt_set_encrypt_segments, with the first segment moved.           *)
InitialSegs ==
    <<Seg("linear", dev_size, Shift)>>
      \o IF dev_size > 2 * Shift THEN <<Seg("linear", Shift, dev_size - 2 * Shift)>> ELSE <<>>

(* The size of the segments K.  There are four of them at most: the moved  *)
(* one, what is not encrypted yet, the hotzone, and what is encrypted.     *)
SizeOf(segs, K) ==
    LET size(k) == IF k \in K THEN segs[k].size ELSE 0
    IN  size(1) + size(2) + size(3) + size(4)

LinearLength(segs) == SizeOf(segs, Linear(segs))

(* LUKS2_get_data_size *)
DataSize(segs) == SizeOf(segs, DOMAIN segs)

(* reencrypt_make_hot_segments_encrypt_shift: the hotzone is cut from the  *)
(* end of the last linear segment.                                         *)
HotSegs(segs, r) ==
    LET sg == CHOOSE k \in Linear(segs) : \A j \in Linear(segs) : j <= k
        crypt_seg == {k \in DOMAIN segs : segs[k].type = "crypt"}
    IN  SubSeq(segs, 1, sg - 1)
          \o (IF segs[sg].size > r.length THEN <<[segs[sg] EXCEPT !.size = @ - r.length]>> ELSE <<>>)
          \o <<Seg("hot", Shift + r.offset, r.length)>>
          \o (IF crypt_seg = {} THEN <<>> ELSE <<segs[CHOOSE k \in crypt_seg : \A j \in crypt_seg : k <= j]>>)

(* _enc_create_segments_shift_after: the hot segment is joined with the    *)
(* encrypted one after it.                                                 *)
PostSegs(segs, r) ==
    LET k == TheHot(segs)
        size == r.length + IF k < Len(segs) THEN segs[k + 1].size ELSE 0
    IN  SubSeq(segs, 1, k - 1) \o <<Seg("crypt", Shift + r.offset, IF k > 1 THEN size ELSE 0)>>

(* LUKS2_reencrypt_status *)
Status(h) ==
    IF h = NoHeader \/ ~h[1].flag THEN "none" ELSE IF HotSeg(h[1].segs) = {} THEN "clean" ELSE "crash"

(* Where a hotzone is read from: the moved segment, or Shift below.        *)
Source(segs, r) == IF r.offset = 0 THEN dev_size ELSE r.offset

-----------------------------------------------------------------------------
(* The device                                                              *)

(* Both copies of the header are in the first block of the head; the areas *)
(* of the keyslots are in the other ones.                                  *)
HasHeader == hdr # NoHeader /\ data[0] = HeadArea
HasKeys == HasHeader /\ \A i \in 0..(Shift - 1) : data[i] = HeadArea

(* What a write of w to the blocks z leaves when it is cut short.          *)
CutShort(z, w) ==
    {[i \in Block |-> IF i \notin z THEN data[i]
                      ELSE CASE c[i] = 0 -> data[i] [] c[i] = 1 -> Junk [] OTHER -> w[i]] :
       c \in [z -> 0..2]}

(* The same for a write from the first block on.                           *)
CutBehind(n, w) ==
    {[i \in Block |-> IF i < k THEN w[i] ELSE IF i = k THEN c ELSE data[i]] :
       k \in 0..(n - 1), c \in {Junk} \cup {data[j] : j \in 0..(n - 1)}}

Hotzone(r) == {i \in Block : Shift + r.offset <= i /\ i < Shift + r.offset + r.length}

Written(r) ==
    [i \in Block |-> IF i \in Hotzone(r)
                     THEN Encrypted(data[Source(mem[1].segs, r) + i - Shift - r.offset], i - Shift)
                     ELSE data[i]]

Moved == [i \in Block |-> IF i >= dev_size THEN data[i - dev_size] ELSE data[i]]
WithHead == [i \in Block |-> IF i < Shift THEN HeadArea ELSE data[i]]
WipedEnd == [i \in Block |-> IF i >= dev_size THEN Junk ELSE data[i]]

IOError ==
    /\ ioerrs < world.ioerrs /\ ioerrs' = ioerrs + 1
    /\ UNCHANGED <<world, deaths>>

Release == pc' = "idle" /\ mem' = NoHeader /\ rh' = NoContext

-----------------------------------------------------------------------------
(* action_encrypt_luks2                                                    *)

(* A temporary header that was initialised is left by an earlier run.      *)
Leftover == Status(file) = "clean"

(* A user who finds a temporary header, or the head of the device damaged, *)
(* does not start over.                                                    *)
Careful == ~Leftover /\ \A i \in 0..(Shift - 1) : data[i] = Plain(i)

(* The device is no LUKS device, and the temporary header is formatted.    *)
Start ==
    /\ pc = "idle"
    /\ ~HasHeader
    /\ Careful \/ "restart" \in world.at
    /\ file' = Formatted
    /\ mem' = <<[flag |-> TRUE, slot |-> TRUE, segs |-> InitialSegs]>>
    /\ pc' = "move"
    /\ UNCHANGED <<data, hdr, rh, faults>>

(* The end of an attempt that failed: the temporary header is removed.     *)
GiveUp == file' = NoHeader /\ Release

(* Mutation: the data are not moved.                                       *)
MoveNothing ==
    /\ pc = "move"
    /\ pc' = "flag"
    /\ UNCHANGED <<data, hdr, file, mem, rh, faults>>

(* reencrypt_move_data *)
MoveData ==
    /\ pc = "move"
    /\ \/ data' = Moved /\ pc' = "flag" /\ UNCHANGED <<file, mem, rh, faults>>
       \/ IOError /\ data' \in CutShort(dev_size..(D - 1), Moved) /\ GiveUp
    /\ UNCHANGED hdr

(* reencrypt_update_flag: the only commit of reencrypt_init.               *)
CommitFlag ==
    /\ pc = "flag"
    /\ \/ file' = mem /\ pc' = "restore" /\ UNCHANGED <<mem, rh, faults>>
       \/ IOError /\ GiveUp
    /\ UNCHANGED <<data, hdr>>

(* crypt_header_restore: one write over the head of the device.  When it   *)
(* fails the temporary header is removed all the same.                     *)
RestoreHeader ==
    /\ pc = "restore"
    /\ \/ data' = WithHead /\ hdr' = file /\ pc' = "resume" /\ UNCHANGED <<file, mem, rh, faults>>
       \/ /\ "restore" \in world.at /\ IOError
          /\ data' \in CutBehind(Shift, WithHead)
          /\ hdr' = IF data'[0] = HeadArea THEN file ELSE hdr
          /\ GiveUp

(* The user restores the header that a dead process has left.              *)
RestoreByUser ==
    /\ pc = "idle"
    /\ Leftover /\ ~HasKeys
    /\ data' = WithHead /\ hdr' = file /\ file' = NoHeader
    /\ UNCHANGED <<pc, mem, rh, faults>>

-----------------------------------------------------------------------------
(* Loading the context                                                     *)

(* reencrypt_offset_backward_moved: what is left, and the first hotzone,   *)
(* which has what does not fill a hotzone of full length.                  *)
OffsetMoved(segs) ==
    LET tmp == LinearLength(segs) - Shift
    IN  IF Linear(segs) = {} THEN [offset |-> 0, length |-> Shift]
        ELSE IF 0 < tmp /\ tmp < Shift THEN [offset |-> Shift, length |-> tmp]
        ELSE [offset |-> tmp, length |-> Shift]

Least(a, b) == IF a <= b THEN a ELSE b

(* reencrypt_context_init *)
ContextOf(segs, size) ==
    LET o == IF HotSeg(segs) = {} THEN OffsetMoved(segs)
             ELSE [offset |-> segs[TheHot(segs)].offset - Shift, length |-> Shift]
        length == Least(o.length, size - o.offset)
    IN  [offset |-> o.offset, length |-> length, progress |-> size - o.offset - length,
         read |-> 0, device_size |-> size, recovery |-> FALSE]

(* reencrypt_load_crashed: the device has the size of its segments, and    *)
(* the hotzone the one of the hot segment.                                 *)
CrashedContext(segs) ==
    [ContextOf(segs, DataSize(segs)) EXCEPT !.length = segs[TheHot(segs)].size, !.recovery = TRUE]

(* reencrypt_load_by_passphrase, at the end of action_encrypt_luks2 or by  *)
(* action_reencrypt_load.  The temporary header is not needed any more; a  *)
(* user may have asked to initialise only.                                 *)
LoadReencrypt ==
    /\ \/ pc = "resume" /\ file' = NoHeader
       \/ pc = "idle" /\ HasKeys /\ file' = file
    /\ Status(hdr) = "clean" /\ hdr[1].slot
    /\ \/ mem' = hdr /\ rh' = ContextOf(hdr[1].segs, dev_size) /\ pc' = "loop"
       \/ pc = "resume" /\ Release
    /\ UNCHANGED <<data, hdr, faults>>

-----------------------------------------------------------------------------
(* crypt_reencrypt, reencrypt_step                                         *)

StepBegin ==
    /\ pc = "loop" /\ rh.progress < rh.device_size
    /\ Linear(mem[1].segs) # {}
    /\ mem' = <<[mem[1] EXCEPT !.segs = HotSegs(@, rh)]>>
    /\ pc' = "read"
    /\ UNCHANGED <<data, hdr, file, rh, faults>>

(* Nothing is left to encrypt: there are no segments to assign.            *)
StepRefused ==
    /\ pc = "loop" /\ rh.progress < rh.device_size
    /\ Linear(mem[1].segs) = {}
    /\ Release
    /\ UNCHANGED <<data, hdr, file, faults>>

(* The user interrupts after a step, or all is done.                       *)
LoopEnds ==
    /\ pc = "loop" /\ (rh.read > 0 \/ rh.progress >= rh.device_size)
    /\ pc' = "teardown"
    /\ UNCHANGED <<data, hdr, file, mem, rh, faults>>

ReadHotzone ==
    /\ pc = "read"
    /\ \/ rh' = [rh EXCEPT !.read = rh.length] /\ pc' = "hot" /\ UNCHANGED <<mem, faults>>
       \/ IOError /\ Release
    /\ UNCHANGED <<data, hdr, file>>

(* reencrypt_hotzone_protect_final has nothing to store and commits.       *)
CommitHot ==
    /\ pc = "hot"
    /\ \/ hdr' = mem /\ pc' = "write" /\ UNCHANGED <<mem, rh, faults>>
       \/ hdr' \in {hdr, mem} /\ IOError /\ Release
    /\ UNCHANGED <<data, file>>

WriteHotzone ==
    /\ pc = "write"
    /\ \/ data' = Written(rh) /\ pc' = "post" /\ UNCHANGED <<mem, rh, faults>>
       \/ IOError /\ data' \in CutShort(Hotzone(rh), Written(rh)) /\ Release
    /\ UNCHANGED <<hdr, file>>

(* Mutation: what does not fill a hotzone is left for a hotzone of its own *)
(* that is not there.                                                      *)
NextContextUncut(r) ==
    [r EXCEPT !.offset = IF r.offset > 0 THEN r.offset - Shift ELSE 0, !.progress = @ + r.read]

(* reencrypt_context_update: the last but one hotzone is what is left      *)
(* above the first Shift blocks, the last one is these.                    *)
NextContext(r) ==
    LET o == IF r.offset > 0 THEN r.offset - Shift ELSE 0
    IN  [r EXCEPT !.offset = IF 0 < o /\ o < Shift THEN Shift ELSE o,
                  !.length = IF 0 < o /\ o < Shift THEN o ELSE IF o = 0 THEN Shift ELSE @,
                  !.progress = @ + r.read]

(* reencrypt_make_post_segments *)
Advanced == <<[mem[1] EXCEPT !.segs = PostSegs(@, rh)]>>

LastHotzone == Linear(mem[1].segs) = {}

(* A failed commit may have reached the device.                            *)
CommitPost ==
    /\ pc = "post"
    /\ \/ hdr' = Advanced /\ mem' = Advanced /\ rh' = NextContext(rh) /\ pc' = "loop" /\ UNCHANGED faults
       \/ /\ IOError /\ Release
          /\ \/ hdr' = hdr
             \/ hdr' = Advanced /\ (LastHotzone => "finish" \in world.at)
    /\ UNCHANGED <<data, file>>

-----------------------------------------------------------------------------
(* reencrypt_teardown_ok                                                   *)

Teardown ==
    /\ pc = "teardown"
    /\ \/ rh.progress >= rh.device_size /\ pc' = "wipe" /\ UNCHANGED <<mem, rh>>
       \/ rh.progress < rh.device_size /\ rh.recovery /\ pc' = "final" /\ UNCHANGED <<mem, rh>>
       \/ rh.progress < rh.device_size /\ ~rh.recovery /\ Release
    /\ UNCHANGED <<data, hdr, file, faults>>

(* Mutation: the moved segment is left as it is.                           *)
WipeNothing ==
    /\ pc = "wipe"
    /\ pc' = "drop"
    /\ UNCHANGED <<data, hdr, file, mem, rh, faults>>

(* reencrypt_wipe_moved_segment, before any commit of the finish.  When it *)
(* fails the code says so and goes on.                                     *)
WipeMoved ==
    /\ pc = "wipe"
    /\ \/ data' = WipedEnd /\ UNCHANGED faults
       \/ "wipe" \in world.at /\ IOError /\ data' \in CutShort(dev_size..(D - 1), WipedEnd)
    /\ pc' = "drop"
    /\ UNCHANGED <<hdr, file, mem, rh>>

(* crypt_keyslot_destroy of the reencrypt keyslot: its area is wiped, then *)
(* the header is written.  Its result is not looked at.                    *)
DropSlot ==
    /\ pc = "drop"
    /\ \/ /\ mem' = <<[mem[1] EXCEPT !.slot = FALSE]>>
          /\ \/ hdr' = mem' /\ UNCHANGED faults
             \/ hdr' \in {hdr, mem'} /\ IOError
       \/ "finish" \in world.at /\ IOError /\ UNCHANGED <<hdr, mem>>
    /\ pc' = "unflag"
    /\ UNCHANGED <<data, file, rh>>

(* reencrypt_erase_backup_segments and reencrypt_update_flag, whose result *)
(* is not looked at either; a recovery writes the header once more.        *)
Unflag ==
    /\ pc = "unflag"
    /\ LET h == <<[mem[1] EXCEPT !.flag = FALSE]>>
       IN  /\ \/ hdr' = h /\ UNCHANGED faults
              \/ hdr' = h /\ IOError
              \/ hdr' = hdr /\ IOError /\ (rh.recovery \/ "finish" \in world.at)
           /\ \/ rh.recovery /\ mem' = h /\ rh' = rh /\ pc' = "final"
              \/ ~rh.recovery /\ Release
    /\ UNCHANGED <<data, file>>

-----------------------------------------------------------------------------
(* reencrypt_recovery                                                      *)

LoadCrashed ==
    /\ pc = "idle" /\ HasKeys
    /\ Status(hdr) = "crash" /\ hdr[1].slot
    /\ mem' = hdr /\ rh' = CrashedContext(hdr[1].segs)
    /\ pc' = "recover"
    /\ UNCHANGED <<data, hdr, file, faults>>

(* reencrypt_recover_segment encrypts the hotzone again from its source;   *)
(* the segments and the context move on in memory.                         *)
RecoverSegment ==
    /\ pc = "recover"
    /\ \/ /\ data' = Written(rh)
          /\ mem' = Advanced /\ rh' = NextContext([rh EXCEPT !.read = rh.length])
          /\ pc' = "teardown" /\ UNCHANGED faults
       \/ IOError /\ data' \in CutShort(Hotzone(rh), Written(rh)) /\ Release
    /\ UNCHANGED <<hdr, file>>

(* Mutation: the header is not written after a recovery.                   *)
FinalWriteSkipped ==
    /\ pc = "final"
    /\ Release
    /\ UNCHANGED <<data, hdr, file, faults>>

(* When it fails the header may be on the device or not; if not, the work  *)
(* of the last hotzone and of the finish is not in it.                     *)
FinalWrite ==
    /\ pc = "final"
    /\ \/ hdr' = mem /\ UNCHANGED faults
       \/ hdr' = mem /\ IOError
       \/ hdr' = hdr /\ IOError /\ (LastHotzone => "recovered" \in world.at)
    /\ Release
    /\ UNCHANGED <<data, file>>

-----------------------------------------------------------------------------
(* A death leaves what it interrupts half done.                            *)
DataNow ==
    CASE pc = "move" -> CutShort(dev_size..(D - 1), Moved)
      [] pc = "restore" -> CutBehind(Shift, WithHead) \cup {WithHead}
      [] pc \in {"write", "recover"} -> CutShort(Hotzone(rh), Written(rh))
      [] pc = "wipe" -> CutShort(dev_size..(D - 1), WipedEnd)
      [] OTHER -> {data}

(* The last hotzone is committed, or its recovery is done.                 *)
Finishing ==
    pc \in {"wipe", "drop", "unflag", "final", "teardown", "loop"} /\ LastHotzone

Die ==
    /\ pc # "idle"
    /\ Finishing => IF rh.recovery THEN "recovered" \in world.at ELSE "finish" \in world.at
    /\ deaths < world.deaths /\ deaths' = deaths + 1
    /\ data' \in DataNow
    /\ hdr' = IF pc = "restore" /\ data'[0] = HeadArea THEN file ELSE hdr
    /\ Release
    /\ UNCHANGED <<file, world, ioerrs>>

Proceed ==
    \/ MoveData \/ CommitFlag \/ RestoreHeader
    \/ StepBegin \/ StepRefused \/ LoopEnds \/ ReadHotzone \/ CommitHot \/ WriteHotzone \/ CommitPost
    \/ Teardown \/ WipeMoved \/ DropSlot \/ Unflag
    \/ RecoverSegment \/ FinalWrite

Next == Start \/ RestoreByUser \/ LoadReencrypt \/ LoadCrashed \/ Proceed \/ Die

(* A process that runs goes on, and the user goes on until all is done.    *)
Spec ==
    /\ Init /\ [][Next]_vars
    /\ WF_vars(Proceed) /\ WF_vars(LoadReencrypt) /\ WF_vars(LoadCrashed)
    /\ WF_vars(Start) /\ WF_vars(RestoreByUser)

-----------------------------------------------------------------------------
(* Properties                                                              *)

(* Every value is in its range; offset, length and progress, unsigned in   *)
(* the code, never wrap (reencrypt_context_update).                        *)
ShiftTypeOK ==
    /\ DOMAIN data = Block
    /\ \A h \in {hdr, file, mem} : h # NoHeader =>
         /\ {h[1].flag, h[1].slot} \subseteq BOOLEAN /\ Len(h[1].segs) \in 1..4
         /\ \A k \in DOMAIN h[1].segs :
              h[1].segs[k] \in [type : {"linear", "crypt", "hot"}, offset : Block, size : 0..D]
    /\ rh.offset \in 0..dev_size /\ rh.length \in 0..Shift /\ rh.device_size \in 0..dev_size
    /\ rh.progress \in 0..rh.device_size /\ rh.read \in 0..Shift
    /\ pc = "read" => rh.offset + rh.length <= LinearLength(hdr[1].segs)

SegStart(segs, k) == SizeOf(segs, 1..(k - 1))

(* Block x of the user as it is found with these segments, after a         *)
(* recovery of the hot segment if there is one.                            *)
Found(segs, x) ==
    LET k == CHOOSE k \in DOMAIN segs :
               /\ SegStart(segs, k) <= x
               /\ segs[k].size = 0 \/ x < SegStart(segs, k) + segs[k].size
        rel == x - SegStart(segs, k)
        hot == [offset |-> segs[k].offset - Shift]
    IN  CASE segs[k].type = "linear" -> data[segs[k].offset + rel] = Plain(x)
          [] segs[k].type = "crypt" -> data[segs[k].offset + rel] = Crypt(x, x)
          [] segs[k].type = "hot" -> data[Source(segs, hot) + rel] = Plain(x)

(* The process is gone, or may go.                                         *)
Exposed == pc = "idle" \/ ~(Finishing /\ rh.recovery) \/ "recovered" \in world.at

(* Whatever dies or fails between any two writes of the initialisation,    *)
(* the hotzones and the recovery, every block of the user can be had: with *)
(* the header on the device and a recovery, else with the temporary header *)
(* that is left, else from the device as it was; only when the header      *)
(* could not be restored the first blocks are to be had from the copy.     *)
EncryptionKeepsData ==
    Exposed => \A x \in Kept :
                 IF HasKeys THEN Found(hdr[1].segs, x)
                 ELSE IF Leftover THEN Found(file[1].segs, x)
                 ELSE data[x] = Plain(x) \/ ("restore" \in world.at /\ Found(InitialSegs, x))

(* The blocks are kept, with nothing out of its range                      *)
(* (reencrypt_context_update, reencrypt_recovery).                         *)
EncryptionSafe == ShiftTypeOK /\ EncryptionKeepsData

(* When the requirement flag is gone nothing of the user is left in the    *)
(* clear on the device, the copy of its first blocks at the end included.  *)
(* Where the wipe of that copy may fail, which the code only logs before   *)
(* it drops the flag (reencrypt_teardown_ok), the copy is all that may be  *)
(* left.                                                                   *)
NoPlaintextLeft ==
    HasKeys /\ ~hdr[1].flag =>
      \A i \in Block : data[i][1] = "plain" => "wipe" \in world.at /\ i >= dev_size

(* Started and resumed as often as it takes, encryption comes to its end,  *)
(* unless a process dies while it finishes.                                *)
EncryptionFinishes ==
    world.at = {} => <>(HasKeys /\ hdr[1] = [flag |-> FALSE, slot |-> FALSE, segs |-> <<Seg("crypt", Shift, 0)>>])
=============================================================================
