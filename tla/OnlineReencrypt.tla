--------------------------- MODULE OnlineReencrypt ---------------------------
(***************************************************************************)
(* Reencryption of a LUKS2 device that is in use (lib/luks2/               *)
(* luks2_reencrypt.c): the device `name' is redirected to an overlay       *)
(* device, the overlay sends I/O for the hotzone to a hotzone device, and  *)
(* the hotzone device is suspended while the hotzone is reencrypted.  One  *)
(* action per device-mapper call, write to the data device and commit of   *)
(* the header; applications read and write through `name' all the time.    *)
(*                                                                         *)
(* What Reencrypt shows of the header, the resilience data and recovery is *)
(* taken as promised here: a commit is one step, and a recovery gives each *)
(* hot sector the new key and the content that was saved for it.           *)
(***************************************************************************)
EXTENDS DeviceMapper, TLC

CONSTANTS
    N,              \* sectors
    Lengths,        \* lengths of hotzones
    Forward,        \* the direction
    FaultsAt,       \* the calls that may fail
    Headerless,     \* deactivation may have no LUKS2 header to look at
    MaxFaults, MaxDeaths, MaxWrites

ASSUME OnlineConstants ==
    /\ N \in Nat \ {0} /\ Lengths \subseteq 1..N /\ Lengths # {}
    /\ {Forward, Headerless} \subseteq BOOLEAN
    /\ {MaxFaults, MaxDeaths, MaxWrites} \subseteq Nat

VARIABLES
    dm,         \* the mapped devices
    disk,       \* key and content of each sector of the data device
    want,       \* what applications have last written
    hdr,        \* the header on disk: sectors that are done, hot, the flag
    area,       \* the content the reencrypt keyslot keeps for hot sectors
    pc,         \* the next step of the reencryption process
    hot, buf,   \* its hotzone and the data it has read
    used,       \* an application has `name' open
    result,     \* how the last process ended
    faults, deaths, writes

vars == <<dm, disk, want, hdr, area, pc, hot, buf, used, result, faults, deaths, writes>>
kernel == <<disk, want, used, writes>>          \* left alone by device-mapper calls

Sector == 0..(N - 1)
Content == {0, 1}
Helpers == {"overlay", "hotzone"}

-----------------------------------------------------------------------------
(* Tables                                                                  *)

Target(d, k) == [dev |-> d, key |-> k]
Table(f) == [over |-> {f[s].dev : s \in Sector}, what |-> f]
Linear(d) == Table([s \in Sector |-> Target(d, "none")])

(* LUKS2_assembly_multisegment_dmd: all segments on the data device.       *)
SegmentTable(done) ==
    Table([s \in Sector |-> Target("data", IF s \in done THEN "new" ELSE "old")])

(* A plausible slip: the hot segment keeps the digest it has had.          *)
OldKeyTargets(done, hz) ==
    Table([s \in Sector |-> IF s \in hz THEN Target("hotzone", "old")
                            ELSE Target("data", IF s \in done THEN "new" ELSE "old")])

(* The hot segment goes to the hotzone device, under the new key.          *)
reencrypt_make_targets(done, hz) ==
    Table([s \in Sector |-> IF s \in hz THEN Target("hotzone", "new")
                            ELSE Target("data", IF s \in done THEN "new" ELSE "old")])

(* What the live table of the device that I/O for sector s is at makes of  *)
(* it; I/O stops at the data device, a suspended device or an error.       *)
Through(at, s) ==
    IF at.dev \notin DOMAIN dm THEN at
    ELSE IF dm[at.dev].susp THEN Target("blocked", at.key)
    ELSE IF dm[at.dev].live = ErrorTable THEN Target("error", at.key)
    ELSE LET to == dm[at.dev].live.what[s] IN
         Target(to.dev, IF to.key = "none" THEN at.key ELSE to.key)

(* Where I/O of an application for sector s goes, through `name', the      *)
(* overlay and the hotzone device.                                         *)
Route(s) == Through(Through(Through(Target("name", "none"), s), s), s)

Reaches(s) == Route(s).dev = "data"

-----------------------------------------------------------------------------
(* The process                                                             *)

At(p) == pc = p
End(r) == pc' = "idle" /\ result' = r
Fault(at) == at \in FaultsAt /\ faults < MaxFaults /\ faults' = faults + 1
Fine == UNCHANGED <<faults, deaths>>

(* The next hotzone, from the start or from the end of what is not done.   *)
HotZone(len) ==
    LET left == Sector \ hdr.done
    IN {s \in left : Cardinality({t \in left : IF Forward THEN t < s ELSE t > s}) < len}

(* reencrypt_load_by_passphrase: the state is clean and the live table of  *)
(* `name' is the one that the segments of the header stand for.            *)
LoadContext ==
    /\ At("idle") /\ hdr.flag /\ hdr.hot = {} /\ Exists(dm, "name")
    /\ dm["name"].live = SegmentTable(hdr.done)
    /\ pc' = "create hotzone" /\ result' = "runs"
    /\ UNCHANGED <<dm, hdr, area, hot, buf, kernel>> /\ Fine

(* dm_remove_device: a device that is held stays.                          *)
RemovedIfFree(d, n) == IF Exists(d, n) /\ Holders(d, n) = {} THEN Removed(d, n) ELSE d

(* reencrypt_init_device_stack: the process gives up and removes what it   *)
(* can.  A device that is still mapped by a loaded table stays.            *)
Unstacked(d) == RemovedIfFree(RemovedIfFree(d, "overlay"), "hotzone")

CreateHotzone ==
    /\ At("create hotzone") /\ UNCHANGED <<hdr, area, hot, buf, kernel, deaths>>
    /\ \/ /\ ~Exists(dm, "hotzone") /\ dm' = Created(dm, "hotzone", Linear("data"))
          /\ pc' = "create overlay" /\ UNCHANGED <<result, faults>>
       \/ /\ Exists(dm, "hotzone") /\ End("failed") /\ UNCHANGED <<dm, faults>>
       \/ Fault("create") /\ End("failed") /\ UNCHANGED dm

(* reencrypt_replace_device: the overlay gets the live table of `name',    *)
(* created or, if it is there already, reloaded.                           *)
CreateOverlay ==
    /\ At("create overlay") /\ UNCHANGED <<hdr, area, hot, buf, kernel, deaths>>
    /\ \/ /\ Exists(dm, "name")
          /\ dm' = IF Exists(dm, "overlay")
                   THEN Resumed(Loaded(dm, "overlay", dm["name"].live), "overlay")
                   ELSE Created(dm, "overlay", dm["name"].live)
          /\ pc' = "load name" /\ UNCHANGED <<result, faults>>
       \/ /\ ~Exists(dm, "name") /\ dm' = Unstacked(dm) /\ End("failed") /\ UNCHANGED faults
       \/ Fault("create") /\ dm' = Unstacked(dm) /\ End("failed")

(* reencrypt_swap_backing_device                                           *)
LoadName ==
    /\ At("load name") /\ UNCHANGED <<hdr, area, hot, buf, kernel, deaths>>
    /\ \/ /\ Exists(dm, "name") /\ dm' = Loaded(dm, "name", Linear("overlay"))
          /\ pc' = "switch name" /\ UNCHANGED <<result, faults>>
       \/ /\ ~Exists(dm, "name") /\ dm' = Unstacked(dm) /\ End("failed") /\ UNCHANGED faults
       \/ Fault("load") /\ dm' = Unstacked(dm) /\ End("failed")

SwitchName ==
    /\ At("switch name") /\ UNCHANGED <<hdr, area, hot, buf, kernel, deaths>>
    /\ \/ /\ Exists(dm, "name") /\ dm' = Resumed(dm, "name")
          /\ pc' = "next" /\ UNCHANGED <<result, faults>>
       \/ /\ ~Exists(dm, "name") /\ dm' = Unstacked(dm) /\ End("failed") /\ UNCHANGED faults
       \/ Fault("resume") /\ dm' = Unstacked(dm) /\ End("failed")

(* reencrypt_load_overlay_device: hot segments in memory, and the table    *)
(* for them.                                                               *)
LoadOverlay ==
    /\ At("next") /\ hdr.done # Sector
    /\ \E len \in Lengths : hot' = HotZone(len)
    /\ UNCHANGED <<hdr, area, buf, kernel, deaths>>
    /\ \/ /\ Exists(dm, "overlay")
          /\ dm' = Loaded(dm, "overlay", reencrypt_make_targets(hdr.done, hot'))
          /\ pc' = "suspend overlay" /\ UNCHANGED <<result, faults>>
       \/ /\ ~Exists(dm, "overlay") /\ End("failed") /\ UNCHANGED <<dm, faults>>
       \/ Fault("load") /\ End("failed") /\ UNCHANGED dm

(* reenc_refresh_helper_devices: suspend from top to bottom, then switch   *)
(* the overlay to the new table.  Failures here, and while the hotzone is  *)
(* read or protected, end the process with REENC_ROLLBACK.                 *)
SuspendHelper(at, d, next) ==
    /\ At(at) /\ UNCHANGED <<hdr, area, hot, buf, kernel, deaths>>
    /\ \/ /\ Exists(dm, d) /\ dm' = SuspendedNow(dm, d)
          /\ pc' = next /\ UNCHANGED <<result, faults>>
       \/ /\ ~Exists(dm, d) /\ End("failed") /\ UNCHANGED <<dm, faults>>
       \/ Fault("suspend") /\ End("failed") /\ UNCHANGED dm

SuspendOverlay == SuspendHelper("suspend overlay", "overlay", "suspend hotzone")

(* A plausible slip: the hotzone device is left running.                   *)
SuspendHotzoneNot ==
    At("suspend hotzone") /\ pc' = "resume overlay"
    /\ UNCHANGED <<dm, hdr, area, hot, buf, result, kernel>> /\ Fine

SuspendHotzone == SuspendHelper("suspend hotzone", "hotzone", "resume overlay")

ResumeOverlay ==
    /\ At("resume overlay") /\ UNCHANGED <<hdr, area, hot, buf, kernel, deaths>>
    /\ \/ /\ Exists(dm, "overlay") /\ dm' = Resumed(dm, "overlay")
          /\ pc' = "read" /\ UNCHANGED <<result, faults>>
       \/ /\ ~Exists(dm, "overlay") /\ End("failed") /\ UNCHANGED <<dm, faults>>
       \/ Fault("resume") /\ End("failed") /\ UNCHANGED dm

(* The old wrapper takes every sector of the hotzone for an old one.       *)
ReadHotzone ==
    /\ At("read") /\ UNCHANGED <<dm, hdr, area, hot, kernel, deaths>>
    /\ \/ buf' = [s \in hot |-> disk[s].val] /\ pc' = "commit hot" /\ UNCHANGED <<result, faults>>
       \/ Fault("read") /\ End("failed") /\ UNCHANGED buf

(* reencrypt_hotzone_protect_final                                         *)
CommitHot ==
    /\ At("commit hot") /\ UNCHANGED <<dm, hot, buf, kernel, deaths>>
    /\ \/ /\ area' = buf /\ hdr' = [hdr EXCEPT !.hot = hot]
          /\ pc' = "write" /\ UNCHANGED <<result, faults>>
       \/ Fault("commit") /\ End("failed") /\ UNCHANGED <<hdr, area>>

(* crypt_storage_wrapper_encrypt_write, sector by sector.                  *)
Unwritten == {s \in hot : disk[s].key = "old"}

WriteHotzone ==
    /\ At("write") /\ Unwritten # {}
    /\ \E s \in Unwritten : disk' = [disk EXCEPT ![s] = [key |-> "new", val |-> buf[s]]]
    /\ UNCHANGED <<dm, want, hdr, area, pc, hot, buf, used, result, faults, deaths, writes>>

(* REENC_FATAL: reencrypt_teardown_fatal turns a suspended hotzone device  *)
(* into an error.                                                          *)
FatalDevices ==
    IF Suspended(dm, "hotzone") THEN Errored(dm, "hotzone") ELSE dm

WriteFails ==
    /\ At("write") /\ Fault("write")
    /\ dm' = FatalDevices /\ End("failed")
    /\ UNCHANGED <<hdr, area, hot, buf, kernel, deaths>>

(* A plausible slip: the hot segment stays in the header.                  *)
CommitPostKeepsHot ==
    /\ At("write") /\ Unwritten = {} /\ UNCHANGED <<area, hot, buf, kernel>> /\ Fine
    /\ hdr' = [hdr EXCEPT !.done = @ \cup hot] /\ pc' = "resume hotzone"
    /\ UNCHANGED <<dm, result>>

CommitPost ==
    /\ At("write") /\ Unwritten = {} /\ UNCHANGED <<area, hot, buf, kernel, deaths>>
    /\ \/ /\ hdr' = [hdr EXCEPT !.done = @ \cup hot, !.hot = {}]
          /\ pc' = "resume hotzone" /\ UNCHANGED <<dm, result, faults>>
       \/ Fault("commit") /\ dm' = FatalDevices /\ End("failed") /\ UNCHANGED hdr

ResumeHotzone ==
    /\ At("resume hotzone") /\ UNCHANGED <<hdr, area, hot, buf, kernel, deaths>>
    /\ \/ /\ Exists(dm, "hotzone") /\ dm' = Resumed(dm, "hotzone")
          /\ pc' \in {"next", "reload name"} /\ UNCHANGED <<result, faults>>
       \/ /\ ~Exists(dm, "hotzone") /\ End("failed") /\ UNCHANGED <<dm, faults>>
       \/ Fault("resume hotzone") /\ End("failed") /\ UNCHANGED dm

LoopEnds ==
    /\ At("next") /\ hdr.done = Sector /\ pc' = "reload name"
    /\ UNCHANGED <<dm, hdr, area, hot, buf, result, kernel>> /\ Fine

(* reencrypt_teardown_ok: LUKS2_reload and the resume that follows.  What  *)
(* fails is logged, and the helper devices are removed all the same.       *)
ReloadName ==
    /\ At("reload name") /\ UNCHANGED <<hdr, area, hot, buf, kernel, deaths>>
    /\ \/ /\ Exists(dm, "name") /\ dm' = Loaded(dm, "name", SegmentTable(hdr.done))
          /\ pc' = "resume name" /\ UNCHANGED <<result, faults>>
       \/ ~Exists(dm, "name") /\ pc' = "remove helpers" /\ UNCHANGED <<dm, result, faults>>
       \/ Fault("reload name") /\ pc' = "remove helpers" /\ UNCHANGED <<dm, result>>

ResumeName ==
    /\ At("resume name") /\ pc' = "remove helpers"
    /\ UNCHANGED <<hdr, area, hot, buf, result, kernel, deaths>>
    /\ \/ Exists(dm, "name") /\ dm' = Resumed(dm, "name") /\ UNCHANGED faults
       \/ ~Exists(dm, "name") /\ UNCHANGED <<dm, faults>>
       \/ Fault("reload name") /\ UNCHANGED dm

(* A plausible slip: the hotzone device first, and it still has a holder.  *)
RemoveUpwards ==
    /\ At("remove helpers")
    /\ dm' = RemovedIfFree(RemovedIfFree(dm, "hotzone"), "overlay")
    /\ hdr' = [hdr EXCEPT !.flag = hdr.done # Sector]
    /\ End("done") /\ Fine
    /\ UNCHANGED <<area, hot, buf, kernel>>

RemoveHelpers ==
    /\ At("remove helpers") /\ dm' = Unstacked(dm)
    /\ hdr' = [hdr EXCEPT !.flag = hdr.done # Sector]
    /\ End("done") /\ Fine
    /\ UNCHANGED <<area, hot, buf, kernel>>

Die ==
    /\ ~At("idle") /\ deaths < MaxDeaths /\ deaths' = deaths + 1
    /\ End("died")
    /\ UNCHANGED <<dm, hdr, area, hot, buf, kernel, faults>>

-----------------------------------------------------------------------------
(* Other processes                                                         *)

Open == ~used /\ Exists(dm, "name") /\ used' = TRUE
        /\ UNCHANGED <<dm, disk, want, hdr, area, pc, hot, buf, result, faults, deaths, writes>>

Close == used /\ used' = FALSE
         /\ UNCHANGED <<dm, disk, want, hdr, area, pc, hot, buf, result, faults, deaths, writes>>

(* A write of an application that gets to the data device.                 *)
AppWrite ==
    /\ used /\ writes < MaxWrites /\ writes' = writes + 1
    /\ \E s \in Sector :
          /\ Reaches(s)
          /\ want' = [want EXCEPT ![s] = 1 - @]
          /\ disk' = [disk EXCEPT ![s] = [key |-> Route(s).key, val |-> want'[s]]]
    /\ UNCHANGED <<dm, hdr, area, pc, hot, buf, used, result, faults, deaths>>

(* is_reencryption_helper compares nine characters with the last eight of  *)
(* the name, so that it knows the overlay and never a hotzone device.      *)
is_reencryption_helper(d) == d = "overlay"

(* LUKS2_reencrypt_lock_by_dm_uuid: without a header it has no uuid to     *)
(* make the name of the lock of, and takes another lock.                   *)
LockedOut(header) == ~At("idle") /\ header

(* dm_device_deps: the helpers below the live table of `name'.             *)
Deps ==
    LET top == dm["name"].live.over \cap DOMAIN dm
    IN top \cup UNION {dm[d].live.over \cap DOMAIN dm : d \in top}

(* LUKS2_deactivate: suspended helpers become errors, the device is        *)
(* removed and then the ones it depends on.                                *)
LUKS2_deactivate ==
    /\ Exists(dm, "name") /\ ~used
    /\ \E header \in BOOLEAN :
          /\ header \/ Headerless
          /\ ~((\E d \in Deps : is_reencryption_helper(d)) /\ LockedOut(header))
    /\ LET stopped == IF Suspended(dm, "overlay") /\ "overlay" \in Deps THEN Errored(dm, "overlay") ELSE dm
           top == Removed(stopped, "name")
           one == IF "overlay" \in Deps THEN RemovedIfFree(top, "overlay") ELSE top
       IN dm' = IF "hotzone" \in Deps THEN RemovedIfFree(one, "hotzone") ELSE one
    /\ UNCHANGED <<disk, want, hdr, area, pc, hot, buf, used, result, faults, deaths, writes>>

(* A recovery, as Reencrypt has it.                                        *)
RecoveredDisk ==
    [s \in Sector |-> IF s \in hdr.hot THEN [key |-> "new", val |-> area[s]] ELSE disk[s]]
RecoveredHdr ==
    [done |-> hdr.done \cup hdr.hot, hot |-> {}, flag |-> hdr.done \cup hdr.hot # Sector]

(* reencrypt_recovery_by_passphrase, the repair command: the mapped        *)
(* devices stay what they are.                                             *)
reencrypt_recovery_by_passphrase ==
    /\ At("idle") /\ hdr.hot # {}
    /\ disk' = RecoveredDisk /\ hdr' = RecoveredHdr
    /\ UNCHANGED <<dm, want, area, pc, hot, buf, used, result, faults, deaths, writes>>

(* _open_and_activate_reencrypt_device: recovery, then a new device.  The  *)
(* data device must not be in use.                                         *)
_open_and_activate_reencrypt_device ==
    /\ At("idle") /\ ~Exists(dm, "name")
    /\ disk' = RecoveredDisk /\ hdr' = RecoveredHdr
    /\ dm' = IF DOMAIN dm = {} THEN Created(dm, "name", SegmentTable(hdr'.done)) ELSE dm
    /\ UNCHANGED <<want, area, pc, hot, buf, used, result, faults, deaths, writes>>

-----------------------------------------------------------------------------
Init ==
    /\ dm = [d \in {"name"} |-> Device(SegmentTable({}))]
    /\ want = [s \in Sector |-> 0]
    /\ disk = [s \in Sector |-> [key |-> "old", val |-> 0]]
    /\ hdr = [done |-> {}, hot |-> {}, flag |-> TRUE]
    /\ area = [s \in {} |-> 0] /\ hot = {} /\ buf = [s \in {} |-> 0]
    /\ pc = "idle" /\ result = "none" /\ used \in BOOLEAN
    /\ faults = 0 /\ deaths = 0 /\ writes = 0

Process ==
    \/ LoadContext \/ CreateHotzone \/ CreateOverlay \/ LoadName \/ SwitchName
    \/ LoadOverlay \/ SuspendOverlay \/ SuspendHotzone \/ ResumeOverlay
    \/ ReadHotzone \/ CommitHot \/ WriteHotzone \/ WriteFails \/ CommitPost
    \/ ResumeHotzone \/ LoopEnds \/ ReloadName \/ ResumeName \/ RemoveHelpers

Next ==
    \/ Process \/ Die \/ Open \/ Close \/ AppWrite \/ LUKS2_deactivate
    \/ reencrypt_recovery_by_passphrase \/ _open_and_activate_reencrypt_device

OnlineSpec == Init /\ [][Next]_vars

-----------------------------------------------------------------------------
(* Properties                                                              *)

(* Devices and header are what they may be, and nobody has a device open   *)
(* that is not there.                                                      *)
OnlineTypeOK ==
    /\ DOMAIN dm \subseteq {"name", "overlay", "hotzone"}
    /\ disk \in [Sector -> [key : {"old", "new"}, val : Content]]
    /\ hdr \in [done : SUBSET Sector, hot : SUBSET Sector, flag : BOOLEAN]
    /\ hdr.done \cap hdr.hot = {}
    /\ used => Exists(dm, "name")

(* Whatever an application can read through `name' at any moment is what   *)
(* applications have last written there: no sector is reached with a key   *)
(* it is not encrypted with, over all switches of tables, failures, deaths *)
(* and recoveries behind a device that is still mapped.                    *)
AppsSeeTheirData ==
    Exists(dm, "name") => \A s \in Sector :
        Reaches(s) => disk[s] = [key |-> Route(s).key, val |-> want[s]]

(* What the header leads to after the devices are gone is what was last    *)
(* written as well: no write of an application is lost in the hotzone,     *)
(* between its read and its write, nor in the data that are saved for a    *)
(* recovery.                                                               *)
NoWriteLost ==
    \A s \in Sector :
        IF s \in hdr.hot THEN area[s] = want[s]
        ELSE disk[s] = [key |-> IF s \in hdr.done THEN "new" ELSE "old", val |-> want[s]]

(* A run that was not disturbed leaves `name' with the table the header    *)
(* stands for, and no helper device.                                       *)
StackTakenDown ==
    (result = "done" /\ faults = 0 /\ deaths = 0 /\ Exists(dm, "name")) =>
        /\ \A d \in Helpers : ~Exists(dm, d)
        /\ dm["name"] = Device(SegmentTable(hdr.done))

(* The stack is sound while it is there, and taken down at the end.        *)
StackSound == OnlineTypeOK /\ StackTakenDown

(* Nobody removes the devices of a reencryption that is running: helpers   *)
(* are there from the moment they are stacked ("Reencryption in-progress.  *)
(* Cannot deactivate device.").                                            *)
HelpersStay ==
    pc \in {"next", "suspend overlay", "suspend hotzone", "resume overlay", "read",
            "commit hot", "write", "resume hotzone", "reload name"}
        => Helpers \subseteq DOMAIN dm

(* A process that ends with an error leaves no device suspended: I/O that  *)
(* may not pass is answered with an error and does not wait for ever.      *)
NoneWaits == (At("idle") /\ deaths = 0) => \A d \in DOMAIN dm : ~dm[d].susp
=============================================================================
