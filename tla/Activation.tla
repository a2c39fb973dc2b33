----------------------------- MODULE Activation -----------------------------
(***************************************************************************)
(* Activation, refresh, resize, suspend, resume and deactivation of a      *)
(* volume (lib/setup.c, LUKS2_activate and LUKS2_deactivate in             *)
(* lib/luks2/luks2_json_metadata.c, lib/tcrypt/tcrypt.c) by processes that *)
(* share nothing but the device-mapper, one action per device-mapper call. *)
(*                                                                         *)
(* The volume is "n".  A volume with authenticated encryption is on top of *)
(* a dm-integrity device "n_dif"; a TCRYPT cipher chain is a stack "n_2",  *)
(* "n_1", "n".  A LUKS2 volume key may reach the kernel through the thread *)
(* keyring of the process.                                                 *)
(***************************************************************************)
EXTENDS DeviceMapper, Sequences, TLC

CONSTANTS
    Proc,           \* processes that use the library
    Kinds,          \* kinds of volumes
    FaultsAt,       \* kinds of volumes and device-mapper calls that may fail
    Careless,       \* kinds of volumes whose users may be careless
    Twins,          \* calls that users also make with a twin of the header: it
                    \* has the uuid and the digest numbers of the volume's own,
                    \* and another volume key
    MaxCalls, MaxFaults, MaxDeaths

ASSUME ActivationConstants ==
    /\ Kinds \subseteq {"crypt", "integrity", "tcrypt"}
    /\ Careless \subseteq {"crypt", "integrity", "tcrypt"}
    /\ Twins \subseteq {"refresh", "resume"}
    /\ {MaxCalls, MaxFaults, MaxDeaths} \subseteq Nat

VARIABLES
    dm,         \* the mapped devices
    kind,       \* the kind of the volume
    via,        \* volume keys go through the keyring
    careless,   \* users reload the volume while others work on it
    used,       \* "n" is mounted
    job,        \* per process: the call that is under way
    ring,       \* per process: the volume key in its thread keyring, or "none"
    inring,     \* per process: key_in_keyring of its context
    last,       \* per process: how its last call ended
    locked,     \* crypt_suspend has returned 0, and nobody has set a key since
    calls, faults, deaths

vars == <<dm, kind, via, careless, used, job, ring, inring, last, locked, calls, faults, deaths>>

Idle == [at |-> "idle"]
Job(at, op, key) == [at |-> at, op |-> op, key |-> key]

(* The devices of a volume, from the bottom to the top.                    *)
Stack == CASE kind = "crypt"     -> <<"n">>
           [] kind = "integrity" -> <<"n_dif", "n">>
           [] kind = "tcrypt"    -> <<"n_2", "n_1", "n">>

-----------------------------------------------------------------------------
(* Tables.  `ver' tells the parameters of an old table from those of a new *)
(* one (flags, size), `desc' says that the key came from the keyring.      *)

Over(d) == LET i == CHOOSE i \in DOMAIN Stack : Stack[i] = d
           IN IF i = 1 THEN {"data"} ELSE {Stack[i - 1]}
CryptTable(d, k, desc, v) ==
    [over |-> Over(d), what |-> "crypt", key |-> k, desc |-> desc, ver |-> v]
IntegrityTable(v) == [over |-> {"data"}, what |-> "integrity", ver |-> v]

(* "key wipe": dm-crypt forgets the key and where it came from, and        *)
(* refuses to resume before it has got a key.                              *)
KeyWiped(d) == [dm EXCEPT ![d].live.key = "wiped", ![d].live.desc = FALSE]
HasKey(d) == \/ dm[d].load # NoTable
             \/ dm[d].live.what = "crypt" => dm[d].live.key # "wiped"
KeySet(d, k, desc) == [dm EXCEPT ![d].live.key = k, ![d].live.desc = desc]

IsCrypt(d) == Exists(dm, d) /\ dm[d].live.what = "crypt"

(* A plausible slip: the key of any device is read.                        *)
ReadAnyKey(d) == IsCrypt(d)

(* _dm_query_device for a key: "Cannot read volume key while suspended".   *)
MayReadKey(d) == IsCrypt(d) /\ ~Suspended(dm, d)

(* crypt_get_device_key_description, asked for before anything is done.    *)
KeySeen(d) == IF IsCrypt(d) /\ dm[d].live.desc THEN "described" ELSE "bare"

(* The key of a device changes only while it is suspended.                 *)
MayChangeKey(d) == IsCrypt(d) /\ Suspended(dm, d)

(* A mount or a device on top keeps a device.                              *)
InUse(d) == Holders(dm, d) # {} \/ (d = "n" /\ used)

-----------------------------------------------------------------------------
(* Steps                                                                   *)

At(p, a) == job[p].at = a
Go(p, a) == job' = [job EXCEPT ![p].at = a]
End(p, r) == job' = [job EXCEPT ![p] = Idle] /\ last' = [last EXCEPT ![p] = r]

(* Nothing keeps processes from a volume that another one reloads: users   *)
(* must, unless they are careless.                                         *)
Reloading == {q \in Proc : job[q] # Idle /\ job[q].op \in {"refresh", "resize"}}
MayReload == careless \/ \A q \in Proc : job[q] = Idle
MayUse == careless \/ Reloading = {}

Begin(p, j) ==
    /\ job[p] = Idle /\ calls < MaxCalls /\ calls' = calls + 1
    /\ job' = [job EXCEPT ![p] = j]
    /\ UNCHANGED <<dm, kind, via, careless, used, ring, inring, last, locked, faults, deaths>>
Rest == UNCHANGED <<kind, via, careless, used, calls, deaths>>
Fault(a) == <<kind, a>> \in FaultsAt /\ faults < MaxFaults /\ faults' = faults + 1

(* crypt_volume_key_load_in_keyring                                        *)
LoadKeyring(p) == ring' = [ring EXCEPT ![p] = job[p].key] /\ inring' = [inring EXCEPT ![p] = TRUE]

(* crypt_drop_keyring_key: there is nothing to drop without a description. *)
DropKeyring(p) ==
    IF via THEN ring' = [ring EXCEPT ![p] = "none"] /\ inring' = [inring EXCEPT ![p] = FALSE]
    ELSE UNCHANGED <<ring, inring>>
KeepKeyring == UNCHANGED <<ring, inring>>

(* A device-mapper call of process p on device d that goes on at `next',   *)
(* or fails and goes on at `fail'.                                         *)
DmCall(p, at, name, possible, after, next, fail) ==
    /\ At(p, at) /\ Rest /\ KeepKeyring /\ UNCHANGED <<last, locked>>
    /\ \/ possible /\ dm' = after /\ Go(p, next) /\ UNCHANGED faults
       \/ ~possible /\ Go(p, fail) /\ UNCHANGED <<dm, faults>>
       \/ possible /\ Fault(name) /\ Go(p, fail) /\ UNCHANGED dm

(* The volume keys that the headers of the callers have.                   *)
KeysOf(op) == {"vk"} \cup {k \in {"twin"} : op \in Twins}

(* crypt_activate_by_passphrase and its like: _activate_check_status, and  *)
(* later check_devices; what exists is refused, except for a refresh.      *)
crypt_activate(p) ==
    \E ref \in BOOLEAN, k \in KeysOf("refresh") :
       /\ ref => kind # "tcrypt" /\ MayReload
       /\ Exists(dm, "n") => ref
       /\ k = "twin" => ref
       /\ Begin(p, Job("open", IF ref THEN "refresh" ELSE "activate", k))

(* _open_and_activate: the keyslot is open and the key is in the keyring.  *)
OpenKey(p) ==
    /\ At(p, "open") /\ Rest /\ Go(p, "check") /\ UNCHANGED <<dm, last, locked, faults>>
    /\ IF via THEN LoadKeyring(p) ELSE KeepKeyring

(* check_devices; a refresh of a device that is not there is an activation *)
(* (with the key of a twin it makes another volume, not followed here).    *)
(* device_block_adjust wants the data device for itself.                   *)
check_devices(p) ==
    /\ At(p, "check") /\ Rest /\ KeepKeyring /\ UNCHANGED <<dm, last, locked, faults>>
    /\ LET there == \A i \in DOMAIN Stack : Exists(dm, Stack[i])
           none == Holders(dm, "data") = {} /\ DOMAIN dm = {}
       IN Go(p, IF job[p].op = "refresh" /\ there THEN "query"
                ELSE IF job[p].key = "vk" /\ none THEN "create 1"
                ELSE "failed")

(* A failed call drops the key that it brought; the others brought none.   *)
Failed(p) ==
    /\ At(p, "failed") /\ Rest /\ UNCHANGED <<dm, locked, faults>>
    /\ IF job[p].op \in {"activate", "refresh", "resume"}
       THEN End(p, "failed") /\ DropKeyring(p)
       ELSE End(p, "refused") /\ KeepKeyring

Succeeded(p) ==
    /\ At(p, "done") /\ Rest /\ End(p, "ok") /\ KeepKeyring
    /\ UNCHANGED <<dm, locked, faults>>

-----------------------------------------------------------------------------
(* A new device: INTEGRITY_activate_dmd_device and dm_create_device, or    *)
(* dm_create_device for each cipher of the chain.                          *)

NewTable(p, d) ==
    IF d = "n_dif" THEN IntegrityTable("old") ELSE CryptTable(d, "vk", via, "old")

CreateAs(p, i, d) ==
    DmCall(p, <<"create 1", "create 2", "create 3">>[i], "create",
           ~Exists(dm, d) /\ Over(Stack[i]) \ {"data"} \subseteq DOMAIN dm,
           Created(dm, d, NewTable(p, Stack[i])),
           IF i = Len(Stack) THEN "done" ELSE <<"create 2", "create 3">>[i],
           IF kind = "integrity" /\ i = 2 THEN "rollback" ELSE "failed")

(* A plausible slip: the ciphers of a chain are counted from one.          *)
CreateShifted(p) ==
    \E i \in DOMAIN Stack :
        CreateAs(p, i, IF kind = "tcrypt" THEN <<"n_3", "n_2", "n_1">>[i] ELSE Stack[i])

CreateDevice(p) == \E i \in DOMAIN Stack : CreateAs(p, i, Stack[i])

(* A plausible slip: the integrity device is left behind.                  *)
RollbackNothing(p) == DmCall(p, "rollback", "remove", TRUE, dm, "failed", "failed")

(* _create_device_with_integrity removes the integrity device it made.     *)
Rollback(p) ==
    DmCall(p, "rollback", "remove", Exists(dm, "n_dif") /\ ~InUse("n_dif"),
           Removed(dm, "n_dif"), "failed", "failed")

-----------------------------------------------------------------------------
(* Refresh and resize: _reload_device, _reload_device_with_integrity       *)

(* A plausible slip: keys are not compared.                                *)
SameCipher(p) == TRUE

(* crypt_compare_dm_devices: the key of the context is the one the device  *)
(* has.  If that came from the keyring, _compare_volume_keys sees lengths  *)
(* and descriptions only, and a twin has the same.                         *)
crypt_compare_dm_devices(p) ==
    dm["n"].live.desc \/ dm["n"].live.key = job[p].key

QueryRefresh(p) ==
    /\ At(p, "query") /\ Rest /\ KeepKeyring /\ UNCHANGED <<dm, last, locked, faults>>
    /\ Go(p, IF ~MayReadKey("n") \/ ~crypt_compare_dm_devices(p) THEN "failed"
             ELSE IF kind = "integrity" THEN "load i" ELSE "load")

(* crypt_resize: the key is asked from the device, or has been loaded into *)
(* the keyring before by an activation without a name.  _reload_device     *)
(* asks again.                                                             *)
crypt_resize(p) ==
    /\ kind = "crypt" /\ MayReload /\ MayReadKey("n")
    /\ dm["n"].live.desc => inring[p]
    /\ Begin(p, Job("query", "resize", IF inring[p] THEN ring[p] ELSE dm["n"].live.key))

(* dm_reload_device with resume                                            *)
LoadTable(p) ==
    DmCall(p, "load", "reload", Exists(dm, "n"),
           Loaded(dm, "n", CryptTable("n", job[p].key, via, "new")), "swap", "failed")
SwapTable(p) ==
    DmCall(p, "swap", "resume", Exists(dm, "n") /\ HasKey("n"), Resumed(dm, "n"), "done", "failed")

(* Load both tables, suspend from top to bottom, resume from bottom to top.*)
LoadIntegrity(p) ==
    DmCall(p, "load i", "reload i", Exists(dm, "n_dif"),
           Loaded(dm, "n_dif", IntegrityTable("new")), "load n", "failed")
LoadCrypt(p) ==
    DmCall(p, "load n", "reload i", Exists(dm, "n"),
           Loaded(dm, "n", CryptTable("n", job[p].key, via, "new")), "suspend n", "clear")
SuspendCrypt(p) ==
    DmCall(p, "suspend n", "suspend i", Exists(dm, "n"), SuspendedNow(dm, "n"), "suspend i", "clear")
SuspendIntegrity(p) ==
    DmCall(p, "suspend i", "suspend i", Exists(dm, "n_dif"), SuspendedNow(dm, "n_dif"), "resume i", "clear")
ResumeIntegrity(p) ==
    DmCall(p, "resume i", "resume i", Exists(dm, "n_dif"), Resumed(dm, "n_dif"), "resume n", "clear")
ResumeCrypt(p) ==
    DmCall(p, "resume n", "resume i", Exists(dm, "n") /\ HasKey("n"), Resumed(dm, "n"), "done", "fatal")

(* A failed swap has lost the table it should have made live.              *)
ResumeIntegrityStuck(p) ==
    /\ At(p, "resume i") /\ Exists(dm, "n_dif") /\ Fault("resume i")
    /\ dm' = ResumeStuck(dm, "n_dif") /\ Go(p, "clear")
    /\ Rest /\ KeepKeyring /\ UNCHANGED <<last, locked>>

(* A plausible slip: tables are dropped, and what is suspended stays so.   *)
ClearOnly(p) ==
    /\ At(p, "clear") /\ Rest /\ KeepKeyring /\ Go(p, "failed") /\ UNCHANGED <<last, locked, faults>>
    /\ dm' = [d \in DOMAIN dm |-> [dm[d] EXCEPT !.load = NoTable]]

(* Before the first resume succeeded: drop the loaded tables and resume    *)
(* what is suspended, with the old ones, if dm-crypt still has the key.    *)
Wiped(d) == IsCrypt(d) /\ dm[d].live.key = "wiped"
ClearTables(p) ==
    /\ At(p, "clear") /\ Rest /\ KeepKeyring /\ Go(p, "failed") /\ UNCHANGED <<last, locked, faults>>
    /\ dm' = [d \in DOMAIN dm |-> [dm[d] EXCEPT !.load = NoTable, !.susp = @ /\ Wiped(d)]]

(* After it: dm_error_device for both.                                     *)
BurnTables(p) ==
    /\ At(p, "fatal") /\ Rest /\ KeepKeyring /\ Go(p, "failed") /\ UNCHANGED <<last, locked, faults>>
    /\ dm' = [d \in DOMAIN dm |-> Device(ErrorTable)]

-----------------------------------------------------------------------------
(* Suspend and resume                                                      *)

crypt_suspend(p) ==
    /\ kind # "tcrypt" /\ IsCrypt("n") /\ ~Suspended(dm, "n")
    /\ MayUse /\ Begin(p, Job("suspend", "suspend", KeySeen("n")))

(* dm_suspend_device with DM_SUSPEND_WIPE_KEY                              *)
SuspendDevice(p) ==
    DmCall(p, "suspend", "suspend", Exists(dm, "n"), SuspendedNow(dm, "n"), "wipe", "failed")

(* A plausible slip: the key stays in the keyring of the process.          *)
WipeKeepsKeyring(p) ==
    /\ At(p, "wipe") /\ Rest /\ End(p, "suspended") /\ KeepKeyring
    /\ MayChangeKey("n") /\ dm' = KeyWiped("n") /\ locked' = TRUE /\ UNCHANGED faults

(* The key of the kernel and the one in the keyring are gone.              *)
WipeKey(p) ==
    /\ At(p, "wipe") /\ Rest
    /\ \/ /\ MayChangeKey("n") /\ dm' = KeyWiped("n") /\ locked' = TRUE
          /\ IF job[p].key = "described" THEN DropKeyring(p) ELSE KeepKeyring
          /\ End(p, "suspended") /\ UNCHANGED faults
       \/ /\ (MayChangeKey("n") /\ Fault("wipe")) \/ (~MayChangeKey("n") /\ UNCHANGED faults)
          /\ Go(p, "unsuspend") /\ KeepKeyring /\ UNCHANGED <<dm, last, locked>>

(* The key could not be wiped: the device is resumed.                      *)
Unsuspend(p) ==
    DmCall(p, "unsuspend", "resume", Exists(dm, "n") /\ HasKey("n"), Resumed(dm, "n"), "failed", "failed")

crypt_resume(p) ==
    /\ kind # "tcrypt" /\ Suspended(dm, "n") /\ MayUse
    /\ \E k \in KeysOf("resume") : Begin(p, Job("set key", "resume", k))

(* resume_by_volume_key: into the keyring, then dm_resume_and_reinstate_key*)
(* without a look at the header the device was made with.                  *)
SetKey(p) ==
    /\ At(p, "set key") /\ Rest /\ UNCHANGED last
    /\ IF via THEN LoadKeyring(p) ELSE KeepKeyring
    /\ \/ /\ MayChangeKey("n")
          /\ dm' = KeySet("n", job[p].key, via) /\ locked' = FALSE /\ Go(p, "resume") /\ UNCHANGED faults
       \/ /\ ~MayChangeKey("n") /\ Go(p, "failed") /\ UNCHANGED <<dm, locked, faults>>
       \/ Fault("set") /\ Go(p, "failed") /\ UNCHANGED <<dm, locked>>

ResumeDevice(p) ==
    DmCall(p, "resume", "resume", Exists(dm, "n") /\ HasKey("n"), Resumed(dm, "n"), "done", "failed")

-----------------------------------------------------------------------------
(* Deactivation: crypt_deactivate_by_name, LUKS2_deactivate and            *)
(* TCRYPT_deactivate remove the stack from its top.                        *)

crypt_deactivate_by_name(p) ==
    /\ Exists(dm, "n") /\ ~InUse("n") /\ MayUse
    /\ Begin(p, Job("remove n", "close", KeySeen("n")))

(* The key is dropped by the description that the device has had.          *)
RemoveTop(p) ==
    /\ At(p, "remove n") /\ Rest
    /\ \/ /\ Exists(dm, "n") /\ ~InUse("n") /\ dm' = Removed(dm, "n") /\ locked' = FALSE
          /\ IF job[p].key = "described" THEN DropKeyring(p) ELSE KeepKeyring
          /\ Go(p, IF kind = "crypt" THEN "removed" ELSE "remove 2") /\ UNCHANGED <<last, faults>>
       \/ /\ (~Exists(dm, "n") \/ InUse("n")) /\ UNCHANGED <<dm, locked, faults>>
          /\ End(p, "refused") /\ KeepKeyring
       \/ /\ Fault("remove") /\ End(p, "refused") /\ KeepKeyring /\ UNCHANGED <<dm, locked>>

(* A device below that is gone already is no error.                        *)
RemoveBelow(p) ==
    \E i \in DOMAIN Stack \ {Len(Stack)} :
       LET d == Stack[i]
           at == IF i = Len(Stack) - 1 THEN "remove 2" ELSE "remove 3"
           next == IF i = 1 THEN "removed" ELSE "remove 3"
       IN DmCall(p, at, "remove", Exists(dm, d) /\ ~InUse(d), Removed(dm, d), next, "removed")

Deactivated(p) ==
    /\ At(p, "removed") /\ Rest /\ End(p, "closed") /\ KeepKeyring
    /\ UNCHANGED <<dm, locked, faults>>

-----------------------------------------------------------------------------
(* Surroundings                                                            *)

Mount == /\ ~used /\ IsCrypt("n") /\ ~Suspended(dm, "n") /\ used' = TRUE
         /\ UNCHANGED <<dm, kind, via, careless, job, ring, inring, last, locked, calls, faults, deaths>>
Umount == /\ used /\ used' = FALSE
          /\ UNCHANGED <<dm, kind, via, careless, job, ring, inring, last, locked, calls, faults, deaths>>

(* A process is killed; its thread keyring goes with it.                   *)
Die(p) ==
    /\ job[p] # Idle /\ deaths < MaxDeaths /\ deaths' = deaths + 1
    /\ End(p, "died") /\ ring' = [ring EXCEPT ![p] = "none"] /\ inring' = [inring EXCEPT ![p] = FALSE]
    /\ UNCHANGED <<dm, kind, via, careless, used, locked, calls, faults>>

Init ==
    /\ dm = [d \in {} |-> Device(NoTable)] /\ kind \in Kinds
    /\ via \in IF kind = "tcrypt" THEN {FALSE} ELSE BOOLEAN
    /\ careless \in IF kind \in Careless THEN BOOLEAN ELSE {FALSE}
    /\ used = FALSE /\ locked = FALSE
    /\ job = [p \in Proc |-> Idle] /\ last = [p \in Proc |-> "none"]
    /\ ring = [p \in Proc |-> "none"] /\ inring = [p \in Proc |-> FALSE]
    /\ calls = 0 /\ faults = 0 /\ deaths = 0

Call(p) ==
    \/ crypt_activate(p) \/ crypt_resize(p) \/ crypt_suspend(p) \/ crypt_resume(p)
    \/ crypt_deactivate_by_name(p)

Step(p) ==
    \/ OpenKey(p) \/ check_devices(p) \/ Failed(p) \/ Succeeded(p) \/ CreateDevice(p) \/ Rollback(p)
    \/ QueryRefresh(p) \/ LoadTable(p) \/ SwapTable(p) \/ LoadIntegrity(p) \/ LoadCrypt(p)
    \/ SuspendCrypt(p) \/ SuspendIntegrity(p) \/ ResumeIntegrity(p) \/ ResumeIntegrityStuck(p)
    \/ ResumeCrypt(p) \/ ClearTables(p) \/ BurnTables(p)
    \/ SuspendDevice(p) \/ WipeKey(p) \/ Unsuspend(p) \/ SetKey(p) \/ ResumeDevice(p)
    \/ RemoveTop(p) \/ RemoveBelow(p) \/ Deactivated(p)

Next == Mount \/ Umount \/ \E p \in Proc : Call(p) \/ Step(p) \/ Die(p)

ActivationSpec == Init /\ [][Next]_vars

-----------------------------------------------------------------------------
(* Properties                                                              *)

Quiet == \A p \in Proc : job[p] = Idle

(* Devices, keyrings and calls are what they may be, and a device never    *)
(* maps to one that is not there.                                          *)
ActivationTypeOK ==
    /\ DOMAIN dm \subseteq {"n", "n_dif", "n_1", "n_2"}
    /\ ring \in [Proc -> {"none", "vk", "twin"}] /\ inring \in [Proc -> BOOLEAN] /\ locked \in BOOLEAN
    /\ \A d \in DOMAIN dm : dm[d].live.over \cup dm[d].load.over \subseteq {"data"} \cup DOMAIN dm
    /\ used => Exists(dm, "n")

(* The twins that nothing in the code keeps from the volume: a refresh     *)
(* compares descriptions when keys go through the keyring, and a resume    *)
(* compares nothing.                                                       *)
TwinPasses == ("refresh" \in Twins /\ via) \/ "resume" \in Twins

(* A volume that serves I/O does it with its volume key, whoever refreshes,*)
(* resizes, suspends and resumes it, at the same time or not, and whatever *)
(* fails on the way; where users come with a twin of its header, the       *)
(* volume key is compared and the twin refused, unless TwinPasses          *)
(* (_compare_volume_keys, "Cannot read volume key while suspended").       *)
RunsWithVolumeKey ==
    \A d \in DOMAIN dm : (IsCrypt(d) /\ ~dm[d].susp) =>
        \/ dm[d].live.key = "vk"
        \/ dm[d].live.key = "twin" /\ TwinPasses

(* After crypt_suspend has returned 0 the volume is suspended and no table *)
(* of the kernel has its key, until somebody gives the key again.  (A killed *)
(* process may leave a loaded table with the key, which suspend ignores.)  *)
SuspendLocks ==
    (locked /\ IsCrypt("n") /\ deaths = 0) =>
        dm["n"].susp /\ dm["n"].live.key = "wiped" /\ dm["n"].load = NoTable

(* A call that fails, or that suspends or closes a volume which it can see *)
(* the key of, leaves no key in the keyring; and the context knows whether *)
(* there is one.                                                           *)
NoKeyLeftBehind ==
    \A p \in Proc :
        /\ ring[p] # "none" <=> inring[p]
        /\ (job[p] = Idle /\ inring[p]) => last[p] \in {"ok", "closed", "refused"}

(* When no call is under way, a volume has all of its devices, with tables *)
(* that belong together, nothing loaded and nothing suspended that nobody  *)
(* suspended; or it has none: activation and the reload of a stack are all *)
(* or nothing, over one failed call.                                       *)
StackWhole ==
    (Quiet /\ deaths = 0) =>
        /\ DOMAIN dm \in {{}, {Stack[i] : i \in DOMAIN Stack}}
        /\ \A d, e \in DOMAIN dm :
              /\ dm[d].load = NoTable
              /\ dm[d].susp => (d = "n" /\ locked)
              /\ kind = "integrity" =>
                    \/ dm[d].live = ErrorTable /\ dm[e].live = ErrorTable
                    \/ dm[d].live # ErrorTable /\ dm[e].live # ErrorTable /\ dm[d].live.ver = dm[e].live.ver

(* No mapped device is left half made, and none on top of one that is gone *)
(* (_reload_device_with_integrity, _create_device_with_integrity), unless  *)
(* users are careless.                                                     *)
StackSound == ~careless => ActivationTypeOK /\ StackWhole

(* The volume key is gone from the kernel where a call has taken it away:  *)
(* from the tables and from the keyring (crypt_suspend, crypt_deactivate), *)
(* unless a careless user reloads the volume meanwhile.                    *)
KeysGone == ~careless => SuspendLocks /\ NoKeyLeftBehind
=============================================================================
