# cryptsetup: TLA+ models, checks and proofs

This directory holds TLA+ models of cryptsetup: of the parts of libcryptsetup
(`src/lib/`) and of its tools (`src/src/`) whose correctness depends on the
order in which processes, system calls, writes to the medium and failures
happen, and of the sequential algorithms that are easy to get wrong at an edge.
Each module is translated from the code; `PROJECT.json` names for every
definition the lines it models, and for every property at least one mutated
definition that breaks it.

Run a model with `tlc -workers 2 -config MCReencrypt.cfg MCReencrypt`, check the
proofs with `tlapm DeviceLockProofs.tla` and likewise the other modules whose
name ends in `Proofs`. A file `MCx.cfg` belongs to a run that
passes; `MCx_y.cfg` is an instance with a counterexample (section 6).

## 1. Inventory

| Component | State | Operations | Interacts with |
|---|---|---|---|
| Locking, `utils_device_locking.c` | lock handle: mode, type, flock descriptor, reference count; resource files in the locking directory | read and write lock of a device, of a name (also without waiting), unlock, verification of a locked descriptor | flock(2) with other processes; device access, reencryption |
| Device access, `utils_device.c` | `dev_fd`, `ro_dev_fd`, `lh` | open, open under lock, sync, size | locking; every reader and writer of metadata |
| LUKS2 disk header, `luks2_disk_metadata.c` | two copies on disk, each with a sequence id and a checksum; `struct luks2_hdr` in memory | read with recovery, write, check of the sequence id | locking, device access, blkid |
| LUKS2 metadata, `luks2_json_metadata.c`, `luks2_json_format.c` | JSON: keyslots, digests, segments, tokens, config | validate, read, write, uuid, requirements, areas | disk header |
| LUKS2 keyslots, digests, tokens | objects of the JSON, keyslot areas on disk | store, open, change, wipe, assign | metadata, key derivation |
| LUKS2 reencryption, `luks2_reencrypt.c`, `luks2_keyslot_reenc.c` | `struct luks2_reencrypt`; segments, backup segments, reencrypt keyslot, requirement flag in the header; sectors of the device; overlay and hotzone devices | init, load, step, teardown, recovery; with data shift; online | reencryption lock, metadata, storage wrappers, device-mapper |
| LUKS1, `lib/luks1/`, and conversion, `luks2_luks1_convert.c` | one header, keyslot areas | format, keyslots, backup, restore, repair, conversion both ways | block I/O, LUKS2 metadata |
| Library context, `setup.c` | `struct crypt_device` | the public API: format, load, keyslots, activate, refresh, resize, suspend, resume, deactivate | all of the above |
| Device-mapper, `libdevmapper.c` | in the kernel: tables, suspension, keys | create, reload, suspend, resume, remove, query | kernel |
| Block I/O, wipe, key files | none of their own | read, write, wipe, read a key | devices and files |
| BitLocker, verity, loop-AES, TCRYPT, plain, integrity | headers of each format | format, load, activate | device-mapper, crypto backend |
| Crypto backend, PBKDF, random, keyring | none of their own, except keys in the thread keyring | primitives | kernel, libraries |
| `cryptsetup`, `cryptsetup-reencrypt` | options; log file and header files of the offline tool | commands | library |
| `veritysetup`, `integritysetup` | options | commands | library |

What is hard here, and what makes each component correct:

* **Locking.** The lock file is removed by the context that drops the lock, so
  opening it, locking it and checking that it is still there are three system
  calls other processes run between. Correct: callers get a readers/writer lock;
  nobody removes the file of somebody else; retries end.
* **Header.** Two copies, each written in three writes, by processes that die, on
  a medium with a write cache, read by processes that repair what they find.
  Correct: what was reported as written survives; loads succeed and heal; a
  context with an old header cannot overwrite a newer one.
* **Keyslots.** Metadata and key material are written one after the other, from
  headers in memory that may be old. Correct: a promised passphrase opens until
  it is removed, a removed one leaves nothing behind.
* **Reencryption.** Data, resilience data and header are on three places of one
  or two devices and change in turn, online under a running file system. Correct:
  each sector can be decrypted from what the header says at every moment; keys
  exist as long as they are needed; it comes to its end.
* **Activation.** Stacks of mapped devices change call by call, by processes that
  do not know of each other. Correct: a volume that runs has its key, one that is
  suspended has none, and no call leaves half a stack.
* **Tools.** A command looks, asks, and acts later. Correct: nobody is locked out
  without being asked, and a killed command costs no passphrase.
* **Algorithms.** Ends inside a block, areas that touch, lengths that wrap.

The list `hazards` of `PROJECT.json` gives these at the line where they bite,
with the properties that cover them.

## 2. Modules

| Module | Models | Role |
|---|---|---|
| `RWLock` | the promise of `device_read_lock`, `device_write_lock` | abstract specification |
| `DeviceLock` | `utils_device_locking.c`, one action per system call | implements `RWLock` |
| `DeviceLockProofs` | | inductive invariant, theorems |
| `VersionedHeader` | the promise of `LUKS2_hdr_read`, `LUKS2_hdr_write` | abstract specification |
| `LUKS2Header` | `luks2_disk_metadata.c` and its callers | uses `RWLock`, implements `VersionedHeader` |
| `LUKS2HeaderProofs` | | inductive invariant, theorems, refinement |
| `LUKS2Keyslots` | keyslots, digests, tokens, areas, backup and restore | on the committed header |
| `LUKS2KeyslotsProofs` | | inductive invariant, theorems |
| `Reencrypt` | `luks2_reencrypt.c`, `luks2_keyslot_reenc.c`, in place | on the committed header and the reencryption lock |
| `ReencryptProofs` | | inductive invariant, theorems |
| `Shift` | encryption in place with data shift, tool and library | on the committed header |
| `ShiftProofs` | | inductive invariant, theorems |
| `DeviceMapper` | what the kernel does with devices and tables | operators |
| `OnlineReencrypt` | the device stack of an online reencryption | on `DeviceMapper` |
| `OnlineReencryptProofs` | | inductive invariant, theorems |
| `Activation` | activation and its counterparts, `setup.c`, `tcrypt.c` | on `DeviceMapper` |
| `ActivationProofs` | | inductive invariant, theorems |
| `LUKS1` | `lib/luks1/`, `luks2_luks1_convert.c` | |
| `Tool` | `cryptsetup.c` | on library calls as steps |
| `OfflineReencrypt` | `cryptsetup_reencrypt.c` | |
| `OfflineReencryptProofs` | | inductive invariant, theorems |
| `BlockIO` | `utils_io.c`, `utils_wipe.c` | operators |
| `Bitlk` | `bitlk.c` | operators |
| `Verity` | `lib/verity/`, verity in `setup.c` | operators |
| `DmTables` | tables of crypt, verity, integrity in `libdevmapper.c` | operators |
| `KeyMaterial` | key files in `utils.c`, `loopaes.c`, `af.c` | operators |
| `Validate` | `LUKS2_hdr_validate` with all its parts | operators |
| `Algorithms` | calls of the six modules above | one state per call |
| `MC...` | | small instances for TLC |

The chain is meant to be read bottom up: `DeviceLock` is shown to implement the
lock that `LUKS2Header` takes through `INSTANCE RWLock`; the header of
`LUKS2Keyslots`, `Reencrypt`, `Shift` and `OnlineReencrypt` changes in one step
because `LUKS2Header` is shown to implement `VersionedHeader`; `OnlineReencrypt`
takes recovery for granted because `Reencrypt` shows it; `Tool` takes a keyslot
call for one step because `LUKS2Keyslots` shows what happens inside.

Several modules have a constant `Worlds`: a set of records, each an environment
(faults and their number, what is asked for, sizes), of which a behaviour has one
in its variable `world`. One run then covers all of them.

### DeviceLock

`path` is the inode the resource path names, `fd[c]` the inode of a handle's
descriptor, `flk[c]` the flock on it, `pc[c]` the next system call. `Request`
is the entry of the four lock functions, `Nest` the reference count of device
locks, `OpenHandle` the open with `O_CREAT`, `Flock`, `FlockBusy` and
`FlockInterrupted` the outcomes of flock, `Verify` the comparison of inodes with
the retry of `acquire_and_verify`; `Unlock`, `DropFlock`, `DropStat`, `Unlink`
and `CloseHandle` are unlock and `release_lock_handle`. A failed or retried
acquisition runs the same release. `Die` closes the descriptor and leaves the
file. Inode numbers come from a small pool and are reused as soon as the file
has no name and no descriptor. The constants choose the kind of lock: block
device (`Removable`, `Nestable`), name (`Removable`), regular file (`Nestable`).
Device numbers, names of files and the creation of the locking directory are
left out.

### LUKS2Header

`copy[k]` is what a read of copy k returns, `dur[k]` what is on the medium for
sure. An image has a sequence id, an identity (the uuid, or junk, or the
signature of another format), the set of changes in its metadata, and whether it
is valid. Per context: `hdr` is the header in memory, `rwfd` whether a read-write
descriptor is cached, `seen` what a load has read so far. `StartRead` to
`ReadReturns` are `LUKS2_hdr_read` with `LUKS2_disk_hdr_read`, `StartWrite` to
`WriteReturns` are `LUKS2_hdr_write` with the sequence id check. A copy is
written in two steps: after the first it is invalid, the second ends with the
sync. A write may fail at each. `SystemCrash` keeps or loses unsynced writes of
each copy on its own. `Damage` is a foreign tool overwriting one copy.

Modelled with metadata locking enabled; without it the code does not recover.

### LUKS2Keyslots

`disk` is the committed header, `area` the units of the binary keyslots area,
`mem[c]` the header of each context. A keyslot has an area, a salt and a
priority; an area that was written with a salt, a passphrase and a key gives the
key to who has the passphrase and reads the salt in the header. Calls are split
where the code writes: area, then metadata; a destruction wipes first, then
commits. The sequence id of a context is compared under the write lock. Contexts
may hold old headers, fail between the writes, or die there. `owed` records what
calls that returned success have promised. `Careless` allows what callers should
not do (section 6).

### Reencrypt

A sector is abstracted to the key that decrypts it (`old`, `new`, `junk`), the
header to the requirement flag, the reencrypt and the old keyslot, the resilience
type, the direction, and the segments, which are sequences of `[key, size]` with
`hot` for the segment in reencryption. `area` is the content of the reencrypt
keyslot area: for each sector of the hotzone its checksum or its ciphertext,
tagged with the sector it belongs to. `synced` and `areasync` are what a power
failure leaves.

`InitReencrypt` is `reencrypt_init`, `LoadReencrypt` is
`reencrypt_lock_and_verify` with the rest of `reencrypt_load_by_passphrase`;
`StepBegin` to `CommitPost` is `reencrypt_step` with `reencrypt_context_update`,
one action per write; `LoopEnds` the end of the loop of `crypt_reencrypt`;
`Teardown` to `Unflag` is `reencrypt_teardown_ok`, one action per write;
`LoadCrashed`, `RecoverSegment` and `FinalWrite` are `reencrypt_recovery`.

One process works at a time: the reencryption lock is a named write lock of
`DeviceLock`. `stale` says that an earlier write of a recovery failed after the
sequence id in memory was counted up: the commits after it are refused. Sector
writes of `checksum` are atomic, as the man page requires; those of `journal`
may be torn.

`MayFail` says where faults happen in an instance. Three places are left out
unless `faultsat` names them, because the code does not handle a fault there
(section 6): the finish, from the commit after the last hotzone on (`Finishing`),
a last hotzone of a backward run that is shorter than the calculated length
(`LastIsShort`), and a run with resilience `none`. `Handled` is the condition of
the properties: none of these, and no failed hash.

### Shift

`cryptsetup reencrypt --encrypt --reduce-device-size`: the tool formats a
temporary header in `file`, the library moves the first blocks to the end of the
device and commits the segments to the file, the tool writes the file over the
head of the device, and the library encrypts downwards. `data` has for each
block which block of the user it holds, in the clear or encrypted for which
place. A hotzone is not protected by anything but the fact that it is written
above what it was read from. Deaths hit every step, and failed I/O every step that
does I/O: in the finish the code ignores its errors and goes on, so a failed wipe of
the moved segment, a reencrypt keyslot that is not destroyed and a flag that is not
written each have their branch. The faults that the code has no care for (`at`) are
in the worlds that name them. The user starts the command again, with what is left.

### OnlineReencrypt

Tables map each sector of `name`, `overlay` and `hotzone` to a device and a key;
`Route` follows the live tables to the data device, to a suspended device or to
an error. One action per device-mapper call of `reencrypt_init_device_stack`,
`reencrypt_refresh_overlay_devices`, `reencrypt_step` and the teardown, with the
failure of each and the rollback or error target that follows. Programs write
through `name` at any moment. Afterwards the volume may be closed, activated
again (which recovers), or reencryption resumed.

### Activation

One action per device-mapper call of `create_or_reload_device_with_integrity`,
`_reload_device`, `crypt_suspend`, `crypt_resume_by_*`, `crypt_resize`,
`crypt_deactivate_by_name` and `TCRYPT_activate`, by processes that share
nothing but the kernel. A table has a key and whether it came through the
keyring; a loaded table waits for a resume; a wiped key must be set before a
device resumes. The key of a suspended device is not told to anybody
(`MayReadKey`), so neither a refresh nor a resize begins on one. `Twins` lets callers
refresh or resume the volume with a twin of its header: same uuid, same digest
numbers, another volume key. `careless` users, of volumes of the
kinds in `Careless`, reload a volume while others work on it; whether they do is
chosen at the start.

### LUKS1

The device is a row of 4k units: a header and key material in pieces of which
all are needed. Calls are split where the code writes; every write may be cut
short by a death or an error. The conversion checks, moves all keyslot areas,
and writes the other header. From the move on to the end only a backup can bring
the passphrases back, and the model says so (`owed`). A LUKS2 header that cannot be
wiped at the end of a conversion to LUKS1 is written over nevertheless.

### Tool

Commands of `cryptsetup.c` that change keyslots, tokens and headers: each loads
the header, asks for passphrases and confirmations, and then calls the library
once or several times. A library call is one step, refused when the sequence id
is old (LUKS2). `consent` records that somebody agreed to lose access.

### OfflineReencrypt

The device as sectors with their content and key, the log file, the two header
files, `struct reenc_ctx`. One action per file operation, block and log update.
The tool is killed, interrupted or fails, and is started again with the same
options. A write may fail, with any part of the block written, or be short: then
the code goes on as if it were whole. Backward each block seeks its place, forward
the position of the file stays `behind` the offset of the context, and `astray`
records the sectors that this costs. `--keep-key`, which copies no data, is left
out.

### Algorithms

Each state holds the input and the result of one call. The operators compute
what the C functions compute, with their early returns, limits and error codes;
inputs come from the sets in `MCAlgorithms`. `Verity` has hashes as injective
terms, `Validate` has offsets that wrap at `UintBits`, `DmTables` has tables as
sequences of words, with the options in the order of the code; they are read back in
that order and in the reverse one. Tables of integrity devices are put together in
buffers of fixed size, so that their words have lengths, and a journal size is
multiplied in `UnsignedBits` (20 in the run; a target has options of four digits or
keys of up to 128 bytes). `KeyMaterial` has the splitter with its blocks of the size of a
digest and the padding, over a digest function without collisions (`crypt_hash`,
external).

## 3. Runs

| Run | Instance | Distinct states | Properties |
|---|---|---|---|
| `lock` | 2 contexts, 3 inodes, nesting 2, waiting or not, 2 faults, fair | 60,957 | `TypeOK`, `HolderAtPath`, `UnlinksOwnFile`, `ImplementsRWLock`, `LockIsGranted` |
| `header` | 2 contexts, 3 changes, 2 crashes; 3 contexts, 2 changes, 1 crash; 2 contexts with a damaged copy, a failed read or write, changes of the uuid; fair | 123,583 | `HeaderKept`, `HeaderIOExclusive`, `ImplementsStore`, `LoadHeals`, `CallReturns` |
| `keyslots` | 2 contexts, 2 keyslots, digests and keys, 3 calls, 1 fault | 843,662 | `PassphrasesKept`, `RevokedGone`, `MetadataTrue` |
| `reencrypt` | 4 sectors, hotzones of 1 or 2; worlds with deaths and I/O errors in both directions, 3 deaths with changing resilience, a short last hotzone backward, a power failure, faults in the finish, a failing hash; fair | 73,656 | `DataKept`, `KeysInOrder`, `ProgressKept`, `ReencryptFinishes` |
| `shift` | devices of 6, 7, 9 and 10 blocks, shift 2, 1 or 2 deaths, 1 to 3 errors; worlds with deaths and errors in the finish, a failed wipe of the copy, a failed restore; fair | 6,537 | `EncryptionSafe`, `NoPlaintextLeft`, `EncryptionFinishes` |
| `online` | 3 sectors, hotzones of 1 or 2, 3 writes of programs, one failed call of any kind, 1 death | 112,801 | `AppsSeeTheirData`, `NoWriteLost`, `StackSound` |
| `activation` | 2 processes, volumes of 1, 2 or 3 devices, 4 calls, twins in refreshes, careless users of volumes of 1 or 2 devices, 1 failure, 1 death | 885,490 | `RunsWithVolumeKey`, `KeysGone`, `StackSound` |
| `luks1` | 2 keyslots of 4 units, 2 passphrases, 4 calls, 2 faults | 1,280,196 | `LUKS1Kept`, `DeletedKeysGone` |
| `tool` | 2 users, 5 keyslots, 3 commands, 1 death, LUKS1 and LUKS2 | 904,440 | `PassphrasesOwed`, `LastOneAsked`, `KeyslotsFollow` |
| `offline` | 6 sectors, blocks of 2, four jobs, with and without `--write-log`, 3 faults, fair | 57,986 | `BlockLostAtMost`, `Resumable`, `OfflineFinishes` |
| `algorithms` | the inputs of `MCAlgorithms`, one call at a time | 130,978 | `BlockIOExact`, `BitlkReadable`, `VeritySound`, `TableReadBack`, `KeysRead`, `MetadataSound` |
| `reenc_restart` | a death in the finish of a reencryption | | violates `RecoveryKeepsData`, section 6 |

**Bounds.** Two contexts are enough for the races of the lock file (one removes
it while the other has it open), and three inodes let a new file be created
while both hold descriptors of removed ones; for more contexts there are the
theorems. Three contexts let one recover a header while two others load or
write; three changes give two sequence ids that differ and a third write on top.
Four sectors with hotzones of one or two have a first, a middle and a last
hotzone; the sizes of `shift` also leave a shorter hotzone. Two keyslots with
areas of one and two units fill the three units there are, so that allocation
fails and fragments. Five keyslots in `tool` are enough for a new keyslot of each user and
the one of the reencryption, and full with an unbound one. Blocks of 4 sectors on
devices of 8, trees of up to 5 blocks of fan-out 2 and 4, and offsets of 5 bits
have every position relative to a block, a level and a wrap. Faults are bounded
by counters that let a fault hit a run, its recovery, and the recovery of the
recovery where the worlds say so. With resilience `none`, faults hit only
processes that run with another one, because the mode promises nothing otherwise.
Deadlock checking is off where all calls or changes may be used up or the work is
over. Symmetry is used only in runs without liveness.

**Fairness.** `DeviceLock`: a process in a lock or unlock call goes on, and a
holder unlocks; callers of the library hold a lock for bounded work.
`LUKS2Header`: a started call goes on; a context that waits for the write lock
gets it if it is free again and again (strong fairness: flock wakes its waiters).
`Reencrypt`, `Shift`, `OfflineReencrypt`: a started process goes on, and the user
resumes, activates or starts the command again. No fairness is assumed of faults,
nor of starting other calls. `online`, `activation`, `keyslots`,
`luks1` and `tool` check safety only.

## 4. Properties

Some names stand for a conjunction; the parts are defined and explained in the
module, and each has a mutant of its own where it can be broken on its own.

* `HolderAtPath`, `UnlinksOwnFile`, `ImplementsRWLock`: see section 5.
  `LockIsGranted`: who waits in `acquire_and_verify` sees the call return, or
  somebody gets the lock. One context may be overtaken for ever; flock gives no
  more.
* `HeaderKept`: `CommittedSurvives` (whatever a crash keeps of unsynced writes, a
  valid copy is left and the newest has every change whose write returned 0),
  `NoLostUpdate` (who starts to write has every acknowledged change in its
  header), `LoadNeverFails` (a load fails only for a foreign signature or after two
  faults, one of which is not a crash or meets a change of the uuid), and the
  types. The first two are about worlds without I/O errors, damage and changes
  of the uuid. `HeaderIOExclusive`: nobody holds a
  lock while a copy is rewritten by another. `ImplementsStore`: the two copies
  with recovery are one header that is updated atomically, in the worlds with
  crashes only. `LoadHeals`: when a load returns, both copies are valid and
  equal, unless crashes met errors, damage or a change of the uuid. `CallReturns`: every call ends.
* `PassphrasesKept`: a passphrase a call has reported as stored opens its keyslot
  and gives its key at every moment until it is destroyed or overwritten.
  `RevokedGone`: key material is only where a keyslot with its salt is.
  `MetadataTrue`: digests belong to the keys they are assigned to (`DigestsTell`),
  tokens are assigned as asked and follow a changed keyslot (`TokensAsAsked`).
* `DataKept`: every sector is decrypted by the key the header gives it, a sector
  of the hot segment after recovery; with resilience `none` only while no process
  runs. `KeysInOrder`: keys exist as long as the header (`KeysKept`) or the data
  (`OldKeyWipedLast`) need them. `ProgressKept`: no sector goes back to the old
  key, and the flag goes only when all are new. `ReencryptFinishes`.
* `EncryptionSafe`: at every moment each block of the user can be had, from the
  header on the device, the temporary one, or the device as it was.
  `NoPlaintextLeft`, `EncryptionFinishes`.
* `AppsSeeTheirData`: whatever a program can read through the volume is what was
  last written there. `NoWriteLost`: so is what the header leads to once the
  devices are gone. `StackSound`: tables are well formed, and an undisturbed run
  leaves the table the header stands for and no helper.
* `RunsWithVolumeKey`, `KeysGone` (`SuspendLocks`, `NoKeyLeftBehind`), `StackSound`
  (`StackWhole`: all of a stack or nothing, after one failed call).
* `LUKS1Kept`: what was stored opens, through deaths, failed writes, repairs,
  conversions and restores of a backup. `DeletedKeysGone`: without faults, the
  pieces of a key are all there only for keyslots in use.
* `PassphrasesOwed`: a passphrase opens until somebody removes it or reencrypts
  without it. `LastOneAsked`: a device nobody can open was given up knowingly.
  `KeyslotsFollow`: a reencryption has room for its keyslots, takes tokens along
  and cleans up.
* `BlockLostAtMost`: a fault costs at most one block (with `--write-log`).
  `Resumable`: headers and log are there as long as they are needed.
  `OfflineFinishes`.
* `BlockIOExact`, `BitlkReadable`, `VeritySound`, `TableReadBack`, `KeysRead`,
  `MetadataSound`: the algorithms against reference definitions of what they
  promise, written without their loops and buffers, and with what they do not
  keep named in the definition (section 6).

## 5. Proofs

Each theorem holds for every value of the constants that the named assumption of
the module allows. Where a theorem has a further hypothesis it is a condition on
the worlds, that is on what users and faults do; the runs named with it satisfy
it, and what happens without it is in section 6.

| Theorem | Statement | Hypothesis |
|---|---|---|
| `LockTypeCorrect`, `LockHolderAtPath`, `LockUnlinkSafe` | `[]TypeOK`, `[]HolderAtPath`, `[]UnlinksOwnFile` | |
| `LockRefines` | `ImplementsRWLock` | |
| `HeaderTypeCorrect` | `[]TypeOK` | |
| `HeaderIsKept`, `HeaderIOIsExclusive` | `[]HeaderKept`, `[]HeaderIOExclusive` | `NoReload` |
| `LoadsHeal`, `HeaderImplementsStore` | `LoadHeals`, `ImplementsStore` | `NoReload` |
| `ReencryptKeepsData`, `ReencryptKeepsKeys` | `[]DataKept`, `[]KeysInOrder` | `Foreseen` |
| `ReencryptGoesForward` | `ProgressKept` | `Foreseen` |
| `EncryptionIsSafe`, `NoPlaintextStays` | `[]EncryptionSafe`, `[]NoPlaintextLeft` | `Foreseen` |
| `OnlineKeepsView`, `OnlineLosesNoWrite`, `OnlineStackIsSound` | `[]AppsSeeTheirData`, `[]NoWriteLost`, `[]StackSound` | |
| `KeyslotsKeepPassphrases`, `KeyslotsRevoke`, `KeyslotsMetadataTrue` | `[]PassphrasesKept`, `[]RevokedGone`, `[]MetadataTrue` | `Careless = {}` |
| `VolumeKeyInUse` | `[]RunsWithVolumeKey` | |
| `KeysAreGone` | `[]KeysGone` (where users are not `careless`) | `<<"crypt", "resume">>` not in `FaultsAt` |
| `StackStaysSound` | `[]StackSound` (where users are not `careless`) | nothing of `NotUndone` in `FaultsAt` |
| `OfflineLosesBlocks`, `OfflineIsResumable` | `[]BlockLostAtMost`, `[]Resumable` | `Foreseen` |

**DeviceLockProofs**: any set of contexts, any pool of inodes, any nesting depth
and number of faults. The only assumption is `ConstantsOK` (`NoInode` is no inode,
the Booleans and bounds have their types). None of the three invariants is
inductive. A holder stays at the path only because whoever is about to unlink it
has an exclusive flock on the inode at the path, and that holds only because a
flock is on an open descriptor and compatible with the other flocks of the inode.
`LockInv` is the conjunction: `TypeOK`; `FdOpen` (a descriptor is open exactly
between open and close); `FlockAt` (which flock is held at which step);
`FlockExclusive` (an exclusive flock is alone on its inode); `Counted` (the
reference count is positive exactly while the lock is held); `UnlinkAtPath` (a
context about to unlink has the inode at the path); `FileStays` (a regular file is
not removed); `HolderAtPath`. `InitLockInv` and `StepLockInv` show that it is
inductive, one step per action. The refinement needs one more lemma,
`GrantIsCompatible`: a context whose verification succeeds has a flock on the
inode every holder has its flock on, so its lock is compatible with theirs; all
other steps leave the abstract lock alone or release it.

**LUKS2HeaderProofs**: any set of contexts, any finite set of changes, any number
of crashes, failed reads and writes, overwritten copies and changes of the uuid
(`HeaderConstants`). `NoReload` says that no context loads the header twice; a
second load has a read-write descriptor in the cache, recovers under a read lock,
and is not alone. The inductive invariant `HeaderInv` has twelve parts. `TypeInv`,
`Controlled` (who is at a step that writes has the write lock and the header it
read is the one on the disk) and `Numbered` (a sequence id counts the changes it
stands for) are about control; `SeenTrue` and `ValidSynced` say that what a load
has read is there and that a valid copy is synced as long as no I/O fails;
`Written`, `NoFault`, `AfterFault`, `CrashFree`, `LoadSees` and `Healed` follow the
number of faults so far: with none both copies are valid or one is being written,
after one a valid copy is left. The part that carries the argument is `Anchored`:
one copy, the anchor, is valid, has all that was committed, and is at least as new
as anything the other one may turn into. A writer of the primary copy has passed
the check of the sequence id, which the anchor allows only to a context that has
everything; the end of that write moves the anchor, and that step is the commit of
`VersionedHeader`. All other steps are stutters of it.

**ReencryptProofs**: any size of the device, any length of hotzones up to any
`Zone`, any choice of limit, resilience and direction for each run, any number of
deaths, power failures, I/O errors and failed hashes (`ReencryptConstants`).
`Foreseen` says of each world that the medium keeps what was written (`volatile`
is empty), or that it may lose sectors that are not synced and a single power
failure is the only fault. `Hot` and `Clean` are the two forms of segments;
`HotSegments` and `CleanSegments` show what `HotSeg`, `SegStart`, `KeyOf` and
`PostSegs` give for them, `CleanContext`, `HotContext`, `NextAligned` and
`RecoveredContext` that offset, length and progress stay at the border between new
and old data. The inductive invariant `ReencryptInv` has three layers, one for each
class of faults: `Structure` under all of them, `NotOld` and `Volatile` as long as
no hash failed, `Sound` as long as the fault is handled. `OldKeyWipedLast` is not
inductive because the key is wiped on the strength of the header in memory: that
this header is all new only when no sector is old needs `NotOld` for the header on
disk, the one in memory and the stored area, at each step. `DataKept` needs that a
cell of the area has, for each hot sector, the old content (`DecodableAt`), and that
a hot segment on disk is never the short last one (`WholePart`). A fault is the same
step wherever it hits: `Stop`, with the lemmas `StopKeepsOld`, `StopKeepsData` and
`StopKeepsKeys`; deaths, power failures and I/O errors that end the process are
instances of it (`DieInv`, `PowerFailureInv`, `IOErrorStops`).

**ShiftProofs**: any shift, any size of the device of at least three shifts, any number
of deaths and I/O errors (`ShiftConstants`). `Foreseen` leaves out a user who starts
over though a temporary header is left, and a death or a last failed write in the
finish of a recovery; it allows a header that cannot be put in place, a copy that
cannot be wiped, and deaths and errors in the finish of a run.
`EncryptionSafe` is not inductive: that a block can be found says nothing about the
block that the next hotzone overwrites. The inductive invariant `ShiftInv` is about
levels: at level `L` the first `L` blocks of the user are where they were, the first
`Shift` of them in the copy at the end, and the others are encrypted and moved up
(`UserData`). Each point of the control has its level, the form of the segments on
the device and in memory for it (`CleanSegs`, `HotZoneSegs`), and the offset, length
and progress that belong to it (`RunContext`, `RecoveryContext`). `CleanShape`,
`HotShape`, `MakeHot` and `MakePost` show that the code's surgery on segments leads
from one form to the other, `RunBegins`, `RecoveryBegins` and `Advances` the same for
the context, and `FoundClean` and `FoundHot` that the segments lead to each block. The
argument is `ZoneFree`: a hotzone, at most `Shift` blocks cut from the end of level
`L`, overwrites neither what it is read from nor what is encrypted, so a write of it
may stop anywhere and be done again; and `ZoneWritten`: once it is written the level
below is true as well. Both headers are then true of the data around each commit.
TLC has checked `ShiftInv` with shifts of two and three blocks, two deaths and two
errors.

**OnlineReencryptProofs**: any size of the device and of hotzones, any number of
writes of programs, failed calls, deaths and activations (`OnlineConstants`), with no
further hypothesis. The inductive invariant `OnlineInv` is `OnlineTypeOK`, `TypePart`,
`NamePart`, `OverlayPart`, `HotzonePart`, `HdrPart`, `NoWriteLost` and `StackPart`. I/O
passes at most three devices. `NamePart`: `name` has the table of the header's
segments, or it maps the overlay, and then every target of the overlay is the data
device with the key of the header, or the hotzone device. `HotzonePart`: that one
stops all I/O from before the hotzone is read until its new segment is committed; the
lemma `Routed` follows, that no program reaches a sector which the process has read
and not yet committed. `OverlayPart` says which table is loaded and which is live
while the stack is switched, `HdrPart` that buffer, area and device tell the same.
TLC has checked `OnlineInv` with two faults and two deaths (197,038 states).

**LUKS2KeyslotsProofs**: any number of contexts, keyslots, digests, tokens,
passphrases, keys, units, calls, I/O errors and deaths (`KeyslotsConstants`).
`Careless = {}` says that callers assign tokens to keyslots that are there, and that a
context whose header could not be written to the end reads it again before its next
call; section 6 has what happens otherwise. None of the three invariants is
inductive: that a write of an area hits no other keyslot is a fact about the header in
memory, and that header may be old. `KeyslotsInv` has eleven parts. `MemPart` says
what the comparison of sequence ids is good for: a header in memory with the sequence
id of the device is the header of the device but for what the call of this context
changes, at each step of each call. From it and `ValidPart` (no header that is not
valid gets anywhere, so that areas do not overlap) `TargetIs` follows: the area that
is touched is the one of a single keyslot of the device, or free. `ToldPart` says that
there is a table of salts, each of which was used for one passphrase and key, which all
headers, areas, the backup and the calls in progress agree with; digests so tell the
truth however old a header is. `OwedPart` says that each promise is kept by a keyslot
that no change of a passphrase is about to destroy, and that the promise which is
changed has the new keyslot before the old one goes. `JobPart`, `SeqPart`, `SaltPart`,
`AreaPart`, `GonePart` and `AskedPart` are what these need about jobs, locks, salts,
areas and tokens. TLC has checked the parts on the instance of the run `keyslots`
(`ToldPart` by the pairs of areas and keyslots it relates).

**ActivationProofs**: any number of processes, calls, failures and deaths, any
kinds of volumes and any `Twins` (`ActivationConstants`). `VolumeKeyInUse` needs
nothing else: users may be careless, every device-mapper call may fail and every
process may be killed. Its invariant is `KeyInv`: every live table has a key of the
volume or was wiped and is suspended, every loaded one has a key of the volume, and so
has every call at a place where it will load or set a key, and every keyring; a key of
the volume is the volume key, or that of a twin where `TwinPasses`. The other two
properties are claimed where users are not `careless`: they start a refresh or a resize only while nobody works on the
volume, and nobody else calls on it meanwhile (an activation excepted, which is
refused). `KeysAreGone` leaves out that the resume of `_reload_device` fails, which
leaves the loaded table, with its key, to the device. `StackStaysSound` leaves out
`NotUndone`: the failures after which the code does not restore what was there (a
resume, the removal of a device below, the creation of a cipher of a TCRYPT chain).
The run `activation` satisfies both. Neither is inductive. `CarefulInv` is
`ActivationInv` where users are not careless, which no step changes (`MannersStay`).
`ActivationInv` says what a
process knows at its place: `ReloadOK`, which tables are loaded and which are live at
each step of a reload, and `OwnerOK`, which part of a stack a process has while it
makes or removes one. That stays true because every other process is at a place where
it changes no table (`Free`, in the lemmas `OthersOf...`): by `AlonePart` nobody works
beside a reload, and a stack without its top can be called on by nobody. `DmOK` is what holds of tables
whatever happens: names form a bottom part of the stack, a table lies on the device
below, and one without a key is suspended. `LoadPart`, `SuspPart`, `WholePart` and
`VerPart` charge each loaded table, each suspended device, each missing device and
each pair of tables that do not belong together to a process at a place that will
undo it, or to a suspend that has returned (`LockPart`); they are claimed only where
nobody was killed and nothing failed that is not undone. TLC has checked both
invariants on the instance of the run `activation` with a failure of any call (955,153
states).

**OfflineReencryptProofs**: any size of device, header, block and reduction, any
jobs that the option checks of `main` let through, any number of faults
(`OfflineConstants`, `Allowed`). `Foreseen` leaves out faults before the log has
direction and mode, and detached headers. The inductive invariant `OfflineInv` is
`OfflineTypeOK`, `Drift` (what lies between the position of a run and its offset is
astray, so that later writes of the run hit only that and their own block),
`Control` (which files are there at which step, that a log that
counts fits the job, that it is at most one block behind when it is written for each
block, that everything is copied before the header is put back) and
`BlockLostAtMost`. The data rest on geometry: a copy up goes backward and a copy down
goes forward, so that a block is written only over itself and over what is copied
already.

The proof modules were developed with the candidate invariants as invariants of the
runs first. That, and steps that could not be proved, corrected the models and
properties in several places: `LoadNeverFails` and `LoadHeals` now name the crash that
meets a change of the uuid, the option checks `Allowed` restrict the jobs,
`LastIsShort` replaces the assumption that a device is a multiple of the hotzone, and
in `LUKS2Keyslots` the calls that read the header again after an error are told from
those that do not (`again`), an unused digest is dropped when a new key becomes the one
of the segment, and a promise whose keyslot was overwritten while its passphrase was
changed is not replaced.

**Only model-checked.** Liveness under fairness (`LockIsGranted`, `CallReturns`,
`ReencryptFinishes`, `EncryptionFinishes`, `OfflineFinishes`) is out of the reach of
the prover, and so is what a recursive function computes for every input, which is
what most of `Algorithms` is about. `LUKS1` and `Tool` are checked on the instances
of section 3: `LUKS1` places keyslots and finds headers by recursion over the device,
and `Tool` stands on calls that the other modules prove.

## 6. What the models show the code does not do

All of this concerns the code at this commit. Each instance named by a `.cfg`, or
by a `.cfg` and what to change in it, was run with TLC and has a counterexample;
for the others the constants to change are given. The passing runs leave out just these circumstances, by the worlds or
constants they choose or by a condition in the property, so that what they check
is everything else.

**Header**

* `MCLUKS2Header_staleuuid.cfg`: `crypt_set_uuid` on an old header passes the
  sequence id check (`luks2_disk_metadata.c:370`), which skips headers with another
  uuid than the one in memory, and overwrites newer metadata; line 390 says
  "Detected attempt for concurrent LUKS2 metadata update. Aborting operation."
* `MCLUKS2Header_staleuuid.cfg` with `Worlds <- SharedWorlds` and
  `HeaderIOExclusive`: a context with a cached read-write descriptor
  (`utils_device.c:294`) recovers a copy under a shared lock, while others read it;
  `docs/LUKS2-locking.txt:55-57` promises serialized header I/O.
* After a failed write the sequence id in memory is one ahead and matches again
  after somebody else's commit (`luks2_disk_metadata.c:453`): a world of two
  contexts, three changes and one I/O error loses an update.
* Changes of the uuid (or an overwritten copy) together with a crash: two valid
  copies may have one sequence id and different content, and after two deaths no
  copy is valid, because a new uuid is written although the sequence id is old.
  `LoadNeverFails` and `LoadHeals` except these.
* Limits of the design: three or more readers can delay a load that waits for the
  write lock; an I/O error on one copy followed by a crash while the other is
  rewritten leaves none; a damaged magic of the primary copy switches the sequence
  id check off until recovery.

**Keyslots**

* `MCLUKS2Keyslots_retry.cfg`: the same sequence id after a failed write, one
  level up: a context that goes on without reloading loses a keyslot.
* `MCLUKS2Keyslots_retry.cfg` with `Careless = {"assign"}` and `TokensAsAsked`: a
  refused assignment of a token to a keyslot that
  is not there stays in memory and is committed by a later call;
  `tests/api-test-2.c:1745` expects it to fail.

**Reencryption**

* `reenc_restart` (a finding of `PROJECT.json`): after a death between the last
  commit and the removal of the old keyslot, the one new segment is taken for one
  old segment (`luks2_reencrypt.c:854`), and the resumed run destroys the data.
* `MCReencrypt_restart.cfg` with `Worlds <- MCHashError`: a positive error code of the recovery
  (`luks2_reencrypt.c:1456`) is taken for success, and so is a metadata device that cannot
  be opened for the checksums (`1434` leaves with no error code at all); `hasherrs` counts both.
* There is no sync between resilience data and the header that relies on them
  (`luks2_keyslot_reenc.c:172`; world `Power` with `"area"` in `volatile`:
  `DataKept`), nor between recovered data and the header
  (`luks2_reencrypt.c:3430`; `Power` with one death: `DataKept`).
* `MCReencrypt_restart.cfg` with `Worlds <- MCLastHotzone`: backward, the recovery of a last hotzone shorter
  than the calculated length is not seen as the end (`luks2_reencrypt.c:1074`
  calculates the progress before the length of the hot segment is known), and the
  next run reencrypts data a second time. Backward without data shift is reached
  through the API only.
* After a death in the finish nothing can remove the requirement flag any more, and
  in a recovery of the last hotzone the old key is wiped before the header without
  the hot segment is written (world `Finish`: `ReencryptFinishes` and `KeysKept`
  without their conditions).
* With resilience `none` any failure inside a run loses data, as documented.

**Encryption with data shift**

* `MCShift_recovered.cfg`: the recovery of the last hotzone wipes the moved segment
  before it commits (`luks2_reencrypt.c:3217-3268`); a death there, or a failure of
  all the header writes that follow, loses the first blocks.
* A failed wipe of the moved segment is only logged (`luks2_reencrypt.c:3264-3265`),
  and the keyslot and the flag are dropped all the same: the first blocks of the user
  stay in the clear at the end of the device and nothing in the header tells
  (`"wipe"` in `at`; `NoPlaintextLeft` says that this copy is then all that is left).
* The result of destroying the reencrypt keyslot and of dropping the flag is ignored
  as well: a keyslot that cannot be wiped stays in a header that is otherwise
  finished, and a flag that cannot be dropped is the case below.
* A death between the last commit and the removal of the flag leaves a device whose
  reencryption can be neither resumed nor finished, with the plaintext copy on it
  (`"finish"` in `at`: `EncryptionFinishes` without its condition).
* When the temporary header cannot be written to the device the tool removes it
  (`cryptsetup.c:2972`), and a restart after a death in that step moves the damaged
  head over the good copy (`"restart"` in `at`: `EncryptionKeepsData`).

**Online reencryption and activation**

* `MCOnlineReencrypt_rollback.cfg`: after a failed refresh that is rolled back a
  device may stay suspended, so that I/O waits and is not answered by an error.
* The same with `Headerless = TRUE`, no faults and `HelpersStay`: a deactivation without the header of the
  volume removes the helper devices of a running reencryption.
* `MCActivation.cfg` with `KeysGone` without its `~careless`: a refresh or resize that has loaded its
  table and not yet resumed it leaves the key in that table when another process
  suspends the volume, and its resume then takes the suspension back
  (`setup.c:2652`, `libdevmapper.c:1765`), although `crypt_suspend` has returned 0.
* A refresh of a volume whose key is in the keyring compares the length and the
  description of the key (`setup.c:2399-2405`), and the description is the uuid and the
  number of the digest: a context with a copy of the header whose volume key was
  changed passes, and the volume runs with the other key. `crypt_resume_by_*` compares
  nothing. `RunsWithVolumeKey` names these cases in `TwinPasses`.
* Read from the code and left out of the faults of the run: `TCRYPT_activate` has
  no rollback; a killed reload leaves a loaded table with the key, which a later
  suspend ignores; a volume suspended by one process leaves the key in the keyring
  of another; a leftover `_dif` device blocks activation.

**LUKS1 and the tools**

* `MCLUKS1_metadata.cfg`: a LUKS2 device whose metadata area is not the smallest is
  converted to LUKS1 with areas moved by a fixed distance, and its keyslots open no
  more; `cryptsetup.8:578-580` says "if possible".
* A short write is taken for a whole one (`cryptsetup_reencrypt.c:946-953`,
  `1021-1028` ask only for `s2 < 0`). Backward it costs its block; forward every later
  block of the run lands before its place, at once and unreported
  (`MCOfflineReencrypt.cfg`: `BlockLostAtMost` without `i \notin astray` in `Damaged`).
* `MCOfflineReencrypt_restart.cfg`: a fault between the new log file and the first
  block leaves a log without direction and mode, and the next run copies the wrong
  way. The same with `Jobs <- MCDetached`, `Early = FALSE` and `HeadersKept`: an
  encryption with a detached header that
  fails while it copies removes its temporary files, the only header among them;
  `cryptsetup-reencrypt.8:26-27` tells the user to retain them.
* Worlds of `MCTool`: `FormatWorlds` (a command that was started before a
  `luksFormat` writes its old header over the new one: `PassphrasesOwed`);
  `LUKS1Worlds` (two `luksRemoveKey` at a time on LUKS1 remove both keyslots with no
  question), `RunWorlds` (the last keyslot is removed while another process
  reencrypts) and `KeyFileWorlds` (`luksKillSlot --key-file` of the last keyslot
  asks nothing, `cryptsetup.c:1590`, though `cryptsetup.8:443-444` promises a
  confirmation): `LastOneAsked`.

**Algorithms**

* The overlap check of verity's hash area and parity (`setup.c:2090-2092`) counts
  neither the block of the superblock nor, when the number of data blocks is left to
  the device, any block at all; without a superblock a hash offset is rounded down
  to a block and the tree may start inside the data (`VerityAreasApart` without its
  conditions).
* Ends of areas and segments wrap at 64 bits in the validation, so that an overlap
  goes unseen; a regular segment behind a backup segment is accepted if it comes
  first in the JSON text (`luks2_json_metadata.c:366-404`, `567-593`, `658-667`;
  `MetadataSound` without `usual`).
* A write that begins inside the block in which a regular file ends (a detached
  header) grows the file to the end of the block, behind the data with what the
  buffer of the read happened to hold (`utils_io.c:221-237`); the last block of a write
  or a wipe grows it with zeroes (`utils_io.c:124-138`). `BlockIOExact` says so, and
  that nothing else is touched.
* Of an integrity device the keys of the journal are not read back from its table
  (`libdevmapper.c:2475-2494`), a journal of 4 GiB and more is read back with another
  size (`2416`), an activation with many options fails because its table does not fit
  the 128 bytes there are for them (`796-803`, `965`), and a key whose option is longer
  than 255 characters, or options of more than 511 together, are cut without an error
  (`791`). `TableReadBack` names these cases. The buffers of crypt and verity tables
  have room for all but very long names of devices and ciphers; they have no lengths in the model.
* `diffuse` hashes each block of the size of a digest by itself (`af.c:77-92`), though
  its comment says "Information spreading over the whole dataset": a stripe that is
  changed in one block changes the key in that block only. `AllStripesNeeded` states
  just that.
* `crypt_wipe_device` with a wipe block that is no multiple of the device block
  writes sectors it should not; a BitLocker volume whose last hidden area ends with
  the device makes `_activate` loop; one without any VMK is opened with no key. The
  inputs of `MCAlgorithms` leave these out.

## 7. Not modelled

* Cryptography: the crypto backend with Argon2, key derivation, random numbers,
  ciphers. A key is a value, a digest is its key, a hash is injective.
* The kernel, except for what device-mapper, flock and the write cache do.
* Decryption with data shift and fixed-size reencryption.
* Parsing and printing: option parsing, dumps, JSON text, headers of TCRYPT and
  BitLocker beyond their fields, plain mode, token plugins.
* Detection: kernel features, device topology, blkid beyond its answer, udev.
* Initialisation of a context from an active device, and getters.
* `cryptsetup-reencrypt --keep-key`: for LUKS2 `luks2_change_pbkdf_params`, a change of
  each keyslot that a passphrase was given for and the deletion of the others (calls
  that `LUKS2Keyslots` has), for LUKS1 the steps of `OfflineReencrypt` without the copy.
* `veritysetup` and `integritysetup`: arguments around single library calls.
* `LUKS2Keyslots`: a restore of a header backup takes the sequence id back and skips the
  check of it (`luks2_json_metadata.c:1265-1266`), so a context that has the header open
  would write over it; the restore of the model is one step and waits until nobody else
  has the header open. Objects of the JSON area have one size, so a token is never
  replaced by one that does not fit (`luks2_token.c:348-352` deletes the old one in memory then).
* `LUKS1`: of the checks before a repair (`keymanage.c:373-390`) the place of the first
  keyslot; key sizes and ciphers have no state here.
* `Bitlk`: errors of memory and of the key derivation (`bitlk.c:1142`), which end a search.
* Power failures in `Shift`, `LUKS1`, `OfflineReencrypt`: the code syncs at the end
  of a write or not at all, and the models take a write for lasting once it is done.

`components` in `PROJECT.json` says for each part what is left out.

## 8. Plan

Done: all models; the theorems on locking, header, keyslots, reencryption in place,
encryption with data shift, the online device stack, activation and the offline tool.
Left:

1. Proofs for the parts of `LUKS1` without conversion.
2. Decryption with data shift in `Shift`, and power failures there.
