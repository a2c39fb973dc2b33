-------------------------- MODULE OfflineReencrypt --------------------------
(***************************************************************************)
(* The offline tool cryptsetup-reencrypt (src/cryptsetup_reencrypt.c): it  *)
(* copies a device block by block from a mapping with the old header to a  *)
(* mapping with the new one, over the same sectors, and keeps a log and    *)
(* two header files in the working directory so that a later run goes on.  *)
(*                                                                         *)
(* Physical sectors hold logical sectors under the old or the new key, or  *)
(* a header.  Plain data are data under a key that every program has.      *)
(* Left out: --keep-key, which copies no data (luks2_change_pbkdf_params,  *)
(* and for LUKS1 the same steps without copy_data).                        *)
(***************************************************************************)
EXTENDS Naturals, FiniteSets

CONSTANTS
    P,          \* sectors of the device
    H,          \* sectors before the data of a LUKS device
    Block,      \* sectors copied at once (--block-size)
    Jobs,       \* what the user may ask for, a subset of Job
    WriteLogs,  \* subset of BOOLEAN: with --write-log or without
    Early,      \* faults may hit any job between log file and first block
    MaxFault    \* bound on deaths, failures and interruptions

(* Mode, sectors of --reduce-device-size, and whether --header is given.   *)
Job == [mode : {"reencrypt", "encrypt", "decrypt"}, reduce : 0..P,
        detached : BOOLEAN]

(* The checks of main: --new wants --reduce-device-size or --header, and   *)
(* --decrypt takes no --reduce-device-size.                                *)
Allowed(j) ==
    /\ j.mode = "encrypt" => j.reduce > 0 \/ j.detached
    /\ j.mode = "decrypt" => j.reduce = 0

ASSUME OfflineConstants ==
    /\ H \in Nat \ {0} /\ P \in Nat /\ P > H /\ Block \in Nat \ {0}
    /\ Jobs \subseteq {j \in Job : Allowed(j)}
    /\ \A j \in Jobs : j.mode = "reencrypt" => H + j.reduce <= P
    /\ WriteLogs \subseteq BOOLEAN
    /\ Early \in BOOLEAN /\ MaxFault \in Nat

VARIABLES
    job, writelog,  \* the options, the same in every run of the tool
    phys,           \* the sectors of the device
    dhdr,           \* a detached header is in place
    org, new,       \* header_file_org, header_file_new
    log,            \* the log file
    pc, rc,         \* the running process and its struct reenc_ctx
    behind,         \* sectors the position of fd_new is behind rc.offset
    finished,       \* a run has reported success
    astray,         \* sectors passed by in a forward run with a short write
    losses, faults  \* faults that may cost a block, and all faults

vars == <<job, writelog, phys, dhdr, org, new, log, pc, rc, behind, finished,
          astray, losses, faults>>
files == <<org, new, log>>
drift == <<behind, astray>>

Sector == 0..(P - 1)
Content == ({"old", "new"} \X Sector) \cup {<<h>> : h \in {"luks", "unusable",
               "restored", "junk", "zero"}}

OldOffset == IF job.mode = "encrypt" THEN 0 ELSE H
NewOffset ==
    CASE job.mode = "encrypt" -> job.reduce
      [] job.mode = "decrypt" -> 0
      [] OTHER -> H + job.reduce
Size == P - (IF job.mode = "decrypt" THEN H ELSE NewOffset)
Backward == job.reduce > 0

NoLog == [dir |-> "none", mode |-> "none", offset |-> 0]
NoContext == [dir |-> "forward", mode |-> "reencrypt", offset |-> 0,
              stained |-> FALSE, inprogress |-> FALSE]
Dirs == {"forward", "backward"}
Modes == {"reencrypt", "encrypt", "decrypt"}
Steps == {"idle", "passphrase", "mkorg", "fillorg", "mknew", "fillnew", "mark",
          "activate", "start", "copy", "log", "restore", "out", "unlink"}

Untouched ==
    [p \in Sector |->
        IF job.mode = "encrypt" THEN <<"old", p>>
        ELSE IF p = 0 THEN <<"luks">>
             ELSE IF p < H THEN <<"junk">> ELSE <<"old", p - H>>]

Init ==
    /\ job \in Jobs /\ writelog \in WriteLogs
    /\ phys = Untouched /\ dhdr = FALSE
    /\ org = "none" /\ new = "none" /\ log = NoLog
    /\ pc = "idle" /\ rc = NoContext
    /\ behind = 0 /\ finished = FALSE
    /\ astray = {} /\ losses = 0 /\ faults = 0

OfflineTypeOK ==
    /\ job \in Jobs /\ writelog \in WriteLogs
    /\ phys \in [Sector -> Content]
    /\ dhdr \in BOOLEAN /\ finished \in BOOLEAN
    /\ {org, new} \subseteq {"none", "partial", "ok"}
    /\ log \in [dir : Dirs, mode : Modes, offset : 0..P] \cup {NoLog}
    /\ pc \in Steps
    /\ rc \in [dir : Dirs, mode : Modes, offset : 0..Size,
               stained : BOOLEAN, inprogress : BOOLEAN]
    /\ behind \in 0..Size /\ astray \subseteq 0..(Size - 1)
    /\ losses \in 0..faults /\ faults \in 0..MaxFault

-----------------------------------------------------------------------------
(* Faults                                                                  *)

Preparing ==
    /\ ~rc.inprogress
    /\ \/ pc \in {"passphrase", "mkorg", "fillorg", "mknew", "fillnew", "mark",
                 "activate", "start"}
       \/ pc \in {"out", "unlink"} /\ ~rc.stained /\ ~finished

(* Where faults happen in this instance.  Until the first block is copied  *)
(* the log has neither the direction nor the mode.                         *)
MayFail ==
    \/ Early \/ ~Preparing
    \/ pc \in {"mark", "activate", "start"} /\ job.mode = "reencrypt" /\ ~Backward

Fault ==
    /\ faults < MaxFault
    /\ faults' = faults + 1

Fails == Fault /\ losses' = losses /\ pc' = "out"

-----------------------------------------------------------------------------
(* initialize_context                                                      *)

(* Mutation: a new run takes the device for touched from the beginning.    *)
OpenLogStained ==
    IF log = NoLog
    THEN /\ log' = [dir |-> "forward", mode |-> "reencrypt", offset |-> 0]
         /\ rc' = [dir |-> IF Backward THEN "backward" ELSE "forward",
                   mode |-> job.mode, offset |-> 0,
                   stained |-> TRUE, inprogress |-> FALSE]
    ELSE /\ rc' = [dir |-> log.dir, mode |-> log.mode, offset |-> log.offset,
                   stained |-> TRUE, inprogress |-> TRUE]
         /\ log' = log

(* open_log and what follows: the new log has the zeroes of struct         *)
(* reenc_ctx; direction and mode of a new run are set after it is written, *)
(* those of a run that goes on are read from it.                           *)
OpenLog ==
    IF log = NoLog
    THEN /\ log' = [dir |-> "forward", mode |-> "reencrypt", offset |-> 0]
         /\ rc' = [dir |-> IF Backward THEN "backward" ELSE "forward",
                   mode |-> job.mode, offset |-> 0,
                   stained |-> FALSE, inprogress |-> FALSE]
    ELSE /\ rc' = [dir |-> log.dir, mode |-> log.mode, offset |-> log.offset,
                   stained |-> TRUE, inprogress |-> TRUE]
         /\ log' = log

(* initialize_uuid names the files: by option, or from the header.         *)
UuidKnown ==
    \/ job.mode = "encrypt"
    \/ job.mode = "decrypt" /\ log # NoLog
    \/ phys[0] \in {<<"luks">>, <<"unusable">>, <<"restored">>}

Start ==
    /\ pc = "idle"
    /\ ~finished \/ log # NoLog
    /\ UuidKnown
    /\ OpenLog
    /\ pc' = "passphrase"
    /\ UNCHANGED <<job, writelog, phys, dhdr, org, new, finished, losses, faults, drift>>

-----------------------------------------------------------------------------
(* Preparation: passphrases, header files, the mark on the device          *)

(* A run that goes on needs the header it unlocks.                         *)
Passphrase ==
    /\ pc = "passphrase"
    /\ \/ /\ ~rc.inprogress \/ (IF job.mode = "decrypt" THEN org ELSE new) = "ok"
          /\ pc' = IF rc.inprogress THEN "activate" ELSE "mkorg"
          /\ UNCHANGED <<losses, faults>>
       \/ /\ rc.inprogress /\ (IF job.mode = "decrypt" THEN org ELSE new) # "ok"
          /\ pc' = "out"
          /\ UNCHANGED <<losses, faults>>
       \/ Fails
    /\ UNCHANGED <<job, writelog, phys, dhdr, org, new, log, rc, finished, drift>>

(* backup_luks_headers, backup_fake_header: each file is created           *)
(* exclusively and then filled.                                            *)
MakeFile(step, file, next) ==
    /\ pc = step
    /\ \/ /\ file = "none"
          /\ file' = "partial" /\ pc' = next
          /\ UNCHANGED <<losses, faults>>
       \/ /\ file # "none"
          /\ file' = file /\ pc' = "out"
          /\ UNCHANGED <<losses, faults>>
       \/ Fails /\ file' = file
    /\ UNCHANGED <<job, writelog, phys, dhdr, log, rc, finished, drift>>

FillFile(step, file, next) ==
    /\ pc = step
    /\ \/ /\ file' = "ok" /\ pc' = next
          /\ UNCHANGED <<losses, faults>>
       \/ Fails /\ file' = file
    /\ UNCHANGED <<job, writelog, phys, dhdr, log, rc, finished, drift>>

CreateHeaderOrg == MakeFile("mkorg", org, "fillorg") /\ new' = new
BackupHeader == FillFile("fillorg", org, "mknew") /\ new' = new
CreateHeaderNew == MakeFile("mknew", new, "fillnew") /\ org' = org
FormatNewHeader ==
    /\ FillFile("fillnew", new, IF job.mode = "encrypt" THEN "activate" ELSE "mark")
    /\ org' = org

(* device_check(MAKE_UNUSABLE): the magic of LUKS1 is destroyed, or LUKS2  *)
(* gets the offline-reencrypt requirement.                                 *)
MakeUnusable ==
    /\ pc = "mark"
    /\ \/ /\ phys' = [phys EXCEPT ![0] = <<"unusable">>]
          /\ rc' = [rc EXCEPT !.stained = TRUE]
          /\ pc' = "activate"
          /\ UNCHANGED <<losses, faults>>
       \/ /\ Fails
          /\ \/ UNCHANGED <<phys, rc>>
             \/ /\ MayFail
                /\ phys' = [phys EXCEPT ![0] = <<"unusable">>]
                /\ rc' = [rc EXCEPT !.stained = TRUE]
    /\ UNCHANGED <<job, writelog, dhdr, org, new, log, finished, drift>>

(* activate_luks_headers: a header with cipher_null takes only the empty   *)
(* passphrase and the others only the real one, so that the mode must be   *)
(* the one the headers were made for.                                      *)
ActivateHeaders ==
    /\ pc = "activate"
    /\ \/ /\ org = "ok" /\ new = "ok" /\ rc.mode = job.mode
          /\ pc' = "start"
          /\ UNCHANGED <<losses, faults>>
       \/ /\ ~(org = "ok" /\ new = "ok" /\ rc.mode = job.mode)
          /\ pc' = "out"
          /\ UNCHANGED <<losses, faults>>
       \/ MayFail /\ Fails
    /\ UNCHANGED <<job, writelog, phys, dhdr, org, new, log, rc, finished, drift>>

-----------------------------------------------------------------------------
(* copy_data                                                               *)

LogOf(r) == [dir |-> r.dir, mode |-> r.mode, offset |-> r.offset]

(* Mutation: a run that goes on starts over at the end of the device.      *)
CopyStartOver ==
    /\ pc = "start"
    /\ rc' = IF rc.dir = "backward"
             THEN [rc EXCEPT !.offset = Size, !.stained = TRUE]
             ELSE rc
    /\ log' = LogOf(rc') /\ pc' = "copy"
    /\ UNCHANGED <<job, writelog, phys, dhdr, org, new, finished, losses, faults, drift>>

(* The first log entry with direction and mode.                            *)
CopyStart ==
    /\ pc = "start"
    /\ rc' = IF rc.dir = "backward"
             THEN [rc EXCEPT !.offset = IF rc.inprogress THEN @ ELSE Size,
                             !.stained = TRUE]
             ELSE rc
    /\ log' = LogOf(rc') /\ pc' = "copy"
    /\ UNCHANGED <<job, writelog, phys, dhdr, org, new, finished, losses, faults, drift>>

CopyDone == IF rc.dir = "backward" THEN rc.offset = 0 ELSE rc.offset >= Size

(* The logical sectors of the next block.                                  *)
NextBlock ==
    {i \in 0..(Size - 1) :
        IF rc.dir = "backward"
        THEN i < rc.offset /\ i + Block >= rc.offset
        ELSE rc.offset <= i /\ i < rc.offset + Block}

(* The device after the sectors of set w are decrypted by the old mapping  *)
(* and written through the new one, where the position of fd_new is.       *)
Copied(w) ==
    [p \in Sector |->
        IF p >= NewOffset /\ (p - NewOffset) + behind \in w
        THEN IF behind = 0 /\ phys[p - NewOffset + OldOffset] = <<"old", p - NewOffset>>
             THEN <<"new", p - NewOffset>> ELSE <<"junk">>
        ELSE phys[p]]

(* Mutation: the offset is moved by a whole block, also by the last one.   *)
AdvancedUncut(r) ==
    IF r.dir = "backward"
    THEN [r EXCEPT !.offset = IF r.offset < Block THEN 0 ELSE r.offset - Block]
    ELSE [r EXCEPT !.offset = r.offset + Block]

(* The context after a block.                                              *)
Advanced(r) ==
    IF r.dir = "backward"
    THEN [r EXCEPT !.offset = IF r.offset < Block THEN 0 ELSE r.offset - Block]
    ELSE [r EXCEPT !.offset = IF r.offset + Block > Size THEN Size
                              ELSE r.offset + Block]

(* Sectors w of the block are written and the block counts as copied.      *)
PassBlock(w) ==
    /\ pc = "copy" /\ ~CopyDone
    /\ phys' = Copied(w)
    /\ rc' = Advanced(rc)
    /\ pc' = IF writelog THEN "log" ELSE "copy"
    /\ astray' = astray \cup
           (IF rc.dir = "backward" THEN {}
            ELSE IF behind = 0 THEN NextBlock \ w ELSE NextBlock)
    /\ UNCHANGED <<job, writelog, dhdr, files, finished>>

CopyBlock ==
    /\ PassBlock(NextBlock)
    /\ UNCHANGED <<behind, losses, faults>>

(* write returns less than the block, which only a negative result would   *)
(* stop.  Backward each block seeks its place; forward the position stays  *)
(* behind and what the run copies from here on lands before its place.     *)
ShortWrite ==
    /\ Fault
    /\ \E k \in NextBlock :
           /\ PassBlock({i \in NextBlock : i < k})
           /\ \/ /\ rc.dir = "backward"
                 /\ behind' = behind /\ losses' = losses + 1
              \/ /\ rc.dir # "backward"
                 /\ behind' = behind + (Advanced(rc).offset - k)
                 /\ losses' = losses

(* write_log after the block, if asked for.                                *)
LogBlock ==
    /\ pc = "log"
    /\ \/ /\ log' = LogOf(rc) /\ pc' = "copy"
          /\ UNCHANGED <<behind, losses, faults>>
       \/ /\ Fault /\ losses' = losses + 1 /\ pc' = "out" /\ behind' = 0
          /\ log' \in {log, LogOf(rc)}
    /\ UNCHANGED <<job, writelog, phys, dhdr, org, new, rc, finished, astray>>

(* A signal is seen before the next block, or the block cannot be read.    *)
CopyStops ==
    /\ pc = "copy"
    /\ Fault /\ pc' = "out" /\ behind' = 0
    /\ log' = LogOf(rc)
    /\ UNCHANGED <<job, writelog, phys, dhdr, org, new, rc, finished, astray, losses>>

(* The write fails, with some of the block written.                        *)
WriteFails ==
    /\ pc = "copy" /\ ~CopyDone
    /\ Fault /\ losses' = losses + 1 /\ pc' = "out" /\ behind' = 0
    /\ \E w \in SUBSET NextBlock : phys' = Copied(w)
    /\ log' = LogOf(rc)
    /\ UNCHANGED <<job, writelog, dhdr, org, new, rc, finished, astray>>

(* All is copied; zero_rest_of_device after decryption.                    *)
CopyEnds ==
    /\ pc = "copy" /\ CopyDone
    /\ phys' = IF rc.mode = "decrypt"
               THEN [p \in Sector |-> IF p >= Size THEN <<"zero">> ELSE phys[p]]
               ELSE phys
    /\ log' = LogOf(rc) /\ pc' = "restore" /\ behind' = 0
    /\ UNCHANGED <<job, writelog, dhdr, org, new, rc, finished, astray, losses, faults>>

-----------------------------------------------------------------------------
(* The end: restore_luks_header, destroy_context                           *)

(* The new header before the data, or in the detached file.                *)
WithHeader ==
    [p \in Sector |->
        IF job.detached \/ p >= NewOffset THEN phys[p]
        ELSE IF p = 0 THEN <<"restored">> ELSE <<"junk">>]

RestoreHeader ==
    /\ pc = "restore"
    /\ \/ /\ IF rc.mode = "decrypt" THEN UNCHANGED <<phys, dhdr>>
             ELSE phys' = WithHeader /\ dhdr' = job.detached
          /\ rc' = [rc EXCEPT !.stained = FALSE]
          /\ finished' = TRUE /\ pc' = "out"
          /\ UNCHANGED <<losses, faults>>
       \/ /\ rc.mode # "decrypt"
          /\ Fails
          /\ phys' \in {phys, WithHeader}
          /\ UNCHANGED <<dhdr, rc, finished>>
    /\ UNCHANGED <<job, writelog, files, drift>>

(* Mutation: the files go also when the run was interrupted.               *)
UnlinkAlways ==
    /\ pc = "out"
    /\ log' = NoLog /\ pc' = "unlink"
    /\ UNCHANGED <<job, writelog, rc, phys, dhdr, org, new, finished, losses, faults, drift>>

(* destroy_context: the files go unless the device is touched.             *)
UnlinkLog ==
    /\ pc = "out"
    /\ log' = IF rc.stained THEN log ELSE NoLog
    /\ pc' = IF rc.stained THEN "idle" ELSE "unlink"
    /\ rc' = IF rc.stained THEN NoContext ELSE rc
    /\ UNCHANGED <<job, writelog, phys, dhdr, org, new, finished, losses, faults, drift>>

UnlinkHeaders ==
    /\ pc = "unlink"
    /\ org' = "none" /\ new' = "none"
    /\ pc' = "idle" /\ rc' = NoContext
    /\ UNCHANGED <<job, writelog, phys, dhdr, log, finished, losses, faults, drift>>

(* The process is killed.  A block on its way may be written in part.      *)
Die ==
    /\ pc # "idle" /\ MayFail
    /\ Fault
    /\ losses' = IF pc \in {"copy", "log"} THEN losses + 1 ELSE losses
    /\ \E w \in SUBSET (IF pc = "copy" THEN NextBlock ELSE {}) : phys' = Copied(w)
    /\ pc' = "idle" /\ rc' = NoContext /\ behind' = 0
    /\ UNCHANGED <<job, writelog, dhdr, files, finished, astray>>

-----------------------------------------------------------------------------
Work ==
    \/ Passphrase \/ CreateHeaderOrg \/ BackupHeader \/ CreateHeaderNew
    \/ FormatNewHeader \/ MakeUnusable \/ ActivateHeaders \/ CopyStart
    \/ CopyBlock \/ LogBlock \/ CopyEnds \/ RestoreHeader \/ UnlinkLog
    \/ UnlinkHeaders

Next == Start \/ Work \/ ShortWrite \/ CopyStops \/ WriteFails \/ Die

Spec == Init /\ [][Next]_vars
FairSpec == Spec /\ WF_vars(Start) /\ WF_vars(Work)

-----------------------------------------------------------------------------
(* Properties                                                              *)

(* What counts as copied: by the context while it copies, by the log when  *)
(* nobody does.                                                            *)
Border == IF pc \in {"copy", "log", "restore"} THEN LogOf(rc) ELSE log
IsCopied(i) ==
    CASE Border = NoLog -> finished
      [] Border.dir = "backward" -> i >= Border.offset
      [] OTHER -> i < Border.offset

(* Sectors that are not where the border says they are, but for those that *)
(* a forward run has passed by.                                            *)
Damaged ==
    {i \in 0..(Size - 1) :
        /\ i \notin astray
        /\ phys[IF IsCopied(i) THEN i + NewOffset ELSE i + OldOffset]
               # <<IF IsCopied(i) THEN "new" ELSE "old", i>>}

(* The temporary files and the device together hold every sector where the *)
(* log says it is, under the key the log says: an interrupted or failed    *)
(* run loses nothing, and a killed process, a failed write or, backward, a *)
(* short write at most the block it was working on (with --write-log;      *)
(* without it, what was copied since the log was written).  Forward a      *)
(* short write, which copy_data_forward takes for whole, costs what it did *)
(* not write and all that the same run copies after it, and nothing else.  *)
BlockLostAtMost ==
    IF writelog THEN Cardinality(Damaged) <= Block * losses
    ELSE losses = 0 => Damaged = {}

(* As long as a sector is under a key, a header with that key is left.     *)
HeadersKept ==
    /\ (\E i \in 0..(Size - 1) : ~IsCopied(i)) =>
            org = "ok" \/ phys = Untouched
    /\ (\E i \in 0..(Size - 1) : IsCopied(i)) =>
            new = "ok" \/ dhdr \/ phys[0] = <<"restored">> \/ job.mode = "decrypt"

(* A log file that a later run will take for a reencryption in progress    *)
(* comes with the complete header files that run needs: a run that fails   *)
(* before it touches the device leaves nothing behind.                     *)
LogMeansResumable == pc = "idle" /\ log # NoLog => org = "ok" /\ new = "ok"

(* Whenever the tool stops, what it leaves can be gone on with or given up *)
(* (initialize_context, backup_luks_headers, destroy_context).             *)
Resumable == OfflineTypeOK /\ HeadersKept /\ LogMeansResumable

(* Started again after every fault, the tool comes to its end.             *)
OfflineFinishes == <>[](finished /\ pc = "idle")
=============================================================================
