----------------------- MODULE OfflineReencryptProofs -----------------------
(***************************************************************************)
(* OfflineReencrypt keeps its promises for every device, header, block and *)
(* reduced size, every job that main accepts and every number of faults.   *)
(*                                                                         *)
(* Resumable and BlockLostAtMost are about what is left when the tool      *)
(* stops.  What makes them inductive is the state at every step: which     *)
(* files are there (FilesAt), that a context or a log which counts has     *)
(* direction and mode of the job (Fits), that a log is never more than one *)
(* block behind when it is written for each (Near), that the context is    *)
(* stained as soon as the files must stay, and that everything is copied   *)
(* before the header is put back (Whole).  The data follow from one fact   *)
(* on geometry: a copy up goes backward and a copy down goes forward, so   *)
(* that a block is written over itself and over what is copied already     *)
(* (CopyOutside).  Faults that cost a block cost the sectors between the   *)
(* log and the context, an interval of the length of a block.  While a run *)
(* is behind itself after a short write, what it has not reached of the    *)
(* sectors before its offset has gone astray (Drift).                      *)
(***************************************************************************)
EXTENDS OfflineReencrypt, FiniteSetTheorems, TLAPS

(* Faults wait until the log has direction and mode, and the header is on  *)
(* the device.                                                             *)
Foreseen == ~Early /\ \A j \in Jobs : ~j.detached

-----------------------------------------------------------------------------
(* The inductive invariant                                                 *)

Dir == IF Backward THEN "backward" ELSE "forward"
FirstLog == [dir |-> "forward", mode |-> "reencrypt", offset |-> 0]

(* A log, or a context, with direction and mode of the job.                *)
Fits(l) == l.dir = Dir /\ l.mode = job.mode /\ l.offset \in 0..Size

(* Everything is copied.                                                   *)
Whole(o) == IF Backward THEN o = 0 ELSE o >= Size

(* At most one block is between the log and the context.                   *)
Near(l, r) == IF Backward THEN r <= l /\ l <= r + Block ELSE l <= r /\ r <= l + Block

(* What a later run needs is there.                                        *)
Ready == org = "ok" /\ new = "ok" /\ log # NoLog /\ Fits(log)

FirstSteps == {"passphrase", "mkorg", "fillorg", "mknew", "fillnew", "mark"}
LastSteps == {"activate", "start"}
Running == {"copy", "log", "restore"}

(* The header files while a run that is new prepares.                      *)
FilesAt ==
    /\ org = CASE pc \in {"passphrase", "mkorg"} -> "none"
               [] pc = "fillorg" -> "partial"
               [] OTHER -> "ok"
    /\ new = CASE pc = "fillnew" -> "partial"
               [] pc \in {"mark", "activate", "start"} -> "ok"
               [] OTHER -> "none"

FreshPart ==
    pc \in FirstSteps \cup LastSteps /\ ~rc.inprogress =>
        /\ log = FirstLog /\ ~finished /\ Fits(rc) /\ rc.offset = 0 /\ FilesAt
        /\ pc \in FirstSteps => ~rc.stained /\ phys = Untouched
        /\ pc = "mark" => job.mode # "encrypt"
        /\ pc \in LastSteps => (job.mode # "encrypt" => rc.stained)
ResumedPart ==
    pc \in FirstSteps \cup LastSteps /\ rc.inprogress =>
        /\ pc \in {"passphrase"} \cup LastSteps
        /\ Ready /\ rc.stained /\ log = LogOf(rc)
IdlePart ==
    pc = "idle" =>
        /\ rc = NoContext
        /\ log = NoLog /\ ~finished => org = "none" /\ new = "none" /\ phys = Untouched
        /\ log # NoLog => Ready
RunningPart ==
    /\ pc \in Running => Ready /\ Fits(rc) /\ rc.stained
    /\ pc = "copy" /\ writelog => log = LogOf(rc)
    /\ pc = "log" => writelog /\ Near(log.offset, rc.offset)
    /\ pc = "restore" => log = LogOf(rc) /\ Whole(rc.offset)
EndPart ==
    /\ pc = "out" => IF rc.stained \/ finished THEN Ready
                     ELSE phys = Untouched /\ ~rc.inprogress /\ log = FirstLog
    /\ pc = "unlink" => /\ ~rc.stained /\ log = NoLog
                        /\ finished \/ (phys = Untouched /\ ~rc.inprogress)
FinishedPart ==
    finished =>
        /\ log = NoLog => pc \in {"idle", "unlink"}
        /\ log # NoLog => Whole(log.offset)
        /\ pc \in FirstSteps \cup LastSteps \cup Running => Whole(rc.offset)
        /\ job.mode # "decrypt" => phys[0] = <<"restored">>

Control == FreshPart /\ ResumedPart /\ IdlePart /\ RunningPart /\ EndPart /\ FinishedPart

(* A run that is behind its offset goes forward, and all that lies between *)
(* its position and its offset is known to be astray.                      *)
Drift ==
    /\ pc \notin {"copy", "log"} => behind = 0
    /\ behind > 0 => ~Backward /\ behind <= rc.offset
    /\ \A i \in 0..(Size - 1) :
          rc.offset <= i + behind /\ i < rc.offset /\ behind > 0 => i \in astray

OfflineInv == OfflineTypeOK /\ Control /\ Drift /\ BlockLostAtMost

-----------------------------------------------------------------------------
(* Where things are on the device                                          *)

(* Old and new data lie inside the device; a copy backward goes up, a copy *)
(* forward stays or goes down.                                             *)
LEMMA Geometry ==
    ASSUME Foreseen, job \in Jobs
    PROVE  /\ Size \in Nat /\ NewOffset \in Nat /\ OldOffset \in Nat
           /\ Size + NewOffset <= P /\ Size + OldOffset <= P
           /\ Backward \in BOOLEAN
           /\ Backward => NewOffset > OldOffset
           /\ ~Backward => NewOffset <= OldOffset
           /\ job.mode = "decrypt" => ~Backward /\ NewOffset = 0
           /\ job.mode # "decrypt" => NewOffset > 0
           /\ job.mode = "encrypt" => Backward
           /\ job.mode \in Modes /\ job.detached = FALSE
           /\ job.mode # "encrypt" => OldOffset = H
<1>1. job \in Job /\ Allowed(job) /\ ~job.detached
  BY OfflineConstants DEF Foreseen
<1>2. job.mode \in Modes /\ job.reduce \in 0..P /\ job.detached = FALSE
  BY <1>1 DEF Job, Modes
<1>3. /\ job.mode = "encrypt" => job.reduce > 0
      /\ job.mode = "decrypt" => job.reduce = 0
      /\ job.mode = "reencrypt" => H + job.reduce <= P
  BY <1>1, OfflineConstants DEF Allowed
<1>4. H \in Nat /\ H > 0 /\ P \in Nat /\ P > H
  BY OfflineConstants
<1>5. CASE job.mode = "encrypt"
  BY <1>2, <1>3, <1>4, <1>5 DEF Size, NewOffset, OldOffset, Backward
<1>6. CASE job.mode = "decrypt"
  BY <1>2, <1>3, <1>4, <1>6 DEF Size, NewOffset, OldOffset, Backward
<1>7. CASE job.mode = "reencrypt"
  BY <1>2, <1>3, <1>4, <1>7 DEF Size, NewOffset, OldOffset, Backward
<1>8. QED
  BY <1>2, <1>5, <1>6, <1>7 DEF Modes

(* The options stay the same.                                              *)
LEMMA Constant ==
    ASSUME job' = job
    PROVE  /\ Size' = Size /\ NewOffset' = NewOffset /\ OldOffset' = OldOffset
           /\ Backward' = Backward /\ Dir' = Dir /\ Untouched' = Untouched
           /\ \A o : Whole(o)' = Whole(o)
  BY DEF Size, NewOffset, OldOffset, Backward, Dir, Untouched, Whole

LEMMA JobStays ==
    ASSUME [Next]_vars
    PROVE  job' = job /\ writelog' = writelog
  BY DEF Next, vars, Start, Work, Passphrase, CreateHeaderOrg, BackupHeader,
         CreateHeaderNew, FormatNewHeader, MakeFile, FillFile, MakeUnusable,
         ActivateHeaders, CopyStart, CopyBlock, PassBlock, ShortWrite, LogBlock, CopyEnds,
         RestoreHeader, UnlinkLog, UnlinkHeaders, CopyStops, WriteFails, Die

-----------------------------------------------------------------------------
(* Where a sector is looked for                                            *)

CopiedBy(l, f, i) ==
    CASE l = NoLog -> f
      [] l.dir = "backward" -> i >= l.offset
      [] OTHER -> i < l.offset

(* Sector i is where border l says it is, on a device with content ph.     *)
Safe(ph, l, f, i) ==
    IF CopiedBy(l, f, i) THEN ph[i + NewOffset] = <<"new", i>>
    ELSE ph[i + OldOffset] = <<"old", i>>

LEMMA DamagedIs ==
    Damaged = {i \in 0..(Size - 1) : i \notin astray /\ ~Safe(phys, Border, finished, i)}
<1>1. ASSUME NEW i \in 0..(Size - 1)
      PROVE  IsCopied(i) <=> CopiedBy(Border, finished, i)
  BY DEF IsCopied, CopiedBy
<1>2. ASSUME NEW i \in 0..(Size - 1)
      PROVE  i \in Damaged <=> i \notin astray /\ ~Safe(phys, Border, finished, i)
  <2>1. CASE IsCopied(i)
    BY <1>1, <2>1 DEF Damaged, Safe
  <2>2. CASE ~IsCopied(i)
    BY <1>1, <2>2 DEF Damaged, Safe
  <2>3. QED
    BY <2>1, <2>2
<1>3. \A i \in Damaged : i \in 0..(Size - 1)
  BY DEF Damaged
<1>4. QED
  BY <1>2, <1>3

(* What was safe and is not outside W stays safe: the damage is in W.      *)
LEMMA DamageIn ==
    ASSUME job' = job, NEW W, astray \subseteq astray',
           \A i \in 0..(Size - 1) :
               i \notin W /\ i \notin astray' /\ Safe(phys, Border, finished, i) =>
                   Safe(phys', Border', finished', i)
    PROVE  Damaged' \subseteq Damaged \cup W
<1>1. SUFFICES ASSUME NEW i \in Damaged', i \notin W
               PROVE  i \in Damaged
  OBVIOUS
<1>2. i \in 0..(Size - 1) /\ i \notin astray' /\ i \notin astray
  BY <1>1, Constant DEF Damaged
<1>3. IsCopied(i)' <=> CopiedBy(Border', finished', i)
  BY DEF IsCopied, CopiedBy, NoLog
<1>4. /\ IsCopied(i)' => phys'[i + NewOffset] # <<"new", i>>
      /\ ~IsCopied(i)' => phys'[i + OldOffset] # <<"old", i>>
  <2>1. CASE IsCopied(i)'
    BY <1>1, <2>1, Constant DEF Damaged
  <2>2. CASE ~IsCopied(i)'
    BY <1>1, <2>2, Constant DEF Damaged
  <2>3. QED
    BY <2>1, <2>2
<1>5. ~Safe(phys', Border', finished', i)
  BY <1>3, <1>4 DEF Safe
<1>6. QED
  BY <1>1, <1>2, <1>5, DamagedIs

LEMMA DamageFinite ==
    ASSUME Foreseen, job \in Jobs
    PROVE  IsFiniteSet(Damaged) /\ Cardinality(Damaged) \in Nat
<1>1. IsFiniteSet(0..(Size - 1)) /\ Damaged \subseteq 0..(Size - 1)
  <2>1. 0 \in Int /\ Size - 1 \in Int
    BY Geometry
  <2>2. IsFiniteSet(0..(Size - 1))
    BY <2>1, FS_Interval
  <2>3. QED
    BY <2>2 DEF Damaged
<1>2. QED
  BY <1>1, FS_Subset, FS_CardinalityType

(* A step without new damage.                                              *)
LEMMA NothingLost ==
    ASSUME Foreseen, OfflineTypeOK, BlockLostAtMost, job' = job, writelog' = writelog,
           losses' = losses, Damaged' \subseteq Damaged
    PROVE  BlockLostAtMost'
<1>1. IsFiniteSet(Damaged) /\ Cardinality(Damaged) \in Nat
  BY DamageFinite DEF OfflineTypeOK
<1>2. IsFiniteSet(Damaged') /\ Cardinality(Damaged') \in Nat /\ Cardinality(Damaged') <= Cardinality(Damaged)
  BY <1>1, FS_Subset, FS_CardinalityType
<1>3. CASE writelog
  <2>1. Cardinality(Damaged) <= Block * losses
    BY <1>3 DEF BlockLostAtMost
  <2>2. Block * losses \in Nat
    BY OfflineConstants DEF OfflineTypeOK
  <2>3. Cardinality(Damaged') <= Block * losses
    BY <1>1, <1>2, <2>1, <2>2
  <2>4. QED
    BY <1>3, <2>3 DEF BlockLostAtMost
<1>4. CASE ~writelog
  BY <1>4 DEF BlockLostAtMost
<1>5. QED
  BY <1>3, <1>4

(* A fault that costs a block.                                             *)
LEMMA OneBlockLost ==
    ASSUME Foreseen, OfflineTypeOK, BlockLostAtMost, job' = job, writelog' = writelog,
           losses' = losses + 1, NEW a \in Int,
           writelog => Damaged' \subseteq Damaged \cup (a..(a + Block - 1))
    PROVE  BlockLostAtMost'
<1> DEFINE W == a..(a + Block - 1)
<1>0. Block \in Nat /\ Block > 0 /\ losses \in Nat
  BY OfflineConstants DEF OfflineTypeOK
<1>1. IsFiniteSet(Damaged) /\ Cardinality(Damaged) \in Nat
  BY DamageFinite DEF OfflineTypeOK
<1>2. IsFiniteSet(W) /\ Cardinality(W) = Block
  <2>1. a + Block - 1 \in Int /\ ~(a > a + Block - 1)
    BY <1>0
  <2>2. Cardinality(W) = (a + Block - 1) - a + 1
    BY <2>1, FS_Interval
  <2>3. QED
    BY <1>0, <2>1, <2>2, FS_Interval
<1> HIDE DEF W
<1>3. IsFiniteSet(Damaged \cup W) /\ Cardinality(Damaged \cup W) <= Cardinality(Damaged) + Block
  <2>1. IsFiniteSet(Damaged \cup W) /\ IsFiniteSet(Damaged \cap W)
    BY <1>1, <1>2, FS_Union, FS_Intersection
  <2>2. Cardinality(Damaged \cup W) = Cardinality(Damaged) + Cardinality(W) - Cardinality(Damaged \cap W)
    BY <1>1, <1>2, FS_Union
  <2>3. Cardinality(Damaged \cap W) \in Nat
    BY <2>1, FS_CardinalityType
  <2>4. QED
    BY <1>0, <1>1, <1>2, <2>1, <2>2, <2>3
<1>4. CASE writelog
  <2>1. Damaged' \subseteq Damaged \cup W
    BY <1>4 DEF W
  <2>2. Cardinality(Damaged') <= Cardinality(Damaged \cup W) /\ Cardinality(Damaged') \in Nat
    BY <1>3, <2>1, FS_Subset, FS_CardinalityType
  <2>3. Cardinality(Damaged) <= Block * losses
    BY <1>4 DEF BlockLostAtMost
  <2>4. Block * losses \in Nat /\ Block * (losses + 1) = Block * losses + Block
    BY <1>0
  <2>5. Cardinality(Damaged \cup W) \in Nat
    BY <1>3, FS_CardinalityType
  <2>6. Cardinality(Damaged') <= Block * (losses + 1)
    BY <1>0, <1>1, <1>3, <2>2, <2>3, <2>4, <2>5
  <2>7. QED
    BY <1>4, <2>6 DEF BlockLostAtMost
<1>5. CASE ~writelog
  BY <1>0, <1>5 DEF BlockLostAtMost
<1>6. QED
  BY <1>4, <1>5

-----------------------------------------------------------------------------
(* Copying                                                                 *)

(* Sector i is copied when the offset is o.                                *)
Past(o, i) == IF Backward THEN i >= o ELSE i < o

LEMMA BorderIs ==
    ASSUME NEW l, l # NoLog, l.dir = Dir, NEW f, NEW i
    PROVE  CopiedBy(l, f, i) <=> Past(l.offset, i)
  BY DEF CopiedBy, Dir, Past

(* A block moves the offset over itself and over nothing else.             *)
LEMMA BlockIs ==
    ASSUME Foreseen, OfflineTypeOK, Fits(rc), NEW i \in 0..(Size - 1)
    PROVE  /\ Advanced(rc) \in [dir : Dirs, mode : Modes, offset : 0..Size,
                                stained : BOOLEAN, inprogress : BOOLEAN]
           /\ Fits(Advanced(rc)) /\ Advanced(rc).stained = rc.stained
           /\ Advanced(rc).inprogress = rc.inprogress
           /\ Near(rc.offset, Advanced(rc).offset)
           /\ i \in NextBlock <=> ~Past(rc.offset, i) /\ Past(Advanced(rc).offset, i)
           /\ i \notin NextBlock => (Past(Advanced(rc).offset, i) <=> Past(rc.offset, i))
           /\ Whole(rc.offset) => i \notin NextBlock
<1>1. /\ Size \in Nat /\ Block \in Nat /\ Block > 0 /\ rc.offset \in 0..Size
      /\ Backward \in BOOLEAN
      /\ rc \in [dir : Dirs, mode : Modes, offset : 0..Size,
                 stained : BOOLEAN, inprogress : BOOLEAN]
  BY Geometry, OfflineConstants DEF OfflineTypeOK
<1>2. rc.dir = Dir
  BY DEF Fits
<1>3. CASE Backward
  <2>1. rc.dir = "backward"
    BY <1>2, <1>3 DEF Dir
  <2>2. /\ Advanced(rc).offset = IF rc.offset < Block THEN 0 ELSE rc.offset - Block
        /\ Advanced(rc).dir = rc.dir /\ Advanced(rc).mode = rc.mode
        /\ Advanced(rc).stained = rc.stained /\ Advanced(rc).inprogress = rc.inprogress
        /\ Advanced(rc) \in [dir : Dirs, mode : Modes, offset : 0..Size,
                             stained : BOOLEAN, inprogress : BOOLEAN]
    BY <1>1, <2>1 DEF Advanced
  <2>3. i \in NextBlock <=> i < rc.offset /\ i + Block >= rc.offset
    BY <2>1 DEF NextBlock
  <2>4. QED
    BY <1>1, <1>3, <2>2, <2>3 DEF Fits, Near, Past, Whole
<1>4. CASE ~Backward
  <2>1. rc.dir = "forward" /\ rc.dir # "backward"
    BY <1>2, <1>4 DEF Dir
  <2>2. /\ Advanced(rc).offset = IF rc.offset + Block > Size THEN Size ELSE rc.offset + Block
        /\ Advanced(rc).dir = rc.dir /\ Advanced(rc).mode = rc.mode
        /\ Advanced(rc).stained = rc.stained /\ Advanced(rc).inprogress = rc.inprogress
        /\ Advanced(rc) \in [dir : Dirs, mode : Modes, offset : 0..Size,
                             stained : BOOLEAN, inprogress : BOOLEAN]
    BY <1>1, <2>1 DEF Advanced
  <2>3. i \in NextBlock <=> rc.offset <= i /\ i < rc.offset + Block
    BY <2>1 DEF NextBlock
  <2>4. QED
    BY <1>1, <1>4, <2>2, <2>3 DEF Fits, Near, Past, Whole
<1>5. QED
  BY <1>1, <1>3, <1>4

(* Writes of a block do not reach what is in use of the other sectors.     *)
LEMMA CopyOutside ==
    ASSUME Foreseen, OfflineTypeOK, Fits(rc), Drift, NEW w \in SUBSET NextBlock,
           NEW i \in 0..(Size - 1), i \notin NextBlock, i \notin astray
    PROVE  /\ Past(rc.offset, i) => Copied(w)[i + NewOffset] = phys[i + NewOffset]
           /\ ~Past(rc.offset, i) => Copied(w)[i + OldOffset] = phys[i + OldOffset]
<1>1. /\ Size \in Nat /\ Block \in Nat /\ Block > 0 /\ rc.offset \in 0..Size
      /\ Backward \in BOOLEAN /\ P \in Nat /\ NewOffset \in Nat /\ OldOffset \in Nat
      /\ Size + NewOffset <= P /\ Size + OldOffset <= P
      /\ Backward => NewOffset > OldOffset
      /\ ~Backward => NewOffset <= OldOffset
      /\ behind \in Nat /\ (Backward => behind = 0)
  BY Geometry, OfflineConstants DEF OfflineTypeOK, Drift
<1>2. i + NewOffset \in Sector /\ i + OldOffset \in Sector
  BY <1>1 DEF Sector
<1>3. Copied(w)[i + NewOffset] = phys[i + NewOffset]
  <2>1. (i + NewOffset) - NewOffset = i
    BY <1>1
  <2>2. ASSUME i + behind \in w PROVE FALSE
    <3>1. i + behind \in NextBlock /\ behind # 0
      BY <1>1, <2>2
    <3>2. ~Backward /\ rc.dir = "forward" /\ behind > 0
      BY <1>1, <3>1 DEF Fits, Dir
    <3>3. rc.offset <= i + behind /\ i + behind < rc.offset + Block
      BY <3>1, <3>2 DEF NextBlock
    <3>4. i >= rc.offset
      BY <1>1, <3>2, <3>3 DEF Drift
    <3>5. i \in NextBlock
      BY <1>1, <3>2, <3>3, <3>4 DEF NextBlock
    <3>6. QED
      BY <3>5
  <2>3. QED
    BY <1>2, <2>1, <2>2 DEF Copied
<1>4. ASSUME ~Past(rc.offset, i)
      PROVE  Copied(w)[i + OldOffset] = phys[i + OldOffset]
  <2> DEFINE j == ((i + OldOffset) - NewOffset) + behind
  <2>1. ASSUME j \in w PROVE FALSE
    <3>0. j \in NextBlock
      BY <2>1
    <3>1. j \in 0..(Size - 1)
      BY <3>0 DEF NextBlock
    <3>2. CASE Backward
      <4>1. j < i /\ i < rc.offset
        BY <1>1, <1>4, <3>2 DEF Past
      <4>2. rc.dir = "backward"
        BY <3>2 DEF Fits, Dir
      <4>3. j + Block >= rc.offset
        BY <3>0, <4>2 DEF NextBlock
      <4>4. i \in NextBlock
        BY <1>1, <3>1, <4>1, <4>2, <4>3 DEF NextBlock
      <4>5. QED
        BY <4>4
    <3>3. CASE ~Backward
      <4>1. j >= i /\ rc.offset <= i
        BY <1>1, <1>4, <3>3 DEF Past
      <4>2. rc.dir = "forward"
        BY <3>3 DEF Fits, Dir
      <4>3. j < rc.offset + Block
        BY <3>0, <4>2 DEF NextBlock
      <4>4. i \in NextBlock
        BY <1>1, <3>1, <4>1, <4>2, <4>3 DEF NextBlock
      <4>5. QED
        BY <4>4
    <3>4. QED
      BY <3>2, <3>3
  <2>2. QED
    BY <1>2, <2>1 DEF Copied
<1>5. QED
  BY <1>3, <1>4

(* Sectors that are written at their place are found there.                *)
LEMMA CopyInside ==
    ASSUME Foreseen, OfflineTypeOK, behind = 0, NEW w \in SUBSET NextBlock, NEW i \in w,
           phys[i + OldOffset] = <<"old", i>>
    PROVE  Copied(w)[i + NewOffset] = <<"new", i>>
<1>1. i \in 0..(Size - 1)
  BY DEF NextBlock
<1>2. i + NewOffset \in Sector /\ i + NewOffset >= NewOffset /\ (i + NewOffset) - NewOffset = i
      /\ ((i + NewOffset) - NewOffset) + behind = i
  BY <1>1, Geometry, OfflineConstants DEF Sector, OfflineTypeOK
<1>3. QED
  BY <1>2 DEF Copied

LEMMA CopiedType ==
    ASSUME Foreseen, OfflineTypeOK, NEW w \in SUBSET NextBlock
    PROVE  Copied(w) \in [Sector -> Content]
<1>1. ASSUME NEW p \in Sector
      PROVE  Copied(w)[p] \in Content
  <2>1. phys[p] \in Content /\ <<"junk">> \in Content
    BY DEF OfflineTypeOK, Content
  <2>2. ASSUME p >= NewOffset, (p - NewOffset) + behind \in w, behind = 0
        PROVE  <<"new", p - NewOffset>> \in Content
    <3>1. p - NewOffset \in Sector
      BY <2>2, Geometry, OfflineConstants DEF OfflineTypeOK, Sector
    <3>2. QED
      BY <3>1 DEF Content
  <2>3. QED
    BY <2>1, <2>2 DEF Copied
<1>2. QED
  BY <1>1 DEF Copied

-----------------------------------------------------------------------------
(* Types                                                                   *)

Context == [dir : Dirs, mode : Modes, offset : 0..Size,
            stained : BOOLEAN, inprogress : BOOLEAN]
Log == [dir : Dirs, mode : Modes, offset : 0..P] \cup {NoLog}

LEMMA InitType ==
    ASSUME Foreseen, Init
    PROVE  OfflineTypeOK
<1>1. job \in Jobs
  BY DEF Init
<1>2. /\ Size \in Nat /\ P \in Nat /\ H \in Nat /\ MaxFault \in Nat
      /\ job.mode # "encrypt" => OldOffset = H
  BY <1>1, Geometry, OfflineConstants
<1>3. phys \in [Sector -> Content]
  <2>1. ASSUME NEW p \in Sector
        PROVE  Untouched[p] \in Content
    <3>1. p >= H => p - H \in Sector
      BY <1>2 DEF Sector
    <3>2. <<"luks">> \in Content /\ <<"junk">> \in Content /\ <<"old", p>> \in Content
      BY DEF Content
    <3>3. p >= H => <<"old", p - H>> \in Content
      BY <3>1 DEF Content
    <3>4. p < H \/ p >= H
      BY <1>2 DEF Sector
    <3>5. QED
      BY <3>2, <3>3, <3>4 DEF Untouched
  <2>2. QED
    BY <2>1 DEF Init, Untouched
<1>4. rc \in Context
  BY <1>2 DEF Init, NoContext, Context, Dirs, Modes
<1>5. 0 \in 0..0 /\ 0 \in 0..MaxFault /\ 0 \in 0..Size /\ {} \subseteq 0..(Size - 1)
  BY <1>2
<1>6. QED
  BY <1>1, <1>3, <1>4, <1>5 DEF Init, OfflineTypeOK, Context, Steps

(* The sectors and the context keep their type; the rest is easy.          *)
LEMMA PhysType ==
    ASSUME Foreseen, OfflineTypeOK, [Next]_vars
    PROVE  phys' \in [Sector -> Content]
<1>1. phys \in [Sector -> Content] /\ 0 \in Sector
  BY OfflineConstants DEF OfflineTypeOK, Sector
<1>2. \A h \in {"luks", "unusable", "restored", "junk", "zero"} : <<h>> \in Content
  BY DEF Content
<1>3. CASE phys' = phys
  BY <1>1, <1>3
<1>4. CASE MakeUnusable
  <2>1. phys' = phys \/ phys' = [phys EXCEPT ![0] = <<"unusable">>]
    BY <1>4 DEF MakeUnusable
  <2>2. QED
    BY <1>1, <1>2, <2>1
<1>5. CASE CopyEnds
  <2>1. phys' = phys \/ phys' = [p \in Sector |-> IF p >= Size THEN <<"zero">> ELSE phys[p]]
    BY <1>5 DEF CopyEnds
  <2>2. QED
    BY <1>1, <1>2, <2>1
<1>6. CASE RestoreHeader
  <2>1. phys' = phys \/ phys' = WithHeader
    BY <1>6 DEF RestoreHeader
  <2>2. QED
    BY <1>1, <1>2, <2>1 DEF WithHeader
<1>7. CASE \E w \in SUBSET NextBlock : phys' = Copied(w)
  BY <1>7, CopiedType
<1>8. CASE CopyBlock \/ ShortWrite \/ WriteFails \/ Die
  <2>1. \E w \in SUBSET NextBlock : phys' = Copied(w)
    BY <1>8 DEF CopyBlock, PassBlock, ShortWrite, WriteFails, Die
  <2>2. QED
    BY <2>1, <1>7
<1>9. CASE Start \/ Passphrase \/ CreateHeaderOrg \/ BackupHeader \/ CreateHeaderNew
           \/ FormatNewHeader \/ ActivateHeaders \/ CopyStart \/ LogBlock \/ UnlinkLog
           \/ UnlinkHeaders \/ CopyStops \/ UNCHANGED vars
  <2>1. phys' = phys
    BY <1>9 DEF Start, Passphrase, CreateHeaderOrg, BackupHeader, CreateHeaderNew,
                FormatNewHeader, MakeFile, FillFile, ActivateHeaders, CopyStart,
                LogBlock, UnlinkLog, UnlinkHeaders, CopyStops, vars
  <2>2. QED
    BY <2>1, <1>3
<1>10. QED
  BY <1>4, <1>5, <1>6, <1>8, <1>9 DEF Next, Work

LEMMA ContextType ==
    ASSUME Foreseen, OfflineTypeOK, Control, [Next]_vars
    PROVE  rc' \in Context /\ log' \in Log
<1>1. rc \in Context /\ log \in Log /\ job \in Jobs
  BY DEF OfflineTypeOK, Context, Log
<1>2. /\ Size \in Nat /\ P \in Nat /\ Size <= P /\ job.mode \in Modes
      /\ NoContext \in Context /\ FirstLog \in Log /\ NoLog \in Log
  <2>1. Size \in Nat /\ P \in Nat /\ Size <= P /\ job.mode \in Modes
    BY <1>1, Geometry, OfflineConstants
  <2>2. QED
    BY <2>1 DEF NoContext, FirstLog, Context, Log, Dirs, Modes
<1>3. LogOf(rc) \in Log
  BY <1>1, <1>2 DEF LogOf, Log, Context
<1>4. [rc EXCEPT !.stained = TRUE] \in Context /\ [rc EXCEPT !.stained = FALSE] \in Context
  BY <1>1 DEF Context
<1>5. CASE Start
  <2>1. CASE log = NoLog
    <3>1. log' = FirstLog
      BY <1>5, <2>1 DEF Start, OpenLog, FirstLog
    <3>2. rc' = [dir |-> Dir, mode |-> job.mode, offset |-> 0,
                 stained |-> FALSE, inprogress |-> FALSE]
      BY <1>5, <2>1 DEF Start, OpenLog, Dir
    <3>3. Dir \in Dirs /\ 0 \in 0..Size
      BY <1>2 DEF Dir, Dirs
    <3>4. rc' \in Context
      BY <1>2, <3>2, <3>3 DEF Context
    <3>5. QED
      BY <1>2, <3>1, <3>4
  <2>2. CASE log # NoLog
    <3>1. Fits(log)
      BY <1>5, <2>2 DEF Start, Control, IdlePart, Ready
    <3>2. log.dir \in Dirs /\ log.mode \in Modes /\ log.offset \in 0..Size
      BY <1>2, <3>1 DEF Fits, Dir, Dirs
    <3>3. /\ rc' = [dir |-> log.dir, mode |-> log.mode, offset |-> log.offset,
                    stained |-> TRUE, inprogress |-> TRUE]
          /\ log' = log
      BY <1>5, <2>2 DEF Start, OpenLog
    <3>4. rc' \in Context
      BY <3>2, <3>3 DEF Context
    <3>5. QED
      BY <1>1, <3>3, <3>4
  <2>3. QED
    BY <2>1, <2>2
<1>6. CASE CopyStart
  <2>1. rc' \in Context
    <3>1. rc' = rc \/ \E o \in {rc.offset, Size} : rc' = [rc EXCEPT !.offset = o, !.stained = TRUE]
      BY <1>6 DEF CopyStart
    <3>2. rc.offset \in 0..Size /\ Size \in 0..Size
      BY <1>1, <1>2 DEF Context
    <3>3. QED
      BY <1>1, <3>1, <3>2 DEF Context
  <2>2. log' \in Log
    <3>1. log' = LogOf(rc')
      BY <1>6 DEF CopyStart
    <3>2. QED
      BY <1>2, <2>1, <3>1 DEF LogOf, Log, Context
  <2>3. QED
    BY <2>1, <2>2
<1>7. CASE CopyBlock \/ ShortWrite
  <2>1. rc' = Advanced(rc) /\ log' = log /\ pc = "copy"
    BY <1>7 DEF CopyBlock, ShortWrite, PassBlock, files
  <2>2. Fits(rc)
    BY <2>1 DEF Control, RunningPart, Running
  <2>3. Block \in Nat
    BY OfflineConstants
  <2>4. rc' \in Context
    BY <1>1, <1>2, <2>1, <2>3 DEF Advanced, Context
  <2>5. QED
    BY <1>1, <2>1, <2>4
<1>8. CASE /\ rc' \in {rc, [rc EXCEPT !.stained = TRUE], [rc EXCEPT !.stained = FALSE], NoContext}
           /\ log' \in {log, LogOf(rc), NoLog}
  BY <1>1, <1>2, <1>3, <1>4, <1>8
<1>9. CASE Passphrase \/ CreateHeaderOrg \/ BackupHeader \/ CreateHeaderNew
           \/ FormatNewHeader \/ MakeUnusable \/ ActivateHeaders \/ LogBlock
           \/ CopyEnds
  <2>1. /\ rc' \in {rc, [rc EXCEPT !.stained = TRUE]} /\ log' \in {log, LogOf(rc)}
    BY <1>9 DEF Passphrase, CreateHeaderOrg, BackupHeader, CreateHeaderNew,
                FormatNewHeader, MakeFile, FillFile, MakeUnusable, ActivateHeaders,
                LogBlock, CopyEnds
  <2>2. QED
    BY <2>1, <1>8
<1>10. CASE RestoreHeader \/ UnlinkLog \/ UnlinkHeaders \/ CopyStops \/ WriteFails
            \/ Die \/ UNCHANGED vars
  <2>1. /\ rc' \in {rc, [rc EXCEPT !.stained = FALSE], NoContext}
        /\ log' \in {log, LogOf(rc), NoLog}
    BY <1>10 DEF RestoreHeader, UnlinkLog, UnlinkHeaders, CopyStops, WriteFails, Die,
                 files, vars
  <2>2. QED
    BY <2>1, <1>8
<1>11. QED
  BY <1>5, <1>6, <1>7, <1>9, <1>10 DEF Next, Work

LEMMA FaultsType ==
    ASSUME OfflineTypeOK, [Next]_vars
    PROVE  losses' \in 0..faults' /\ faults' \in 0..MaxFault
<1>1. losses \in 0..faults /\ faults \in 0..MaxFault /\ MaxFault \in Nat
  BY OfflineConstants DEF OfflineTypeOK
<1>2. \/ losses' = losses /\ faults' = faults
      \/ losses' \in {losses, losses + 1} /\ faults < MaxFault /\ faults' = faults + 1
  BY DEF Next, Work, vars, Start, Passphrase, CreateHeaderOrg, BackupHeader,
         CreateHeaderNew, FormatNewHeader, MakeFile, FillFile, MakeUnusable,
         ActivateHeaders, CopyStart, CopyBlock, PassBlock, ShortWrite, LogBlock, CopyEnds, Fails, Fault,
         RestoreHeader, UnlinkLog, UnlinkHeaders, CopyStops, WriteFails, Die
<1>3. QED
  BY <1>1, <1>2

LEMMA DriftType ==
    ASSUME Foreseen, OfflineTypeOK, Control, Drift, [Next]_vars
    PROVE  behind' \in 0..Size /\ astray' \subseteq 0..(Size - 1)
<1>1. /\ behind \in 0..Size /\ astray \subseteq 0..(Size - 1) /\ Size \in Nat /\ Block \in Nat
  BY Geometry, OfflineConstants DEF OfflineTypeOK
<1>2. NextBlock \subseteq 0..(Size - 1)
  BY DEF NextBlock
<1>3. CASE CopyBlock
  BY <1>1, <1>2, <1>3 DEF CopyBlock, PassBlock
<1>4. CASE ShortWrite
  <2>1. PICK k \in NextBlock :
           /\ pc = "copy" /\ astray' \subseteq astray \cup NextBlock
           /\ \/ behind' = behind
              \/ rc.dir # "backward" /\ behind' = behind + (Advanced(rc).offset - k)
    BY <1>4 DEF ShortWrite, PassBlock
  <2>2. /\ Fits(rc) /\ rc.offset \in Nat /\ k \in 0..(Size - 1)
    BY <1>1, <1>2, <2>1 DEF Control, RunningPart, Running, Fits
  <2>3. Advanced(rc).offset \in 0..Size /\ (rc.dir # "backward" => rc.offset <= k /\ k < Advanced(rc).offset)
    <3>1. CASE rc.dir = "backward"
      BY <1>1, <2>2, <3>1 DEF Advanced, OfflineTypeOK, Fits
    <3>2. CASE rc.dir # "backward"
      <4>1. rc.offset <= k /\ k < rc.offset + Block
        BY <3>2 DEF NextBlock
      <4>2. Advanced(rc).offset = IF rc.offset + Block > Size THEN Size ELSE rc.offset + Block
        BY <3>2 DEF Advanced, OfflineTypeOK
      <4>3. QED
        BY <1>1, <2>2, <4>1, <4>2 DEF Fits
    <3>3. QED
      BY <3>1, <3>2
  <2>4. behind <= rc.offset
    BY <1>1, <2>2 DEF Drift
  <2>5. QED
    BY <1>1, <1>2, <2>1, <2>2, <2>3, <2>4
<1>5. CASE behind' \in {behind, 0} /\ astray' = astray
  BY <1>1, <1>5
<1>6. CASE Start \/ Passphrase \/ CreateHeaderOrg \/ BackupHeader \/ CreateHeaderNew
           \/ FormatNewHeader \/ MakeUnusable \/ ActivateHeaders \/ CopyStart \/ LogBlock
           \/ CopyEnds \/ RestoreHeader \/ UnlinkLog \/ UnlinkHeaders \/ CopyStops
           \/ WriteFails \/ Die \/ UNCHANGED vars
  <2>1. behind' \in {behind, 0} /\ astray' = astray
    BY <1>6 DEF vars, drift, Start, Passphrase, CreateHeaderOrg, BackupHeader,
         CreateHeaderNew, FormatNewHeader, MakeFile, FillFile, MakeUnusable,
         ActivateHeaders, CopyStart, LogBlock, CopyEnds,
         RestoreHeader, UnlinkLog, UnlinkHeaders, CopyStops, WriteFails, Die
  <2>2. QED
    BY <1>5, <2>1
<1>7. QED
  BY <1>3, <1>4, <1>6 DEF Next, Work

LEMMA TypeStep ==
    ASSUME Foreseen, OfflineTypeOK, Control, Drift, [Next]_vars
    PROVE  OfflineTypeOK'
<1>1. job' = job /\ writelog' = writelog /\ Size' = Size
  BY JobStays, Constant
<1>2. phys' \in [Sector -> Content] /\ rc' \in Context /\ log' \in Log
  BY PhysType, ContextType
<1>3. /\ losses' \in 0..faults' /\ faults' \in 0..MaxFault
      /\ behind' \in 0..Size /\ astray' \subseteq 0..(Size - 1)
  BY FaultsType, DriftType
<1>4. /\ dhdr' \in BOOLEAN /\ finished' \in BOOLEAN
      /\ org' \in {"none", "partial", "ok"} /\ new' \in {"none", "partial", "ok"}
  <2>1. job.detached \in BOOLEAN
    BY Geometry DEF OfflineTypeOK
  <2>2. QED
    BY <2>1 DEF OfflineTypeOK, Next, Work, vars, files, Start, Passphrase, CreateHeaderOrg, BackupHeader,
         CreateHeaderNew, FormatNewHeader, MakeFile, FillFile, MakeUnusable,
         ActivateHeaders, CopyStart, CopyBlock, PassBlock, ShortWrite, LogBlock, CopyEnds,
         RestoreHeader, UnlinkLog, UnlinkHeaders, CopyStops, WriteFails, Die
<1>5. pc' \in Steps
  BY DEF OfflineTypeOK, Next, Work, vars, Start, Passphrase, CreateHeaderOrg, BackupHeader,
         CreateHeaderNew, FormatNewHeader, MakeFile, FillFile, MakeUnusable,
         ActivateHeaders, CopyStart, CopyBlock, PassBlock, ShortWrite, LogBlock, CopyEnds, Fails, Steps,
         RestoreHeader, UnlinkLog, UnlinkHeaders, CopyStops, WriteFails, Die
<1>6. QED
  BY <1>1, <1>2, <1>3, <1>4, <1>5 DEF OfflineTypeOK, Context, Log

-----------------------------------------------------------------------------
(* Control                                                                 *)

LEMMA LogFacts ==
    /\ FirstLog # NoLog
    /\ FirstLog.dir = "forward" /\ FirstLog.mode = "reencrypt" /\ FirstLog.offset = 0
    /\ \A r : LogOf(r).dir = r.dir /\ LogOf(r).mode = r.mode /\ LogOf(r).offset = r.offset
    /\ \A r : r.dir \in Dirs => LogOf(r) # NoLog
    /\ NoContext.stained = FALSE /\ NoContext.inprogress = FALSE
  BY DEF FirstLog, NoLog, LogOf, Dirs, NoContext

LEMMA InitControl ==
    ASSUME Init
    PROVE  Control
  BY DEF Init, Control, FreshPart, ResumedPart, IdlePart, RunningPart, EndPart,
         FinishedPart, FirstSteps, LastSteps, Running

(* A new run, and the parts of the invariant for it.                       *)
LEMMA StartControl ==
    ASSUME Foreseen, OfflineTypeOK, Control, Start
    PROVE  Control'
<1> USE DEF FirstSteps, LastSteps, Running
<1>1. job \in Jobs /\ job' = job /\ Size \in Nat
  BY Geometry DEF OfflineTypeOK, Start
<1>2. /\ pc = "idle" /\ pc' = "passphrase"
      /\ ~finished \/ log # NoLog
      /\ UNCHANGED <<job, writelog, phys, dhdr, org, new, finished>>
  BY DEF Start
<1>3. CASE log = NoLog
  <2>1. /\ log' = FirstLog /\ rc'.dir = Dir /\ rc'.mode = job.mode /\ rc'.offset = 0
        /\ ~rc'.stained /\ ~rc'.inprogress
    BY <1>3 DEF Start, OpenLog, FirstLog, Dir
  <2>2. ~finished /\ org = "none" /\ new = "none" /\ phys = Untouched
    BY <1>2, <1>3 DEF Control, IdlePart
  <2>3. FreshPart'
    BY <1>1, <1>2, <2>1, <2>2, Constant DEF FreshPart, Fits, FilesAt
  <2>4. QED
    BY <1>2, <2>1, <2>2, <2>3 DEF Control, ResumedPart, IdlePart, RunningPart, EndPart, FinishedPart
<1>4. CASE log # NoLog
  <2>1. /\ log' = log /\ rc'.dir = log.dir /\ rc'.mode = log.mode /\ rc'.offset = log.offset
        /\ rc'.stained /\ rc'.inprogress
    BY <1>4 DEF Start, OpenLog
  <2>2. Ready /\ log \in Log
    BY <1>2, <1>4 DEF Control, IdlePart, OfflineTypeOK, Log
  <2>3. log = LogOf(rc')
    BY <1>4, <2>1, <2>2 DEF LogOf, Log
  <2>4. Ready'
    BY <1>1, <1>2, <2>1, <2>2, Constant DEF Ready, Fits, NoLog
  <2>5. ResumedPart'
    BY <1>2, <2>1, <2>3, <2>4 DEF ResumedPart, LogOf
  <2>6. FinishedPart'
    <3>1. finished => Whole(log.offset) /\ (job.mode # "decrypt" => phys[0] = <<"restored">>)
      BY <1>2, <1>4 DEF Control, FinishedPart
    <3>2. QED
      BY <1>1, <1>2, <1>4, <2>1, <3>1, Constant DEF FinishedPart, Whole, NoLog
  <2>7. QED
    BY <1>2, <2>1, <2>5, <2>6 DEF Control, FreshPart, IdlePart, RunningPart, EndPart
<1>5. QED
  BY <1>3, <1>4

(* Steps of the preparation that touch neither device nor context.         *)
LEMMA PrepareControl ==
    ASSUME Foreseen, OfflineTypeOK, Control,
           Passphrase \/ CreateHeaderOrg \/ BackupHeader \/ CreateHeaderNew
             \/ FormatNewHeader
    PROVE  Control'
<1> USE DEF FirstSteps, LastSteps, Running
<1>1. job \in Jobs /\ job' = job
  BY DEF OfflineTypeOK, Passphrase, CreateHeaderOrg, BackupHeader, CreateHeaderNew,
         FormatNewHeader, MakeFile, FillFile
<1>2. UNCHANGED <<phys, log, rc, finished>>
  BY DEF Passphrase, CreateHeaderOrg, BackupHeader, CreateHeaderNew,
         FormatNewHeader, MakeFile, FillFile
<1>3. CASE rc.inprogress
  <2>1. Passphrase /\ Ready /\ rc.stained
    BY <1>3 DEF Control, ResumedPart, Passphrase, CreateHeaderOrg, BackupHeader,
         CreateHeaderNew, FormatNewHeader, MakeFile, FillFile
  <2>2. pc = "passphrase" /\ pc' \in {"activate", "out"} /\ UNCHANGED <<org, new>>
    BY <1>3, <2>1 DEF Passphrase, Fails
  <2>3. Ready'
    BY <1>1, <1>2, <2>1, <2>2, Constant DEF Ready, Fits, NoLog
  <2>4. ResumedPart'
    BY <1>2, <1>3, <2>2, <2>3, <2>1 DEF Control, ResumedPart, LogOf
  <2>5. FinishedPart'
    BY <1>1, <1>2, <1>3, <2>1, <2>2, Constant DEF Control, FinishedPart, Whole, NoLog, Ready
  <2>6. QED
    BY <1>2, <1>3, <2>1, <2>2, <2>3, <2>4, <2>5 DEF Control, FreshPart, IdlePart, RunningPart, EndPart
<1>4. CASE ~rc.inprogress
  <2>1. /\ pc \in FirstSteps /\ pc # "mark"
        /\ log = FirstLog /\ ~finished /\ Fits(rc) /\ rc.offset = 0 /\ FilesAt
        /\ ~rc.stained /\ phys = Untouched
    BY <1>4 DEF Control, FreshPart, Passphrase, CreateHeaderOrg, BackupHeader,
         CreateHeaderNew, FormatNewHeader, MakeFile, FillFile
  <2>2. CASE pc' = "out"
    BY <1>1, <1>2, <1>4, <2>1, <2>2, Constant
       DEF Control, FreshPart, ResumedPart, IdlePart, RunningPart, EndPart, FinishedPart, FirstLog
  <2>3. CASE pc' # "out"
    <3>1. /\ pc' \in {"mkorg", "fillorg", "mknew", "fillnew", "mark", "activate"}
          /\ FilesAt' /\ (pc' = "activate" => job.mode = "encrypt")
          /\ pc' = "mark" => job.mode # "encrypt"
      BY <1>4, <2>1, <2>3 DEF FilesAt, Passphrase, CreateHeaderOrg, BackupHeader,
         CreateHeaderNew, FormatNewHeader, MakeFile, FillFile, Fails
    <3>2. FreshPart'
      BY <1>1, <1>2, <1>4, <2>1, <3>1, Constant DEF FreshPart, Fits, FirstLog
    <3>3. QED
      BY <1>2, <1>4, <2>1, <3>1, <3>2
         DEF Control, ResumedPart, IdlePart, RunningPart, EndPart, FinishedPart
  <2>4. QED
    BY <2>2, <2>3
<1>5. QED
  BY <1>3, <1>4

(* The first log says the truth of a job that goes forward over the whole  *)
(* device: there a fault may come early.                                   *)
LEMMA FaultWhilePreparing ==
    ASSUME Foreseen, OfflineTypeOK, MayFail, ~rc.inprogress,
           pc \in FirstSteps \cup LastSteps \/ (pc \in {"out", "unlink"} /\ ~rc.stained /\ ~finished)
    PROVE  pc \in {"mark", "activate", "start"} /\ Fits(FirstLog)
<1>1. Preparing
  BY DEF Preparing, FirstSteps, LastSteps
<1>2. pc \in {"mark", "activate", "start"} /\ job.mode = "reencrypt" /\ ~Backward
  BY <1>1 DEF MayFail, Foreseen
<1>3. QED
  BY <1>2, Geometry, LogFacts DEF Fits, Dir, OfflineTypeOK

LEMMA MarkControl ==
    ASSUME Foreseen, OfflineTypeOK, Control, MakeUnusable
    PROVE  Control'
<1> USE DEF FirstSteps, LastSteps, Running
<1>1. job \in Jobs /\ job' = job /\ pc = "mark" /\ UNCHANGED <<org, new, log, finished>>
  BY DEF OfflineTypeOK, MakeUnusable
<1>2. /\ ~rc.inprogress /\ log = FirstLog /\ ~finished /\ Fits(rc) /\ rc.offset = 0
      /\ ~rc.stained /\ phys = Untouched /\ org = "ok" /\ new = "ok"
  BY <1>1 DEF Control, FreshPart, ResumedPart, FilesAt
<1>3. CASE pc' = "activate"
  <2>1. rc' = [rc EXCEPT !.stained = TRUE]
    BY <1>3 DEF MakeUnusable, Fails
  <2>2. /\ rc'.dir = rc.dir /\ rc'.mode = rc.mode /\ rc'.offset = rc.offset
        /\ rc'.stained /\ ~rc'.inprogress
    BY <1>2, <2>1 DEF OfflineTypeOK
  <2>3. FreshPart'
    BY <1>1, <1>2, <1>3, <2>2, Constant DEF FreshPart, Fits, FirstLog, FilesAt
  <2>4. QED
    BY <1>1, <1>2, <1>3, <2>2, <2>3
       DEF Control, ResumedPart, IdlePart, RunningPart, EndPart, FinishedPart
<1>4. CASE pc' = "out" /\ UNCHANGED <<phys, rc>>
  BY <1>1, <1>2, <1>4, Constant
     DEF Control, FreshPart, ResumedPart, IdlePart, RunningPart, EndPart, FinishedPart, FirstLog
<1>5. CASE pc' = "out" /\ ~UNCHANGED <<phys, rc>>
  <2>1. MayFail /\ rc' = [rc EXCEPT !.stained = TRUE]
    BY <1>5 DEF MakeUnusable
  <2>2. rc'.stained
    BY <2>1 DEF OfflineTypeOK
  <2>3. Fits(FirstLog)
    BY <1>1, <1>2, <2>1, FaultWhilePreparing
  <2>4. Ready'
    BY <1>1, <1>2, <2>3, Constant, LogFacts DEF Ready, Fits, NoLog, FirstLog
  <2>5. QED
    BY <1>1, <1>2, <1>5, <2>2, <2>4
       DEF Control, FreshPart, ResumedPart, IdlePart, RunningPart, EndPart, FinishedPart
<1>6. QED
  BY <1>3, <1>4, <1>5 DEF MakeUnusable, Fails

LEMMA ActivateControl ==
    ASSUME Foreseen, OfflineTypeOK, Control, ActivateHeaders
    PROVE  Control'
<1> USE DEF FirstSteps, LastSteps, Running
<1>1. /\ job \in Jobs /\ job' = job /\ pc = "activate" /\ pc' \in {"start", "out"}
      /\ UNCHANGED <<phys, org, new, log, rc, finished>>
  BY DEF OfflineTypeOK, ActivateHeaders, Fails
<1>2. CASE rc.inprogress
  <2>1. Ready /\ rc.stained /\ log = LogOf(rc)
    BY <1>1, <1>2 DEF Control, ResumedPart
  <2>2. Ready'
    BY <1>1, <2>1, Constant DEF Ready, Fits, NoLog
  <2>3. FinishedPart'
    BY <1>1, <2>1, Constant DEF Control, FinishedPart, Whole, NoLog, Ready
  <2>4. ResumedPart'
    BY <1>1, <1>2, <2>1, <2>2 DEF ResumedPart, LogOf
  <2>5. QED
    BY <1>1, <1>2, <2>1, <2>2, <2>3, <2>4
       DEF Control, FreshPart, IdlePart, RunningPart, EndPart
<1>3. CASE ~rc.inprogress
  <2>1. /\ log = FirstLog /\ ~finished /\ Fits(rc) /\ rc.offset = 0
        /\ org = "ok" /\ new = "ok" /\ (job.mode # "encrypt" => rc.stained)
    BY <1>1, <1>3 DEF Control, FreshPart, FilesAt
  <2>2. CASE pc' = "start"
    <3>1. FreshPart'
      BY <1>1, <1>3, <2>1, <2>2, Constant DEF FreshPart, Fits, FirstLog, FilesAt
    <3>2. QED
      BY <1>1, <1>3, <2>1, <2>2, <3>1
         DEF Control, ResumedPart, IdlePart, RunningPart, EndPart, FinishedPart
  <2>3. CASE pc' = "out"
    <3>1. MayFail
      BY <1>1, <2>1, <2>3 DEF ActivateHeaders, Fits
    <3>2. Fits(FirstLog) /\ rc.stained
      <4>1. Fits(FirstLog)
        BY <1>1, <1>3, <3>1, FaultWhilePreparing
      <4>2. job.mode = "reencrypt"
        BY <4>1, LogFacts DEF Fits
      <4>3. QED
        BY <2>1, <4>1, <4>2
    <3>3. Ready'
      BY <1>1, <2>1, <3>2, Constant, LogFacts DEF Ready, Fits, NoLog, FirstLog
    <3>4. QED
      BY <1>1, <2>1, <2>3, <3>2, <3>3
         DEF Control, FreshPart, ResumedPart, IdlePart, RunningPart, EndPart, FinishedPart
  <2>4. QED
    BY <1>1, <2>2, <2>3
<1>4. QED
  BY <1>2, <1>3

LEMMA CopyStartControl ==
    ASSUME Foreseen, OfflineTypeOK, Control, CopyStart
    PROVE  /\ Control'
           /\ rc.inprogress => LogOf(rc') = log
           /\ ~rc.inprogress => log = FirstLog /\ ~finished /\ log' = LogOf(rc')
                                /\ rc'.offset = (IF Backward THEN Size ELSE 0)
           /\ rc'.dir = Dir
<1> USE DEF FirstSteps, LastSteps, Running
<1>1. /\ job \in Jobs /\ job' = job /\ pc = "start" /\ pc' = "copy" /\ log' = LogOf(rc')
      /\ UNCHANGED <<phys, org, new, finished>> /\ Size \in Nat
  BY Geometry DEF OfflineTypeOK, CopyStart
<1>2. /\ org = "ok" /\ new = "ok" /\ Fits(rc) /\ rc.dir = Dir
      /\ rc.inprogress => log = LogOf(rc) /\ rc.stained
      /\ ~rc.inprogress => log = FirstLog /\ ~finished /\ rc.offset = 0
                           /\ (job.mode # "encrypt" => rc.stained)
  <2>1. CASE rc.inprogress
    BY <1>1, <2>1, LogFacts DEF Control, ResumedPart, Ready, Fits
  <2>2. CASE ~rc.inprogress
    BY <1>1, <2>2 DEF Control, FreshPart, FilesAt, Fits
  <2>3. QED
    BY <2>1, <2>2
<1>3. /\ rc'.dir = rc.dir /\ rc'.mode = rc.mode /\ rc'.stained
      /\ rc.inprogress => rc'.offset = rc.offset
      /\ ~rc.inprogress => rc'.offset = IF Backward THEN Size ELSE 0
  <2>1. CASE Backward
    <3>1. rc' = [rc EXCEPT !.offset = IF rc.inprogress THEN @ ELSE Size, !.stained = TRUE]
      BY <1>2, <2>1 DEF CopyStart, Dir
    <3>2. QED
      BY <2>1, <3>1 DEF OfflineTypeOK
  <2>2. CASE ~Backward
    <3>1. rc' = rc
      BY <1>2, <2>2 DEF CopyStart, Dir
    <3>2. job.mode # "encrypt"
      BY <1>1, <2>2, Geometry
    <3>3. QED
      BY <1>2, <2>2, <3>1, <3>2
  <2>3. QED
    BY <2>1, <2>2
<1>4. Fits(rc')
  BY <1>1, <1>2, <1>3 DEF Fits
<1>5. Ready'
  <2>1. log'.dir = rc'.dir /\ log'.mode = rc'.mode /\ log'.offset = rc'.offset /\ log' # NoLog
    BY <1>1, <1>2, <1>3, LogFacts DEF Dir, Dirs
  <2>2. QED
    BY <1>1, <1>2, <1>4, <2>1, Constant DEF Ready, Fits, NoLog
<1>6. rc.inprogress => LogOf(rc') = log
  BY <1>2, <1>3 DEF LogOf
<1>7. FinishedPart'
  <2>1. SUFFICES ASSUME finished
                 PROVE  FinishedPart'
    BY <1>1 DEF FinishedPart
  <2>2. rc.inprogress /\ log = LogOf(rc) /\ log' = log /\ log.offset = rc.offset
    BY <1>1, <1>2, <1>6, <2>1, LogFacts
  <2>3. Whole(rc.offset) /\ (job.mode # "decrypt" => phys[0] = <<"restored">>) /\ log # NoLog
    BY <1>1, <2>1 DEF Control, FinishedPart
  <2>4. QED
    BY <1>1, <1>3, <2>2, <2>3, Constant DEF FinishedPart, Whole, NoLog
<1>8. RunningPart'
  BY <1>1, <1>3, <1>4, <1>5, Constant DEF RunningPart, Fits, LogOf
<1>9. QED
  BY <1>1, <1>2, <1>3, <1>6, <1>7, <1>8
     DEF Control, FreshPart, ResumedPart, IdlePart, EndPart

(* CopyDone says that everything is copied.                                *)
LEMMA DoneIs ==
    ASSUME Fits(rc)
    PROVE  CopyDone <=> Whole(rc.offset)
  BY DEF Fits, Dir, CopyDone, Whole

LEMMA PassControl ==
    ASSUME Foreseen, OfflineTypeOK, Control, NEW w, PassBlock(w)
    PROVE  Control' /\ Ready' /\ ~finished
<1> USE DEF FirstSteps, LastSteps, Running
<1>1. /\ job \in Jobs /\ job' = job /\ writelog' = writelog /\ pc = "copy" /\ ~CopyDone
      /\ UNCHANGED <<org, new, log, finished>> /\ rc' = Advanced(rc)
      /\ pc' = IF writelog THEN "log" ELSE "copy"
  BY DEF OfflineTypeOK, PassBlock, files
<1>2. Ready /\ Fits(rc) /\ rc.stained /\ (writelog => log = LogOf(rc))
  BY <1>1 DEF Control, RunningPart
<1>3. ~finished
  BY <1>1, <1>2, DoneIs DEF Control, FinishedPart
<1>4. Fits(Advanced(rc)) /\ Advanced(rc).stained = rc.stained /\ Near(rc.offset, Advanced(rc).offset)
  <2>1. Size # 0
    BY <1>1, <1>2, Geometry DEF CopyDone, Fits, OfflineTypeOK
  <2>2. 0 \in 0..(Size - 1)
    BY <1>1, <2>1, Geometry
  <2>3. QED
    BY <1>2, <2>2, BlockIs
<1>5. Ready'
  BY <1>1, <1>2, Constant DEF Ready, Fits, NoLog
<1>6. Fits(rc)'
  BY <1>1, <1>4, Constant DEF Fits
<1>7. RunningPart'
  <2>1. CASE writelog
    <3>1. log.offset = rc.offset
      BY <1>2, <2>1, LogFacts
    <3>2. Near(log.offset, rc.offset)'
      BY <1>1, <1>4, <3>1, Constant DEF Near
    <3>3. QED
      BY <1>1, <1>2, <1>4, <1>5, <1>6, <2>1, <3>2 DEF RunningPart
  <2>2. CASE ~writelog
    BY <1>1, <1>2, <1>4, <1>5, <1>6, <2>2 DEF RunningPart
  <2>3. QED
    BY <2>1, <2>2
<1>8. QED
  BY <1>1, <1>3, <1>5, <1>7 DEF Control, FreshPart, ResumedPart, IdlePart, EndPart, FinishedPart

LEMMA CopyBlockControl ==
    ASSUME Foreseen, OfflineTypeOK, Control, CopyBlock \/ ShortWrite
    PROVE  Control'
<1>1. PICK w : PassBlock(w)
  BY DEF CopyBlock, ShortWrite
<1>2. QED
  BY <1>1, PassControl

(* The copy is over, for now or for good, with an old or a new log.        *)
LEMMA StopControl ==
    ASSUME Foreseen, OfflineTypeOK, Control, job' = job, writelog' = writelog,
           pc \in {"copy", "log"}, UNCHANGED <<org, new, rc, finished>>,
           finished => phys'[0] = phys[0] \/ job.mode = "decrypt",
           log' = LogOf(rc) \/ (pc = "log" /\ pc' = "out" /\ log' = log),
           \/ pc' = "out"
           \/ pc' = "restore" /\ CopyDone
           \/ pc' = "copy"
    PROVE  Control' /\ Ready'
<1> USE DEF FirstSteps, LastSteps, Running
<1>1. Ready /\ Fits(rc) /\ rc.stained /\ rc.dir = Dir
  BY DEF Control, RunningPart, Fits
<1>2. LogOf(rc) # NoLog /\ Fits(LogOf(rc))
  BY <1>1, LogFacts DEF Dir, Dirs, Fits
<1>3. Ready'
  BY <1>1, <1>2, Constant DEF Ready, Fits, NoLog
<1>4. Fits(rc)'
  BY <1>1, Constant DEF Fits
<1>5. RunningPart'
  BY <1>1, <1>3, <1>4, DoneIs, Constant DEF RunningPart, LogOf, Whole
<1>6. FinishedPart'
  <2>1. SUFFICES ASSUME finished
                 PROVE  FinishedPart'
    BY DEF FinishedPart
  <2>2. /\ Whole(rc.offset) /\ Whole(log.offset)
        /\ job.mode # "decrypt" => phys[0] = <<"restored">>
    BY <1>1, <2>1 DEF Control, FinishedPart, Ready
  <2>3. Whole(log'.offset)
    BY <2>2, LogFacts
  <2>4. QED
    BY <1>1, <1>3, <2>2, <2>3, Constant DEF FinishedPart, Ready, NoLog, Whole
<1>7. QED
  BY <1>1, <1>3, <1>5, <1>6 DEF Control, FreshPart, ResumedPart, IdlePart, EndPart

(* Header sector 0 is not written any more once everything is copied.      *)
LEMMA WholeUntouched ==
    ASSUME Foreseen, OfflineTypeOK, Fits(rc), Whole(rc.offset), NEW w \in SUBSET NextBlock
    PROVE  w = {} /\ Copied(w) = phys
<1>1. \A i \in NextBlock : FALSE
  <2>1. \A i \in NextBlock : i \in 0..(Size - 1)
    BY DEF NextBlock
  <2>2. QED
    BY <2>1, BlockIs
<1>2. w = {}
  BY <1>1
<1>3. QED
  BY <1>2 DEF Copied, OfflineTypeOK

LEMMA CopyControl ==
    ASSUME Foreseen, OfflineTypeOK, Control, LogBlock \/ CopyStops \/ WriteFails \/ CopyEnds
    PROVE  Control' /\ Ready'
<1>1. pc \in {"copy", "log"}
  BY DEF LogBlock, CopyStops, WriteFails, CopyEnds
<1>2. Fits(rc) /\ (finished => Whole(rc.offset))
  BY <1>1 DEF Control, RunningPart, FinishedPart, Running
<1>3. /\ job' = job /\ writelog' = writelog /\ UNCHANGED <<org, new, rc, finished>>
  BY DEF LogBlock, CopyStops, WriteFails, CopyEnds
<1>4. /\ log' = LogOf(rc) \/ (pc = "log" /\ pc' = "out" /\ log' = log)
      /\ \/ pc' = "out"
         \/ pc' = "restore" /\ CopyDone
         \/ pc' = "copy"
  BY DEF LogBlock, CopyStops, WriteFails, CopyEnds
<1>5. finished => phys'[0] = phys[0] \/ job.mode = "decrypt"
  <2>1. CASE WriteFails
    BY <1>2, <2>1, DoneIs DEF WriteFails
  <2>2. CASE CopyEnds
    BY <1>2, <2>2 DEF CopyEnds, Fits
  <2>3. CASE LogBlock \/ CopyStops
    BY <2>3 DEF LogBlock, CopyStops
  <2>4. QED
    BY <2>1, <2>2, <2>3
<1>6. QED
  BY <1>1, <1>3, <1>4, <1>5, StopControl

LEMMA RestoreControl ==
    ASSUME Foreseen, OfflineTypeOK, Control, RestoreHeader
    PROVE  Control' /\ Ready'
<1> USE DEF FirstSteps, LastSteps, Running
<1>1. /\ job \in Jobs /\ job' = job /\ writelog' = writelog /\ pc = "restore" /\ pc' = "out"
      /\ UNCHANGED <<org, new, log>>
  BY DEF OfflineTypeOK, RestoreHeader, files, Fails
<1>2. /\ Ready /\ Fits(rc) /\ rc.stained /\ log = LogOf(rc) /\ Whole(rc.offset)
      /\ log.offset = rc.offset /\ log # NoLog
  BY <1>1, LogFacts DEF Control, RunningPart, Ready
<1>3. Ready'
  BY <1>1, <1>2, Constant DEF Ready, Fits, NoLog
<1>5. rc'.stained \/ finished'
  BY <1>2 DEF RestoreHeader
<1>6. finished' /\ job.mode # "decrypt" => phys'[0] = <<"restored">>
  <2>1. SUFFICES ASSUME finished', job.mode # "decrypt"
                 PROVE  phys'[0] = <<"restored">>
    OBVIOUS
  <2>2. WithHeader[0] = <<"restored">>
    <3>1. NewOffset \in Nat /\ NewOffset > 0 /\ job.detached = FALSE
      BY <1>1, <2>1, Geometry
    <3>2. 0 \in Sector /\ ~(0 >= NewOffset)
      BY <3>1, OfflineConstants DEF Sector
    <3>3. QED
      BY <3>1, <3>2 DEF WithHeader
  <2>3. phys' = WithHeader \/ (phys' = phys /\ finished)
    BY <1>2, <2>1 DEF RestoreHeader, Fits
  <2>4. QED
    BY <2>1, <2>2, <2>3 DEF Control, FinishedPart
<1>7. FinishedPart'
  BY <1>1, <1>2, <1>6, Constant DEF FinishedPart, Whole, NoLog
<1>8. QED
  BY <1>1, <1>3, <1>5, <1>7
     DEF Control, FreshPart, ResumedPart, IdlePart, RunningPart, EndPart

LEMMA UnlinkControl ==
    ASSUME Foreseen, OfflineTypeOK, Control, UnlinkLog \/ UnlinkHeaders
    PROVE  Control'
<1> USE DEF FirstSteps, LastSteps, Running
<1>1. job \in Jobs /\ job' = job /\ UNCHANGED <<phys, finished>>
  BY DEF OfflineTypeOK, UnlinkLog, UnlinkHeaders
<1>2. CASE UnlinkLog /\ rc.stained
  <2>1. pc = "out" /\ pc' = "idle" /\ log' = log /\ rc' = NoContext /\ UNCHANGED <<org, new>>
    BY <1>2 DEF UnlinkLog
  <2>2. Ready
    BY <1>2, <2>1 DEF Control, EndPart
  <2>3. Ready'
    BY <1>1, <2>1, <2>2, Constant DEF Ready, Fits, NoLog
  <2>4. FinishedPart'
    BY <1>1, <2>1, Constant DEF Control, FinishedPart, Whole, NoLog
  <2>5. IdlePart'
    <3>1. log' # NoLog
      BY <2>1, <2>2 DEF Ready
    <3>2. QED
      BY <2>1, <2>3, <3>1 DEF IdlePart, NoContext, NoLog
  <2>6. QED
    BY <2>1, <2>4, <2>5 DEF Control, FreshPart, ResumedPart, RunningPart, EndPart
<1>3. CASE UnlinkLog /\ ~rc.stained
  <2>1. pc = "out" /\ pc' = "unlink" /\ log' = NoLog /\ rc' = rc
    BY <1>3 DEF UnlinkLog
  <2>2. finished \/ (phys = Untouched /\ ~rc.inprogress)
    BY <1>3, <2>1 DEF Control, EndPart
  <2>3. EndPart'
    BY <1>1, <1>3, <2>1, <2>2, Constant DEF EndPart, NoLog
  <2>4. FinishedPart'
    BY <1>1, <2>1 DEF Control, FinishedPart, NoLog
  <2>5. QED
    BY <2>1, <2>3, <2>4 DEF Control, FreshPart, ResumedPart, IdlePart, RunningPart
<1>4. CASE UnlinkHeaders
  <2>1. /\ pc = "unlink" /\ pc' = "idle" /\ log' = log /\ rc' = NoContext
        /\ org' = "none" /\ new' = "none"
    BY <1>4 DEF UnlinkHeaders
  <2>2. log = NoLog /\ (finished \/ phys = Untouched)
    BY <2>1 DEF Control, EndPart
  <2>3. IdlePart'
    BY <1>1, <2>1, <2>2, Constant DEF IdlePart, NoLog, NoContext
  <2>4. FinishedPart'
    BY <1>1, <2>1, <2>2 DEF Control, FinishedPart, NoLog
  <2>5. QED
    BY <2>1, <2>3, <2>4 DEF Control, FreshPart, ResumedPart, RunningPart, EndPart
<1>5. QED
  BY <1>2, <1>3, <1>4

(* What is left by a process that is killed.                               *)
LEMMA DieControl ==
    ASSUME Foreseen, OfflineTypeOK, Control, Die
    PROVE  Control'
<1> USE DEF FirstSteps, LastSteps, Running
<1>1. /\ job \in Jobs /\ job' = job /\ pc # "idle" /\ pc' = "idle" /\ rc' = NoContext /\ MayFail
      /\ UNCHANGED <<org, new, log, finished>> /\ pc \in Steps
  BY DEF OfflineTypeOK, Die, files
<1>2. log = NoLog => finished
  <2>1. SUFFICES ASSUME log = NoLog, ~finished
                 PROVE  FALSE
    OBVIOUS
  <2>2. pc = "unlink"
    BY <1>1, <2>1, LogFacts
       DEF Control, FreshPart, ResumedPart, RunningPart, EndPart, Ready, Steps
  <2>3. ~rc.inprogress /\ ~rc.stained
    BY <2>1, <2>2 DEF Control, EndPart
  <2>4. QED
    BY <1>1, <2>1, <2>2, <2>3, FaultWhilePreparing
<1>3. log # NoLog => Ready
  <2>1. CASE pc \in FirstSteps \cup LastSteps /\ ~rc.inprogress
    <3>1. pc \in {"mark", "activate", "start"} /\ Fits(FirstLog)
      BY <1>1, <2>1, FaultWhilePreparing
    <3>2. log = FirstLog /\ org = "ok" /\ new = "ok"
      BY <2>1, <3>1 DEF Control, FreshPart, FilesAt
    <3>3. QED
      BY <3>1, <3>2 DEF Ready
  <2>2. CASE pc \in FirstSteps \cup LastSteps /\ rc.inprogress
    BY <2>2 DEF Control, ResumedPart
  <2>3. CASE pc \in Running
    BY <2>3 DEF Control, RunningPart
  <2>4. CASE pc = "out"
    BY <1>1, <2>4, FaultWhilePreparing DEF Control, EndPart
  <2>5. CASE pc = "unlink"
    BY <2>5 DEF Control, EndPart
  <2>6. QED
    BY <1>1, <2>1, <2>2, <2>3, <2>4, <2>5 DEF Steps
<1>4. finished => phys' = phys
  <2>1. CASE pc = "copy"
    <3>1. Fits(rc) /\ (finished => Whole(rc.offset))
      BY <2>1 DEF Control, RunningPart, FinishedPart
    <3>2. QED
      BY <2>1, <3>1, WholeUntouched DEF Die
  <2>2. CASE pc # "copy"
    <3>1. phys' = Copied({})
      BY <2>2 DEF Die
    <3>2. QED
      BY <3>1 DEF Copied, OfflineTypeOK
  <2>3. QED
    BY <2>1, <2>2
<1>5. Ready => Ready'
  BY <1>1, Constant DEF Ready, Fits, NoLog
<1>6. IdlePart'
  BY <1>1, <1>2, <1>3, <1>5 DEF IdlePart, NoLog, NoContext
<1>7. FinishedPart'
  BY <1>1, <1>4, Constant DEF Control, FinishedPart, Whole, NoLog
<1>8. QED
  BY <1>1, <1>6, <1>7 DEF Control, FreshPart, ResumedPart, RunningPart, EndPart

LEMMA StutterControl ==
    ASSUME Control, UNCHANGED vars
    PROVE  Control'
<1>1. job' = job
  BY DEF vars
<1>2. Ready' = Ready /\ Fits(rc)' = Fits(rc)
  BY <1>1, Constant DEF vars, Ready, Fits, NoLog
<1>3. FreshPart' /\ IdlePart' /\ EndPart'
  BY <1>1, <1>2, Constant DEF vars, Control, FreshPart, IdlePart, EndPart, FilesAt,
       FirstSteps, LastSteps, FirstLog, NoLog, NoContext
<1>4. ResumedPart' /\ RunningPart'
  BY <1>1, <1>2, Constant DEF vars, Control, ResumedPart, RunningPart, FirstSteps, LastSteps, Running,
       LogOf, Near, Whole
<1>5. FinishedPart'
  BY <1>1, Constant DEF vars, Control, FinishedPart, FirstSteps, LastSteps, Running, Whole, NoLog
<1>6. QED
  BY <1>3, <1>4, <1>5 DEF Control

LEMMA ControlStep ==
    ASSUME Foreseen, OfflineTypeOK, Control, [Next]_vars
    PROVE  Control'
  BY StartControl, PrepareControl, MarkControl, ActivateControl, CopyStartControl,
     CopyBlockControl, CopyControl, RestoreControl, UnlinkControl, DieControl,
     StutterControl DEF Next, Work

-----------------------------------------------------------------------------
(* Data                                                                    *)

(* On a device that is untouched, but for the mark, all data are old.      *)
LEMMA UntouchedOld ==
    ASSUME Foreseen, job \in Jobs, NEW i \in 0..(Size - 1)
    PROVE  Untouched[i + OldOffset] = <<"old", i>>
<1>1. /\ Size \in Nat /\ OldOffset \in Nat /\ Size + OldOffset <= P /\ P \in Nat
      /\ H \in Nat /\ H > 0
  BY Geometry, OfflineConstants
<1>2. i + OldOffset \in Sector
  BY <1>1 DEF Sector
<1>3. CASE job.mode = "encrypt"
  <2>1. i + OldOffset = i
    BY <1>1, <1>3 DEF OldOffset
  <2>2. QED
    BY <1>2, <1>3, <2>1 DEF Untouched
<1>4. CASE job.mode # "encrypt"
  <2>1. OldOffset = H
    BY <1>4, Geometry
  <2>2. i + H \in Sector /\ i + H # 0 /\ ~(i + H < H) /\ (i + H) - H = i
    BY <1>1, <1>2, <2>1
  <2>3. QED
    BY <1>4, <2>1, <2>2 DEF Untouched
<1>5. QED
  BY <1>3, <1>4

(* Nothing is copied before the first block.                               *)
LEMMA NothingCopied ==
    ASSUME Foreseen, job \in Jobs, NEW i \in 0..(Size - 1)
    PROVE  /\ ~CopiedBy(NoLog, FALSE, i)
           /\ \A f : ~CopiedBy(FirstLog, f, i)
           /\ ~Past(IF Backward THEN Size ELSE 0, i)
<1>1. Size \in Nat
  BY Geometry
<1>2. ~CopiedBy(NoLog, FALSE, i)
  <2>1. NoLog.dir # "backward"
    BY DEF NoLog
  <2>2. QED
    BY <2>1 DEF CopiedBy
<1>3. ASSUME NEW f PROVE ~CopiedBy(FirstLog, f, i)
  <2>1. FirstLog # NoLog /\ FirstLog.dir # "backward" /\ ~(i < FirstLog.offset)
    BY LogFacts
  <2>2. QED
    BY <2>1 DEF CopiedBy
<1>4. ~Past(IF Backward THEN Size ELSE 0, i)
  BY <1>1 DEF Past
<1>5. QED
  BY <1>2, <1>3, <1>4

LEMMA InitData ==
    ASSUME Foreseen, Init
    PROVE  BlockLostAtMost
<1>1. job \in Jobs /\ phys = Untouched /\ Border = NoLog /\ finished = FALSE /\ losses = 0
  BY DEF Init, Border
<1>2. Damaged = {}
  <2>1. \A i \in 0..(Size - 1) : Safe(phys, Border, finished, i)
    BY <1>1, UntouchedOld, NothingCopied DEF Safe
  <2>2. QED
    BY <2>1, DamagedIs
<1>3. Cardinality(Damaged) = 0 /\ Block * losses = 0
  BY <1>1, <1>2, FS_EmptySet, OfflineConstants
<1>4. QED
  BY <1>1, <1>2, <1>3 DEF BlockLostAtMost

(* Steps that move nothing.                                                *)
LEMMA StillData ==
    ASSUME Foreseen, OfflineTypeOK, BlockLostAtMost, job' = job, writelog' = writelog,
           UNCHANGED <<phys, finished, losses, astray>>, Border' = Border
    PROVE  BlockLostAtMost'
<1>1. Damaged' \subseteq Damaged \cup {}
  BY DamageIn DEF Safe
<1>2. QED
  BY <1>1, NothingLost

LEMMA StartData ==
    ASSUME Foreseen, OfflineTypeOK, Control, BlockLostAtMost, Start
    PROVE  BlockLostAtMost'
<1>1. /\ pc = "idle" /\ pc' = "passphrase" /\ job' = job /\ writelog' = writelog
      /\ UNCHANGED <<phys, finished, losses, astray>>
      /\ ~finished \/ log # NoLog
      /\ job \in Jobs /\ finished \in BOOLEAN
  BY DEF Start, OfflineTypeOK, drift
<1>2. Border = log /\ Border' = log'
  BY <1>1 DEF Border
<1>3. CASE log = NoLog
  <2>1. log' = FirstLog /\ finished = FALSE
    BY <1>1, <1>3 DEF Start, OpenLog, FirstLog
  <2>2. \A i \in 0..(Size - 1) : Safe(phys, Border, finished, i) => Safe(phys', Border', finished', i)
    BY <1>1, <1>2, <1>3, <2>1, NothingCopied DEF Safe
  <2>3. Damaged' \subseteq Damaged \cup {}
    BY <1>1, <2>2, DamageIn
  <2>4. QED
    BY <1>1, <2>3, NothingLost
<1>4. CASE log # NoLog
  <2>1. log' = log
    BY <1>4 DEF Start, OpenLog
  <2>2. QED
    BY <1>1, <1>2, <2>1, StillData
<1>5. QED
  BY <1>3, <1>4

LEMMA PrepareData ==
    ASSUME Foreseen, OfflineTypeOK, Control, BlockLostAtMost,
           Passphrase \/ CreateHeaderOrg \/ BackupHeader \/ CreateHeaderNew
             \/ FormatNewHeader \/ ActivateHeaders \/ UnlinkHeaders
    PROVE  BlockLostAtMost'
<1>1. /\ job' = job /\ writelog' = writelog /\ UNCHANGED <<phys, finished, losses, astray, log>>
      /\ pc \notin Running /\ pc' \notin Running
  BY DEF Passphrase, CreateHeaderOrg, BackupHeader, CreateHeaderNew, MakeFile, FillFile,
         FormatNewHeader, ActivateHeaders, UnlinkHeaders, Running, Fails, drift
<1>2. Border' = Border
  BY <1>1 DEF Border, Running
<1>3. QED
  BY <1>1, <1>2, StillData

LEMMA MarkData ==
    ASSUME Foreseen, OfflineTypeOK, Control, BlockLostAtMost, MakeUnusable
    PROVE  BlockLostAtMost'
<1>1. /\ job \in Jobs /\ job' = job /\ writelog' = writelog /\ UNCHANGED <<finished, losses, astray, log>>
      /\ pc = "mark" /\ pc' \notin Running
      /\ phys' = phys \/ phys' = [phys EXCEPT ![0] = <<"unusable">>]
  BY DEF MakeUnusable, Running, Fails, OfflineTypeOK, drift
<1>2. Border' = log /\ Border = log
  BY <1>1 DEF Border, Running
<1>3. log = FirstLog /\ job.mode # "encrypt"
  BY <1>1 DEF Control, FreshPart, ResumedPart, FirstSteps, LastSteps
<1>4. ASSUME NEW i \in 0..(Size - 1), Safe(phys, Border, finished, i)
      PROVE  Safe(phys', Border', finished', i)
  <2>1. i + OldOffset # 0 /\ i + OldOffset \in Sector
    <3>1. OldOffset = H /\ H \in Nat /\ H > 0 /\ Size \in Nat /\ Size + OldOffset <= P /\ P \in Nat
      BY <1>1, <1>3, Geometry, OfflineConstants
    <3>2. QED
      BY <3>1 DEF Sector
  <2>2. phys'[i + OldOffset] = phys[i + OldOffset]
    BY <1>1, <2>1 DEF OfflineTypeOK
  <2>3. QED
    BY <1>1, <1>2, <1>3, <1>4, <2>2, NothingCopied DEF Safe
<1>5. Damaged' \subseteq Damaged \cup {}
  BY <1>1, <1>4, DamageIn
<1>6. QED
  BY <1>1, <1>5, NothingLost

LEMMA CopyStartData ==
    ASSUME Foreseen, OfflineTypeOK, Control, BlockLostAtMost, CopyStart
    PROVE  BlockLostAtMost'
<1>1. /\ job \in Jobs /\ job' = job /\ writelog' = writelog /\ UNCHANGED <<phys, finished, losses, astray>>
      /\ pc = "start" /\ pc' = "copy"
  BY DEF CopyStart, OfflineTypeOK, drift
<1>2. Border' = LogOf(rc') /\ Border = log
  BY <1>1 DEF Border, LogOf
<1>3. CASE rc.inprogress
  <2>1. Border' = Border
    BY <1>2, <1>3, CopyStartControl
  <2>2. QED
    BY <1>1, <2>1, StillData
<1>4. CASE ~rc.inprogress
  <2>1. /\ log = FirstLog /\ rc'.offset = (IF Backward THEN Size ELSE 0)
        /\ rc'.dir = Dir
    BY <1>4, CopyStartControl
  <2>2. /\ LogOf(rc').dir = Dir /\ LogOf(rc').offset = (IF Backward THEN Size ELSE 0)
        /\ LogOf(rc') # NoLog
    BY <2>1, LogFacts DEF Dir, Dirs
  <2>3. ASSUME NEW i \in 0..(Size - 1), Safe(phys, Border, finished, i)
        PROVE  Safe(phys', Border', finished', i)
    <3>1. ~CopiedBy(Border, finished, i) /\ ~Past(IF Backward THEN Size ELSE 0, i)
      BY <1>1, <1>2, <2>1, NothingCopied
    <3>2. ~CopiedBy(Border', finished', i)
      BY <1>2, <2>2, <3>1, BorderIs
    <3>3. QED
      BY <1>1, <2>3, <3>1, <3>2 DEF Safe
  <2>4. Damaged' \subseteq Damaged \cup {}
    BY <1>1, <2>3, DamageIn
  <2>5. QED
    BY <1>1, <2>4, NothingLost
<1>5. QED
  BY <1>3, <1>4

(* The border of a running copy.                                           *)
LEMMA RunningBorder ==
    ASSUME Control, pc \in Running
    PROVE  /\ Border = LogOf(rc) /\ Fits(rc) /\ Ready
           /\ \A f, i : CopiedBy(LogOf(rc), f, i) <=> Past(rc.offset, i)
           /\ \A f, i : CopiedBy(log, f, i) <=> Past(log.offset, i)
<1>1. Border = LogOf(rc) /\ Fits(rc) /\ Ready
  BY DEF Border, Running, Control, RunningPart
<1>2. /\ LogOf(rc) # NoLog /\ LogOf(rc).dir = Dir /\ LogOf(rc).offset = rc.offset
      /\ log # NoLog /\ log.dir = Dir
  BY <1>1, LogFacts DEF Fits, Dir, Dirs, Ready
<1>3. QED
  BY <1>1, <1>2, BorderIs

(* A block that counts as copied: the sectors that are written at their    *)
(* place, and those outside the block, are where they should be.           *)
LEMMA PassKeeps ==
    ASSUME Foreseen, OfflineTypeOK, Control, Drift, NEW w \in SUBSET NextBlock, PassBlock(w),
           NEW i \in 0..(Size - 1), i \notin astray, Safe(phys, Border, finished, i),
           i \in NextBlock => i \in w /\ behind = 0
    PROVE  Safe(phys', Border', finished', i)
<1>1. /\ pc = "copy" /\ pc' \in {"copy", "log"} /\ phys' = Copied(w)
      /\ rc' = Advanced(rc)
  BY DEF PassBlock
<1>2. /\ Border = LogOf(rc) /\ Fits(rc)
      /\ \A f, j : CopiedBy(LogOf(rc), f, j) <=> Past(rc.offset, j)
  BY <1>1, RunningBorder DEF Running
<1>3. /\ Fits(Advanced(rc))
      /\ i \in NextBlock <=> ~Past(rc.offset, i) /\ Past(Advanced(rc).offset, i)
      /\ i \notin NextBlock => (Past(Advanced(rc).offset, i) <=> Past(rc.offset, i))
  BY <1>2, BlockIs
<1>4. Border' = LogOf(rc')
  BY <1>1 DEF Border, Running, LogOf
<1>5. LogOf(rc') # NoLog /\ LogOf(rc').dir = Dir /\ LogOf(rc').offset = rc'.offset
  BY <1>1, <1>3, LogFacts DEF Fits, Dir, Dirs
<1>6. CopiedBy(Border', finished', i) <=> Past(Advanced(rc).offset, i)
  BY <1>1, <1>4, <1>5, BorderIs
<1>7. CASE i \in NextBlock
  <2>1. phys[i + OldOffset] = <<"old", i>>
    BY <1>2, <1>3, <1>7 DEF Safe
  <2>2. phys'[i + NewOffset] = <<"new", i>>
    BY <1>1, <1>7, <2>1, CopyInside
  <2>3. QED
    BY <1>3, <1>6, <1>7, <2>2 DEF Safe
<1>8. CASE i \notin NextBlock
  <2>1. /\ Past(rc.offset, i) => phys'[i + NewOffset] = phys[i + NewOffset]
        /\ ~Past(rc.offset, i) => phys'[i + OldOffset] = phys[i + OldOffset]
    BY <1>1, <1>2, <1>8, CopyOutside
  <2>2. QED
    BY <1>2, <1>3, <1>6, <1>8, <2>1 DEF Safe
<1>9. QED
  BY <1>7, <1>8

(* The sectors of a block are fewer than a block is long.                  *)
LEMMA BlockLength ==
    ASSUME Foreseen, OfflineTypeOK, Fits(rc)
    PROVE  \E a \in Int : NextBlock \subseteq a..(a + Block - 1)
<1> DEFINE a == IF Backward THEN rc.offset - Block ELSE rc.offset
<1>1. /\ rc.offset \in Nat /\ Block \in Nat /\ Block > 0 /\ Size \in Nat
      /\ rc.dir = Dir
  BY OfflineConstants, Geometry DEF Fits, OfflineTypeOK
<1>2. a \in Int
  BY <1>1
<1>3. NextBlock \subseteq a..(a + Block - 1)
  BY <1>1 DEF NextBlock, Dir
<1> HIDE DEF a
<1>4. QED
  BY <1>2, <1>3

LEMMA CopyBlockData ==
    ASSUME Foreseen, OfflineTypeOK, Control, Drift, BlockLostAtMost, CopyBlock \/ ShortWrite
    PROVE  BlockLostAtMost'
<1>1. PICK w \in SUBSET NextBlock :
         /\ PassBlock(w)
         /\ \/ w = NextBlock /\ losses' = losses
            \/ losses' = IF rc.dir = "backward" THEN losses + 1 ELSE losses
  BY DEF CopyBlock, ShortWrite
<1>2. /\ job' = job /\ writelog' = writelog /\ pc = "copy" /\ astray \subseteq astray'
  BY <1>1 DEF PassBlock
<1>3. Fits(rc) /\ rc.dir = Dir
  BY <1>2 DEF Control, RunningPart, Running, Fits
<1>4. CASE losses' = losses
  <2>1. ASSUME NEW i \in 0..(Size - 1), i \notin astray', i \in NextBlock
        PROVE  i \in w /\ behind = 0
    <3>1. CASE Backward
      <4>1. rc.dir = "backward" /\ behind = 0
        BY <1>3, <3>1 DEF Drift, Dir, OfflineTypeOK
      <4>2. losses # losses + 1
        BY DEF OfflineTypeOK
      <4>3. QED
        BY <1>1, <1>4, <2>1, <4>1, <4>2
    <3>2. CASE ~Backward
      <4>1. rc.dir # "backward"
        BY <1>3, <3>2 DEF Dir
      <4>2. QED
        BY <1>1, <2>1, <4>1 DEF PassBlock
    <3>3. QED
      BY <3>1, <3>2
  <2>2. \A i \in 0..(Size - 1) :
           i \notin {} /\ i \notin astray' /\ Safe(phys, Border, finished, i) =>
               Safe(phys', Border', finished', i)
    BY <1>1, <1>2, <2>1, PassKeeps
  <2>3. Damaged' \subseteq Damaged \cup {}
    BY <1>2, <2>2, DamageIn
  <2>4. QED
    BY <1>2, <1>4, <2>3, NothingLost
<1>5. CASE losses' = losses + 1
  <2>1. \A i \in 0..(Size - 1) :
           i \notin NextBlock /\ i \notin astray' /\ Safe(phys, Border, finished, i) =>
               Safe(phys', Border', finished', i)
    BY <1>1, <1>2, PassKeeps
  <2>2. Damaged' \subseteq Damaged \cup NextBlock
    BY <1>2, <2>1, DamageIn
  <2>3. PICK a \in Int : NextBlock \subseteq a..(a + Block - 1)
    BY <1>3, BlockLength
  <2>4. Damaged' \subseteq Damaged \cup (a..(a + Block - 1))
    BY <2>2, <2>3
  <2>5. QED
    BY <1>2, <1>5, <2>4, OneBlockLost
<1>6. QED
  BY <1>1, <1>4, <1>5

(* A block that is written in part.                                        *)
LEMMA TornData ==
    ASSUME Foreseen, OfflineTypeOK, Control, Drift, BlockLostAtMost, job' = job,
           writelog' = writelog, pc = "copy", losses' = losses + 1, UNCHANGED <<finished, astray>>,
           NEW w \in SUBSET NextBlock, phys' = Copied(w), writelog => Border' = LogOf(rc)
    PROVE  BlockLostAtMost'
<1>1. /\ Border = LogOf(rc) /\ Fits(rc)
      /\ \A f, i : CopiedBy(LogOf(rc), f, i) <=> Past(rc.offset, i)
  BY RunningBorder DEF Running
<1>2. writelog => Damaged' \subseteq Damaged \cup NextBlock
  <2>1. SUFFICES ASSUME writelog
                 PROVE  Damaged' \subseteq Damaged \cup NextBlock
    OBVIOUS
  <2>2. ASSUME NEW i \in 0..(Size - 1), i \notin NextBlock, i \notin astray',
               Safe(phys, Border, finished, i)
        PROVE  Safe(phys', Border', finished', i)
    <3>1. /\ Past(rc.offset, i) => phys'[i + NewOffset] = phys[i + NewOffset]
          /\ ~Past(rc.offset, i) => phys'[i + OldOffset] = phys[i + OldOffset]
      BY <1>1, <2>2, CopyOutside
    <3>2. Border' = Border
      BY <1>1, <2>1
    <3>3. QED
      BY <1>1, <2>2, <3>1, <3>2 DEF Safe
  <2>3. QED
    BY <2>2, DamageIn
<1>3. PICK a \in Int : NextBlock \subseteq a..(a + Block - 1)
  BY <1>1, BlockLength
<1>4. writelog => Damaged' \subseteq Damaged \cup (a..(a + Block - 1))
  BY <1>2, <1>3
<1>5. QED
  BY <1>4, OneBlockLost

(* A block that is not in the log.                                         *)
LEMMA UnloggedData ==
    ASSUME Foreseen, OfflineTypeOK, Control, BlockLostAtMost, job' = job, writelog' = writelog,
           pc = "log", losses' = losses + 1, UNCHANGED <<phys, finished, astray>>,
           Border' \in {log, LogOf(rc)}
    PROVE  BlockLostAtMost'
<1>1. /\ Border = LogOf(rc) /\ Fits(rc) /\ Ready
      /\ \A f, i : CopiedBy(LogOf(rc), f, i) <=> Past(rc.offset, i)
      /\ \A f, i : CopiedBy(log, f, i) <=> Past(log.offset, i)
  BY RunningBorder DEF Running
<1>2. Near(log.offset, rc.offset)
  BY DEF Control, RunningPart
<1>3. /\ rc.offset \in Nat /\ log.offset \in Nat /\ Block \in Nat /\ Block > 0 /\ Size \in Nat
  BY <1>1, OfflineConstants, Geometry DEF Fits, Ready, OfflineTypeOK
<1> DEFINE a == IF Backward THEN rc.offset ELSE log.offset
<1>4. a \in Int
  BY <1>3
<1>5. ASSUME NEW i \in 0..(Size - 1), i \notin a..(a + Block - 1)
      PROVE  Past(rc.offset, i) <=> Past(log.offset, i)
  BY <1>2, <1>3, <1>5 DEF Past, Near
<1> HIDE DEF a
<1>6. \A i \in 0..(Size - 1) :
         i \notin a..(a + Block - 1) /\ Safe(phys, Border, finished, i) =>
            Safe(phys', Border', finished', i)
  BY <1>1, <1>5 DEF Safe
<1>7. Damaged' \subseteq Damaged \cup (a..(a + Block - 1))
  BY <1>6, DamageIn
<1>8. QED
  BY <1>4, <1>7, OneBlockLost

LEMMA CopyData ==
    ASSUME Foreseen, OfflineTypeOK, Control, Drift, BlockLostAtMost,
           LogBlock \/ CopyStops \/ WriteFails
    PROVE  BlockLostAtMost'
<1>1. job' = job /\ writelog' = writelog /\ UNCHANGED <<rc, finished, astray>> /\ pc \in Running
  BY DEF LogBlock, CopyStops, WriteFails, Running
<1>2. Border = LogOf(rc)
  BY <1>1, RunningBorder
<1>3. CASE UNCHANGED <<phys, losses>> /\ Border' = LogOf(rc)
  BY <1>1, <1>2, <1>3, StillData
<1>4. CASE CopyStops
  <2>1. UNCHANGED <<phys, losses>> /\ Border' = LogOf(rc)
    BY <1>4 DEF CopyStops, Border
  <2>2. QED
    BY <1>3, <2>1
<1>5. CASE WriteFails
  <2>1. PICK w \in SUBSET NextBlock : phys' = Copied(w)
    BY <1>5 DEF WriteFails
  <2>2. pc = "copy" /\ losses' = losses + 1 /\ Border' = LogOf(rc)
    BY <1>5 DEF WriteFails, Border
  <2>3. QED
    BY <1>1, <2>1, <2>2, TornData
<1>6. CASE LogBlock
  <2>1. CASE pc' = "copy"
    <3>1. UNCHANGED <<phys, losses>> /\ Border' = LogOf(rc)
      BY <1>1, <1>6, <2>1 DEF LogBlock, Border, LogOf
    <3>2. QED
      BY <1>3, <3>1
  <2>2. CASE pc' # "copy"
    <3>1. pc = "log" /\ losses' = losses + 1 /\ UNCHANGED phys /\ Border' \in {log, LogOf(rc)}
      BY <1>6, <2>2 DEF LogBlock, Border
    <3>2. QED
      BY <1>1, <3>1, UnloggedData
  <2>3. QED
    BY <2>1, <2>2
<1>7. QED
  BY <1>4, <1>5, <1>6

(* Everything is copied: what comes after the new data, and what is before *)
(* them, may be overwritten.                                               *)
LEMMA WholeData ==
    ASSUME Foreseen, OfflineTypeOK, Control, BlockLostAtMost, job' = job, writelog' = writelog,
           UNCHANGED <<losses, astray>>, pc \in Running, Whole(rc.offset), Border' = LogOf(rc),
           \A i \in 0..(Size - 1) : phys'[i + NewOffset] = phys[i + NewOffset]
    PROVE  BlockLostAtMost'
<1>1. /\ Border = LogOf(rc) /\ Fits(rc)
      /\ \A f, i : CopiedBy(LogOf(rc), f, i) <=> Past(rc.offset, i)
  BY RunningBorder
<1>2. ASSUME NEW i \in 0..(Size - 1)
      PROVE  Past(rc.offset, i)
  <2>1. Size \in Nat /\ rc.offset \in Nat
    BY <1>1, Geometry DEF OfflineTypeOK, Fits
  <2>2. QED
    BY <2>1 DEF Past, Whole
<1>3. \A i \in 0..(Size - 1) : Safe(phys, Border, finished, i) => Safe(phys', Border', finished', i)
  BY <1>1, <1>2 DEF Safe
<1>4. Damaged' \subseteq Damaged \cup {}
  BY <1>3, DamageIn
<1>5. QED
  BY <1>4, NothingLost

LEMMA CopyEndsData ==
    ASSUME Foreseen, OfflineTypeOK, Control, BlockLostAtMost, CopyEnds
    PROVE  BlockLostAtMost'
<1>1. /\ job' = job /\ writelog' = writelog /\ UNCHANGED <<losses, astray>> /\ pc \in Running
      /\ Border' = LogOf(rc) /\ CopyDone /\ job \in Jobs
  BY DEF CopyEnds, Running, Border, LogOf, OfflineTypeOK
<1>2. Fits(rc) /\ Whole(rc.offset)
  BY <1>1, RunningBorder, DoneIs
<1>3. ASSUME NEW i \in 0..(Size - 1)
      PROVE  phys'[i + NewOffset] = phys[i + NewOffset]
  <2>1. CASE rc.mode = "decrypt"
    <3>1. NewOffset = 0 /\ Size \in Nat /\ Size <= P /\ P \in Nat
      BY <1>1, <1>2, <2>1, Geometry, OfflineConstants DEF Fits
    <3>2. i + NewOffset \in Sector /\ ~(i + NewOffset >= Size)
      BY <3>1 DEF Sector
    <3>3. QED
      BY <2>1, <3>2 DEF CopyEnds
  <2>2. CASE rc.mode # "decrypt"
    BY <2>2 DEF CopyEnds
  <2>3. QED
    BY <2>1, <2>2
<1>4. QED
  BY <1>1, <1>2, <1>3, WholeData

LEMMA RestoreData ==
    ASSUME Foreseen, OfflineTypeOK, Control, BlockLostAtMost, RestoreHeader
    PROVE  BlockLostAtMost'
<1>1. /\ job' = job /\ writelog' = writelog /\ UNCHANGED <<losses, astray>>
      /\ pc = "restore" /\ pc' = "out"
      /\ log' = log /\ job \in Jobs /\ phys' \in {phys, WithHeader}
  BY DEF RestoreHeader, files, OfflineTypeOK, Fails, drift
<1>2. log = LogOf(rc) /\ Whole(rc.offset)
  BY <1>1 DEF Control, RunningPart
<1>3. Border' = LogOf(rc)
  BY <1>1, <1>2 DEF Border
<1>4. ASSUME NEW i \in 0..(Size - 1)
      PROVE  phys'[i + NewOffset] = phys[i + NewOffset]
  <2>1. i + NewOffset \in Sector /\ i + NewOffset >= NewOffset
    BY <1>1, Geometry, OfflineConstants DEF Sector
  <2>2. QED
    BY <1>1, <2>1 DEF WithHeader
<1>5. pc \in Running
  BY <1>1 DEF Running
<1>6. QED
  BY <1>1, <1>2, <1>3, <1>4, <1>5, WholeData

LEMMA UnlinkLogData ==
    ASSUME Foreseen, OfflineTypeOK, Control, BlockLostAtMost, UnlinkLog
    PROVE  BlockLostAtMost'
<1>1. /\ job' = job /\ writelog' = writelog /\ UNCHANGED <<phys, finished, losses, astray>>
      /\ pc = "out" /\ pc' \notin Running /\ job \in Jobs /\ finished \in BOOLEAN
  BY DEF UnlinkLog, Running, OfflineTypeOK, drift
<1>2. Border = log /\ Border' = log'
  BY <1>1 DEF Border, Running
<1>3. CASE rc.stained
  <2>1. log' = log
    BY <1>3 DEF UnlinkLog
  <2>2. QED
    BY <1>1, <1>2, <2>1, StillData
<1>4. CASE ~rc.stained
  <2>1. log' = NoLog
    BY <1>4 DEF UnlinkLog
  <2>2. ASSUME NEW i \in 0..(Size - 1)
        PROVE  CopiedBy(log, finished, i) <=> CopiedBy(NoLog, finished, i)
    <3>1. CASE finished
      <4>1. Ready /\ Whole(log.offset)
        BY <1>1, <3>1 DEF Control, EndPart, FinishedPart, Ready
      <4>2. CopiedBy(log, finished, i) <=> Past(log.offset, i)
        BY <4>1, BorderIs DEF Ready, Fits
      <4>3. Past(log.offset, i)
        <5>1. Size \in Nat /\ log.offset \in Nat
          BY <1>1, <4>1, Geometry DEF Ready, Fits
        <5>2. QED
          BY <4>1, <5>1 DEF Past, Whole
      <4>4. CopiedBy(NoLog, finished, i)
        <5>1. NoLog.dir # "backward"
          BY DEF NoLog
        <5>2. QED
          BY <3>1, <5>1 DEF CopiedBy
      <4>5. QED
        BY <4>2, <4>3, <4>4
    <3>2. CASE finished = FALSE
      BY <1>1, <1>4, <3>2, NothingCopied DEF Control, EndPart
    <3>3. QED
      BY <1>1, <3>1, <3>2
  <2>3. \A i \in 0..(Size - 1) : Safe(phys, Border, finished, i) => Safe(phys', Border', finished', i)
    BY <1>1, <1>2, <2>1, <2>2 DEF Safe
  <2>4. Damaged' \subseteq Damaged \cup {}
    BY <1>1, <2>3, DamageIn
  <2>5. QED
    BY <1>1, <2>4, NothingLost
<1>5. QED
  BY <1>3, <1>4

LEMMA DieData ==
    ASSUME Foreseen, OfflineTypeOK, Control, Drift, BlockLostAtMost, Die
    PROVE  BlockLostAtMost'
<1>1. /\ job' = job /\ writelog' = writelog /\ UNCHANGED <<finished, log, astray>> /\ pc' = "idle"
  BY DEF Die, files
<1>2. Border' = log
  BY <1>1 DEF Border
<1>3. CASE pc = "copy"
  <2>1. PICK w \in SUBSET NextBlock : phys' = Copied(w)
    BY <1>3 DEF Die
  <2>2. losses' = losses + 1 /\ (writelog => log = LogOf(rc))
    BY <1>3 DEF Die, Control, RunningPart
  <2>3. QED
    BY <1>1, <1>2, <1>3, <2>1, <2>2, TornData
<1>4. CASE pc # "copy"
  <2>1. phys' = phys
    <3>1. phys' = Copied({})
      BY <1>4 DEF Die
    <3>2. QED
      BY <3>1 DEF Copied, OfflineTypeOK
  <2>2. CASE pc = "log"
    BY <1>1, <1>2, <2>1, <2>2, UnloggedData DEF Die
  <2>3. CASE pc # "log"
    <3>1. losses' = losses
      BY <1>4, <2>3 DEF Die
    <3>2. Border = log
      BY <1>4, <2>3 DEF Border, Control, RunningPart
    <3>3. QED
      BY <1>1, <1>2, <2>1, <3>1, <3>2, StillData
  <2>4. QED
    BY <2>2, <2>3
<1>5. QED
  BY <1>3, <1>4

LEMMA DataStep ==
    ASSUME Foreseen, OfflineTypeOK, Control, Drift, BlockLostAtMost, [Next]_vars
    PROVE  BlockLostAtMost'
<1>1. CASE UNCHANGED vars
  <2>1. job' = job /\ writelog' = writelog /\ UNCHANGED <<phys, finished, losses, astray>> /\ Border' = Border
    BY <1>1 DEF vars, Border, LogOf
  <2>2. QED
    BY <2>1, StillData
<1>2. QED
  BY <1>1, StartData, PrepareData, MarkData, CopyStartData, CopyBlockData, CopyData,
     CopyEndsData, RestoreData, UnlinkLogData, DieData DEF Next, Work

(* A run falls behind only by short writes, and stays behind by that much. *)
LEMMA InitDrift ==
    ASSUME Init
    PROVE  Drift
  BY DEF Init, Drift

LEMMA PassDrift ==
    ASSUME Foreseen, OfflineTypeOK, Control, Drift, NEW w \in SUBSET NextBlock, PassBlock(w),
           \/ behind' = behind
           \/ /\ ~Backward
              /\ \E k \in NextBlock : /\ behind' = behind + (Advanced(rc).offset - k)
                                      /\ w = {i \in NextBlock : i < k}
    PROVE  Drift'
<1>1. /\ pc = "copy" /\ pc' \in {"copy", "log"} /\ rc' = Advanced(rc) /\ job' = job
      /\ astray' = astray \cup (IF rc.dir = "backward" THEN {}
                                ELSE IF behind = 0 THEN NextBlock \ w ELSE NextBlock)
  BY DEF PassBlock
<1>2. /\ Size' = Size /\ Backward' = Backward
  BY <1>1, Constant
<1>3. /\ Fits(rc) /\ rc.dir = Dir /\ Size \in Nat /\ Block \in Nat /\ rc.offset \in 0..Size
      /\ behind \in Nat /\ Backward \in BOOLEAN
  BY <1>1, Geometry, OfflineConstants DEF Control, RunningPart, Running, Fits, OfflineTypeOK
<1>4. CASE Backward
  <2>1. behind = 0 /\ behind' = 0
    BY <1>3, <1>4 DEF Drift
  <2>2. QED
    BY <1>1, <2>1 DEF Drift
<1>5. CASE ~Backward
  <2>1. rc.dir # "backward"
    BY <1>3, <1>5 DEF Dir
  <2>2. rc'.offset = IF rc.offset + Block > Size THEN Size ELSE rc.offset + Block
    BY <1>1, <2>1 DEF Advanced, OfflineTypeOK
  <2>3. \A i \in 0..(Size - 1) : i \in NextBlock <=> rc.offset <= i /\ i < rc.offset + Block
    BY <2>1 DEF NextBlock
  <2>4. NextBlock \subseteq 0..(Size - 1)
    BY DEF NextBlock
  <2>5. behind <= rc.offset
    BY <1>3 DEF Drift
  <2>6. CASE behind' = behind
    <3>1. ASSUME NEW i \in 0..(Size - 1), rc'.offset <= i + behind, i < rc'.offset, behind > 0
          PROVE  i \in astray'
      <4>1. CASE i < rc.offset
        <5>1. rc.offset <= i + behind
          BY <1>3, <2>2, <3>1
        <5>2. QED
          BY <1>1, <3>1, <4>1, <5>1 DEF Drift
      <4>2. CASE i >= rc.offset
        <5>1. i \in NextBlock
          BY <1>3, <2>2, <2>3, <3>1, <4>2
        <5>2. QED
          BY <1>1, <2>1, <3>1, <5>1
      <4>3. QED
        BY <1>3, <4>1, <4>2
    <3>2. QED
      BY <1>1, <1>2, <1>3, <1>5, <2>2, <2>5, <2>6, <3>1 DEF Drift
  <2>7. CASE behind' # behind
    <3>1. PICK k \in NextBlock : /\ behind' = behind + (rc'.offset - k)
                                 /\ w = {i \in NextBlock : i < k}
      BY <1>1, <2>7
    <3>2. k \in 0..(Size - 1) /\ rc.offset <= k /\ k < rc.offset + Block /\ k < rc'.offset
      BY <1>3, <2>2, <2>3, <2>4
    <3>3. behind' \in Nat /\ behind' > 0 /\ behind' <= rc'.offset
      BY <1>3, <2>2, <2>5, <3>1, <3>2
    <3>4. ASSUME NEW i \in 0..(Size - 1), rc'.offset <= i + behind', i < rc'.offset
          PROVE  i \in astray'
      <4>1. k <= i + behind
        BY <1>3, <2>2, <3>1, <3>2, <3>4
      <4>2. CASE i < rc.offset
        <5>1. behind > 0 /\ rc.offset <= i + behind
          BY <1>3, <3>2, <4>1, <4>2
        <5>2. QED
          BY <1>1, <4>2, <5>1 DEF Drift
      <4>3. CASE i >= rc.offset
        <5>1. i \in NextBlock
          BY <1>3, <2>2, <2>3, <3>4, <4>3
        <5>2. behind = 0 => i \notin w
          BY <1>3, <3>1, <3>2, <4>1
        <5>3. QED
          BY <1>1, <2>1, <5>1, <5>2
      <4>4. QED
        BY <1>3, <4>2, <4>3
    <3>5. QED
      BY <1>1, <1>2, <1>5, <3>3, <3>4 DEF Drift
  <2>8. QED
    BY <2>6, <2>7
<1>6. QED
  BY <1>4, <1>5

LEMMA DriftStep ==
    ASSUME Foreseen, OfflineTypeOK, Control, Drift, [Next]_vars
    PROVE  Drift'
<1>1. CASE CopyBlock
  BY <1>1, PassDrift DEF CopyBlock
<1>2. CASE ShortWrite
  <2>1. PICK k \in NextBlock :
           /\ PassBlock({i \in NextBlock : i < k})
           /\ \/ behind' = behind
              \/ rc.dir # "backward" /\ behind' = behind + (Advanced(rc).offset - k)
    BY <1>2 DEF ShortWrite
  <2>2. rc.dir = Dir
    BY <2>1 DEF PassBlock, Control, RunningPart, Running, Fits
  <2>3. rc.dir # "backward" => ~Backward
    BY <2>2 DEF Dir
  <2>4. {i \in NextBlock : i < k} \in SUBSET NextBlock
    OBVIOUS
  <2>5. QED
    BY <2>1, <2>3, <2>4, PassDrift
<1>3. CASE behind' = 0 /\ job' = job
  BY <1>3 DEF Drift
<1>4. CASE Die \/ CopyStops \/ WriteFails \/ CopyEnds \/ (LogBlock /\ pc' = "out")
  <2>1. behind' = 0 /\ job' = job
    BY <1>4 DEF Die, CopyStops, WriteFails, CopyEnds, LogBlock
  <2>2. QED
    BY <1>3, <2>1
<1>5. CASE (LogBlock /\ pc' # "out") \/ UNCHANGED vars
  <2>1. /\ UNCHANGED <<job, rc, behind, astray>>
        /\ pc' = pc \/ (pc = "log" /\ pc' = "copy")
    BY <1>5 DEF LogBlock, vars
  <2>2. Size' = Size /\ Backward' = Backward
    BY <2>1, Constant
  <2>3. QED
    BY <2>1, <2>2 DEF Drift
<1>6. CASE Start \/ Passphrase \/ CreateHeaderOrg \/ BackupHeader \/ CreateHeaderNew
           \/ FormatNewHeader \/ MakeUnusable \/ ActivateHeaders \/ CopyStart
           \/ RestoreHeader \/ UnlinkLog \/ UnlinkHeaders
  <2>1. behind' = behind /\ pc \notin {"copy", "log"} /\ job' = job
    BY <1>6 DEF drift, Start, Passphrase, CreateHeaderOrg, BackupHeader,
         CreateHeaderNew, FormatNewHeader, MakeFile, FillFile, MakeUnusable,
         ActivateHeaders, CopyStart, RestoreHeader, UnlinkLog, UnlinkHeaders
  <2>2. QED
    BY <1>3, <2>1 DEF Drift
<1>7. QED
  BY <1>1, <1>2, <1>4, <1>5, <1>6 DEF Next, Work

-----------------------------------------------------------------------------
(* Theorems                                                                *)

LEMMA InvHeaders ==
    ASSUME Foreseen, OfflineInv
    PROVE  HeadersKept /\ LogMeansResumable
<1> USE DEF FirstSteps, LastSteps, Running
<1>1. /\ OfflineTypeOK /\ Control /\ pc \in Steps /\ job \in Jobs /\ finished \in BOOLEAN
  BY DEF OfflineInv, OfflineTypeOK
<1>2. LogMeansResumable
  BY <1>1 DEF LogMeansResumable, Control, IdlePart, Ready
<1>3. Ready \/ phys = Untouched \/ (finished /\ log = NoLog) \/ (pc \in LastSteps /\ org = "ok")
  BY <1>1 DEF Control, FreshPart, ResumedPart, IdlePart, RunningPart, EndPart, FilesAt, Steps
<1>4. Ready \/ finished \/ log = NoLog \/ log = FirstLog
  BY <1>1 DEF Control, FreshPart, ResumedPart, IdlePart, RunningPart, EndPart, Steps
<1>5. finished /\ job.mode # "decrypt" => phys[0] = <<"restored">>
  BY <1>1 DEF Control, FinishedPart
<1>6. pc \in Running => Ready
  BY <1>1 DEF Control, RunningPart
<1>7. ASSUME NEW i \in 0..(Size - 1), ~IsCopied(i)
      PROVE  org = "ok" \/ phys = Untouched
  <2>1. CASE finished /\ log = NoLog /\ ~Ready
    <3>1. Border = NoLog /\ NoLog.dir # "backward"
      BY <1>6, <2>1 DEF Border, NoLog
    <3>2. IsCopied(i)
      BY <2>1, <3>1 DEF IsCopied
    <3>3. QED
      BY <1>7, <3>2
  <2>2. QED
    BY <1>3, <2>1 DEF Ready
<1>8. ASSUME NEW i \in 0..(Size - 1), IsCopied(i)
      PROVE  new = "ok" \/ dhdr \/ phys[0] = <<"restored">> \/ job.mode = "decrypt"
  <2>1. CASE Ready \/ finished
    BY <1>5, <2>1 DEF Ready
  <2>2. CASE ~Ready /\ finished = FALSE
    <3>1. Border \in {NoLog, FirstLog}
      BY <1>4, <1>6, <2>2 DEF Border
    <3>2. IsCopied(i) <=> CopiedBy(Border, FALSE, i)
      BY <2>2 DEF IsCopied, CopiedBy
    <3>3. ~CopiedBy(Border, FALSE, i)
      BY <1>1, <3>1, NothingCopied
    <3>4. QED
      BY <1>8, <3>2, <3>3
  <2>3. QED
    BY <1>1, <2>1, <2>2
<1>9. HeadersKept
  BY <1>7, <1>8 DEF HeadersKept
<1>10. QED
  BY <1>2, <1>9

LEMMA OfflineInvariant == Foreseen /\ Spec => []OfflineInv
<1>1. Foreseen /\ Init => OfflineInv
  BY InitType, InitControl, InitDrift, InitData DEF OfflineInv
<1>2. Foreseen /\ OfflineInv /\ [Next]_vars => OfflineInv'
  BY TypeStep, ControlStep, DriftStep, DataStep DEF OfflineInv
<1>3. Foreseen => Foreseen'
  BY DEF Foreseen
<1>4. QED
  BY <1>1, <1>2, <1>3, PTL DEF Spec

(* With --write-log a killed process, a failed write and, backward, a      *)
(* short write cost at most one block each, and an interrupted or failed   *)
(* run nothing; without it none of the other faults costs anything; a      *)
(* short write forward costs what its run copies from there on and nothing *)
(* else: for every size of the device, of the header, of the blocks and of *)
(* the space that is given up, and for every number of faults              *)
(* (copy_data_forward, copy_data_backward).                                *)
THEOREM OfflineLosesBlocks == Foreseen /\ Spec => []BlockLostAtMost
<1>1. OfflineInv => BlockLostAtMost
  BY DEF OfflineInv
<1>2. QED
  BY <1>1, OfflineInvariant, PTL

(* Whenever the tool stops, the header of every key that is in use is left,*)
(* and a log comes with both header files (destroy_context, open_log).     *)
THEOREM OfflineIsResumable == Foreseen /\ Spec => []Resumable
<1>1. Foreseen /\ OfflineInv => Resumable
  BY InvHeaders DEF Resumable, OfflineInv
<1>2. Foreseen => Foreseen'
  BY DEF Foreseen
<1>3. QED
  BY <1>1, <1>2, OfflineInvariant, PTL
=============================================================================
