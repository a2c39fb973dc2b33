----------------------------- MODULE ShiftProofs -----------------------------
(***************************************************************************)
(* Encryption with a data shift keeps every block of the user and leaves   *)
(* none in the clear, for every size of the device, every shift and any    *)
(* number of deaths and errors, proved from the inductive invariant        *)
(* ShiftInv.                                                               *)
(*                                                                         *)
(* The argument: encryption goes down through levels.  At level L the      *)
(* first L blocks are where they were, but the first Shift of them, which  *)
(* are in the copy at the end, and the others are encrypted, moved up by   *)
(* Shift (UserData).  A hotzone is cut from the end of L; it is at most    *)
(* Shift blocks long, so what it overwrites is neither its source nor what *)
(* is encrypted already: what is half written is free (ZoneFree), and what *)
(* is written makes the next level true as well (ZoneWritten).  Hence both *)
(* headers are true of the data around each of the two commits.  Before    *)
(* there is a header the head of the device is kept, or its copy with a    *)
(* temporary header that knows of it.                                      *)
(*                                                                         *)
(* The hypothesis Foreseen leaves out a user who starts over though a      *)
(* temporary header is left, and a death or a last failed write in the     *)
(* finish of a recovery, for which the code has no care.                   *)
(***************************************************************************)
EXTENDS Shift, SequenceTheorems, TLAPS

(* No fault that the code or the user does not take care of, but these: a  *)
(* death or an error while a run finishes, a copy that cannot be wiped,    *)
(* and a header that cannot be put in place.                               *)
Foreseen == \A w \in Worlds : w.at \subseteq {"restore", "wipe", "finish"}

-----------------------------------------------------------------------------
(* The inductive invariant                                                 *)

(* How much is left to encrypt: all but the last Shift blocks that the     *)
(* user gave up, down to the moved segment, then nothing.                  *)
Full == dev_size - Shift
Levels == {0} \cup (Shift..Full)

(* Where the hotzone begins that is cut from the end of L.                 *)
ZoneStart(L) == IF Shift < L /\ L < 2 * Shift THEN Shift ELSE L - Shift

Segment == [type : {"linear", "crypt", "hot"}, offset : Nat, size : Nat]
MovedSeg == Seg("linear", dev_size, Shift)
LeftSeg(L) == Seg("linear", Shift, L - Shift)
DoneSeg(L) == Seg("crypt", Shift + L, Full - L)

(* The number of linear segments when L blocks are left.                   *)
Below(L) == IF L = 0 THEN 0 ELSE IF L = Shift THEN 1 ELSE 2

(* The segments between two hotzones, and those with a hotzone.            *)
CleanSegs(segs, L) ==
    /\ segs \in Seq(Segment)
    /\ L = 0 => Len(segs) = 1 /\ segs[1] = Seg("crypt", Shift, 0)
    /\ L # 0 => /\ Len(segs) = IF L < Full THEN Below(L) + 1 ELSE Below(L)
                /\ segs[1] = MovedSeg
                /\ L > Shift => segs[2] = LeftSeg(L)
                /\ L < Full => segs[Below(L) + 1] = DoneSeg(L)

HotZoneSegs(segs, L) ==
    LET o == ZoneStart(L)
    IN  /\ segs \in Seq(Segment) /\ L # 0
        /\ Len(segs) = IF L < Full THEN Below(o) + 2 ELSE Below(o) + 1
        /\ o > 0 => segs[1] = MovedSeg
        /\ o > Shift => segs[2] = LeftSeg(o)
        /\ segs[Below(o) + 1] = Seg("hot", Shift + o, L - o)
        /\ L < Full => segs[Below(o) + 2] = DoneSeg(L)

IsHeader(h) == h = <<h[1]>> /\ h[1] \in [flag : BOOLEAN, slot : BOOLEAN, segs : Seq(Segment)]
Clean(h, L) == IsHeader(h) /\ h[1].flag /\ h[1].slot /\ CleanSegs(h[1].segs, L)
Hot(h, L) == IsHeader(h) /\ h[1].flag /\ h[1].slot /\ HotZoneSegs(h[1].segs, L)

(* What is left is where it was, or in the moved segment; the rest is      *)
(* encrypted.                                                              *)
UserData(d, L) ==
    \A x \in Kept : IF x < L THEN d[IF x < Shift THEN dev_size + x ELSE x] = Plain(x)
                    ELSE d[Shift + x] = Crypt(x, x)

HeadKept(d) == \A i \in 0..(Shift - 1) : d[i] = Plain(i)
HeadWritten(d) == \A i \in 0..(Shift - 1) : d[i] = HeadArea
CopyMade(d) == \A i \in 0..(Shift - 1) : d[dev_size + i] = Plain(i)
RestKept(d) == \A i \in Shift..(dev_size - 1) : d[i] = Plain(i)
CopyWiped(d) == \A i \in dev_size..(D - 1) : d[i] = Junk \/ "wipe" \in world.at

(* The end, with the keyslot of reencryption and the flag gone or not.     *)
Ended(d, h) ==
    IsHeader(h) /\ CleanSegs(h[1].segs, 0) /\ UserData(d, 0) /\ CopyWiped(d)

(* The context of a run, and of a recovery.                                *)
RunContext(r, L) ==
    /\ ~r.recovery /\ r.device_size = dev_size
    /\ L # 0 => r.offset = ZoneStart(L) /\ r.length = L - ZoneStart(L) /\ r.progress = dev_size - L
    /\ L = 0 => \/ r.progress = dev_size
                \/ r.progress = dev_size - Shift /\ r.read = 0
RecoveryContext(r, L) ==
    /\ r.recovery /\ r.device_size = Full
    /\ r.offset = ZoneStart(L) /\ r.length = L - ZoneStart(L)
    /\ r.progress = Full - ZoneStart(L) - Least(Shift, Full - ZoneStart(L))

(* Where a process, or the device that it left, is when there is a header. *)
AtRest(d, h, L) == (UserData(d, L) /\ (Clean(h, L) \/ Hot(h, L))) \/ (L = 0 /\ Ended(d, h))
AtLoop(d, h, m, r, L) == m = h /\ Clean(h, L) /\ UserData(d, L) /\ RunContext(r, L)
AtHot(d, h, m, r, L) == Clean(h, L) /\ Hot(m, L) /\ UserData(d, L) /\ RunContext(r, L)
AtWrite(d, h, m, r, L) == m = h /\ Hot(h, L) /\ UserData(d, L) /\ RunContext(r, L)
AtRecover(d, h, m, r, L) == m = h /\ Hot(h, L) /\ UserData(d, L) /\ RecoveryContext(r, L)
AtTeardown(d, h, m, r, L) ==
    /\ UserData(d, L)
    /\ ~r.recovery => m = h /\ Clean(h, L) /\ (r.progress >= r.device_size <=> L = 0)
    /\ r.recovery => /\ Hot(h, L) /\ Clean(m, ZoneStart(L)) /\ UserData(d, ZoneStart(L))
                     /\ r.progress >= r.device_size <=> ZoneStart(L) = 0
AtWipe(d, h, m, r) ==
    Clean(m, 0) /\ UserData(d, 0) /\ IsHeader(h) /\ h[1].flag /\ (~r.recovery => h = m)
AtUnflag(d, h, m, r) ==
    Ended(d, m) /\ m[1].flag /\ IsHeader(h) /\ h[1].flag /\ (~r.recovery => Ended(d, h))
AtFinal(d, h, m, r, L) ==
    /\ r.recovery
    /\ \/ Ended(d, m) /\ IsHeader(h) /\ (~h[1].flag => Ended(d, h))
       \/ /\ Hot(h, L) /\ Clean(m, ZoneStart(L)) /\ ZoneStart(L) # 0
          /\ UserData(d, L) /\ UserData(d, ZoneStart(L))

RunningAt(a, d, h, m, r, L) ==
    CASE a = "idle" -> AtRest(d, h, L)
      [] a = "resume" -> Clean(h, L) /\ UserData(d, L)
      [] a = "loop" -> AtLoop(d, h, m, r, L)
      [] a = "read" -> AtHot(d, h, m, r, L)
      [] a = "hot" -> AtHot(d, h, m, r, L) /\ r.read = r.length
      [] a = "write" -> AtWrite(d, h, m, r, L) /\ r.read = r.length
      [] a = "post" -> AtWrite(d, h, m, r, L) /\ r.read = r.length /\ UserData(d, ZoneStart(L))
      [] a = "recover" -> AtRecover(d, h, m, r, L)
      [] a = "teardown" -> AtTeardown(d, h, m, r, L)
      [] a = "wipe" -> AtWipe(d, h, m, r)
      [] a = "drop" -> AtWipe(d, h, m, r) /\ CopyWiped(d)
      [] a = "unflag" -> AtUnflag(d, h, m, r)
      [] a = "final" -> AtFinal(d, h, m, r, L)
      [] OTHER -> FALSE

(* There is no header yet.                                                 *)
BeforeAt(a, d, f, m) ==
    /\ RestKept(d)
    /\ CASE a = "idle" -> IF f # NoHeader /\ f[1].flag THEN CopyMade(d)
                          ELSE HeadKept(d) \/ ("restore" \in world.at /\ CopyMade(d))
         [] a = "move" -> HeadKept(d) /\ f = Formatted /\ Clean(m, Full)
         [] a = "flag" -> HeadKept(d) /\ f = Formatted /\ Clean(m, Full) /\ CopyMade(d)
         [] a = "restore" -> HeadKept(d) /\ Clean(f, Full) /\ CopyMade(d)
         [] OTHER -> FALSE

(* The header is there, but not all of its keyslot areas.                  *)
DamagedAt(a, d, h, f) ==
    /\ a = "idle" /\ RestKept(d) /\ CopyMade(d)
    /\ (f # NoHeader /\ f[1].flag) \/ "restore" \in world.at

FileOK(f) == f = NoHeader \/ f = Formatted \/ Clean(f, Full)

HeaderOK(h) ==
    h # NoHeader => /\ IsHeader(h) /\ Len(h[1].segs) \in 1..4
                    /\ \A k \in DOMAIN h[1].segs :
                         h[1].segs[k] \in [type : {"linear", "crypt", "hot"}, offset : Block, size : 0..D]

ContextOK(r) ==
    /\ r \in [offset : Nat, length : Nat, progress : Nat, read : Nat, device_size : Nat, recovery : BOOLEAN]
    /\ r.offset \in 0..dev_size /\ r.length \in 0..Shift /\ r.device_size \in 0..dev_size
    /\ r.progress \in 0..r.device_size /\ r.read \in 0..Shift

TypesAt(d, h, f, m, r) ==
    /\ DOMAIN d = Block /\ FileOK(f) /\ ContextOK(r)
    /\ HeaderOK(h) /\ HeaderOK(f) /\ HeaderOK(m)

ControlAt(a, d, h, f, m, r) ==
    IF h = NoHeader THEN BeforeAt(a, d, f, m)
    ELSE /\ d[0] = HeadArea
         /\ IF HeadWritten(d) THEN \E L \in Levels : RunningAt(a, d, h, m, r, L)
            ELSE DamagedAt(a, d, h, f)

ShiftInv ==
    /\ world \in Worlds
    /\ TypesAt(data, hdr, file, mem, rh)
    /\ ControlAt(pc, data, hdr, file, mem, rh)

-----------------------------------------------------------------------------
(* Numbers                                                                 *)

(* The sizes of the device, the range of the blocks, and the levels.       *)
LEMMA Sizes ==
    ASSUME world \in Worlds
    PROVE  /\ Shift \in Nat /\ Shift >= 1
           /\ D \in Nat /\ dev_size \in Nat /\ Full \in Nat
           /\ D = dev_size + Shift /\ dev_size = Full + Shift /\ Full >= Shift
           /\ Kept = 0..(Full - 1) /\ Block = 0..(D - 1)
           /\ Levels = {0} \cup (Shift..Full)
  BY ShiftConstants DEF D, dev_size, Full, Kept, Block, Levels

(* The same without the sets, for steps of pure arithmetic.                *)
LEMMA Numbers ==
    ASSUME world \in Worlds
    PROVE  /\ Shift \in Nat /\ Shift >= 1
           /\ D \in Nat /\ dev_size \in Nat /\ Full \in Nat
           /\ D = dev_size + Shift /\ dev_size = Full + Shift /\ Full >= Shift
  BY Sizes

(* A hotzone is cut from what is left, is at most Shift blocks long, and   *)
(* leaves another level.                                                   *)
LEMMA Zones ==
    ASSUME world \in Worlds, NEW L \in Levels, L # 0
    PROVE  /\ ZoneStart(L) \in Levels /\ ZoneStart(L) \in Nat /\ L \in Nat
           /\ Shift <= L /\ L <= Full
           /\ ZoneStart(L) < L /\ L - ZoneStart(L) <= Shift
           /\ ZoneStart(L) = 0 => L = Shift
           /\ ZoneStart(L) # 0 => Shift <= ZoneStart(L) /\ Shift < L
  BY Sizes, SMTT(30) DEF ZoneStart

(* A level is nothing, or at least the moved segment.                      *)
LEMMA Level ==
    ASSUME world \in Worlds, NEW L \in Levels
    PROVE  L \in Nat /\ (L # 0 => Shift <= L) /\ L <= Full
  BY Sizes

-----------------------------------------------------------------------------
(* Segments                                                                *)

(* What the segments between two hotzones are: no hot one, the linear ones *)
(* first and L blocks long, every one in range.                            *)
LEMMA CleanShape ==
    ASSUME world \in Worlds, NEW L \in Levels, NEW segs, CleanSegs(segs, L)
    PROVE  /\ HotSeg(segs) = {}
           /\ L = 0 => Linear(segs) = {}
           /\ L # 0 => Linear(segs) = 1..Below(L)
           /\ L # 0 => LinearLength(segs) = L
           /\ Len(segs) \in 1..4
           /\ \A k \in DOMAIN segs :
                segs[k] \in [type : {"linear", "crypt", "hot"}, offset : Block, size : 0..D]
<1>0. /\ L \in Nat /\ (L # 0 => Shift <= L) /\ L <= Full
  BY Level
<1>1. CASE L = 0
  BY <1>0, <1>1, Sizes DEF CleanSegs, HotSeg, Linear, Seg
<1>2. CASE L = Shift /\ L = Full
  BY <1>0, <1>2, Sizes DEF CleanSegs, HotSeg, Linear, Seg, MovedSeg, Below, LinearLength, SizeOf
<1>3. CASE L = Shift /\ L < Full
  <2>1. segs \in Seq(Segment) /\ Len(segs) = 2 /\ DOMAIN segs = {1, 2}
    BY <1>0, <1>3, Sizes DEF CleanSegs, Below
  <2>2. segs[1] = MovedSeg /\ segs[2] = DoneSeg(L)
    BY <1>0, <1>3, Sizes DEF CleanSegs, Below
  <2>3. HotSeg(segs) = {} /\ Linear(segs) = {1}
    BY <2>1, <2>2 DEF HotSeg, Linear, Seg, MovedSeg, LeftSeg, DoneSeg
  <2>4. LinearLength(segs) = L
    BY <1>0, <1>3, <2>2, <2>3, Sizes DEF LinearLength, SizeOf, Seg, MovedSeg, LeftSeg, DoneSeg
  <2>5. Below(L) = 1 /\ {1} = 1..1
    BY <1>0, <1>3, Sizes DEF Below
  <2>6. \A k \in DOMAIN segs :
           segs[k] \in [type : {"linear", "crypt", "hot"}, offset : Block, size : 0..D]
    BY <1>0, <1>3, <2>1, <2>2, Sizes, SMTT(30) DEF Seg, MovedSeg, LeftSeg, DoneSeg
  <2>7. QED
    BY <1>0, <1>3, <2>1, <2>3, <2>4, <2>5, <2>6, Sizes
<1>4. CASE L > Shift /\ L = Full
  <2>1. segs \in Seq(Segment) /\ Len(segs) = 2 /\ DOMAIN segs = {1, 2}
    BY <1>0, <1>4, Sizes DEF CleanSegs, Below
  <2>2. segs[1] = MovedSeg /\ segs[2] = LeftSeg(L)
    BY <1>0, <1>4, Sizes DEF CleanSegs, Below
  <2>3. HotSeg(segs) = {} /\ Linear(segs) = {1, 2}
    BY <2>1, <2>2 DEF HotSeg, Linear, Seg, MovedSeg, LeftSeg, DoneSeg
  <2>4. LinearLength(segs) = L
    BY <1>0, <1>4, <2>2, <2>3, Sizes DEF LinearLength, SizeOf, Seg, MovedSeg, LeftSeg, DoneSeg
  <2>5. Below(L) = 2 /\ {1, 2} = 1..2
    BY <1>0, <1>4, Sizes DEF Below
  <2>6. \A k \in DOMAIN segs :
           segs[k] \in [type : {"linear", "crypt", "hot"}, offset : Block, size : 0..D]
    BY <1>0, <1>4, <2>1, <2>2, Sizes DEF Seg, MovedSeg, LeftSeg, DoneSeg
  <2>7. QED
    BY <1>0, <1>4, <2>1, <2>3, <2>4, <2>5, <2>6, Sizes
<1>5. CASE L > Shift /\ L < Full
  <2>1. segs \in Seq(Segment) /\ Len(segs) = 3 /\ DOMAIN segs = {1, 2, 3}
    BY <1>0, <1>5, Sizes DEF CleanSegs, Below
  <2>2. segs[1] = MovedSeg /\ segs[2] = LeftSeg(L) /\ segs[3] = DoneSeg(L)
    BY <1>0, <1>5, Sizes DEF CleanSegs, Below
  <2>3. HotSeg(segs) = {} /\ Linear(segs) = {1, 2}
    BY <2>1, <2>2 DEF HotSeg, Linear, Seg, MovedSeg, LeftSeg, DoneSeg
  <2>4. LinearLength(segs) = L
    BY <1>0, <1>5, <2>2, <2>3, Sizes DEF LinearLength, SizeOf, Seg, MovedSeg, LeftSeg, DoneSeg
  <2>5. Below(L) = 2 /\ {1, 2} = 1..2
    BY <1>0, <1>5, Sizes DEF Below
  <2>6. \A k \in DOMAIN segs :
           segs[k] \in [type : {"linear", "crypt", "hot"}, offset : Block, size : 0..D]
    BY <1>0, <1>5, <2>1, <2>2, Sizes, SMTT(30) DEF Seg, MovedSeg, LeftSeg, DoneSeg
  <2>7. QED
    BY <1>0, <1>5, <2>1, <2>3, <2>4, <2>5, <2>6, Sizes
<1>6. QED
  BY <1>0, <1>1, <1>2, <1>3, <1>4, <1>5, Sizes

(* What the segments with a hotzone are: one hot segment behind the linear *)
(* ones, of the size and the place of the hotzone, and all of them as long *)
(* as the data.                                                            *)
LEMMA HotShape ==
    ASSUME world \in Worlds, NEW L \in Levels, NEW segs, HotZoneSegs(segs, L)
    PROVE  /\ HotSeg(segs) = {Below(ZoneStart(L)) + 1}
           /\ TheHot(segs) = Below(ZoneStart(L)) + 1
           /\ Linear(segs) = 1..Below(ZoneStart(L))
           /\ segs[TheHot(segs)] = Seg("hot", Shift + ZoneStart(L), L - ZoneStart(L))
           /\ DataSize(segs) = Full
           /\ Len(segs) \in 1..4
           /\ \A k \in DOMAIN segs :
                segs[k] \in [type : {"linear", "crypt", "hot"}, offset : Block, size : 0..D]
<1> DEFINE o == ZoneStart(L)
           hot == Seg("hot", Shift + o, L - o)
<1>0. /\ L \in Nat /\ o \in Nat /\ Shift <= L /\ L <= Full /\ o < L /\ L - o <= Shift
      /\ o = 0 => L = Shift
      /\ o # 0 => Shift <= o
  BY Zones DEF HotZoneSegs
<1> HIDE DEF o
<1>1. CASE o = 0 /\ L = Full
  <2>1. segs \in Seq(Segment) /\ Len(segs) = 1 /\ DOMAIN segs = {1}
    <3>1. segs \in Seq(Segment) /\ Len(segs) = 1
      BY <1>0, <1>1, Sizes DEF HotZoneSegs, Below, o
    <3>2. QED
      BY <3>1
  <2>2. segs[1] = hot
    BY <1>0, <1>1, Sizes DEF HotZoneSegs, Below, o
  <2>3. HotSeg(segs) = {1} /\ Linear(segs) = {}
    BY <2>1, <2>2 DEF HotSeg, Linear, Seg, MovedSeg, LeftSeg, DoneSeg
  <2>9. segs[1].size = L - o
    BY <2>2 DEF Seg, MovedSeg, LeftSeg, DoneSeg
  <2>4. DataSize(segs) = Full
    <3>1. 1 \in DOMAIN segs /\ 2 \notin DOMAIN segs /\ 3 \notin DOMAIN segs /\ 4 \notin DOMAIN segs
      BY <2>1
    <3>2. DataSize(segs) = (L - o) + 0 + 0 + 0
      BY <3>1, <2>9 DEF DataSize, SizeOf
    <3>3. QED
      BY <1>0, <1>1, <3>2, Numbers
  <2>5. Below(o) = 0 /\ {} = 1..0
    BY <1>0, <1>1, Sizes DEF Below
  <2>6. \A k \in DOMAIN segs :
           segs[k] \in [type : {"linear", "crypt", "hot"}, offset : Block, size : 0..D]
    <3> DEFINE T == [type : {"linear", "crypt", "hot"}, offset : Block, size : 0..D]
    <3>0. Shift + o \in Block /\ L - o \in 0..D
      BY <1>0, <1>1, Numbers DEF Block
    <3>1. hot \in T
      BY <3>0, <1>0, <1>1, Sizes DEF Seg, MovedSeg, LeftSeg, DoneSeg
    <3>2. QED
      BY <2>1, <2>2, <3>1
  <2>7. TheHot(segs) = 1
    BY <2>3 DEF TheHot
  <2>8. QED
    BY <2>1, <2>2, <2>3, <2>4, <2>5, <2>6, <2>7 DEF o
<1>2. CASE o = 0 /\ L < Full
  <2>1. segs \in Seq(Segment) /\ Len(segs) = 2 /\ DOMAIN segs = {1, 2}
    <3>1. segs \in Seq(Segment) /\ Len(segs) = 2
      BY <1>0, <1>2, Sizes DEF HotZoneSegs, Below, o
    <3>2. QED
      BY <3>1
  <2>2. segs[1] = hot /\ segs[2] = DoneSeg(L)
    BY <1>0, <1>2, Sizes DEF HotZoneSegs, Below, o
  <2>3. HotSeg(segs) = {1} /\ Linear(segs) = {}
    BY <2>1, <2>2 DEF HotSeg, Linear, Seg, MovedSeg, LeftSeg, DoneSeg
  <2>9. segs[1].size = L - o /\ segs[2].size = Full - L
    BY <2>2 DEF Seg, MovedSeg, LeftSeg, DoneSeg
  <2>4. DataSize(segs) = Full
    <3>1. 1 \in DOMAIN segs /\ 2 \in DOMAIN segs /\ 3 \notin DOMAIN segs /\ 4 \notin DOMAIN segs
      BY <2>1
    <3>2. DataSize(segs) = (L - o) + (Full - L) + 0 + 0
      BY <3>1, <2>9 DEF DataSize, SizeOf
    <3>3. QED
      BY <1>0, <1>2, <3>2, Numbers
  <2>5. Below(o) = 0 /\ {} = 1..0
    BY <1>0, <1>2, Sizes DEF Below
  <2>6. \A k \in DOMAIN segs :
           segs[k] \in [type : {"linear", "crypt", "hot"}, offset : Block, size : 0..D]
    <3> DEFINE T == [type : {"linear", "crypt", "hot"}, offset : Block, size : 0..D]
    <3>0. Shift + o \in Block /\ L - o \in 0..D
      BY <1>0, <1>2, Numbers DEF Block
    <3>1. hot \in T /\ DoneSeg(L) \in T
      BY <3>0, <1>0, <1>2, Sizes DEF Seg, MovedSeg, LeftSeg, DoneSeg
    <3>2. QED
      BY <2>1, <2>2, <3>1
  <2>7. TheHot(segs) = 1
    BY <2>3 DEF TheHot
  <2>8. QED
    BY <2>1, <2>2, <2>3, <2>4, <2>5, <2>6, <2>7 DEF o
<1>3. CASE o = Shift /\ L = Full
  <2>1. segs \in Seq(Segment) /\ Len(segs) = 2 /\ DOMAIN segs = {1, 2}
    <3>1. segs \in Seq(Segment) /\ Len(segs) = 2
      BY <1>0, <1>3, Sizes DEF HotZoneSegs, Below, o
    <3>2. QED
      BY <3>1
  <2>2. segs[1] = MovedSeg /\ segs[2] = hot
    BY <1>0, <1>3, Sizes DEF HotZoneSegs, Below, o
  <2>3. HotSeg(segs) = {2} /\ Linear(segs) = {1}
    BY <2>1, <2>2 DEF HotSeg, Linear, Seg, MovedSeg, LeftSeg, DoneSeg
  <2>9. segs[1].size = Shift /\ segs[2].size = L - o
    BY <2>2 DEF Seg, MovedSeg, LeftSeg, DoneSeg
  <2>4. DataSize(segs) = Full
    <3>1. 1 \in DOMAIN segs /\ 2 \in DOMAIN segs /\ 3 \notin DOMAIN segs /\ 4 \notin DOMAIN segs
      BY <2>1
    <3>2. DataSize(segs) = (Shift) + (L - o) + 0 + 0
      BY <3>1, <2>9 DEF DataSize, SizeOf
    <3>3. QED
      BY <1>0, <1>3, <3>2, Numbers
  <2>5. Below(o) = 1 /\ {1} = 1..1
    BY <1>0, <1>3, Sizes DEF Below
  <2>6. \A k \in DOMAIN segs :
           segs[k] \in [type : {"linear", "crypt", "hot"}, offset : Block, size : 0..D]
    <3> DEFINE T == [type : {"linear", "crypt", "hot"}, offset : Block, size : 0..D]
    <3>0. Shift + o \in Block /\ L - o \in 0..D
      BY <1>0, <1>3, Numbers DEF Block
    <3>1. MovedSeg \in T /\ hot \in T
      BY <3>0, <1>0, <1>3, Sizes DEF Seg, MovedSeg, LeftSeg, DoneSeg
    <3>2. QED
      BY <2>1, <2>2, <3>1
  <2>7. TheHot(segs) = 2
    BY <2>3 DEF TheHot
  <2>8. QED
    BY <2>1, <2>2, <2>3, <2>4, <2>5, <2>6, <2>7 DEF o
<1>4. CASE o = Shift /\ L < Full
  <2>1. segs \in Seq(Segment) /\ Len(segs) = 3 /\ DOMAIN segs = {1, 2, 3}
    <3>1. segs \in Seq(Segment) /\ Len(segs) = 3
      BY <1>0, <1>4, Sizes DEF HotZoneSegs, Below, o
    <3>2. QED
      BY <3>1
  <2>2. segs[1] = MovedSeg /\ segs[2] = hot /\ segs[3] = DoneSeg(L)
    BY <1>0, <1>4, Numbers DEF HotZoneSegs, Below, o
  <2>3. HotSeg(segs) = {2} /\ Linear(segs) = {1}
    BY <2>1, <2>2 DEF HotSeg, Linear, Seg, MovedSeg, LeftSeg, DoneSeg
  <2>9. segs[1].size = Shift /\ segs[2].size = L - o /\ segs[3].size = Full - L
    BY <2>2 DEF Seg, MovedSeg, LeftSeg, DoneSeg
  <2>4. DataSize(segs) = Full
    <3>1. 1 \in DOMAIN segs /\ 2 \in DOMAIN segs /\ 3 \in DOMAIN segs /\ 4 \notin DOMAIN segs
      BY <2>1
    <3>2. DataSize(segs) = (Shift) + (L - o) + (Full - L) + 0
      BY <3>1, <2>9 DEF DataSize, SizeOf
    <3>3. QED
      BY <1>0, <1>4, <3>2, Numbers
  <2>5. Below(o) = 1 /\ {1} = 1..1
    BY <1>0, <1>4, Sizes DEF Below
  <2>6. \A k \in DOMAIN segs :
           segs[k] \in [type : {"linear", "crypt", "hot"}, offset : Block, size : 0..D]
    <3> DEFINE T == [type : {"linear", "crypt", "hot"}, offset : Block, size : 0..D]
    <3>0. Shift + o \in Block /\ L - o \in 0..D
      BY <1>0, <1>4, Numbers DEF Block
    <3>1. MovedSeg \in T /\ hot \in T /\ DoneSeg(L) \in T
      BY <3>0, <1>0, <1>4, Sizes DEF Seg, MovedSeg, LeftSeg, DoneSeg
    <3>2. QED
      BY <2>1, <2>2, <3>1
  <2>7. TheHot(segs) = 2
    BY <2>3 DEF TheHot
  <2>8. QED
    BY <2>1, <2>2, <2>3, <2>4, <2>5, <2>6, <2>7 DEF o
<1>5. CASE o > Shift /\ L = Full
  <2>1. segs \in Seq(Segment) /\ Len(segs) = 3 /\ DOMAIN segs = {1, 2, 3}
    <3>1. segs \in Seq(Segment) /\ Len(segs) = 3
      BY <1>0, <1>5, Sizes DEF HotZoneSegs, Below, o
    <3>2. QED
      BY <3>1
  <2>2. segs[1] = MovedSeg /\ segs[2] = LeftSeg(o) /\ segs[3] = hot
    BY <1>0, <1>5, Sizes DEF HotZoneSegs, Below, o
  <2>3. HotSeg(segs) = {3} /\ Linear(segs) = {1, 2}
    BY <2>1, <2>2 DEF HotSeg, Linear, Seg, MovedSeg, LeftSeg, DoneSeg
  <2>9. segs[1].size = Shift /\ segs[2].size = o - Shift /\ segs[3].size = L - o
    BY <2>2 DEF Seg, MovedSeg, LeftSeg, DoneSeg
  <2>4. DataSize(segs) = Full
    <3>1. 1 \in DOMAIN segs /\ 2 \in DOMAIN segs /\ 3 \in DOMAIN segs /\ 4 \notin DOMAIN segs
      BY <2>1
    <3>2. DataSize(segs) = (Shift) + (o - Shift) + (L - o) + 0
      BY <3>1, <2>9 DEF DataSize, SizeOf
    <3>3. QED
      BY <1>0, <1>5, <3>2, Numbers
  <2>5. Below(o) = 2 /\ {1, 2} = 1..2
    BY <1>0, <1>5, Sizes DEF Below
  <2>6. \A k \in DOMAIN segs :
           segs[k] \in [type : {"linear", "crypt", "hot"}, offset : Block, size : 0..D]
    <3> DEFINE T == [type : {"linear", "crypt", "hot"}, offset : Block, size : 0..D]
    <3>0. Shift + o \in Block /\ L - o \in 0..D
      BY <1>0, <1>5, Numbers DEF Block
    <3>1. MovedSeg \in T /\ LeftSeg(o) \in T /\ hot \in T
      BY <3>0, <1>0, <1>5, Sizes DEF Seg, MovedSeg, LeftSeg, DoneSeg
    <3>2. QED
      BY <2>1, <2>2, <3>1
  <2>7. TheHot(segs) = 3
    BY <2>3 DEF TheHot
  <2>8. QED
    BY <2>1, <2>2, <2>3, <2>4, <2>5, <2>6, <2>7 DEF o
<1>6. CASE o > Shift /\ L < Full
  <2>1. segs \in Seq(Segment) /\ Len(segs) = 4 /\ DOMAIN segs = {1, 2, 3, 4}
    <3>1. segs \in Seq(Segment) /\ Len(segs) = 4
      BY <1>0, <1>6, Sizes DEF HotZoneSegs, Below, o
    <3>2. QED
      BY <3>1
  <2>2. segs[1] = MovedSeg /\ segs[2] = LeftSeg(o) /\ segs[3] = hot /\ segs[4] = DoneSeg(L)
    BY <1>0, <1>6, Numbers DEF HotZoneSegs, Below, o
  <2>3. HotSeg(segs) = {3} /\ Linear(segs) = {1, 2}
    BY <2>1, <2>2 DEF HotSeg, Linear, Seg, MovedSeg, LeftSeg, DoneSeg
  <2>9. segs[1].size = Shift /\ segs[2].size = o - Shift /\ segs[3].size = L - o /\ segs[4].size = Full - L
    BY <2>2 DEF Seg, MovedSeg, LeftSeg, DoneSeg
  <2>4. DataSize(segs) = Full
    <3>1. 1 \in DOMAIN segs /\ 2 \in DOMAIN segs /\ 3 \in DOMAIN segs /\ 4 \in DOMAIN segs
      BY <2>1
    <3>2. DataSize(segs) = (Shift) + (o - Shift) + (L - o) + (Full - L)
      BY <3>1, <2>9 DEF DataSize, SizeOf
    <3>3. QED
      BY <1>0, <1>6, <3>2, Numbers
  <2>5. Below(o) = 2 /\ {1, 2} = 1..2
    BY <1>0, <1>6, Sizes DEF Below
  <2>6. \A k \in DOMAIN segs :
           segs[k] \in [type : {"linear", "crypt", "hot"}, offset : Block, size : 0..D]
    <3> DEFINE T == [type : {"linear", "crypt", "hot"}, offset : Block, size : 0..D]
    <3>0. Shift + o \in Block /\ L - o \in 0..D
      BY <1>0, <1>6, Numbers DEF Block
    <3>1. /\ dev_size \in Block /\ Shift \in 0..D /\ Shift \in Block /\ o - Shift \in 0..D
          /\ Shift + L \in Block /\ Full - L \in 0..D
      BY <1>0, <1>6, Numbers DEF Block
    <3>2. MovedSeg \in T /\ LeftSeg(o) \in T
      BY <3>1 DEF Seg, MovedSeg, LeftSeg
    <3>3. hot \in T /\ DoneSeg(L) \in T
      BY <3>0, <3>1 DEF Seg, DoneSeg
    <3>4. QED
      BY <2>1, <2>2, <3>2, <3>3
  <2>7. TheHot(segs) = 3
    BY <2>3 DEF TheHot
  <2>8. QED
    BY <2>1, <2>2, <2>3, <2>4, <2>5, <2>6, <2>7 DEF o
<1>7. QED
  BY <1>0, <1>1, <1>2, <1>3, <1>4, <1>5, <1>6, Sizes

(* Four sequences after each other.                                        *)
LEMMA Joined ==
    ASSUME NEW S, NEW a \in Seq(S), NEW b \in Seq(S), NEW c \in Seq(S), NEW d \in Seq(S),
           NEW t, t = ((a \o b) \o c) \o d
    PROVE  /\ t \in Seq(S) /\ Len(t) = Len(a) + Len(b) + Len(c) + Len(d)
           /\ \A i \in 1..Len(a) : t[i] = a[i]
           /\ \A i \in 1..Len(b) : t[Len(a) + i] = b[i]
           /\ \A i \in 1..Len(c) : t[Len(a) + Len(b) + i] = c[i]
           /\ \A i \in 1..Len(d) : t[Len(a) + Len(b) + Len(c) + i] = d[i]
<1>1. /\ a \o b \in Seq(S) /\ Len(a \o b) = Len(a) + Len(b)
      /\ \A i \in 1..Len(a) : (a \o b)[i] = a[i]
      /\ \A i \in 1..Len(b) : (a \o b)[Len(a) + i] = b[i]
  OBVIOUS
<1> DEFINE u == a \o b
<1> HIDE DEF u
<1>2. /\ u \o c \in Seq(S) /\ Len(u \o c) = Len(u) + Len(c)
      /\ \A i \in 1..Len(u) : (u \o c)[i] = u[i]
      /\ \A i \in 1..Len(c) : (u \o c)[Len(u) + i] = c[i]
  BY <1>1 DEF u
<1> DEFINE v == u \o c
<1> HIDE DEF v
<1>3. /\ v \o d \in Seq(S) /\ Len(v \o d) = Len(v) + Len(d)
      /\ \A i \in 1..Len(v) : (v \o d)[i] = v[i]
      /\ \A i \in 1..Len(d) : (v \o d)[Len(v) + i] = d[i]
  BY <1>2 DEF v
<1>4. t = v \o d
  BY DEF u, v
<1>5. Len(a) \in Nat /\ Len(b) \in Nat /\ Len(c) \in Nat /\ Len(d) \in Nat
  OBVIOUS
<1>6. /\ Len(u) = Len(a) + Len(b) /\ \A i \in 1..Len(a) : u[i] = a[i]
      /\ \A i \in 1..Len(b) : u[Len(a) + i] = b[i]
  BY <1>1 DEF u
<1>7. /\ Len(v) = Len(u) + Len(c) /\ \A i \in 1..Len(u) : v[i] = u[i]
      /\ \A i \in 1..Len(c) : v[Len(u) + i] = c[i]
  BY <1>2 DEF v
<1>8. \A i \in 1..Len(a) : t[i] = a[i]
  BY <1>3, <1>4, <1>5, <1>6, <1>7
<1>9. \A i \in 1..Len(b) : t[Len(a) + i] = b[i]
  BY <1>3, <1>4, <1>5, <1>6, <1>7
<1>10. \A i \in 1..Len(c) : t[Len(a) + Len(b) + i] = c[i]
  BY <1>3, <1>4, <1>5, <1>6, <1>7
<1>11. \A i \in 1..Len(d) : t[Len(a) + Len(b) + Len(c) + i] = d[i]
  BY <1>3, <1>4, <1>5, <1>6, <1>7
<1>12. QED
  BY <1>3, <1>4, <1>5, <1>6, <1>7, <1>8, <1>9, <1>10, <1>11

(* The encrypted segment is the last one.                                  *)
LEMMA CleanCrypt ==
    ASSUME world \in Worlds, NEW L \in Levels, L # 0, NEW segs, CleanSegs(segs, L)
    PROVE  {k \in DOMAIN segs : segs[k].type = "crypt"} = IF L < Full THEN {Below(L) + 1} ELSE {}
<1>1. Linear(segs) = 1..Below(L) /\ segs \in Seq(Segment) /\ Below(L) \in {1, 2}
  BY CleanShape DEF CleanSegs, Below
<1>2. \A k \in 1..Below(L) : k \in DOMAIN segs /\ segs[k].type = "linear"
  BY <1>1 DEF Linear
<1>3. L \in Nat /\ L <= Full /\ Full \in Nat
  BY Level, Numbers
<1>4. CASE L < Full
  <2>1. Len(segs) = Below(L) + 1 /\ segs[Below(L) + 1].type = "crypt"
    BY <1>4 DEF CleanSegs, DoneSeg, Seg
  <2>2. QED
    BY <1>1, <1>2, <1>4, <2>1
<1>5. CASE L = Full
  <2>1. Len(segs) = Below(L)
    BY <1>3, <1>5 DEF CleanSegs
  <2>2. QED
    BY <1>1, <1>2, <1>3, <1>5, <2>1
<1>6. QED
  BY <1>3, <1>4, <1>5

(* A step cuts the hotzone from the segments between two steps.            *)
LEMMA MakeHot ==
    ASSUME world \in Worlds, NEW L \in Levels, L # 0, NEW segs, CleanSegs(segs, L),
           NEW r, r.offset = ZoneStart(L), r.length = L - ZoneStart(L)
    PROVE  HotZoneSegs(HotSegs(segs, r), L)
<1> DEFINE o == ZoneStart(L)
           sg == CHOOSE k \in Linear(segs) : \A j \in Linear(segs) : j <= k
           cs == {k \in DOMAIN segs : segs[k].type = "crypt"}
           a == SubSeq(segs, 1, sg - 1)
           b == IF segs[sg].size > r.length THEN <<[segs[sg] EXCEPT !.size = @ - r.length]>> ELSE <<>>
           c == <<Seg("hot", Shift + r.offset, r.length)>>
           d == IF cs = {} THEN <<>> ELSE <<segs[CHOOSE k \in cs : \A j \in cs : k <= j]>>
           t == HotSegs(segs, r)
<1>1. t = ((a \o b) \o c) \o d
  BY DEF HotSegs
<1> HIDE DEF o, sg, cs, a, b, c, d, t
<1>0. /\ L \in Nat /\ o \in Nat /\ o \in Levels /\ Shift <= L /\ L <= Full /\ o < L /\ L - o <= Shift
      /\ o = 0 => L = Shift
      /\ o # 0 => Shift <= o /\ Shift < L
  BY Zones DEF o
<1>2. sg = Below(L) /\ Below(L) \in {1, 2}
  <2>1. Below(L) \in {1, 2}
    BY DEF Below
  <2>2. Linear(segs) = 1..Below(L)
    BY CleanShape
  <2>3. \A k \in Linear(segs) : (\A j \in Linear(segs) : j <= k) => k = Below(L)
    BY <2>1, <2>2
  <2>4. Below(L) \in Linear(segs) /\ \A j \in Linear(segs) : j <= Below(L)
    BY <2>1, <2>2
  <2>5. QED
    BY <2>1, <2>3, <2>4 DEF sg
<1>3. segs \in Seq(Segment) /\ segs[1] = MovedSeg /\ Len(segs) >= Below(L) /\ (Below(L) = 2 => segs[2] = LeftSeg(L))
  BY <1>0, <1>2, Numbers DEF CleanSegs, Below
<1>4. a \in Seq(Segment) /\ Len(a) = Below(L) - 1 /\ (Below(L) = 2 => a[1] = MovedSeg)
  <2>1. \A i \in 1..(Below(L) - 1) : segs[i] \in Segment
    BY <1>2, <1>3
  <2>2. QED
    <3>1. Below(L) - 1 \in Int /\ a = SubSeq(segs, 1, Below(L) - 1)
      BY <1>2 DEF a
    <3>2. /\ a \in Seq(Segment)
          /\ Len(a) = IF 1 <= Below(L) - 1 THEN Below(L) - 1 - 1 + 1 ELSE 0
          /\ \A i \in 1..(Below(L) - 1 - 1 + 1) : a[i] = segs[1 + i - 1]
      BY <2>1, <3>1, SubSeqProperties
    <3>3. QED
      <4>1. CASE Below(L) = 1
        BY <3>2, <4>1
      <4>2. CASE Below(L) = 2
        BY <1>3, <3>2, <4>2
      <4>3. QED
        BY <1>2, <4>1, <4>2
<1>5. cs = IF L < Full THEN {Below(L) + 1} ELSE {}
  BY CleanCrypt DEF cs
<1>6. d = IF L < Full THEN <<DoneSeg(L)>> ELSE <<>>
  <2>1. CASE L < Full
    <3>1. cs = {Below(L) + 1} /\ segs[Below(L) + 1] = DoneSeg(L)
      BY <1>5, <2>1 DEF CleanSegs
    <3>2. (CHOOSE k \in cs : \A j \in cs : k <= j) = Below(L) + 1
      BY <3>1, <1>2
    <3>3. QED
      <4>1. cs # {}
        BY <3>1
      <4>2. d = <<segs[CHOOSE k \in cs : \A j \in cs : k <= j]>>
        BY <4>1 DEF d
      <4>3. d = <<DoneSeg(L)>>
        BY <3>1, <3>2, <4>2
      <4>4. QED
        BY <2>1, <4>3
  <2>2. CASE ~(L < Full)
    BY <1>5, <2>2 DEF d
  <2>3. QED
    BY <2>1, <2>2
<1>7. DoneSeg(L) \in Segment /\ Seg("hot", Shift + o, L - o) \in Segment
  BY <1>0, Numbers DEF DoneSeg, Seg, Segment
<1>8. d \in Seq(Segment) /\ Len(d) = (IF L < Full THEN 1 ELSE 0) /\ (L < Full => d[1] = DoneSeg(L))
  <2>1. CASE L < Full
    BY <1>6, <1>7, <2>1
  <2>2. CASE ~(L < Full)
    BY <1>6, <2>2
  <2>3. QED
    BY <2>1, <2>2
<1>9. c \in Seq(Segment) /\ Len(c) = 1 /\ c[1] = Seg("hot", Shift + o, L - o)
  BY <1>7 DEF c, o
<1>10. CASE L <= 2 * Shift
  <2>1. o = IF L = Shift THEN 0 ELSE Shift
    BY <1>0, <1>10, Numbers DEF ZoneStart, o
  <2>2. Below(o) = Below(L) - 1
    BY <1>0, <2>1, Numbers DEF Below
  <2>3. segs[sg].size <= r.length /\ segs[sg].size \in Int /\ r.length \in Int
    <3>1. CASE L = Shift
      <4>1. segs[sg] = MovedSeg /\ r.length = Shift
        BY <1>2, <1>3, <3>1, <2>1, Numbers DEF Below, o
      <4>2. QED
        BY <4>1, Numbers DEF MovedSeg, Seg
    <3>2. CASE L # Shift
      <4>1. segs[sg] = LeftSeg(L) /\ r.length = L - Shift
        BY <1>0, <1>2, <1>3, <3>2, <2>1, Numbers DEF Below, o
      <4>2. QED
        <5>1. segs[sg].size = L - Shift
          BY <4>1 DEF LeftSeg, Seg
        <5>2. QED
          BY <1>0, <4>1, <5>1, Numbers
    <3>3. QED
      BY <3>1, <3>2
  <2>4. b = <<>>
    BY <2>3 DEF b
  <2>5. b \in Seq(Segment) /\ Len(b) = 0
    BY <2>4
  <2>6. /\ t \in Seq(Segment) /\ Len(t) = Len(a) + Len(b) + Len(c) + Len(d)
        /\ \A i \in 1..Len(a) : t[i] = a[i]
        /\ \A i \in 1..Len(c) : t[Len(a) + Len(b) + i] = c[i]
        /\ \A i \in 1..Len(d) : t[Len(a) + Len(b) + Len(c) + i] = d[i]
    <3>1. a \in Seq(Segment) /\ b \in Seq(Segment) /\ c \in Seq(Segment) /\ d \in Seq(Segment)
      BY <1>4, <1>8, <1>9, <2>5
    <3>2. /\ t \in Seq(Segment) /\ Len(t) = Len(a) + Len(b) + Len(c) + Len(d)
          /\ \A i \in 1..Len(a) : t[i] = a[i]
          /\ \A i \in 1..Len(b) : t[Len(a) + i] = b[i]
          /\ \A i \in 1..Len(c) : t[Len(a) + Len(b) + i] = c[i]
          /\ \A i \in 1..Len(d) : t[Len(a) + Len(b) + Len(c) + i] = d[i]
      BY <1>1, <3>1, Joined
    <3>3. QED
      BY <3>2
  <2>7. Len(t) = IF L < Full THEN Below(o) + 2 ELSE Below(o) + 1
    BY <2>6, <2>2, <2>5, <1>2, <1>4, <1>8, <1>9
  <2>8. o > 0 => t[1] = MovedSeg
    BY <1>0, <1>2, <1>4, <2>1, <2>2, <2>6, Numbers DEF Below
  <2>9. ~(o > Shift)
    BY <2>1, Numbers
  <2>10. t[Below(o) + 1] = Seg("hot", Shift + o, L - o)
    BY <1>2, <1>4, <1>9, <2>2, <2>5, <2>6
  <2>11. L < Full => t[Below(o) + 2] = DoneSeg(L)
    BY <1>2, <1>4, <1>8, <1>9, <2>2, <2>5, <2>6
  <2>12. QED
    BY <2>6, <2>7, <2>8, <2>9, <2>10, <2>11 DEF HotZoneSegs, t, o
<1>11. CASE L > 2 * Shift
  <2>1. o = L - Shift /\ o > Shift
    BY <1>0, <1>11, Numbers DEF ZoneStart, o
  <2>2. Below(o) = 2 /\ Below(L) = 2
    BY <1>0, <2>1, Numbers DEF Below
  <2>3. segs[sg] = LeftSeg(L) /\ segs[sg].size = L - Shift
    <3>1. segs[sg] = LeftSeg(L)
      BY <1>2, <1>3, <2>2
    <3>2. QED
      BY <3>1 DEF LeftSeg, Seg
  <2>4. b = <<LeftSeg(o)>>
    <3>1. segs[sg].size > r.length
      BY <1>0, <2>1, <2>3, Numbers DEF o
    <3>2. [segs[sg] EXCEPT !.size = @ - r.length] = LeftSeg(o)
      <4>1. (L - Shift) - (L - o) = o - Shift
        BY <1>0, Numbers
      <4>2. QED
        BY <2>3, <4>1 DEF LeftSeg, Seg, o
    <3>3. QED
      BY <3>1, <3>2 DEF b
  <2>5. LeftSeg(o) \in Segment
    BY <1>0, <2>1, Numbers DEF LeftSeg, Seg, Segment
  <2>51. b \in Seq(Segment) /\ Len(b) = 1 /\ b[1] = LeftSeg(o)
    BY <2>4, <2>5
  <2>6. /\ t \in Seq(Segment) /\ Len(t) = Len(a) + Len(b) + Len(c) + Len(d)
        /\ \A i \in 1..Len(a) : t[i] = a[i]
        /\ \A i \in 1..Len(b) : t[Len(a) + i] = b[i]
        /\ \A i \in 1..Len(c) : t[Len(a) + Len(b) + i] = c[i]
        /\ \A i \in 1..Len(d) : t[Len(a) + Len(b) + Len(c) + i] = d[i]
    <3>1. a \in Seq(Segment) /\ b \in Seq(Segment) /\ c \in Seq(Segment) /\ d \in Seq(Segment)
      BY <1>4, <1>8, <1>9, <2>51
    <3>2. /\ t \in Seq(Segment) /\ Len(t) = Len(a) + Len(b) + Len(c) + Len(d)
          /\ \A i \in 1..Len(a) : t[i] = a[i]
          /\ \A i \in 1..Len(b) : t[Len(a) + i] = b[i]
          /\ \A i \in 1..Len(c) : t[Len(a) + Len(b) + i] = c[i]
          /\ \A i \in 1..Len(d) : t[Len(a) + Len(b) + Len(c) + i] = d[i]
      BY <1>1, <3>1, Joined
    <3>3. QED
      BY <3>2
  <2>61. Len(a) = 1 /\ a[1] = MovedSeg /\ Len(b) = 1 /\ Len(c) = 1
    BY <1>4, <1>9, <2>2, <2>51
  <2>7. Len(t) = IF L < Full THEN 4 ELSE 3
    BY <2>6, <2>61, <1>8
  <2>8. t[1] = MovedSeg
    BY <2>6, <2>61
  <2>9. t[2] = LeftSeg(o)
    BY <2>6, <2>61, <2>51
  <2>10. t[3] = Seg("hot", Shift + o, L - o)
    BY <2>6, <2>61, <1>9
  <2>11. L < Full => t[4] = DoneSeg(L)
    BY <1>8, <2>6, <2>61
  <2>12. QED
    <3>1. Len(t) = IF L < Full THEN Below(o) + 2 ELSE Below(o) + 1
      BY <2>2, <2>7
    <3>2. t[Below(o) + 1] = Seg("hot", Shift + o, L - o) /\ (L < Full => t[Below(o) + 2] = DoneSeg(L))
      BY <2>2, <2>10, <2>11
    <3>3. QED
      BY <2>6, <2>8, <2>9, <3>1, <3>2 DEF HotZoneSegs, t, o
<1>12. QED
  BY <1>0, <1>10, <1>11, Numbers

(* A hotzone that is written joins what is encrypted.                      *)
LEMMA MakePost ==
    ASSUME world \in Worlds, NEW L \in Levels, NEW segs, HotZoneSegs(segs, L),
           NEW r, r.offset = ZoneStart(L), r.length = L - ZoneStart(L)
    PROVE  CleanSegs(PostSegs(segs, r), ZoneStart(L))
<1> DEFINE o == ZoneStart(L)
           k == TheHot(segs)
           size == r.length + IF k < Len(segs) THEN segs[k + 1].size ELSE 0
           a == SubSeq(segs, 1, k - 1)
           last == Seg("crypt", Shift + r.offset, IF k > 1 THEN size ELSE 0)
           t == PostSegs(segs, r)
<1>1. t = a \o <<last>>
  BY DEF PostSegs
<1> HIDE DEF o, k, size, a, last, t
<1>0. /\ L \in Nat /\ o \in Nat /\ Shift <= L /\ L <= Full /\ o < L /\ L - o <= Shift
      /\ o = 0 => L = Shift
      /\ o # 0 => Shift <= o /\ Shift < L
  BY Zones DEF o, HotZoneSegs
<1>2. k = Below(o) + 1 /\ Below(o) \in {0, 1, 2} /\ segs \in Seq(Segment)
  BY HotShape DEF k, o, Below, HotZoneSegs
<1>3. Len(segs) = (IF L < Full THEN k + 1 ELSE k) /\ (L < Full => segs[k + 1] = DoneSeg(L))
  <2>1. Below(o) + 2 = k + 1
    BY <1>2
  <2>2. QED
    BY <1>2, <2>1 DEF HotZoneSegs, o
<1>4. size = Full - o
  <2>1. CASE L < Full
    <3>1. segs[k + 1].size = Full - L
      BY <1>3, <2>1 DEF DoneSeg, Seg
    <3>2. k < Len(segs)
      BY <1>2, <1>3, <2>1
    <3>3. QED
      BY <1>0, <3>1, <3>2, Numbers DEF size, o
  <2>2. CASE L = Full
    <3>2. ~(k < Len(segs))
      BY <1>2, <1>3, <2>2, Numbers
    <3>3. QED
      BY <1>0, <2>2, <3>2, Numbers DEF size, o
  <2>3. QED
    BY <1>0, <2>1, <2>2, Numbers
<1>5. a \in Seq(Segment) /\ Len(a) = Below(o) /\ \A i \in 1..Below(o) : a[i] = segs[i]
  <2>1. \A i \in 1..(k - 1) : segs[i] \in Segment
    BY <1>2, <1>3
  <2>2. /\ a \in Seq(Segment)
        /\ Len(a) = IF 1 <= k - 1 THEN (k - 1) - 1 + 1 ELSE 0
        /\ \A i \in 1..((k - 1) - 1 + 1) : a[i] = segs[1 + i - 1]
    <3>1. k - 1 \in Int
      BY <1>2
    <3>2. QED
      BY <2>1, <3>1, SubSeqProperties DEF a
  <2>3. QED
    BY <1>2, <2>2
<1>6. CASE o = 0
  <2>1. Below(o) = 0 /\ k = 1
    BY <1>2, <1>6 DEF Below
  <2>2. last = Seg("crypt", Shift, 0) /\ last \in Segment
    BY <1>6, <2>1, Numbers DEF last, Seg, Segment, o
  <2>3. t \in Seq(Segment) /\ Len(t) = 1 /\ t[1] = last
    BY <1>1, <1>5, <2>1, <2>2
  <2>4. QED
    BY <1>6, <2>2, <2>3 DEF CleanSegs, t, o
<1>7. CASE o # 0
  <2>1. Below(o) \in {1, 2} /\ k > 1 /\ o < Full
    BY <1>0, <1>2, <1>7, Numbers DEF Below
  <2>2. last = DoneSeg(o)
    BY <1>4, <2>1 DEF last, DoneSeg, o
  <2>3. last \in Segment
    BY <1>0, <2>1, <2>2, Numbers DEF DoneSeg, Seg, Segment
  <2>4. /\ t \in Seq(Segment) /\ Len(t) = Below(o) + 1 /\ t[Below(o) + 1] = last
        /\ \A i \in 1..Below(o) : t[i] = a[i]
    BY <1>1, <1>5, <2>1, <2>3
  <2>5. t[1] = MovedSeg
    <3>1. segs[1] = MovedSeg
      BY <1>0, <1>7 DEF HotZoneSegs, o
    <3>2. QED
      BY <1>5, <2>1, <2>4, <3>1
  <2>6. o > Shift => t[2] = LeftSeg(o)
    <3>1. SUFFICES ASSUME o > Shift PROVE t[2] = LeftSeg(o)
      OBVIOUS
    <3>2. segs[2] = LeftSeg(o) /\ Below(o) = 2
      BY <1>0, <1>7, <3>1, Numbers DEF HotZoneSegs, o, Below
    <3>3. QED
      BY <1>5, <2>4, <3>2
  <2>7. QED
    BY <1>7, <2>1, <2>2, <2>4, <2>5, <2>6 DEF CleanSegs, t, o
<1>8. QED
  BY <1>6, <1>7

(* Where segments begin.                                                   *)
LEMMA Starts ==
    ASSUME NEW segs,
           \A k \in {1, 2, 3} : k \in DOMAIN segs => segs[k].size \in Nat
    PROVE  /\ SegStart(segs, 1) = 0
           /\ 1 \in DOMAIN segs => SegStart(segs, 2) = segs[1].size
           /\ {1, 2} \subseteq DOMAIN segs => SegStart(segs, 3) = segs[1].size + segs[2].size
           /\ {1, 2, 3} \subseteq DOMAIN segs => SegStart(segs, 4) = segs[1].size + segs[2].size + segs[3].size
<1>1. SegStart(segs, 1) = 0
  BY DEF SegStart, SizeOf
<1>2. ASSUME 1 \in DOMAIN segs PROVE SegStart(segs, 2) = segs[1].size
  <2>1. 1 \in 1..(2 - 1) /\ 2 \notin 1..(2 - 1) /\ 3 \notin 1..(2 - 1) /\ 4 \notin 1..(2 - 1)
    OBVIOUS
  <2>2. SegStart(segs, 2) = segs[1].size + 0 + 0 + 0
    BY <2>1 DEF SegStart, SizeOf
  <2>3. QED
    BY <1>2, <2>2
<1>3. ASSUME {1, 2} \subseteq DOMAIN segs PROVE SegStart(segs, 3) = segs[1].size + segs[2].size
  <2>1. 1 \in 1..(3 - 1) /\ 2 \in 1..(3 - 1) /\ 3 \notin 1..(3 - 1) /\ 4 \notin 1..(3 - 1)
    OBVIOUS
  <2>2. SegStart(segs, 3) = segs[1].size + segs[2].size + 0 + 0
    BY <2>1 DEF SegStart, SizeOf
  <2>3. segs[1].size \in Nat /\ segs[2].size \in Nat
    BY <1>3
  <2>4. QED
    BY <2>2, <2>3
<1>4. ASSUME {1, 2, 3} \subseteq DOMAIN segs
      PROVE  SegStart(segs, 4) = segs[1].size + segs[2].size + segs[3].size
  <2>1. 1 \in 1..(4 - 1) /\ 2 \in 1..(4 - 1) /\ 3 \in 1..(4 - 1) /\ 4 \notin 1..(4 - 1)
    OBVIOUS
  <2>2. SegStart(segs, 4) = segs[1].size + segs[2].size + segs[3].size + 0
    BY <2>1 DEF SegStart, SizeOf
  <2>3. segs[1].size \in Nat /\ segs[2].size \in Nat /\ segs[3].size \in Nat
    BY <1>4
  <2>4. QED
    BY <2>2, <2>3
<1>5. QED
  BY <1>1, <1>2, <1>3, <1>4

(* The segment that a block is found in.                                   *)
Covers(segs, k, x) ==
    SegStart(segs, k) <= x /\ (segs[k].size = 0 \/ x < SegStart(segs, k) + segs[k].size)

(* A block is found with the only segment that covers it.                  *)
LEMMA FoundAt ==
    ASSUME NEW segs, NEW x, NEW k \in DOMAIN segs, Covers(segs, k, x),
           \A j \in DOMAIN segs : Covers(segs, j, x) => j = k,
           CASE segs[k].type = "linear" -> data[segs[k].offset + (x - SegStart(segs, k))] = Plain(x)
             [] segs[k].type = "crypt" -> data[segs[k].offset + (x - SegStart(segs, k))] = Crypt(x, x)
             [] segs[k].type = "hot" -> data[Source(segs, [offset |-> segs[k].offset - Shift])
                                              + (x - SegStart(segs, k))] = Plain(x)
    PROVE  Found(segs, x)
<1>1. (CHOOSE j \in DOMAIN segs : /\ SegStart(segs, j) <= x
                                  /\ segs[j].size = 0 \/ x < SegStart(segs, j) + segs[j].size) = k
  BY DEF Covers
<1>2. QED
  BY <1>1 DEF Found

(* Every block of the user is found with the segments between two          *)
(* hotzones.                                                               *)
LEMMA FoundClean ==
    ASSUME world \in Worlds, NEW L \in Levels, NEW segs, CleanSegs(segs, L), UserData(data, L), NEW x \in Kept
    PROVE  Found(segs, x)
<1>0. L \in Nat /\ (L # 0 => Shift <= L) /\ L <= Full /\ x \in Nat /\ x < Full
  BY Level, Sizes
<1>1. CASE L = 0
  <2>1. Len(segs) = 1 /\ segs \in Seq(Segment)
    BY <1>0, <1>1, Numbers DEF CleanSegs, Below
  <2>2. DOMAIN segs = {1}
    BY <2>1
  <2>3. segs[1] = Seg("crypt", Shift, 0)
    BY <1>0, <1>1, Numbers DEF CleanSegs, Below
  <2>4. segs[1].size = 0
    BY <2>3 DEF Seg, MovedSeg, LeftSeg, DoneSeg
  <2>5. SegStart(segs, 1) = 0
    <3>1. \A k \in {1, 2, 3} : k \in DOMAIN segs => segs[k].size \in Nat
      BY <1>0, <1>1, <2>2, <2>4, Numbers
    <3>2. /\ SegStart(segs, 1) = 0
          /\ 1 \in DOMAIN segs => SegStart(segs, 2) = segs[1].size
          /\ {1, 2} \subseteq DOMAIN segs => SegStart(segs, 3) = segs[1].size + segs[2].size
          /\ {1, 2, 3} \subseteq DOMAIN segs => SegStart(segs, 4) = segs[1].size + segs[2].size + segs[3].size
      BY <3>1, Starts
    <3>3. QED
      BY <1>0, <1>1, <2>2, <2>4, <3>2, Numbers
  <2>6. CASE 0 <= x /\ x < Full
    <3>0. 0 <= x /\ (0 = 0 \/ x < 0 + (0))
      BY <1>0, <1>1, <2>6, Numbers
    <3>1. Covers(segs, 1, x)
      BY <3>0, <2>4, <2>5 DEF Covers
    <3>2. \A j \in DOMAIN segs : Covers(segs, j, x) => j = 1
      BY <1>0, <1>1, <2>6, <2>2, <2>4, <2>5, Numbers DEF Covers
    <3>3. segs[1].type = "crypt" /\ segs[1].offset = Shift
      BY <2>3 DEF Seg, MovedSeg, LeftSeg, DoneSeg
    <3>4. segs[1].offset + (x - SegStart(segs, 1)) = Shift + x
      BY <1>0, <1>1, <2>6, <2>5, <3>3, Numbers
    <3>5. data[segs[1].offset + (x - SegStart(segs, 1))] = Crypt(x, x)
      BY <1>0, <1>1, <2>6, <3>4, Numbers DEF UserData
    <3>6. QED
      BY <2>2, <3>1, <3>2, <3>3, <3>5, FoundAt
  <2>7. QED
    BY <1>0, <1>1, <2>6, Numbers
<1>2. CASE L = Shift /\ L = Full
  <2>1. Len(segs) = 1 /\ segs \in Seq(Segment)
    BY <1>0, <1>2, Numbers DEF CleanSegs, Below
  <2>2. DOMAIN segs = {1}
    BY <2>1
  <2>3. segs[1] = MovedSeg
    BY <1>0, <1>2, Numbers DEF CleanSegs, Below
  <2>4. segs[1].size = Shift
    BY <2>3 DEF Seg, MovedSeg, LeftSeg, DoneSeg
  <2>5. SegStart(segs, 1) = 0
    <3>1. \A k \in {1, 2, 3} : k \in DOMAIN segs => segs[k].size \in Nat
      BY <1>0, <1>2, <2>2, <2>4, Numbers
    <3>2. /\ SegStart(segs, 1) = 0
          /\ 1 \in DOMAIN segs => SegStart(segs, 2) = segs[1].size
          /\ {1, 2} \subseteq DOMAIN segs => SegStart(segs, 3) = segs[1].size + segs[2].size
          /\ {1, 2, 3} \subseteq DOMAIN segs => SegStart(segs, 4) = segs[1].size + segs[2].size + segs[3].size
      BY <3>1, Starts
    <3>3. QED
      BY <1>0, <1>2, <2>2, <2>4, <3>2, Numbers
  <2>6. CASE 0 <= x /\ x < Shift
    <3>0. 0 <= x /\ (Shift = 0 \/ x < 0 + (Shift))
      BY <1>0, <1>2, <2>6, Numbers
    <3>1. Covers(segs, 1, x)
      BY <3>0, <2>4, <2>5 DEF Covers
    <3>2. \A j \in DOMAIN segs : Covers(segs, j, x) => j = 1
      BY <1>0, <1>2, <2>6, <2>2, <2>4, <2>5, Numbers DEF Covers
    <3>3. segs[1].type = "linear" /\ segs[1].offset = dev_size
      BY <2>3 DEF Seg, MovedSeg, LeftSeg, DoneSeg
    <3>4. segs[1].offset + (x - SegStart(segs, 1)) = dev_size + x
      BY <1>0, <1>2, <2>6, <2>5, <3>3, Numbers
    <3>5. data[segs[1].offset + (x - SegStart(segs, 1))] = Plain(x)
      BY <1>0, <1>2, <2>6, <3>4, Numbers DEF UserData
    <3>6. QED
      BY <2>2, <3>1, <3>2, <3>3, <3>5, FoundAt
  <2>7. QED
    BY <1>0, <1>2, <2>6, Numbers
<1>3. CASE L = Shift /\ L < Full
  <2>1. Len(segs) = 2 /\ segs \in Seq(Segment)
    BY <1>0, <1>3, Numbers DEF CleanSegs, Below
  <2>2. DOMAIN segs = {1, 2}
    BY <2>1
  <2>3. segs[1] = MovedSeg /\ segs[2] = DoneSeg(L)
    BY <1>0, <1>3, Numbers DEF CleanSegs, Below
  <2>4. segs[1].size = Shift /\ segs[2].size = Full - L
    BY <2>3 DEF Seg, MovedSeg, LeftSeg, DoneSeg
  <2>5. SegStart(segs, 1) = 0 /\ SegStart(segs, 2) = L
    <3>1. \A k \in {1, 2, 3} : k \in DOMAIN segs => segs[k].size \in Nat
      BY <1>0, <1>3, <2>2, <2>4, Numbers
    <3>2. /\ SegStart(segs, 1) = 0
          /\ 1 \in DOMAIN segs => SegStart(segs, 2) = segs[1].size
          /\ {1, 2} \subseteq DOMAIN segs => SegStart(segs, 3) = segs[1].size + segs[2].size
          /\ {1, 2, 3} \subseteq DOMAIN segs => SegStart(segs, 4) = segs[1].size + segs[2].size + segs[3].size
      BY <3>1, Starts
    <3>3. QED
      BY <1>0, <1>3, <2>2, <2>4, <3>2, Numbers
  <2>6. CASE 0 <= x /\ x < Shift
    <3>0. 0 <= x /\ (Shift = 0 \/ x < 0 + (Shift))
      BY <1>0, <1>3, <2>6, Numbers
    <3>1. Covers(segs, 1, x)
      BY <3>0, <2>4, <2>5 DEF Covers
    <3>2. \A j \in DOMAIN segs : Covers(segs, j, x) => j = 1
      BY <1>0, <1>3, <2>6, <2>2, <2>4, <2>5, Numbers DEF Covers
    <3>3. segs[1].type = "linear" /\ segs[1].offset = dev_size
      BY <2>3 DEF Seg, MovedSeg, LeftSeg, DoneSeg
    <3>4. segs[1].offset + (x - SegStart(segs, 1)) = dev_size + x
      BY <1>0, <1>3, <2>6, <2>5, <3>3, Numbers
    <3>5. data[segs[1].offset + (x - SegStart(segs, 1))] = Plain(x)
      BY <1>0, <1>3, <2>6, <3>4, Numbers DEF UserData
    <3>6. QED
      BY <2>2, <3>1, <3>2, <3>3, <3>5, FoundAt
  <2>7. CASE L <= x /\ x < Full
    <3>0. L <= x /\ (Full - L = 0 \/ x < L + (Full - L))
      BY <1>0, <1>3, <2>7, Numbers
    <3>1. Covers(segs, 2, x)
      BY <3>0, <2>4, <2>5 DEF Covers
    <3>2. \A j \in DOMAIN segs : Covers(segs, j, x) => j = 2
      BY <1>0, <1>3, <2>7, <2>2, <2>4, <2>5, Numbers DEF Covers
    <3>3. segs[2].type = "crypt" /\ segs[2].offset = Shift + L
      BY <2>3 DEF Seg, MovedSeg, LeftSeg, DoneSeg
    <3>4. segs[2].offset + (x - SegStart(segs, 2)) = Shift + x
      BY <1>0, <1>3, <2>7, <2>5, <3>3, Numbers
    <3>5. data[segs[2].offset + (x - SegStart(segs, 2))] = Crypt(x, x)
      BY <1>0, <1>3, <2>7, <3>4, Numbers DEF UserData
    <3>6. QED
      BY <2>2, <3>1, <3>2, <3>3, <3>5, FoundAt
  <2>8. QED
    BY <1>0, <1>3, <2>6, <2>7, Numbers
<1>4. CASE L > Shift /\ L = Full
  <2>1. Len(segs) = 2 /\ segs \in Seq(Segment)
    BY <1>0, <1>4, Numbers DEF CleanSegs, Below
  <2>2. DOMAIN segs = {1, 2}
    BY <2>1
  <2>3. segs[1] = MovedSeg /\ segs[2] = LeftSeg(L)
    BY <1>0, <1>4, Numbers DEF CleanSegs, Below
  <2>4. segs[1].size = Shift /\ segs[2].size = L - Shift
    BY <2>3 DEF Seg, MovedSeg, LeftSeg, DoneSeg
  <2>5. SegStart(segs, 1) = 0 /\ SegStart(segs, 2) = Shift
    <3>1. \A k \in {1, 2, 3} : k \in DOMAIN segs => segs[k].size \in Nat
      BY <1>0, <1>4, <2>2, <2>4, Numbers
    <3>2. /\ SegStart(segs, 1) = 0
          /\ 1 \in DOMAIN segs => SegStart(segs, 2) = segs[1].size
          /\ {1, 2} \subseteq DOMAIN segs => SegStart(segs, 3) = segs[1].size + segs[2].size
          /\ {1, 2, 3} \subseteq DOMAIN segs => SegStart(segs, 4) = segs[1].size + segs[2].size + segs[3].size
      BY <3>1, Starts
    <3>3. QED
      BY <1>0, <1>4, <2>2, <2>4, <3>2, Numbers
  <2>6. CASE 0 <= x /\ x < Shift
    <3>0. 0 <= x /\ (Shift = 0 \/ x < 0 + (Shift))
      BY <1>0, <1>4, <2>6, Numbers
    <3>1. Covers(segs, 1, x)
      BY <3>0, <2>4, <2>5 DEF Covers
    <3>2. \A j \in DOMAIN segs : Covers(segs, j, x) => j = 1
      BY <1>0, <1>4, <2>6, <2>2, <2>4, <2>5, Numbers DEF Covers
    <3>3. segs[1].type = "linear" /\ segs[1].offset = dev_size
      BY <2>3 DEF Seg, MovedSeg, LeftSeg, DoneSeg
    <3>4. segs[1].offset + (x - SegStart(segs, 1)) = dev_size + x
      BY <1>0, <1>4, <2>6, <2>5, <3>3, Numbers
    <3>5. data[segs[1].offset + (x - SegStart(segs, 1))] = Plain(x)
      BY <1>0, <1>4, <2>6, <3>4, Numbers DEF UserData
    <3>6. QED
      BY <2>2, <3>1, <3>2, <3>3, <3>5, FoundAt
  <2>7. CASE Shift <= x /\ x < L
    <3>0. Shift <= x /\ (L - Shift = 0 \/ x < Shift + (L - Shift))
      BY <1>0, <1>4, <2>7, Numbers
    <3>1. Covers(segs, 2, x)
      BY <3>0, <2>4, <2>5 DEF Covers
    <3>2. \A j \in DOMAIN segs : Covers(segs, j, x) => j = 2
      BY <1>0, <1>4, <2>7, <2>2, <2>4, <2>5, Numbers DEF Covers
    <3>3. segs[2].type = "linear" /\ segs[2].offset = Shift
      BY <2>3 DEF Seg, MovedSeg, LeftSeg, DoneSeg
    <3>4. segs[2].offset + (x - SegStart(segs, 2)) = x
      BY <1>0, <1>4, <2>7, <2>5, <3>3, Numbers
    <3>5. data[segs[2].offset + (x - SegStart(segs, 2))] = Plain(x)
      BY <1>0, <1>4, <2>7, <3>4, Numbers DEF UserData
    <3>6. QED
      BY <2>2, <3>1, <3>2, <3>3, <3>5, FoundAt
  <2>8. QED
    BY <1>0, <1>4, <2>6, <2>7, Numbers
<1>5. CASE L > Shift /\ L < Full
  <2>1. Len(segs) = 3 /\ segs \in Seq(Segment)
    BY <1>0, <1>5, Numbers DEF CleanSegs, Below
  <2>2. DOMAIN segs = {1, 2, 3}
    BY <2>1
  <2>3. segs[1] = MovedSeg /\ segs[2] = LeftSeg(L) /\ segs[3] = DoneSeg(L)
    BY <1>0, <1>5, Numbers DEF CleanSegs, Below
  <2>4. segs[1].size = Shift /\ segs[2].size = L - Shift /\ segs[3].size = Full - L
    BY <2>3 DEF Seg, MovedSeg, LeftSeg, DoneSeg
  <2>5. SegStart(segs, 1) = 0 /\ SegStart(segs, 2) = Shift /\ SegStart(segs, 3) = L
    <3>1. \A k \in {1, 2, 3} : k \in DOMAIN segs => segs[k].size \in Nat
      BY <1>0, <1>5, <2>2, <2>4, Numbers
    <3>2. /\ SegStart(segs, 1) = 0
          /\ 1 \in DOMAIN segs => SegStart(segs, 2) = segs[1].size
          /\ {1, 2} \subseteq DOMAIN segs => SegStart(segs, 3) = segs[1].size + segs[2].size
          /\ {1, 2, 3} \subseteq DOMAIN segs => SegStart(segs, 4) = segs[1].size + segs[2].size + segs[3].size
      BY <3>1, Starts
    <3>3. QED
      BY <1>0, <1>5, <2>2, <2>4, <3>2, Numbers
  <2>6. CASE 0 <= x /\ x < Shift
    <3>0. 0 <= x /\ (Shift = 0 \/ x < 0 + (Shift))
      BY <1>0, <1>5, <2>6, Numbers
    <3>1. Covers(segs, 1, x)
      BY <3>0, <2>4, <2>5 DEF Covers
    <3>2. \A j \in DOMAIN segs : Covers(segs, j, x) => j = 1
      BY <1>0, <1>5, <2>6, <2>2, <2>4, <2>5, Numbers DEF Covers
    <3>3. segs[1].type = "linear" /\ segs[1].offset = dev_size
      BY <2>3 DEF Seg, MovedSeg, LeftSeg, DoneSeg
    <3>4. segs[1].offset + (x - SegStart(segs, 1)) = dev_size + x
      BY <1>0, <1>5, <2>6, <2>5, <3>3, Numbers
    <3>5. data[segs[1].offset + (x - SegStart(segs, 1))] = Plain(x)
      BY <1>0, <1>5, <2>6, <3>4, Numbers DEF UserData
    <3>6. QED
      BY <2>2, <3>1, <3>2, <3>3, <3>5, FoundAt
  <2>7. CASE Shift <= x /\ x < L
    <3>0. Shift <= x /\ (L - Shift = 0 \/ x < Shift + (L - Shift))
      BY <1>0, <1>5, <2>7, Numbers
    <3>1. Covers(segs, 2, x)
      BY <3>0, <2>4, <2>5 DEF Covers
    <3>2. \A j \in DOMAIN segs : Covers(segs, j, x) => j = 2
      BY <1>0, <1>5, <2>7, <2>2, <2>4, <2>5, Numbers DEF Covers
    <3>3. segs[2].type = "linear" /\ segs[2].offset = Shift
      BY <2>3 DEF Seg, MovedSeg, LeftSeg, DoneSeg
    <3>4. segs[2].offset + (x - SegStart(segs, 2)) = x
      BY <1>0, <1>5, <2>7, <2>5, <3>3, Numbers
    <3>5. data[segs[2].offset + (x - SegStart(segs, 2))] = Plain(x)
      BY <1>0, <1>5, <2>7, <3>4, Numbers DEF UserData
    <3>6. QED
      BY <2>2, <3>1, <3>2, <3>3, <3>5, FoundAt
  <2>8. CASE L <= x /\ x < Full
    <3>0. L <= x /\ (Full - L = 0 \/ x < L + (Full - L))
      BY <1>0, <1>5, <2>8, Numbers
    <3>1. Covers(segs, 3, x)
      BY <3>0, <2>4, <2>5 DEF Covers
    <3>2. \A j \in DOMAIN segs : Covers(segs, j, x) => j = 3
      BY <1>0, <1>5, <2>8, <2>2, <2>4, <2>5, Numbers DEF Covers
    <3>3. segs[3].type = "crypt" /\ segs[3].offset = Shift + L
      BY <2>3 DEF Seg, MovedSeg, LeftSeg, DoneSeg
    <3>4. segs[3].offset + (x - SegStart(segs, 3)) = Shift + x
      BY <1>0, <1>5, <2>8, <2>5, <3>3, Numbers
    <3>5. data[segs[3].offset + (x - SegStart(segs, 3))] = Crypt(x, x)
      BY <1>0, <1>5, <2>8, <3>4, Numbers DEF UserData
    <3>6. QED
      BY <2>2, <3>1, <3>2, <3>3, <3>5, FoundAt
  <2>9. QED
    BY <1>0, <1>5, <2>6, <2>7, <2>8, Numbers
<1>6. QED
  BY <1>0, <1>1, <1>2, <1>3, <1>4, <1>5, Numbers

(* And with those of a hotzone, which is read from its source again,       *)
(* whatever has become of the hotzone itself.                              *)
LEMMA FoundHot ==
    ASSUME world \in Worlds, NEW L \in Levels, NEW segs, HotZoneSegs(segs, L), UserData(data, L), NEW x \in Kept
    PROVE  Found(segs, x)
<1> DEFINE o == ZoneStart(L)
           hot == Seg("hot", Shift + o, L - o)
<1>0. /\ L \in Nat /\ o \in Nat /\ Shift <= L /\ L <= Full /\ o < L /\ L - o <= Shift
      /\ o = 0 => L = Shift
      /\ o # 0 => Shift <= o
      /\ x \in Nat /\ x < Full
  <2>1. L # 0
    BY DEF HotZoneSegs
  <2>2. /\ L \in Nat /\ o \in Nat /\ Shift <= L /\ L <= Full /\ o < L /\ L - o <= Shift
        /\ o = 0 => L = Shift
        /\ o # 0 => Shift <= o
    BY <2>1, Zones
  <2>3. x \in Nat /\ x < Full
    BY Sizes
  <2>4. QED
    BY <2>2, <2>3
<1> HIDE DEF o
<1>1. CASE o = 0 /\ L = Full
  <2>1. Len(segs) = 1 /\ segs \in Seq(Segment)
    BY <1>0, <1>1, Numbers DEF HotZoneSegs, Below, o
  <2>2. DOMAIN segs = {1}
    BY <2>1
  <2>3. segs[1] = hot
    BY <1>0, <1>1, Numbers DEF HotZoneSegs, Below, o
  <2>4. segs[1].size = L - o
    BY <2>3 DEF Seg, MovedSeg, LeftSeg, DoneSeg
  <2>5. SegStart(segs, 1) = o
    <3>1. \A k \in {1, 2, 3} : k \in DOMAIN segs => segs[k].size \in Nat
      BY <1>0, <1>1, <2>2, <2>4, Numbers
    <3>2. /\ SegStart(segs, 1) = 0
          /\ 1 \in DOMAIN segs => SegStart(segs, 2) = segs[1].size
          /\ {1, 2} \subseteq DOMAIN segs => SegStart(segs, 3) = segs[1].size + segs[2].size
          /\ {1, 2, 3} \subseteq DOMAIN segs => SegStart(segs, 4) = segs[1].size + segs[2].size + segs[3].size
      BY <3>1, Starts
    <3>3. QED
      BY <1>0, <1>1, <2>2, <2>4, <3>2, Numbers
  <2>6. CASE o <= x /\ x < L
    <3>0. o <= x /\ (L - o = 0 \/ x < o + (L - o))
      BY <1>0, <1>1, <2>6, Numbers
    <3>1. Covers(segs, 1, x)
      BY <3>0, <2>4, <2>5 DEF Covers
    <3>2. \A j \in DOMAIN segs : Covers(segs, j, x) => j = 1
      BY <1>0, <1>1, <2>6, <2>2, <2>4, <2>5, Numbers DEF Covers
    <3>3. segs[1].type = "hot" /\ segs[1].offset = Shift + o
      BY <2>3 DEF Seg, MovedSeg, LeftSeg, DoneSeg
    <3>31. (Shift + o) - Shift = o
      BY <1>0, Numbers
    <3>32. Source(segs, [offset |-> segs[1].offset - Shift]) = IF o = 0 THEN dev_size ELSE o
      BY <3>3, <3>31 DEF Source
    <3>4. Source(segs, [offset |-> segs[1].offset - Shift]) + (x - SegStart(segs, 1)) = (IF x < Shift THEN dev_size + x ELSE x)
      BY <1>0, <1>1, <2>6, <2>5, <3>32, Numbers
    <3>5. data[Source(segs, [offset |-> segs[1].offset - Shift]) + (x - SegStart(segs, 1))] = Plain(x)
      BY <1>0, <1>1, <2>6, <3>4, Numbers DEF UserData
    <3>6. QED
      BY <2>2, <3>1, <3>2, <3>3, <3>5, FoundAt
  <2>7. QED
    BY <1>0, <1>1, <2>6, Numbers
<1>2. CASE o = 0 /\ L < Full
  <2>1. Len(segs) = 2 /\ segs \in Seq(Segment)
    BY <1>0, <1>2, Numbers DEF HotZoneSegs, Below, o
  <2>2. DOMAIN segs = {1, 2}
    BY <2>1
  <2>3. segs[1] = hot /\ segs[2] = DoneSeg(L)
    BY <1>0, <1>2, Numbers DEF HotZoneSegs, Below, o
  <2>4. segs[1].size = L - o /\ segs[2].size = Full - L
    BY <2>3 DEF Seg, MovedSeg, LeftSeg, DoneSeg
  <2>5. SegStart(segs, 1) = o /\ SegStart(segs, 2) = L
    <3>1. \A k \in {1, 2, 3} : k \in DOMAIN segs => segs[k].size \in Nat
      BY <1>0, <1>2, <2>2, <2>4, Numbers
    <3>2. /\ SegStart(segs, 1) = 0
          /\ 1 \in DOMAIN segs => SegStart(segs, 2) = segs[1].size
          /\ {1, 2} \subseteq DOMAIN segs => SegStart(segs, 3) = segs[1].size + segs[2].size
          /\ {1, 2, 3} \subseteq DOMAIN segs => SegStart(segs, 4) = segs[1].size + segs[2].size + segs[3].size
      BY <3>1, Starts
    <3>3. QED
      BY <1>0, <1>2, <2>2, <2>4, <3>2, Numbers
  <2>6. CASE o <= x /\ x < L
    <3>0. o <= x /\ (L - o = 0 \/ x < o + (L - o))
      BY <1>0, <1>2, <2>6, Numbers
    <3>1. Covers(segs, 1, x)
      BY <3>0, <2>4, <2>5 DEF Covers
    <3>2. \A j \in DOMAIN segs : Covers(segs, j, x) => j = 1
      BY <1>0, <1>2, <2>6, <2>2, <2>4, <2>5, Numbers DEF Covers
    <3>3. segs[1].type = "hot" /\ segs[1].offset = Shift + o
      BY <2>3 DEF Seg, MovedSeg, LeftSeg, DoneSeg
    <3>31. (Shift + o) - Shift = o
      BY <1>0, Numbers
    <3>32. Source(segs, [offset |-> segs[1].offset - Shift]) = IF o = 0 THEN dev_size ELSE o
      BY <3>3, <3>31 DEF Source
    <3>4. Source(segs, [offset |-> segs[1].offset - Shift]) + (x - SegStart(segs, 1)) = (IF x < Shift THEN dev_size + x ELSE x)
      BY <1>0, <1>2, <2>6, <2>5, <3>32, Numbers
    <3>5. data[Source(segs, [offset |-> segs[1].offset - Shift]) + (x - SegStart(segs, 1))] = Plain(x)
      BY <1>0, <1>2, <2>6, <3>4, Numbers DEF UserData
    <3>6. QED
      BY <2>2, <3>1, <3>2, <3>3, <3>5, FoundAt
  <2>7. CASE L <= x /\ x < Full
    <3>0. L <= x /\ (Full - L = 0 \/ x < L + (Full - L))
      BY <1>0, <1>2, <2>7, Numbers
    <3>1. Covers(segs, 2, x)
      BY <3>0, <2>4, <2>5 DEF Covers
    <3>2. \A j \in DOMAIN segs : Covers(segs, j, x) => j = 2
      BY <1>0, <1>2, <2>7, <2>2, <2>4, <2>5, Numbers DEF Covers
    <3>3. segs[2].type = "crypt" /\ segs[2].offset = Shift + L
      BY <2>3 DEF Seg, MovedSeg, LeftSeg, DoneSeg
    <3>4. segs[2].offset + (x - SegStart(segs, 2)) = Shift + x
      BY <1>0, <1>2, <2>7, <2>5, <3>3, Numbers
    <3>5. data[segs[2].offset + (x - SegStart(segs, 2))] = Crypt(x, x)
      BY <1>0, <1>2, <2>7, <3>4, Numbers DEF UserData
    <3>6. QED
      BY <2>2, <3>1, <3>2, <3>3, <3>5, FoundAt
  <2>8. QED
    BY <1>0, <1>2, <2>6, <2>7, Numbers
<1>3. CASE o = Shift /\ L = Full
  <2>1. Len(segs) = 2 /\ segs \in Seq(Segment)
    BY <1>0, <1>3, Numbers DEF HotZoneSegs, Below, o
  <2>2. DOMAIN segs = {1, 2}
    BY <2>1
  <2>3. segs[1] = MovedSeg /\ segs[2] = hot
    BY <1>0, <1>3, Numbers DEF HotZoneSegs, Below, o
  <2>4. segs[1].size = Shift /\ segs[2].size = L - o
    BY <2>3 DEF Seg, MovedSeg, LeftSeg, DoneSeg
  <2>5. SegStart(segs, 1) = 0 /\ SegStart(segs, 2) = o
    <3>1. \A k \in {1, 2, 3} : k \in DOMAIN segs => segs[k].size \in Nat
      BY <1>0, <1>3, <2>2, <2>4, Numbers
    <3>2. /\ SegStart(segs, 1) = 0
          /\ 1 \in DOMAIN segs => SegStart(segs, 2) = segs[1].size
          /\ {1, 2} \subseteq DOMAIN segs => SegStart(segs, 3) = segs[1].size + segs[2].size
          /\ {1, 2, 3} \subseteq DOMAIN segs => SegStart(segs, 4) = segs[1].size + segs[2].size + segs[3].size
      BY <3>1, Starts
    <3>3. QED
      BY <1>0, <1>3, <2>2, <2>4, <3>2, Numbers
  <2>6. CASE 0 <= x /\ x < Shift
    <3>0. 0 <= x /\ (Shift = 0 \/ x < 0 + (Shift))
      BY <1>0, <1>3, <2>6, Numbers
    <3>1. Covers(segs, 1, x)
      BY <3>0, <2>4, <2>5 DEF Covers
    <3>2. \A j \in DOMAIN segs : Covers(segs, j, x) => j = 1
      BY <1>0, <1>3, <2>6, <2>2, <2>4, <2>5, Numbers DEF Covers
    <3>3. segs[1].type = "linear" /\ segs[1].offset = dev_size
      BY <2>3 DEF Seg, MovedSeg, LeftSeg, DoneSeg
    <3>4. segs[1].offset + (x - SegStart(segs, 1)) = dev_size + x
      BY <1>0, <1>3, <2>6, <2>5, <3>3, Numbers
    <3>5. data[segs[1].offset + (x - SegStart(segs, 1))] = Plain(x)
      BY <1>0, <1>3, <2>6, <3>4, Numbers DEF UserData
    <3>6. QED
      BY <2>2, <3>1, <3>2, <3>3, <3>5, FoundAt
  <2>7. CASE o <= x /\ x < L
    <3>0. o <= x /\ (L - o = 0 \/ x < o + (L - o))
      BY <1>0, <1>3, <2>7, Numbers
    <3>1. Covers(segs, 2, x)
      BY <3>0, <2>4, <2>5 DEF Covers
    <3>2. \A j \in DOMAIN segs : Covers(segs, j, x) => j = 2
      BY <1>0, <1>3, <2>7, <2>2, <2>4, <2>5, Numbers DEF Covers
    <3>3. segs[2].type = "hot" /\ segs[2].offset = Shift + o
      BY <2>3 DEF Seg, MovedSeg, LeftSeg, DoneSeg
    <3>31. (Shift + o) - Shift = o
      BY <1>0, Numbers
    <3>32. Source(segs, [offset |-> segs[2].offset - Shift]) = IF o = 0 THEN dev_size ELSE o
      BY <3>3, <3>31 DEF Source
    <3>4. Source(segs, [offset |-> segs[2].offset - Shift]) + (x - SegStart(segs, 2)) = (IF x < Shift THEN dev_size + x ELSE x)
      BY <1>0, <1>3, <2>7, <2>5, <3>32, Numbers
    <3>5. data[Source(segs, [offset |-> segs[2].offset - Shift]) + (x - SegStart(segs, 2))] = Plain(x)
      BY <1>0, <1>3, <2>7, <3>4, Numbers DEF UserData
    <3>6. QED
      BY <2>2, <3>1, <3>2, <3>3, <3>5, FoundAt
  <2>8. QED
    BY <1>0, <1>3, <2>6, <2>7, Numbers
<1>4. CASE o = Shift /\ L < Full
  <2>1. Len(segs) = 3 /\ segs \in Seq(Segment)
    BY <1>0, <1>4, Numbers DEF HotZoneSegs, Below, o
  <2>2. DOMAIN segs = {1, 2, 3}
    BY <2>1
  <2>3. segs[1] = MovedSeg /\ segs[2] = hot /\ segs[3] = DoneSeg(L)
    BY <1>0, <1>4, Numbers DEF HotZoneSegs, Below, o
  <2>4. segs[1].size = Shift /\ segs[2].size = L - o /\ segs[3].size = Full - L
    BY <2>3 DEF Seg, MovedSeg, LeftSeg, DoneSeg
  <2>5. SegStart(segs, 1) = 0 /\ SegStart(segs, 2) = o /\ SegStart(segs, 3) = L
    <3>1. \A k \in {1, 2, 3} : k \in DOMAIN segs => segs[k].size \in Nat
      BY <1>0, <1>4, <2>2, <2>4, Numbers
    <3>2. /\ SegStart(segs, 1) = 0
          /\ 1 \in DOMAIN segs => SegStart(segs, 2) = segs[1].size
          /\ {1, 2} \subseteq DOMAIN segs => SegStart(segs, 3) = segs[1].size + segs[2].size
          /\ {1, 2, 3} \subseteq DOMAIN segs => SegStart(segs, 4) = segs[1].size + segs[2].size + segs[3].size
      BY <3>1, Starts
    <3>3. QED
      BY <1>0, <1>4, <2>2, <2>4, <3>2, Numbers
  <2>6. CASE 0 <= x /\ x < Shift
    <3>0. 0 <= x /\ (Shift = 0 \/ x < 0 + (Shift))
      BY <1>0, <1>4, <2>6, Numbers
    <3>1. Covers(segs, 1, x)
      BY <3>0, <2>4, <2>5 DEF Covers
    <3>2. \A j \in DOMAIN segs : Covers(segs, j, x) => j = 1
      BY <1>0, <1>4, <2>6, <2>2, <2>4, <2>5, Numbers DEF Covers
    <3>3. segs[1].type = "linear" /\ segs[1].offset = dev_size
      BY <2>3 DEF Seg, MovedSeg, LeftSeg, DoneSeg
    <3>4. segs[1].offset + (x - SegStart(segs, 1)) = dev_size + x
      BY <1>0, <1>4, <2>6, <2>5, <3>3, Numbers
    <3>5. data[segs[1].offset + (x - SegStart(segs, 1))] = Plain(x)
      BY <1>0, <1>4, <2>6, <3>4, Numbers DEF UserData
    <3>6. QED
      BY <2>2, <3>1, <3>2, <3>3, <3>5, FoundAt
  <2>7. CASE o <= x /\ x < L
    <3>0. o <= x /\ (L - o = 0 \/ x < o + (L - o))
      BY <1>0, <1>4, <2>7, Numbers
    <3>1. Covers(segs, 2, x)
      BY <3>0, <2>4, <2>5 DEF Covers
    <3>2. \A j \in DOMAIN segs : Covers(segs, j, x) => j = 2
      BY <1>0, <1>4, <2>7, <2>2, <2>4, <2>5, Numbers DEF Covers
    <3>3. segs[2].type = "hot" /\ segs[2].offset = Shift + o
      BY <2>3 DEF Seg, MovedSeg, LeftSeg, DoneSeg
    <3>31. (Shift + o) - Shift = o
      BY <1>0, Numbers
    <3>32. Source(segs, [offset |-> segs[2].offset - Shift]) = IF o = 0 THEN dev_size ELSE o
      BY <3>3, <3>31 DEF Source
    <3>4. Source(segs, [offset |-> segs[2].offset - Shift]) + (x - SegStart(segs, 2)) = (IF x < Shift THEN dev_size + x ELSE x)
      BY <1>0, <1>4, <2>7, <2>5, <3>32, Numbers
    <3>5. data[Source(segs, [offset |-> segs[2].offset - Shift]) + (x - SegStart(segs, 2))] = Plain(x)
      BY <1>0, <1>4, <2>7, <3>4, Numbers DEF UserData
    <3>6. QED
      BY <2>2, <3>1, <3>2, <3>3, <3>5, FoundAt
  <2>8. CASE L <= x /\ x < Full
    <3>0. L <= x /\ (Full - L = 0 \/ x < L + (Full - L))
      BY <1>0, <1>4, <2>8, Numbers
    <3>1. Covers(segs, 3, x)
      BY <3>0, <2>4, <2>5 DEF Covers
    <3>2. \A j \in DOMAIN segs : Covers(segs, j, x) => j = 3
      BY <1>0, <1>4, <2>8, <2>2, <2>4, <2>5, Numbers DEF Covers
    <3>3. segs[3].type = "crypt" /\ segs[3].offset = Shift + L
      BY <2>3 DEF Seg, MovedSeg, LeftSeg, DoneSeg
    <3>4. segs[3].offset + (x - SegStart(segs, 3)) = Shift + x
      BY <1>0, <1>4, <2>8, <2>5, <3>3, Numbers
    <3>5. data[segs[3].offset + (x - SegStart(segs, 3))] = Crypt(x, x)
      BY <1>0, <1>4, <2>8, <3>4, Numbers DEF UserData
    <3>6. QED
      BY <2>2, <3>1, <3>2, <3>3, <3>5, FoundAt
  <2>9. QED
    BY <1>0, <1>4, <2>6, <2>7, <2>8, Numbers
<1>5. CASE o > Shift /\ L = Full
  <2>1. Len(segs) = 3 /\ segs \in Seq(Segment)
    BY <1>0, <1>5, Numbers DEF HotZoneSegs, Below, o
  <2>2. DOMAIN segs = {1, 2, 3}
    BY <2>1
  <2>3. segs[1] = MovedSeg /\ segs[2] = LeftSeg(o) /\ segs[3] = hot
    BY <1>0, <1>5, Numbers DEF HotZoneSegs, Below, o
  <2>4. segs[1].size = Shift /\ segs[2].size = o - Shift /\ segs[3].size = L - o
    BY <2>3 DEF Seg, MovedSeg, LeftSeg, DoneSeg
  <2>5. SegStart(segs, 1) = 0 /\ SegStart(segs, 2) = Shift /\ SegStart(segs, 3) = o
    <3>1. \A k \in {1, 2, 3} : k \in DOMAIN segs => segs[k].size \in Nat
      BY <1>0, <1>5, <2>2, <2>4, Numbers
    <3>2. /\ SegStart(segs, 1) = 0
          /\ 1 \in DOMAIN segs => SegStart(segs, 2) = segs[1].size
          /\ {1, 2} \subseteq DOMAIN segs => SegStart(segs, 3) = segs[1].size + segs[2].size
          /\ {1, 2, 3} \subseteq DOMAIN segs => SegStart(segs, 4) = segs[1].size + segs[2].size + segs[3].size
      BY <3>1, Starts
    <3>3. QED
      BY <1>0, <1>5, <2>2, <2>4, <3>2, Numbers
  <2>6. CASE 0 <= x /\ x < Shift
    <3>0. 0 <= x /\ (Shift = 0 \/ x < 0 + (Shift))
      BY <1>0, <1>5, <2>6, Numbers
    <3>1. Covers(segs, 1, x)
      BY <3>0, <2>4, <2>5 DEF Covers
    <3>2. \A j \in DOMAIN segs : Covers(segs, j, x) => j = 1
      BY <1>0, <1>5, <2>6, <2>2, <2>4, <2>5, Numbers DEF Covers
    <3>3. segs[1].type = "linear" /\ segs[1].offset = dev_size
      BY <2>3 DEF Seg, MovedSeg, LeftSeg, DoneSeg
    <3>4. segs[1].offset + (x - SegStart(segs, 1)) = dev_size + x
      BY <1>0, <1>5, <2>6, <2>5, <3>3, Numbers
    <3>5. data[segs[1].offset + (x - SegStart(segs, 1))] = Plain(x)
      BY <1>0, <1>5, <2>6, <3>4, Numbers DEF UserData
    <3>6. QED
      BY <2>2, <3>1, <3>2, <3>3, <3>5, FoundAt
  <2>7. CASE Shift <= x /\ x < o
    <3>0. Shift <= x /\ (o - Shift = 0 \/ x < Shift + (o - Shift))
      BY <1>0, <1>5, <2>7, Numbers
    <3>1. Covers(segs, 2, x)
      BY <3>0, <2>4, <2>5 DEF Covers
    <3>2. \A j \in DOMAIN segs : Covers(segs, j, x) => j = 2
      BY <1>0, <1>5, <2>7, <2>2, <2>4, <2>5, Numbers DEF Covers
    <3>3. segs[2].type = "linear" /\ segs[2].offset = Shift
      BY <2>3 DEF Seg, MovedSeg, LeftSeg, DoneSeg
    <3>4. segs[2].offset + (x - SegStart(segs, 2)) = x
      BY <1>0, <1>5, <2>7, <2>5, <3>3, Numbers
    <3>5. data[segs[2].offset + (x - SegStart(segs, 2))] = Plain(x)
      BY <1>0, <1>5, <2>7, <3>4, Numbers DEF UserData
    <3>6. QED
      BY <2>2, <3>1, <3>2, <3>3, <3>5, FoundAt
  <2>8. CASE o <= x /\ x < L
    <3>0. o <= x /\ (L - o = 0 \/ x < o + (L - o))
      BY <1>0, <1>5, <2>8, Numbers
    <3>1. Covers(segs, 3, x)
      BY <3>0, <2>4, <2>5 DEF Covers
    <3>2. \A j \in DOMAIN segs : Covers(segs, j, x) => j = 3
      BY <1>0, <1>5, <2>8, <2>2, <2>4, <2>5, Numbers DEF Covers
    <3>3. segs[3].type = "hot" /\ segs[3].offset = Shift + o
      BY <2>3 DEF Seg, MovedSeg, LeftSeg, DoneSeg
    <3>31. (Shift + o) - Shift = o
      BY <1>0, Numbers
    <3>32. Source(segs, [offset |-> segs[3].offset - Shift]) = IF o = 0 THEN dev_size ELSE o
      BY <3>3, <3>31 DEF Source
    <3>4. Source(segs, [offset |-> segs[3].offset - Shift]) + (x - SegStart(segs, 3)) = (IF x < Shift THEN dev_size + x ELSE x)
      BY <1>0, <1>5, <2>8, <2>5, <3>32, Numbers
    <3>5. data[Source(segs, [offset |-> segs[3].offset - Shift]) + (x - SegStart(segs, 3))] = Plain(x)
      BY <1>0, <1>5, <2>8, <3>4, Numbers DEF UserData
    <3>6. QED
      BY <2>2, <3>1, <3>2, <3>3, <3>5, FoundAt
  <2>9. QED
    BY <1>0, <1>5, <2>6, <2>7, <2>8, Numbers
<1>6. CASE o > Shift /\ L < Full
  <2>1. Len(segs) = 4 /\ segs \in Seq(Segment)
    BY <1>0, <1>6, Numbers DEF HotZoneSegs, Below, o
  <2>2. DOMAIN segs = {1, 2, 3, 4}
    BY <2>1
  <2>3. segs[1] = MovedSeg /\ segs[2] = LeftSeg(o) /\ segs[3] = hot /\ segs[4] = DoneSeg(L)
    BY <1>0, <1>6, Numbers DEF HotZoneSegs, Below, o
  <2>4. segs[1].size = Shift /\ segs[2].size = o - Shift /\ segs[3].size = L - o /\ segs[4].size = Full - L
    BY <2>3 DEF Seg, MovedSeg, LeftSeg, DoneSeg
  <2>5. SegStart(segs, 1) = 0 /\ SegStart(segs, 2) = Shift /\ SegStart(segs, 3) = o /\ SegStart(segs, 4) = L
    <3>1. \A k \in {1, 2, 3} : k \in DOMAIN segs => segs[k].size \in Nat
      BY <1>0, <1>6, <2>2, <2>4, Numbers
    <3>2. /\ SegStart(segs, 1) = 0
          /\ 1 \in DOMAIN segs => SegStart(segs, 2) = segs[1].size
          /\ {1, 2} \subseteq DOMAIN segs => SegStart(segs, 3) = segs[1].size + segs[2].size
          /\ {1, 2, 3} \subseteq DOMAIN segs => SegStart(segs, 4) = segs[1].size + segs[2].size + segs[3].size
      BY <3>1, Starts
    <3>3. QED
      BY <1>0, <1>6, <2>2, <2>4, <3>2, Numbers
  <2>6. CASE 0 <= x /\ x < Shift
    <3>0. 0 <= x /\ (Shift = 0 \/ x < 0 + (Shift))
      BY <1>0, <1>6, <2>6, Numbers
    <3>1. Covers(segs, 1, x)
      BY <3>0, <2>4, <2>5 DEF Covers
    <3>2. \A j \in DOMAIN segs : Covers(segs, j, x) => j = 1
      BY <1>0, <1>6, <2>6, <2>2, <2>4, <2>5, Numbers DEF Covers
    <3>3. segs[1].type = "linear" /\ segs[1].offset = dev_size
      BY <2>3 DEF Seg, MovedSeg, LeftSeg, DoneSeg
    <3>4. segs[1].offset + (x - SegStart(segs, 1)) = dev_size + x
      BY <1>0, <1>6, <2>6, <2>5, <3>3, Numbers
    <3>5. data[segs[1].offset + (x - SegStart(segs, 1))] = Plain(x)
      BY <1>0, <1>6, <2>6, <3>4, Numbers DEF UserData
    <3>6. QED
      BY <2>2, <3>1, <3>2, <3>3, <3>5, FoundAt
  <2>7. CASE Shift <= x /\ x < o
    <3>0. Shift <= x /\ (o - Shift = 0 \/ x < Shift + (o - Shift))
      BY <1>0, <1>6, <2>7, Numbers
    <3>1. Covers(segs, 2, x)
      BY <3>0, <2>4, <2>5 DEF Covers
    <3>2. \A j \in DOMAIN segs : Covers(segs, j, x) => j = 2
      BY <1>0, <1>6, <2>7, <2>2, <2>4, <2>5, Numbers DEF Covers
    <3>3. segs[2].type = "linear" /\ segs[2].offset = Shift
      BY <2>3 DEF Seg, MovedSeg, LeftSeg, DoneSeg
    <3>4. segs[2].offset + (x - SegStart(segs, 2)) = x
      BY <1>0, <1>6, <2>7, <2>5, <3>3, Numbers
    <3>5. data[segs[2].offset + (x - SegStart(segs, 2))] = Plain(x)
      BY <1>0, <1>6, <2>7, <3>4, Numbers DEF UserData
    <3>6. QED
      BY <2>2, <3>1, <3>2, <3>3, <3>5, FoundAt
  <2>8. CASE o <= x /\ x < L
    <3>0. o <= x /\ (L - o = 0 \/ x < o + (L - o))
      BY <1>0, <1>6, <2>8, Numbers
    <3>1. Covers(segs, 3, x)
      BY <3>0, <2>4, <2>5 DEF Covers
    <3>2. \A j \in DOMAIN segs : Covers(segs, j, x) => j = 3
      BY <1>0, <1>6, <2>8, <2>2, <2>4, <2>5, Numbers DEF Covers
    <3>3. segs[3].type = "hot" /\ segs[3].offset = Shift + o
      BY <2>3 DEF Seg, MovedSeg, LeftSeg, DoneSeg
    <3>31. (Shift + o) - Shift = o
      BY <1>0, Numbers
    <3>32. Source(segs, [offset |-> segs[3].offset - Shift]) = IF o = 0 THEN dev_size ELSE o
      BY <3>3, <3>31 DEF Source
    <3>4. Source(segs, [offset |-> segs[3].offset - Shift]) + (x - SegStart(segs, 3)) = (IF x < Shift THEN dev_size + x ELSE x)
      BY <1>0, <1>6, <2>8, <2>5, <3>32, Numbers
    <3>5. data[Source(segs, [offset |-> segs[3].offset - Shift]) + (x - SegStart(segs, 3))] = Plain(x)
      BY <1>0, <1>6, <2>8, <3>4, Numbers DEF UserData
    <3>6. QED
      BY <2>2, <3>1, <3>2, <3>3, <3>5, FoundAt
  <2>9. CASE L <= x /\ x < Full
    <3>0. L <= x /\ (Full - L = 0 \/ x < L + (Full - L))
      BY <1>0, <1>6, <2>9, Numbers
    <3>1. Covers(segs, 4, x)
      BY <3>0, <2>4, <2>5 DEF Covers
    <3>2. \A j \in DOMAIN segs : Covers(segs, j, x) => j = 4
      BY <1>0, <1>6, <2>9, <2>2, <2>4, <2>5, Numbers DEF Covers
    <3>3. segs[4].type = "crypt" /\ segs[4].offset = Shift + L
      BY <2>3 DEF Seg, MovedSeg, LeftSeg, DoneSeg
    <3>4. segs[4].offset + (x - SegStart(segs, 4)) = Shift + x
      BY <1>0, <1>6, <2>9, <2>5, <3>3, Numbers
    <3>5. data[segs[4].offset + (x - SegStart(segs, 4))] = Crypt(x, x)
      BY <1>0, <1>6, <2>9, <3>4, Numbers DEF UserData
    <3>6. QED
      BY <2>2, <3>1, <3>2, <3>3, <3>5, FoundAt
  <2>10. QED
    BY <1>0, <1>6, <2>6, <2>7, <2>8, <2>9, Numbers
<1>7. QED
  BY <1>0, <1>1, <1>2, <1>3, <1>4, <1>5, <1>6, Numbers

(* The segments of the initialisation are those before the first hotzone   *)
(* (reencrypt_set_encrypt_segments).                                       *)
LEMMA InitialClean ==
    ASSUME world \in Worlds
    PROVE  CleanSegs(InitialSegs, Full)
<1>0. Full \in Nat /\ Full >= Shift /\ Full # 0 /\ Full = dev_size - Shift /\ dev_size \in Nat /\ Shift \in Nat /\ Shift >= 1
  BY Numbers
<1>1. MovedSeg \in Segment
  BY <1>0 DEF MovedSeg, Seg, Segment
<1>2. CASE dev_size > 2 * Shift
  <2>1. dev_size - 2 * Shift = Full - Shift /\ Full > Shift /\ Below(Full) = 2
    BY <1>0, <1>2 DEF Below
  <2>2. InitialSegs = <<MovedSeg>> \o <<LeftSeg(Full)>>
    BY <1>2, <2>1 DEF InitialSegs, MovedSeg, LeftSeg
  <2>3. LeftSeg(Full) \in Segment
    BY <1>0, <2>1 DEF LeftSeg, Seg, Segment
  <2>4. <<MovedSeg>> \in Seq(Segment) /\ <<LeftSeg(Full)>> \in Seq(Segment)
    BY <1>1, <2>3
  <2>5. /\ InitialSegs \in Seq(Segment) /\ Len(InitialSegs) = 2
        /\ InitialSegs[1] = MovedSeg /\ InitialSegs[2] = LeftSeg(Full)
    BY <2>2, <2>4, <1>1, <2>3
  <2>6. QED
    BY <1>0, <2>1, <2>5 DEF CleanSegs
<1>3. CASE ~(dev_size > 2 * Shift)
  <2>1. Full = Shift /\ Below(Full) = 1
    BY <1>0, <1>3 DEF Below
  <2>2. InitialSegs = <<MovedSeg>> \o <<>>
    BY <1>3 DEF InitialSegs, MovedSeg
  <2>3. InitialSegs = <<MovedSeg>>
    BY <2>2
  <2>4. InitialSegs \in Seq(Segment) /\ Len(InitialSegs) = 1 /\ InitialSegs[1] = MovedSeg
    BY <2>3, <1>1
  <2>5. QED
    BY <1>0, <2>1, <2>4 DEF CleanSegs
<1>4. QED
  BY <1>2, <1>3

-----------------------------------------------------------------------------
(* From one state to the next                                              *)

(* The world does not change, so nor do sizes,                             *)
LEMMA SameSizes ==
    ASSUME world' = world
    PROVE  /\ D' = D /\ dev_size' = dev_size /\ Full' = Full /\ Kept' = Kept
           /\ Block' = Block /\ Levels' = Levels
  BY DEF D, dev_size, Full, Kept, Block, Levels

(* nor the meaning of the parts of the invariant: the types,               *)
LEMMA SameTypes ==
    ASSUME world' = world, TypesAt(data', hdr', file', mem', rh')
    PROVE  TypesAt(data, hdr, file, mem, rh)'
  BY SameSizes DEF TypesAt, FileOK, ContextOK, HeaderOK, Clean, CleanSegs, MovedSeg, LeftSeg, DoneSeg

(* what holds before there is a header,                                    *)
LEMMA SameBefore ==
    ASSUME world' = world, BeforeAt(pc', data', file', mem')
    PROVE  BeforeAt(pc, data, file, mem)'
  BY SameSizes DEF BeforeAt, RestKept, CopyMade, HeadKept, Clean, CleanSegs, MovedSeg, LeftSeg, DoneSeg

(* what holds when there is one,                                           *)
LEMMA SameRunning ==
    ASSUME world' = world, NEW L, RunningAt(pc', data', hdr', mem', rh', L)
    PROVE  RunningAt(pc, data, hdr, mem, rh, L)'
  BY SameSizes, ZenonT(60) DEF RunningAt, AtRest, AtLoop, AtHot, AtWrite, AtRecover, AtTeardown, AtWipe, AtUnflag, AtFinal,
     Ended, UserData, CopyWiped, Clean, Hot, CleanSegs, HotZoneSegs, MovedSeg, LeftSeg, DoneSeg,
     RunContext, RecoveryContext

(* and both together.                                                      *)
LEMMA SameControl ==
    ASSUME world' = world, ControlAt(pc', data', hdr', file', mem', rh')
    PROVE  ControlAt(pc, data, hdr, file, mem, rh)'
  BY SameSizes, SameBefore, SameRunning DEF ControlAt, DamagedAt, RestKept, CopyMade, HeadWritten

(* The invariant holds after a step when its parts do.                     *)
LEMMA Into ==
    ASSUME world \in Worlds, world' = world,
           TypesAt(data', hdr', file', mem', rh'),
           ControlAt(pc', data', hdr', file', mem', rh')
    PROVE  ShiftInv'
  BY SameTypes, SameControl DEF ShiftInv

-----------------------------------------------------------------------------
(* Types                                                                   *)

(* A header with the segments between two hotzones is well formed.         *)
LEMMA CleanOK ==
    ASSUME world \in Worlds, NEW L \in Levels, NEW h, IsHeader(h), CleanSegs(h[1].segs, L)
    PROVE  HeaderOK(h) /\ h # NoHeader
<1>0. \A y : <<y>> # <<>>
  OBVIOUS
<1>1. h # NoHeader
  BY <1>0 DEF IsHeader, NoHeader
<1>2. QED
  BY <1>1, CleanShape DEF HeaderOK

(* So is one with a hotzone.                                               *)
LEMMA HotOK ==
    ASSUME world \in Worlds, NEW L \in Levels, NEW h, IsHeader(h), HotZoneSegs(h[1].segs, L)
    PROVE  HeaderOK(h) /\ h # NoHeader
<1>0. \A y : <<y>> # <<>>
  OBVIOUS
<1>1. h # NoHeader
  BY <1>0 DEF IsHeader, NoHeader
<1>2. QED
  BY <1>1, HotShape DEF HeaderOK

(* The first and the last level.                                           *)
LEMMA LastLevel ==
    ASSUME world \in Worlds
    PROVE  0 \in Levels /\ Full \in Levels /\ Full # 0
  BY Sizes

(* The header as it is formatted is well formed, without the flag.         *)
LEMMA FormattedOK ==
    ASSUME world \in Worlds
    PROVE  HeaderOK(Formatted) /\ Formatted # NoHeader /\ ~Formatted[1].flag
<1> DEFINE s == <<Seg("crypt", Shift, 0)>>
           f == [flag |-> FALSE, slot |-> FALSE, segs |-> s]
<1>1. Seg("crypt", Shift, 0) \in Segment
      /\ Seg("crypt", Shift, 0) \in [type : {"linear", "crypt", "hot"}, offset : Block, size : 0..D]
  BY Sizes DEF Seg, Segment
<1>2. s \in Seq(Segment) /\ Len(s) = 1 /\ s[1] = Seg("crypt", Shift, 0)
  BY <1>1
<1>3. Formatted = <<f>> /\ Formatted[1] = f
  BY DEF Formatted
<1>4. f \in [flag : BOOLEAN, slot : BOOLEAN, segs : Seq(Segment)] /\ f.segs = s /\ ~f.flag
  BY <1>2
<1>5. Formatted # NoHeader
  BY <1>3 DEF NoHeader
<1>6. IsHeader(Formatted)
  BY <1>3, <1>4 DEF IsHeader
<1>7. \A k \in DOMAIN s : s[k] \in [type : {"linear", "crypt", "hot"}, offset : Block, size : 0..D]
  BY <1>1, <1>2
<1>8. QED
  BY <1>2, <1>3, <1>4, <1>5, <1>6, <1>7 DEF HeaderOK

(* No context is in its range.                                             *)
LEMMA NoContextOK ==
    ASSUME world \in Worlds
    PROVE  ContextOK(NoContext)
  BY Numbers DEF ContextOK, NoContext

-----------------------------------------------------------------------------
(* Contexts                                                                *)

(* A run begins with the hotzone at the end of what is left.               *)
LEMMA RunBegins ==
    ASSUME world \in Worlds, NEW L \in Levels, NEW segs, CleanSegs(segs, L)
    PROVE  RunContext(ContextOf(segs, dev_size), L) /\ ContextOK(ContextOf(segs, dev_size))
<1> DEFINE m == OffsetMoved(segs)
           n == Least(m.length, dev_size - m.offset)
           r == ContextOf(segs, dev_size)
<1>1. r = [offset |-> m.offset, length |-> n, progress |-> dev_size - m.offset - n,
           read |-> 0, device_size |-> dev_size, recovery |-> FALSE]
  BY CleanShape DEF ContextOf
<1>2. CASE L = 0
  <2>1. m.offset = 0 /\ m.length = Shift
    BY <1>2, CleanShape DEF OffsetMoved
  <2>2. n = Shift
    BY <2>1, Numbers DEF Least
  <2>3. r = [offset |-> 0, length |-> Shift, progress |-> dev_size - Shift,
             read |-> 0, device_size |-> dev_size, recovery |-> FALSE]
    <3>1. dev_size - 0 - Shift = dev_size - Shift
      BY Numbers
    <3>2. QED
      BY <1>1, <2>1, <2>2, <3>1
  <2> HIDE DEF r
  <2>4. RunContext(r, L)
    BY <1>2, <2>3 DEF RunContext
  <2>5. ContextOK(r)
    BY <2>3, Numbers DEF ContextOK
  <2>6. QED
    BY <2>4, <2>5 DEF r
<1>3. CASE L # 0
  <2>0. L \in Nat /\ Shift <= L /\ L <= Full
    BY <1>3, Level
  <2>1. Linear(segs) # {} /\ LinearLength(segs) = L
    <3>1. Linear(segs) = 1..Below(L) /\ 1 \in 1..Below(L)
      BY <1>3, CleanShape DEF Below
    <3>2. QED
      BY <1>3, <3>1, CleanShape
  <2>2. m.offset = ZoneStart(L) /\ m.length = L - ZoneStart(L)
    BY <2>0, <2>1, Numbers DEF OffsetMoved, ZoneStart
  <2>3. /\ ZoneStart(L) \in Nat /\ ZoneStart(L) < L /\ L - ZoneStart(L) <= Shift
    BY <1>3, Zones
  <2> DEFINE o == ZoneStart(L)
  <2> HIDE DEF o
  <2>4. n = L - o
    BY <2>0, <2>2, <2>3, Numbers DEF Least, o
  <2>5. dev_size - m.offset - n = dev_size - L
    BY <2>0, <2>2, <2>3, <2>4, Numbers DEF o
  <2>6. r = [offset |-> o, length |-> L - o, progress |-> dev_size - L,
             read |-> 0, device_size |-> dev_size, recovery |-> FALSE]
    BY <1>1, <2>2, <2>4, <2>5 DEF o
  <2> HIDE DEF r
  <2>7. RunContext(r, L)
    BY <1>3, <2>6 DEF RunContext, o
  <2>8. ContextOK(r)
    BY <2>0, <2>3, <2>6, Numbers DEF ContextOK, o
  <2>9. QED
    BY <2>7, <2>8 DEF r
<1>4. QED
  BY <1>2, <1>3

(* A recovery has the hotzone of the header.                               *)
LEMMA RecoveryBegins ==
    ASSUME world \in Worlds, NEW L \in Levels, NEW segs, HotZoneSegs(segs, L)
    PROVE  RecoveryContext(CrashedContext(segs), L) /\ ContextOK(CrashedContext(segs))
<1> DEFINE o == ZoneStart(L)
           n == Least(Shift, Full - o)
           r == CrashedContext(segs)
           c == ContextOf(segs, DataSize(segs))
<1>0. /\ L \in Nat /\ o \in Nat /\ Shift <= L /\ L <= Full /\ o < L /\ L - o <= Shift
  BY Zones DEF HotZoneSegs
<1> HIDE DEF o
<1>1. /\ HotSeg(segs) # {} /\ DataSize(segs) = Full
      /\ segs[TheHot(segs)].offset = Shift + o /\ segs[TheHot(segs)].size = L - o
  <2>1. /\ HotSeg(segs) = {Below(o) + 1} /\ DataSize(segs) = Full
        /\ segs[TheHot(segs)] = Seg("hot", Shift + o, L - o)
    BY HotShape DEF o
  <2>2. QED
    BY <2>1 DEF Seg
<1>2. (Shift + o) - Shift = o
  BY <1>0, Numbers
<1>3. c = [offset |-> o, length |-> n, progress |-> Full - o - n,
           read |-> 0, device_size |-> Full, recovery |-> FALSE]
  BY <1>1, <1>2 DEF ContextOf
<1> HIDE DEF c
<1>4. r = [offset |-> o, length |-> L - o, progress |-> Full - o - n,
           read |-> 0, device_size |-> Full, recovery |-> TRUE]
  <2>1. r = [c EXCEPT !.length = L - o, !.recovery = TRUE]
    BY <1>1 DEF CrashedContext, c, r
  <2>2. QED
    BY <1>3, <2>1
<1>5. n \in Nat /\ n <= Full - o /\ n <= Shift
  BY <1>0, Numbers DEF Least
<1> HIDE DEF r
<1>6. RecoveryContext(r, L)
  BY <1>4 DEF RecoveryContext, o
<1> HIDE DEF n
<1>7. ContextOK(r)
  BY <1>0, <1>4, <1>5, Numbers DEF ContextOK
<1>8. QED
  BY <1>6, <1>7 DEF r

(* The next hotzone.                                                       *)
LEMMA Advances ==
    ASSUME world \in Worlds, NEW L \in Levels, L # 0, NEW r, ContextOK(r),
           r.offset = ZoneStart(L), r.length = L - ZoneStart(L), r.read = r.length
    PROVE  LET n == NextContext(r)
               o == ZoneStart(L)
           IN  /\ n.progress = r.progress + r.length /\ n.read = r.read
               /\ n.device_size = r.device_size /\ n.recovery = r.recovery
               /\ n.offset = IF o = 0 THEN 0 ELSE ZoneStart(o)
               /\ n.length = IF o = 0 THEN Shift ELSE o - ZoneStart(o)
               /\ n \in [offset : Nat, length : Nat, progress : Nat, read : Nat,
                         device_size : Nat, recovery : BOOLEAN]
<1> DEFINE o == ZoneStart(L)
           n == NextContext(r)
           b == IF r.offset > 0 THEN r.offset - Shift ELSE 0
<1>0. /\ L \in Nat /\ o \in Nat /\ o \in Levels /\ Shift <= L /\ L <= Full /\ o < L /\ L - o <= Shift
      /\ o = 0 => L = Shift
      /\ o # 0 => Shift <= o /\ Shift < L
  BY Zones
<1>1. r \in [offset : Nat, length : Nat, progress : Nat, read : Nat, device_size : Nat, recovery : BOOLEAN]
  BY DEF ContextOK
<1>2. n = [r EXCEPT !.offset = IF 0 < b /\ b < Shift THEN Shift ELSE b,
                    !.length = IF 0 < b /\ b < Shift THEN b ELSE IF b = 0 THEN Shift ELSE @,
                    !.progress = @ + r.read]
  BY DEF NextContext
<1> HIDE DEF n, o, b
<1>3. /\ n.progress = r.progress + r.read /\ n.read = r.read
      /\ n.device_size = r.device_size
      /\ n.offset = (IF 0 < b /\ b < Shift THEN Shift ELSE b)
      /\ n.length = (IF 0 < b /\ b < Shift THEN b ELSE IF b = 0 THEN Shift ELSE r.length)
  BY <1>1, <1>2
<1>4. n.recovery = r.recovery
  BY <1>1, <1>2
<1>5. b = IF o = 0 THEN 0 ELSE o - Shift
  BY <1>0, Numbers DEF b, o
<1>6. n.offset = IF o = 0 THEN 0 ELSE ZoneStart(o)
  BY <1>0, <1>3, <1>5, Numbers DEF ZoneStart
<1>7. n.length = IF o = 0 THEN Shift ELSE o - ZoneStart(o)
  <2>1. CASE o = 0
    BY <1>3, <1>5, <2>1, Numbers
  <2>2. CASE o # 0 /\ o < 2 * Shift
    <3>1. ZoneStart(o) = IF o = Shift THEN 0 ELSE Shift
      BY <1>0, <2>2, Numbers DEF ZoneStart
    <3>2. QED
      BY <1>0, <1>3, <1>5, <2>2, <3>1, Numbers
  <2>3. CASE o >= 2 * Shift
    <3>1. ZoneStart(o) = o - Shift
      BY <1>0, <2>3, Numbers DEF ZoneStart
    <3>2. r.length = Shift
      BY <1>0, <2>3, Numbers DEF ZoneStart, o
    <3>3. n.length = r.length
      BY <1>0, <1>3, <1>5, <2>3, Numbers
    <3>4. QED
      BY <1>0, <2>3, <3>1, <3>2, <3>3, Numbers
  <2>4. QED
    BY <1>0, <2>1, <2>2, <2>3, Numbers
<1>8. n \in [offset : Nat, length : Nat, progress : Nat, read : Nat, device_size : Nat, recovery : BOOLEAN]
  <2>1. b \in Nat
    BY <1>0, <1>5, Numbers
  <2>2. r.progress + r.read \in Nat /\ r.length \in Nat /\ Shift \in Nat
    BY <1>1, Numbers
  <2>3. (IF 0 < b /\ b < Shift THEN Shift ELSE b) \in Nat
    BY <2>1, <2>2
  <2>4. (IF 0 < b /\ b < Shift THEN b ELSE IF b = 0 THEN Shift ELSE r.length) \in Nat
    BY <2>1, <2>2
  <2>5. QED
    BY <1>1, <1>2, <2>2, <2>3, <2>4
<1>9. QED
  BY <1>3, <1>4, <1>6, <1>7, <1>8 DEF n, o

-----------------------------------------------------------------------------
(* Blocks                                                                  *)

(* A write that is cut short leaves alone what it is not for.              *)
LEMMA CutOutside ==
    ASSUME NEW z, NEW w, NEW d \in CutShort(z, w)
    PROVE  DOMAIN d = Block /\ \A i \in Block \ z : d[i] = data[i]
  BY DEF CutShort

(* So does one from the first block on.                                    *)
LEMMA CutAbove ==
    ASSUME world \in Worlds, NEW w, NEW d \in CutBehind(Shift, w)
    PROVE  DOMAIN d = Block /\ \A i \in Block : i >= Shift => d[i] = data[i]
<1>1. PICK k \in 0..(Shift - 1), c \in {Junk} \cup {data[j] : j \in 0..(Shift - 1)} :
         d = [i \in Block |-> IF i < k THEN w[i] ELSE IF i = k THEN c ELSE data[i]]
  BY DEF CutBehind
<1>2. QED
  BY <1>1, Sizes

(* What is written to a hotzone is needed by nobody.                       *)
LEMMA ZoneFree ==
    ASSUME world \in Worlds, NEW L \in Levels, L # 0, NEW r,
           r.offset = ZoneStart(L), r.length = L - ZoneStart(L),
           UserData(data, L), NEW d, \A i \in Block \ Hotzone(r) : d[i] = data[i]
    PROVE  UserData(d, L) /\ (HeadWritten(data) => HeadWritten(d))
<1> DEFINE o == ZoneStart(L)
<1>0. /\ L \in Nat /\ o \in Nat /\ Shift <= L /\ L <= Full /\ o < L /\ L - o <= Shift
      /\ o = 0 => L = Shift
      /\ o # 0 => Shift <= o /\ Shift < L
  BY Zones
<1> HIDE DEF o
<1>1. \A i \in Hotzone(r) : Shift + o <= i /\ i < Shift + L
  <2>1. Shift + o + (L - o) = Shift + L
    BY <1>0, Numbers
  <2>2. QED
    BY <2>1 DEF Hotzone, o
<1>2. \A i \in Block : i < Shift + o \/ i >= Shift + L => d[i] = data[i]
  BY <1>0, <1>1, Sizes
<1>3. HeadWritten(data) => HeadWritten(d)
  BY <1>0, <1>2, Numbers DEF HeadWritten, Block
<1>4. ASSUME NEW x \in Kept
      PROVE  IF x < L THEN d[IF x < Shift THEN dev_size + x ELSE x] = Plain(x) ELSE d[Shift + x] = Crypt(x, x)
  <2>0. x \in Nat /\ x < Full
    BY Sizes
  <2>1. CASE x < L /\ x < Shift
    <3>1. dev_size + x \in Block /\ dev_size + x >= Shift + L
      BY <1>0, <2>0, <2>1, Numbers DEF Block
    <3>2. QED
      BY <2>1, <3>1, <1>2 DEF UserData
  <2>2. CASE x < L /\ ~(x < Shift)
    <3>1. x \in Block /\ x < Shift + o
      BY <1>0, <2>0, <2>2, Sizes
    <3>2. QED
      BY <2>2, <3>1, <1>2 DEF UserData
  <2>3. CASE ~(x < L)
    <3>1. Shift + x \in Block /\ Shift + x >= Shift + L
      BY <1>0, <2>0, <2>3, Sizes
    <3>2. QED
      BY <2>3, <3>1, <1>2 DEF UserData
  <2>4. QED
    BY <2>1, <2>2, <2>3
<1>5. UserData(d, L)
  BY <1>4 DEF UserData
<1>6. QED
  BY <1>3, <1>5

(* What a hotzone is read from is there when it is written, and for as     *)
(* long as the header has it.                                              *)
LEMMA ZoneWritten ==
    ASSUME world \in Worlds, NEW L \in Levels, L # 0, NEW r,
           r.offset = ZoneStart(L), r.length = L - ZoneStart(L),
           UserData(data, L)
    PROVE  /\ DOMAIN Written(r) = Block
           /\ UserData(Written(r), L) /\ UserData(Written(r), ZoneStart(L))
           /\ HeadWritten(data) => HeadWritten(Written(r))
<1> DEFINE o == ZoneStart(L)
           d == Written(r)
<1>0. /\ L \in Nat /\ o \in Nat /\ o \in Levels /\ Shift <= L /\ L <= Full /\ o < L /\ L - o <= Shift
      /\ o = 0 => L = Shift
      /\ o # 0 => Shift <= o /\ Shift < L
  BY Zones
<1>1. DOMAIN d = Block /\ \A i \in Block \ Hotzone(r) : d[i] = data[i]
  BY DEF Written
<1>2. \A i \in Hotzone(r) : d[i] = Encrypted(data[Source(mem[1].segs, r) + i - Shift - r.offset], i - Shift)
  BY DEF Written, Hotzone
<1> HIDE DEF o, d
<1>3. UserData(d, L) /\ (HeadWritten(data) => HeadWritten(d))
  BY <1>1, ZoneFree
<1>4. ASSUME NEW x \in Kept
      PROVE  IF x < o THEN d[IF x < Shift THEN dev_size + x ELSE x] = Plain(x) ELSE d[Shift + x] = Crypt(x, x)
  <2>0. x \in Nat /\ x < Full
    BY Sizes
  <2>1. CASE x < o \/ x >= L
    BY <1>0, <1>3, <2>0, <2>1 DEF UserData
  <2>2. CASE o <= x /\ x < L
    <3>1. Shift + x \in Hotzone(r)
      <4>1. Shift + x \in Block
        BY <1>0, <2>0, Numbers DEF Block
      <4>2. Shift + r.offset <= Shift + x /\ Shift + x < Shift + r.offset + r.length
        BY <1>0, <2>0, <2>2, Numbers DEF o
      <4>3. QED
        BY <4>1, <4>2 DEF Hotzone
    <3>2. Source(mem[1].segs, r) = IF o = 0 THEN dev_size ELSE o
      BY DEF Source, o
    <3>3. Source(mem[1].segs, r) + (Shift + x) - Shift - r.offset = IF x < Shift THEN dev_size + x ELSE x
      BY <1>0, <2>0, <2>2, <3>2, Numbers DEF o
    <3>4. data[IF x < Shift THEN dev_size + x ELSE x] = Plain(x)
      BY <2>2 DEF UserData
    <3>5. (Shift + x) - Shift = x
      BY <2>0, Numbers
    <3>6. d[Shift + x] = Encrypted(Plain(x), x)
      BY <1>2, <3>1, <3>3, <3>4, <3>5
    <3>7. Encrypted(Plain(x), x) = Crypt(x, x)
      BY DEF Encrypted, Plain, Crypt
    <3>8. QED
      BY <1>0, <2>0, <2>2, <3>6, <3>7
  <2>3. QED
    BY <1>0, <2>0, <2>1, <2>2
<1>5. UserData(d, o)
  BY <1>4 DEF UserData
<1>6. QED
  BY <1>1, <1>3, <1>5 DEF d, o

(* Before anything is encrypted.                                           *)
LEMMA AllThere ==
    ASSUME world \in Worlds, NEW d, RestKept(d), CopyMade(d)
    PROVE  UserData(d, Full)
<1>1. ASSUME NEW x \in Kept
      PROVE  x < Full /\ d[IF x < Shift THEN dev_size + x ELSE x] = Plain(x)
  <2>1. x \in Nat /\ x < Full
    BY Sizes
  <2>2. CASE x < Shift
    BY <2>1, <2>2, Numbers DEF CopyMade
  <2>3. CASE ~(x < Shift)
    BY <2>1, <2>3, Numbers DEF RestKept
  <2>4. QED
    BY <2>1, <2>2, <2>3
<1>2. QED
  BY <1>1 DEF UserData

(* The header over the head of the device, and nothing else changed.       *)
LEMMA HeadUp ==
    ASSUME world \in Worlds
    PROVE  /\ DOMAIN WithHead = Block /\ HeadWritten(WithHead)
           /\ RestKept(data) => RestKept(WithHead)
           /\ CopyMade(data) => CopyMade(WithHead)
<1>1. DOMAIN WithHead = Block /\ \A i \in Block : WithHead[i] = IF i < Shift THEN HeadArea ELSE data[i]
  BY DEF WithHead
<1>2. HeadWritten(WithHead)
  BY <1>1, Numbers DEF HeadWritten, Block
<1>3. RestKept(data) => RestKept(WithHead)
  BY <1>1, Numbers DEF RestKept, Block
<1>4. CopyMade(data) => CopyMade(WithHead)
  <2>1. \A i \in 0..(Shift - 1) : dev_size + i \in Block /\ ~(dev_size + i < Shift)
    BY Sizes
  <2>2. QED
    BY <1>1, <2>1 DEF CopyMade
<1>5. QED
  BY <1>1, <1>2, <1>3, <1>4

-----------------------------------------------------------------------------
(* Where a step begins and ends                                            *)

(* The parts of the invariant.                                             *)
LEMMA Parts ==
    ASSUME ShiftInv
    PROVE  /\ world \in Worlds /\ DOMAIN data = Block /\ FileOK(file) /\ ContextOK(rh)
           /\ HeaderOK(hdr) /\ HeaderOK(file) /\ HeaderOK(mem)
           /\ hdr = NoHeader => BeforeAt(pc, data, file, mem)
           /\ hdr # NoHeader => data[0] = HeadArea
           /\ hdr # NoHeader /\ HeadWritten(data) =>
                \E L \in Levels : RunningAt(pc, data, hdr, mem, rh, L)
           /\ hdr # NoHeader /\ ~HeadWritten(data) => DamagedAt(pc, data, hdr, file)
  BY DEF ShiftInv, TypesAt, ControlAt

(* The keyslots are there when the whole head is written.                  *)
LEMMA KeysThere ==
    ASSUME ShiftInv
    PROVE  HasKeys <=> hdr # NoHeader /\ HeadWritten(data)
<1>1. 0 \in 0..(Shift - 1)
  BY Parts, Numbers
<1>2. QED
  BY <1>1 DEF HasKeys, HasHeader, HeadWritten

(* A process that is past the initialisation.                              *)
LEMMA Works ==
    ASSUME ShiftInv, pc \notin {"idle", "move", "flag", "restore"}
    PROVE  hdr # NoHeader /\ HeadWritten(data) /\ \E L \in Levels : RunningAt(pc, data, hdr, mem, rh, L)
<1>1. hdr # NoHeader
  BY Parts DEF BeforeAt
<1>2. HeadWritten(data)
  BY <1>1, Parts DEF DamagedAt
<1>3. QED
  BY <1>1, <1>2, Parts

(* A step of such a process, and one that ends it.                         *)
LEMMA Goes ==
    ASSUME ShiftInv, world' = world, UNCHANGED file,
           DOMAIN data' = Block, HeadWritten(data'), HeaderOK(hdr'), hdr' # NoHeader, HeaderOK(mem'), ContextOK(rh'),
           NEW L \in Levels, RunningAt(pc', data', hdr', mem', rh', L)
    PROVE  ShiftInv'
<1>1. data'[0] = HeadArea
  BY Parts, Numbers DEF HeadWritten
<1>2. TypesAt(data', hdr', file', mem', rh')
  BY Parts DEF TypesAt
<1>3. ControlAt(pc', data', hdr', file', mem', rh')
  BY <1>1 DEF ControlAt
<1>4. QED
  BY <1>2, <1>3, Into, Parts

(* A step that ends the process: the header must be true of the data.      *)
LEMMA Stops ==
    ASSUME ShiftInv, world' = world, Release, FileOK(file'), HeaderOK(file'),
           DOMAIN data' = Block, HeadWritten(data'), HeaderOK(hdr'), hdr' # NoHeader,
           NEW L \in Levels, AtRest(data', hdr', L)
    PROVE  ShiftInv'
<1>1. data'[0] = HeadArea
  BY Parts, Numbers DEF HeadWritten
<1>2. pc' = "idle" /\ mem' = NoHeader /\ rh' = NoContext
  BY DEF Release
<1>3. TypesAt(data', hdr', file', mem', rh')
  BY <1>2, Parts, NoContextOK DEF TypesAt, HeaderOK
<1>4. RunningAt(pc', data', hdr', mem', rh', L)
  BY <1>2 DEF RunningAt
<1>5. ControlAt(pc', data', hdr', file', mem', rh')
  BY <1>1, <1>4 DEF ControlAt
<1>6. QED
  BY <1>3, <1>5, Into, Parts

(* A step before there is a header.                                        *)
LEMMA Prepares ==
    ASSUME ShiftInv, world' = world, hdr' = NoHeader, FileOK(file'), HeaderOK(file'),
           DOMAIN data' = Block, HeaderOK(mem'), ContextOK(rh'), BeforeAt(pc', data', file', mem')
    PROVE  ShiftInv'
<1>1. TypesAt(data', hdr', file', mem', rh')
  BY Parts DEF TypesAt, HeaderOK
<1>2. ControlAt(pc', data', hdr', file', mem', rh')
  BY DEF ControlAt
<1>3. QED
  BY <1>1, <1>2, Into, Parts

(* The world stays.                                                        *)
LEMMA SameFaults ==
    ASSUME UNCHANGED faults \/ IOError
    PROVE  world' = world
  BY DEF faults, IOError

-----------------------------------------------------------------------------
(* The initialisation                                                      *)

(* A user who is careful starts with the head of the device as it was.     *)
LEMMA StartStep ==
    ASSUME ShiftInv, Foreseen, Start
    PROVE  ShiftInv'
<1>0. world \in Worlds /\ world' = world
  BY Parts, SameFaults DEF Start
<1>1. hdr = NoHeader
  BY Parts DEF Start, HasHeader
<1>2. HeadKept(data)
  BY <1>0 DEF Start, Foreseen, Careful, HeadKept
<1>3. RestKept(data)
  BY <1>1, Parts DEF BeforeAt
<1>4. FileOK(file') /\ HeaderOK(file') /\ file' = Formatted
  BY <1>0, FormattedOK DEF Start, FileOK
<1>5. Clean(mem', Full)
  <2> DEFINE g == [flag |-> TRUE, slot |-> TRUE, segs |-> InitialSegs]
  <2>1. mem' = <<g>> /\ mem'[1] = g
    BY DEF Start
  <2>2. CleanSegs(InitialSegs, Full) /\ InitialSegs \in Seq(Segment)
    BY <1>0, InitialClean DEF CleanSegs
  <2>3. g \in [flag : BOOLEAN, slot : BOOLEAN, segs : Seq(Segment)] /\ g.flag /\ g.slot /\ g.segs = InitialSegs
    BY <2>2
  <2>4. QED
    BY <2>1, <2>2, <2>3 DEF Clean, IsHeader
<1>6. HeaderOK(mem')
  BY <1>0, <1>5, CleanOK, LastLevel DEF Clean
<1>7. BeforeAt(pc', data', file', mem')
  BY <1>2, <1>3, <1>4, <1>5 DEF Start, BeforeAt
<1>8. QED
  BY <1>0, <1>1, <1>4, <1>6, <1>7, Parts, Prepares DEF Start

(* An attempt that failed before the header was written.                   *)
LEMMA GivesUp ==
    ASSUME ShiftInv, world' = world, hdr' = NoHeader, GiveUp,
           DOMAIN data' = Block, RestKept(data'),
           HeadKept(data') \/ ("restore" \in world.at /\ CopyMade(data'))
    PROVE  ShiftInv'
<1>1. file' = NoHeader /\ pc' = "idle" /\ mem' = NoHeader /\ rh' = NoContext
  BY DEF GiveUp, Release
<1>2. FileOK(file') /\ HeaderOK(file') /\ HeaderOK(mem') /\ ContextOK(rh')
  BY <1>1, NoContextOK, Parts DEF FileOK, HeaderOK
<1>3. BeforeAt(pc', data', file', mem')
  BY <1>1 DEF BeforeAt
<1>4. QED
  BY <1>2, <1>3, Prepares

(* The copy goes to blocks that the user gave up.                          *)
LEMMA MoveDataStep ==
    ASSUME ShiftInv, MoveData
    PROVE  ShiftInv'
<1>0. world \in Worlds /\ world' = world
  BY Parts, SameFaults DEF MoveData
<1>1. hdr = NoHeader /\ hdr' = NoHeader
  BY Parts DEF MoveData, DamagedAt, RunningAt
<1>2. RestKept(data) /\ HeadKept(data) /\ file = Formatted /\ Clean(mem, Full)
  BY <1>1, Parts DEF BeforeAt, MoveData
<1>3. CASE data' = Moved /\ pc' = "flag" /\ UNCHANGED <<file, mem, rh, faults>>
  <2>1. DOMAIN data' = Block /\ \A i \in Block : data'[i] = IF i >= dev_size THEN data[i - dev_size] ELSE data[i]
    BY <1>3 DEF Moved
  <2>2. RestKept(data') /\ HeadKept(data')
    <3>1. \A i \in Block : i < dev_size => data'[i] = data[i]
      BY <1>0, <2>1, Numbers DEF Block
    <3>2. QED
      BY <1>0, <1>2, <3>1, Numbers DEF RestKept, HeadKept, Block
  <2>3. CopyMade(data')
    <3>1. ASSUME NEW i \in 0..(Shift - 1) PROVE data'[dev_size + i] = Plain(i)
      <4>1. dev_size + i \in Block /\ dev_size + i >= dev_size /\ (dev_size + i) - dev_size = i
        BY <1>0, Numbers DEF Block
      <4>2. QED
        BY <1>2, <2>1, <4>1 DEF HeadKept
    <3>2. QED
      BY <3>1 DEF CopyMade
  <2>4. BeforeAt(pc', data', file', mem')
    BY <1>2, <1>3, <2>2, <2>3 DEF BeforeAt
  <2>5. QED
    BY <1>0, <1>1, <1>3, <2>1, <2>4, Parts, Prepares
<1>4. CASE IOError /\ data' \in CutShort(dev_size..(D - 1), Moved) /\ GiveUp
  <2>1. DOMAIN data' = Block /\ \A i \in Block \ (dev_size..(D - 1)) : data'[i] = data[i]
    BY <1>4, CutOutside
  <2>2. \A i \in Block : i < dev_size => data'[i] = data[i]
    BY <1>0, <2>1, Numbers DEF Block
  <2>3. RestKept(data') /\ HeadKept(data')
    BY <1>0, <1>2, <2>2, Numbers DEF RestKept, HeadKept, Block
  <2>4. QED
    BY <1>0, <1>1, <1>4, <2>1, <2>3, GivesUp
<1>5. QED
  BY <1>3, <1>4 DEF MoveData

(* The temporary header is committed once the copy is made.                *)
LEMMA CommitFlagStep ==
    ASSUME ShiftInv, CommitFlag
    PROVE  ShiftInv'
<1>0. world \in Worlds /\ world' = world /\ data' = data
  BY Parts, SameFaults DEF CommitFlag
<1>1. hdr = NoHeader /\ hdr' = NoHeader
  BY Parts DEF CommitFlag, DamagedAt, RunningAt
<1>2. RestKept(data) /\ HeadKept(data) /\ CopyMade(data) /\ Clean(mem, Full)
  BY <1>1, Parts DEF BeforeAt, CommitFlag
<1>3. CASE file' = mem /\ pc' = "restore" /\ UNCHANGED <<mem, rh, faults>>
  <2>1. FileOK(file') /\ HeaderOK(file')
    BY <1>2, <1>3, Parts DEF FileOK
  <2>2. BeforeAt(pc', data', file', mem')
    BY <1>0, <1>2, <1>3 DEF BeforeAt
  <2>3. QED
    BY <1>0, <1>1, <1>3, <2>1, <2>2, Parts, Prepares
<1>4. CASE IOError /\ GiveUp
  BY <1>0, <1>1, <1>2, <1>4, Parts, GivesUp
<1>5. QED
  BY <1>3, <1>4 DEF CommitFlag

(* The header is put over the head of the device, or some of it.           *)
LEMMA HeadCut ==
    ASSUME ShiftInv, pc = "restore", world' = world, Release, FileOK(file'), HeaderOK(file'),
           data' \in CutBehind(Shift, WithHead) \cup {WithHead},
           hdr' = IF data'[0] = HeadArea THEN file ELSE hdr,
           file' = file \/ (file' = NoHeader /\ "restore" \in world.at)
    PROVE  ShiftInv'
<1>0. world \in Worlds /\ pc' = "idle" /\ mem' = NoHeader /\ rh' = NoContext
  BY Parts DEF Release
<1>1. hdr = NoHeader
  BY Parts DEF DamagedAt, RunningAt
<1>2. RestKept(data) /\ HeadKept(data) /\ CopyMade(data) /\ Clean(file, Full)
  BY <1>1, Parts DEF BeforeAt
<1>21. file # NoHeader /\ file[1].flag
  BY <1>0, <1>2, CleanOK, LastLevel DEF Clean
<1>3. DOMAIN data' = Block /\ \A i \in Block : i >= Shift => data'[i] = data[i]
  <2>1. CASE data' = WithHead
    BY <1>0, <2>1, Numbers DEF WithHead, Block
  <2>2. CASE data' \in CutBehind(Shift, WithHead)
    BY <1>0, <2>2, CutAbove
  <2>3. QED
    BY <2>1, <2>2
<1>4. RestKept(data')
  BY <1>0, <1>2, <1>3, Numbers DEF RestKept, Block
<1>5. CopyMade(data')
  <2>1. \A i \in 0..(Shift - 1) : dev_size + i \in Block /\ dev_size + i >= Shift
    BY <1>0, Numbers DEF Block
  <2>2. QED
    BY <1>2, <1>3, <2>1 DEF CopyMade
<1>6. (file' # NoHeader /\ file'[1].flag) \/ "restore" \in world.at
  BY <1>21
<1>7. CASE data'[0] # HeadArea
  <2>1. BeforeAt(pc', data', file', mem')
    BY <1>0, <1>4, <1>5, <1>6 DEF BeforeAt
  <2>2. QED
    BY <1>0, <1>1, <1>3, <1>7, <2>1, NoContextOK, Prepares DEF HeaderOK
<1>8. CASE data'[0] = HeadArea
  <2>1. hdr' = file /\ HeaderOK(hdr') /\ hdr' # NoHeader /\ Clean(hdr', Full)
    BY <1>2, <1>8, <1>21, Parts
  <2>2. CASE HeadWritten(data')
    <3>1. AtRest(data', hdr', Full)
      BY <1>0, <1>4, <1>5, <2>1, AllThere DEF AtRest
    <3>2. QED
      BY <1>0, <1>3, <2>1, <2>2, <3>1, LastLevel, Stops
  <2>3. CASE ~HeadWritten(data')
    <3>1. DamagedAt(pc', data', hdr', file')
      BY <1>0, <1>4, <1>5, <1>6 DEF DamagedAt
    <3>2. ControlAt(pc', data', hdr', file', mem', rh')
      BY <1>8, <2>1, <2>3, <3>1 DEF ControlAt
    <3>3. TypesAt(data', hdr', file', mem', rh')
      BY <1>0, <1>3, <2>1, NoContextOK DEF TypesAt, HeaderOK
    <3>4. QED
      BY <1>0, <3>2, <3>3, Into
  <2>4. QED
    BY <2>2, <2>3
<1>9. QED
  BY <1>7, <1>8

(* The head is overwritten when its copy and the temporary header exist.   *)
LEMMA RestoreHeaderStep ==
    ASSUME ShiftInv, RestoreHeader
    PROVE  ShiftInv'
<1>0. world \in Worlds /\ world' = world /\ pc = "restore"
  BY Parts, SameFaults DEF RestoreHeader
<1>1. hdr = NoHeader
  BY <1>0, Parts DEF DamagedAt, RunningAt
<1>2. RestKept(data) /\ CopyMade(data) /\ Clean(file, Full)
  BY <1>0, <1>1, Parts DEF BeforeAt
<1>3. CASE data' = WithHead /\ hdr' = file /\ pc' = "resume" /\ UNCHANGED <<file, mem, rh, faults>>
  <2>1. hdr' = file /\ HeaderOK(hdr') /\ hdr' # NoHeader /\ Clean(hdr', Full)
    BY <1>0, <1>2, <1>3, CleanOK, LastLevel DEF Clean
  <2>2. DOMAIN data' = Block /\ HeadWritten(data') /\ UserData(data', Full)
    BY <1>0, <1>2, <1>3, HeadUp, AllThere
  <2>3. RunningAt(pc', data', hdr', mem', rh', Full)
    BY <1>3, <2>1, <2>2 DEF RunningAt
  <2>4. QED
    BY <1>0, <1>3, <2>1, <2>2, <2>3, LastLevel, Parts, Goes
<1>4. CASE /\ "restore" \in world.at /\ IOError
           /\ data' \in CutBehind(Shift, WithHead)
           /\ hdr' = IF data'[0] = HeadArea THEN file ELSE hdr
           /\ GiveUp
  <2>1. file' = NoHeader /\ Release
    BY <1>4 DEF GiveUp
  <2>2. FileOK(file') /\ HeaderOK(file')
    BY <2>1 DEF FileOK, HeaderOK
  <2>3. QED
    BY <1>0, <1>4, <2>1, <2>2, HeadCut
<1>5. QED
  BY <1>3, <1>4 DEF RestoreHeader

(* A temporary header that is left is the one of the initialisation.       *)
LEMMA LeftoverClean ==
    ASSUME ShiftInv
    PROVE  Leftover <=> file # NoHeader /\ file[1].flag
<1>1. file = NoHeader \/ file = Formatted \/ Clean(file, Full)
  BY Parts DEF FileOK
<1>2. CASE file = NoHeader
  BY <1>2 DEF Leftover, Status
<1>3. CASE file = Formatted
  BY <1>3, FormattedOK, Parts DEF Leftover, Status
<1>4. CASE Clean(file, Full)
  <2>1. HotSeg(file[1].segs) = {} /\ file # NoHeader /\ file[1].flag
    BY <1>4, Parts, CleanShape, CleanOK, LastLevel DEF Clean
  <2>2. QED
    BY <2>1 DEF Leftover, Status
<1>5. QED
  BY <1>1, <1>2, <1>3, <1>4

(* The temporary header that is left is still true of the data.            *)
LEMMA RestoreByUserStep ==
    ASSUME ShiftInv, RestoreByUser
    PROVE  ShiftInv'
<1>0. world \in Worlds /\ world' = world /\ pc = "idle" /\ file # NoHeader /\ file[1].flag
  BY Parts, SameFaults, LeftoverClean DEF RestoreByUser
<1>1. Clean(file, Full)
  BY <1>0, Parts, FormattedOK DEF FileOK
<1>2. RestKept(data) /\ CopyMade(data)
  <2>1. CASE hdr = NoHeader
    BY <1>0, <2>1, Parts DEF BeforeAt
  <2>2. CASE hdr # NoHeader
    <3>1. ~HeadWritten(data)
      BY <2>2, KeysThere DEF RestoreByUser
    <3>2. QED
      BY <2>2, <3>1, Parts DEF DamagedAt
  <2>3. QED
    BY <2>1, <2>2
<1>3. DOMAIN data' = Block /\ HeadWritten(data') /\ UserData(data', Full)
  BY <1>0, <1>2, HeadUp, AllThere DEF RestoreByUser
<1>4. hdr' = file /\ HeaderOK(hdr') /\ hdr' # NoHeader
  BY <1>0, Parts DEF RestoreByUser
<1>5. RunningAt(pc', data', hdr', mem', rh', Full)
  <2>1. AtRest(data', hdr', Full)
    BY <1>1, <1>3, <1>4 DEF AtRest
  <2>2. pc' = "idle"
    BY <1>0 DEF RestoreByUser
  <2>3. QED
    BY <2>1, <2>2 DEF RunningAt
<1>6. data'[0] = HeadArea
  BY <1>0, <1>3, Numbers DEF HeadWritten
<1>7. ControlAt(pc', data', hdr', file', mem', rh')
  BY <1>0, <1>3, <1>4, <1>5, <1>6, LastLevel DEF ControlAt
<1>8. TypesAt(data', hdr', file', mem', rh')
  BY <1>3, <1>4, Parts DEF TypesAt, FileOK, HeaderOK, RestoreByUser
<1>9. QED
  BY <1>0, <1>7, <1>8, Into

-----------------------------------------------------------------------------
(* A run                                                                   *)

(* A run begins at the level of the header (reencrypt_context_init).       *)
LEMMA LoadReencryptStep ==
    ASSUME ShiftInv, LoadReencrypt
    PROVE  ShiftInv'
<1>0. world \in Worlds /\ world' = world /\ UNCHANGED <<data, hdr>>
  BY Parts, SameFaults DEF LoadReencrypt
<1>1. hdr # NoHeader /\ HeadWritten(data)
  BY KeysThere, Works DEF LoadReencrypt
<1>2. HotSeg(hdr[1].segs) = {} /\ hdr[1].slot /\ hdr[1].flag
  BY <1>1 DEF LoadReencrypt, Status
<1>3. PICK L \in Levels : RunningAt(pc, data, hdr, mem, rh, L)
  BY <1>1, Parts
<1>4. Clean(hdr, L) /\ UserData(data, L)
  <2>1. CASE pc = "resume"
    BY <1>3, <2>1 DEF RunningAt
  <2>2. CASE pc = "idle"
    <3>1. AtRest(data, hdr, L)
      BY <1>3, <2>2 DEF RunningAt
    <3>2. ~Hot(hdr, L)
      <4>1. SUFFICES ASSUME Hot(hdr, L) PROVE FALSE
        OBVIOUS
      <4>2. HotSeg(hdr[1].segs) = {Below(ZoneStart(L)) + 1}
        BY <1>0, <4>1, HotShape DEF Hot
      <4>3. QED
        BY <1>2, <4>2
    <3>3. QED
      BY <1>2, <3>1, <3>2 DEF AtRest, Ended, Clean
  <2>3. QED
    BY <2>1, <2>2 DEF LoadReencrypt
<1>5. FileOK(file') /\ HeaderOK(file')
  BY Parts DEF LoadReencrypt, FileOK, HeaderOK
<1>6. CASE mem' = hdr /\ rh' = ContextOf(hdr[1].segs, dev_size) /\ pc' = "loop"
  <2>1. RunContext(rh', L) /\ ContextOK(rh')
    BY <1>0, <1>4, <1>6, RunBegins DEF Clean
  <2>2. RunningAt(pc', data', hdr', mem', rh', L)
    BY <1>0, <1>4, <1>6, <2>1 DEF RunningAt, AtLoop
  <2>3. data'[0] = HeadArea
    BY <1>0, <1>1, Parts
  <2>4. ControlAt(pc', data', hdr', file', mem', rh')
    BY <1>0, <1>1, <2>2, <2>3 DEF ControlAt
  <2>5. TypesAt(data', hdr', file', mem', rh')
    BY <1>0, <1>5, <1>6, <2>1, Parts DEF TypesAt
  <2>6. QED
    BY <1>0, <2>4, <2>5, Into
<1>7. CASE Release
  <2>1. AtRest(data', hdr', L)
    BY <1>0, <1>4 DEF AtRest
  <2>2. QED
    BY <1>0, <1>1, <1>5, <1>7, <2>1, Parts, Stops
<1>8. QED
  BY <1>6, <1>7 DEF LoadReencrypt

(* A process stops where the header and the data are as they were.         *)
LEMMA StopsAsIs ==
    ASSUME ShiftInv, world' = world, Release, UNCHANGED <<data, hdr, file>>,
           hdr # NoHeader, HeadWritten(data), NEW L \in Levels, AtRest(data, hdr, L)
    PROVE  ShiftInv'
  BY Parts, Stops

(* The segments after a step.                                              *)
LEMMA WithSegs ==
    ASSUME NEW h, IsHeader(h), h[1].flag, h[1].slot, NEW s \in Seq(Segment),
           NEW g, g = <<[h[1] EXCEPT !.segs = s]>>
    PROVE  IsHeader(g) /\ g[1].flag /\ g[1].slot /\ g[1].segs = s
<1> DEFINE t == [h[1] EXCEPT !.segs = s]
<1>1. h[1] \in [flag : BOOLEAN, slot : BOOLEAN, segs : Seq(Segment)]
  BY DEF IsHeader
<1>2. t \in [flag : BOOLEAN, slot : BOOLEAN, segs : Seq(Segment)] /\ t.segs = s
  BY <1>1
<1>3. t.flag /\ t.slot
  BY <1>1
<1>4. g = <<t>> /\ g[1] = t
  OBVIOUS
<1> HIDE DEF t
<1>5. QED
  BY <1>2, <1>3, <1>4 DEF IsHeader

(* A header with the segments of the next hotzone,                         *)
LEMMA BecomesHot ==
    ASSUME world \in Worlds, NEW L \in Levels, L # 0, NEW h, Clean(h, L), NEW r,
           r.offset = ZoneStart(L), r.length = L - ZoneStart(L),
           NEW g, g = <<[h[1] EXCEPT !.segs = HotSegs(@, r)]>>
    PROVE  Hot(g, L)
<1>1. HotZoneSegs(HotSegs(h[1].segs, r), L)
  BY MakeHot DEF Clean
<1>2. HotSegs(h[1].segs, r) \in Seq(Segment)
  BY <1>1 DEF HotZoneSegs
<1>3. g = <<[h[1] EXCEPT !.segs = HotSegs(h[1].segs, r)]>>
  OBVIOUS
<1>4. QED
  BY <1>1, <1>2, <1>3, WithSegs DEF Clean, Hot

(* and of the level below it.                                              *)
LEMMA BecomesClean ==
    ASSUME world \in Worlds, NEW L \in Levels, NEW h, Hot(h, L), NEW r,
           r.offset = ZoneStart(L), r.length = L - ZoneStart(L),
           NEW g, g = <<[h[1] EXCEPT !.segs = PostSegs(@, r)]>>
    PROVE  Clean(g, ZoneStart(L))
<1>1. CleanSegs(PostSegs(h[1].segs, r), ZoneStart(L))
  BY MakePost DEF Hot
<1>2. PostSegs(h[1].segs, r) \in Seq(Segment)
  BY <1>1 DEF CleanSegs
<1>3. g = <<[h[1] EXCEPT !.segs = PostSegs(h[1].segs, r)]>>
  OBVIOUS
<1>4. QED
  BY <1>1, <1>2, <1>3, WithSegs DEF Clean, Hot

(* The hotzone is cut from what is left, in memory only.                   *)
LEMMA StepBeginStep ==
    ASSUME ShiftInv, StepBegin
    PROVE  ShiftInv'
<1>0. world \in Worlds /\ world' = world /\ UNCHANGED <<data, hdr, file, rh>> /\ pc = "loop" /\ pc' = "read"
  BY Parts, SameFaults DEF StepBegin
<1>1. hdr # NoHeader /\ HeadWritten(data)
  BY <1>0, Works
<1>2. PICK L \in Levels : AtLoop(data, hdr, mem, rh, L)
  BY <1>0, <1>1, Parts DEF RunningAt
<1>3. L # 0
  BY <1>0, <1>2, CleanShape DEF AtLoop, Clean, StepBegin
<1>4. rh.offset = ZoneStart(L) /\ rh.length = L - ZoneStart(L)
  BY <1>2, <1>3 DEF AtLoop, RunContext
<1>5. Hot(mem', L)
  <2>1. mem' = <<[mem[1] EXCEPT !.segs = HotSegs(@, rh)]>> /\ Clean(mem, L)
    BY <1>2 DEF StepBegin, AtLoop
  <2>2. QED
    BY <1>0, <1>3, <1>4, <2>1, BecomesHot
<1>6. HeaderOK(mem')
  BY <1>0, <1>5, HotOK DEF Hot
<1>7. RunningAt(pc', data', hdr', mem', rh', L)
  BY <1>0, <1>2, <1>5 DEF RunningAt, AtLoop, AtHot
<1>8. QED
  BY <1>0, <1>1, <1>6, <1>7, Parts, Goes

(* Nothing is left: the process stops.                                     *)
LEMMA StepRefusedStep ==
    ASSUME ShiftInv, StepRefused
    PROVE  ShiftInv'
<1>0. world \in Worlds /\ world' = world /\ UNCHANGED <<data, hdr, file>> /\ pc = "loop" /\ Release
  BY Parts, SameFaults DEF StepRefused
<1>1. hdr # NoHeader /\ HeadWritten(data)
  BY <1>0, Works
<1>2. PICK L \in Levels : AtLoop(data, hdr, mem, rh, L)
  BY <1>0, <1>1, Parts DEF RunningAt
<1>3. QED
  BY <1>0, <1>1, <1>2, StopsAsIs DEF AtLoop, AtRest

(* The loop ends between two hotzones.                                     *)
LEMMA LoopEndsStep ==
    ASSUME ShiftInv, LoopEnds
    PROVE  ShiftInv'
<1>0. /\ world \in Worlds /\ world' = world /\ UNCHANGED <<data, hdr, file, mem, rh>>
      /\ pc = "loop" /\ pc' = "teardown" /\ (rh.read > 0 \/ rh.progress >= rh.device_size)
  BY Parts, SameFaults DEF LoopEnds
<1>1. hdr # NoHeader /\ HeadWritten(data)
  BY <1>0, Works
<1>2. PICK L \in Levels : AtLoop(data, hdr, mem, rh, L)
  BY <1>0, <1>1, Parts DEF RunningAt
<1>3. rh.progress >= rh.device_size <=> L = 0
  <2>1. CASE L = 0
    BY <1>0, <1>2, <2>1, Numbers DEF AtLoop, RunContext
  <2>2. CASE L # 0
    BY <1>0, <1>2, <2>2, Numbers, Level DEF AtLoop, RunContext
  <2>3. QED
    BY <2>1, <2>2
<1>4. AtTeardown(data, hdr, mem, rh, L)
  BY <1>2, <1>3 DEF AtLoop, AtTeardown, RunContext
<1>5. RunningAt(pc', data', hdr', mem', rh', L)
  BY <1>0, <1>4 DEF RunningAt
<1>6. QED
  BY <1>0, <1>1, <1>5, Parts, Goes

(* Reading changes nothing on the device.                                  *)
LEMMA ReadHotzoneStep ==
    ASSUME ShiftInv, ReadHotzone
    PROVE  ShiftInv'
<1>0. world \in Worlds /\ world' = world /\ UNCHANGED <<data, hdr, file>> /\ pc = "read"
  BY Parts, SameFaults DEF ReadHotzone
<1>1. hdr # NoHeader /\ HeadWritten(data)
  BY <1>0, Works
<1>2. PICK L \in Levels : AtHot(data, hdr, mem, rh, L)
  BY <1>0, <1>1, Parts DEF RunningAt
<1>3. CASE rh' = [rh EXCEPT !.read = rh.length] /\ pc' = "hot" /\ UNCHANGED <<mem, faults>>
  <2>0. rh \in [offset : Nat, length : Nat, progress : Nat, read : Nat, device_size : Nat, recovery : BOOLEAN]
    BY Parts DEF ContextOK
  <2>1. /\ rh'.offset = rh.offset /\ rh'.length = rh.length /\ rh'.progress = rh.progress
        /\ rh'.device_size = rh.device_size /\ rh'.read = rh.length
    BY <1>3, <2>0
  <2>2. rh'.recovery = rh.recovery
    BY <1>3, <2>0
  <2>3. rh' \in [offset : Nat, length : Nat, progress : Nat, read : Nat, device_size : Nat, recovery : BOOLEAN]
    BY <1>3, <2>0
  <2>4. ContextOK(rh')
    BY <2>1, <2>3, Parts DEF ContextOK
  <2>5. L # 0
    BY <1>2 DEF AtHot, Hot, HotZoneSegs
  <2>6. RunContext(rh', L)
    BY <1>2, <2>1, <2>2, <2>5 DEF AtHot, RunContext
  <2>7. RunningAt(pc', data', hdr', mem', rh', L)
    BY <1>0, <1>2, <1>3, <2>1, <2>6 DEF RunningAt, AtHot
  <2>8. QED
    BY <1>0, <1>1, <1>3, <2>4, <2>7, Parts, Goes
<1>4. CASE IOError /\ Release
  BY <1>0, <1>1, <1>2, <1>4, StopsAsIs DEF AtHot, AtRest
<1>5. QED
  BY <1>3, <1>4 DEF ReadHotzone

(* Before the hotzone is written both headers are true of the data.        *)
LEMMA CommitHotStep ==
    ASSUME ShiftInv, CommitHot
    PROVE  ShiftInv'
<1>0. world \in Worlds /\ world' = world /\ UNCHANGED <<data, file>> /\ pc = "hot"
  BY Parts, SameFaults DEF CommitHot
<1>1. hdr # NoHeader /\ HeadWritten(data)
  BY <1>0, Works
<1>2. PICK L \in Levels : AtHot(data, hdr, mem, rh, L) /\ rh.read = rh.length
  BY <1>0, <1>1, Parts DEF RunningAt
<1>3. HeaderOK(mem) /\ mem # NoHeader
  BY <1>0, <1>2, HotOK DEF AtHot, Hot
<1>4. CASE hdr' = mem /\ pc' = "write" /\ UNCHANGED <<mem, rh, faults>>
  <2>1. RunningAt(pc', data', hdr', mem', rh', L)
    BY <1>0, <1>2, <1>4 DEF RunningAt, AtHot, AtWrite
  <2>2. QED
    BY <1>0, <1>1, <1>3, <1>4, <2>1, Parts, Goes
<1>5. CASE hdr' \in {hdr, mem} /\ IOError /\ Release
  <2>1. AtRest(data', hdr', L)
    BY <1>0, <1>2, <1>5 DEF AtHot, AtRest
  <2>2. HeaderOK(hdr') /\ hdr' # NoHeader
    BY <1>1, <1>3, <1>5, Parts
  <2>3. QED
    BY <1>0, <1>1, <1>5, <2>1, <2>2, Parts, Stops
<1>6. QED
  BY <1>4, <1>5 DEF CommitHot

(* The hotzone is written, all or some of it; its source is not.           *)
LEMMA WriteHotzoneStep ==
    ASSUME ShiftInv, WriteHotzone
    PROVE  ShiftInv'
<1>0. world \in Worlds /\ world' = world /\ UNCHANGED <<hdr, file>> /\ pc = "write"
  BY Parts, SameFaults DEF WriteHotzone
<1>1. hdr # NoHeader /\ HeadWritten(data)
  BY <1>0, Works
<1>2. PICK L \in Levels : AtWrite(data, hdr, mem, rh, L) /\ rh.read = rh.length
  BY <1>0, <1>1, Parts DEF RunningAt
<1>3. L # 0 /\ rh.offset = ZoneStart(L) /\ rh.length = L - ZoneStart(L) /\ UserData(data, L)
  BY <1>2 DEF AtWrite, Hot, HotZoneSegs, RunContext
<1>4. CASE data' = Written(rh) /\ pc' = "post" /\ UNCHANGED <<mem, rh, faults>>
  <2>1. /\ DOMAIN data' = Block /\ HeadWritten(data')
        /\ UserData(data', L) /\ UserData(data', ZoneStart(L))
    BY <1>0, <1>1, <1>3, <1>4, ZoneWritten
  <2>2. RunningAt(pc', data', hdr', mem', rh', L)
    BY <1>0, <1>2, <1>4, <2>1 DEF RunningAt, AtWrite
  <2>3. QED
    BY <1>0, <1>1, <1>4, <2>1, <2>2, Parts, Goes
<1>5. CASE IOError /\ data' \in CutShort(Hotzone(rh), Written(rh)) /\ Release
  <2>1. DOMAIN data' = Block /\ \A i \in Block \ Hotzone(rh) : data'[i] = data[i]
    BY <1>5, CutOutside
  <2>2. UserData(data', L) /\ HeadWritten(data')
    BY <1>0, <1>1, <1>3, <2>1, ZoneFree
  <2>3. AtRest(data', hdr', L)
    BY <1>0, <1>2, <2>2 DEF AtWrite, AtRest
  <2>4. QED
    BY <1>0, <1>1, <1>5, <2>1, <2>2, <2>3, Parts, Stops
<1>6. QED
  BY <1>4, <1>5 DEF WriteHotzone

-----------------------------------------------------------------------------
(* The end of a hotzone, of a run, of a recovery                           *)

(* After the hotzone is written both headers are true of the data.         *)
LEMMA CommitPostStep ==
    ASSUME ShiftInv, CommitPost
    PROVE  ShiftInv'
<1>0. world \in Worlds /\ world' = world /\ UNCHANGED <<data, file>> /\ pc = "post"
  BY Parts, SameFaults DEF CommitPost
<1>1. hdr # NoHeader /\ HeadWritten(data)
  BY <1>0, Works
<1>2. PICK L \in Levels : /\ AtWrite(data, hdr, mem, rh, L) /\ rh.read = rh.length
                          /\ UserData(data, ZoneStart(L))
  BY <1>0, <1>1, Parts DEF RunningAt
<1>3. /\ L # 0 /\ rh.offset = ZoneStart(L) /\ rh.length = L - ZoneStart(L) /\ UserData(data, L)
      /\ Hot(mem, L) /\ hdr = mem
  BY <1>2 DEF AtWrite, Hot, HotZoneSegs, RunContext
<1> DEFINE o == ZoneStart(L)
<1>4. Clean(Advanced, o)
  BY <1>0, <1>3, BecomesClean DEF Advanced
<1>5. o \in Levels /\ o \in Nat /\ o < L /\ L \in Nat /\ L <= Full
  BY <1>0, <1>3, Zones
<1> HIDE DEF o
<1>6. HeaderOK(Advanced) /\ Advanced # NoHeader
  BY <1>0, <1>4, <1>5, CleanOK DEF Clean
<1>7. CASE hdr' = Advanced /\ mem' = Advanced /\ rh' = NextContext(rh) /\ pc' = "loop" /\ UNCHANGED faults
  <2>1. /\ rh'.progress = rh.progress + rh.length /\ rh'.read = rh.read
        /\ rh'.device_size = rh.device_size /\ rh'.recovery = rh.recovery
        /\ rh'.offset = IF o = 0 THEN 0 ELSE ZoneStart(o)
        /\ rh'.length = IF o = 0 THEN Shift ELSE o - ZoneStart(o)
        /\ rh' \in [offset : Nat, length : Nat, progress : Nat, read : Nat,
                    device_size : Nat, recovery : BOOLEAN]
    BY <1>0, <1>2, <1>3, <1>7, Parts, Advances DEF o
  <2>2. ~rh.recovery /\ rh.device_size = dev_size /\ rh.progress = dev_size - L
    BY <1>2, <1>3 DEF AtWrite, RunContext
  <2>3. rh'.progress = dev_size - o
    BY <1>0, <1>3, <1>5, <2>1, <2>2, Numbers DEF o
  <2>4. RunContext(rh', o)
    BY <1>0, <2>1, <2>2, <2>3, Numbers DEF RunContext
  <2>5. rh'.offset \in 0..dev_size /\ rh'.length \in 0..Shift /\ rh'.read \in 0..Shift
    <3>1. CASE o = 0
      BY <1>0, <2>1, <3>1, Numbers, Parts DEF ContextOK
    <3>2. CASE o # 0
      <4>1. ZoneStart(o) \in Nat /\ ZoneStart(o) < o /\ o - ZoneStart(o) <= Shift /\ o <= Full
        BY <1>0, <1>5, <3>2, Zones
      <4>2. QED
        BY <1>0, <1>5, <2>1, <3>2, <4>1, Numbers, Parts DEF ContextOK
    <3>3. QED
      BY <3>1, <3>2
  <2>6. ContextOK(rh')
    BY <1>0, <1>5, <2>1, <2>2, <2>3, <2>5, Numbers DEF ContextOK
  <2>7. RunningAt(pc', data', hdr', mem', rh', o)
    BY <1>0, <1>2, <1>4, <1>7, <2>4 DEF RunningAt, AtLoop, o
  <2>8. QED
    BY <1>0, <1>1, <1>5, <1>6, <1>7, <2>6, <2>7, Parts, Goes
<1>8. CASE IOError /\ Release /\ hdr' = hdr
  BY <1>0, <1>1, <1>3, <1>8, StopsAsIs DEF AtRest
<1>9. CASE IOError /\ Release /\ hdr' = Advanced
  <2>1. AtRest(data', hdr', o)
    BY <1>0, <1>2, <1>4, <1>9 DEF AtRest, o
  <2>2. QED
    BY <1>0, <1>1, <1>5, <1>6, <1>9, <2>1, Parts, Stops
<1>10. QED
  BY <1>7, <1>8, <1>9 DEF CommitPost

(* All is done exactly when progress reaches the size of the device.       *)
LEMMA TeardownStep ==
    ASSUME ShiftInv, Teardown
    PROVE  ShiftInv'
<1>0. world \in Worlds /\ world' = world /\ UNCHANGED <<data, hdr, file>> /\ pc = "teardown"
  BY Parts, SameFaults DEF Teardown
<1>1. hdr # NoHeader /\ HeadWritten(data)
  BY <1>0, Works
<1>2. PICK L \in Levels : AtTeardown(data, hdr, mem, rh, L)
  BY <1>0, <1>1, Parts DEF RunningAt
<1>3. rh.recovery \in BOOLEAN /\ rh.progress \in Nat /\ rh.device_size \in Nat
  BY Parts DEF ContextOK
<1>4. CASE rh.progress >= rh.device_size /\ pc' = "wipe" /\ UNCHANGED <<mem, rh>>
  <2>1. AtWipe(data, hdr, mem, rh)
    <3>1. CASE rh.recovery
      BY <1>2, <1>4, <3>1 DEF AtTeardown, AtWipe, Hot
    <3>2. CASE ~rh.recovery
      BY <1>2, <1>4, <3>2 DEF AtTeardown, AtWipe, Clean
    <3>3. QED
      BY <3>1, <3>2
  <2>2. RunningAt(pc', data', hdr', mem', rh', L)
    BY <1>0, <1>4, <2>1 DEF RunningAt
  <2>3. QED
    BY <1>0, <1>1, <1>4, <2>2, Parts, Goes
<1>5. CASE rh.progress < rh.device_size /\ rh.recovery /\ pc' = "final" /\ UNCHANGED <<mem, rh>>
  <2>0. ~(rh.progress >= rh.device_size)
    BY <1>3, <1>5
  <2>1. AtFinal(data, hdr, mem, rh, L)
    BY <1>2, <1>5, <2>0 DEF AtTeardown, AtFinal
  <2>2. RunningAt(pc', data', hdr', mem', rh', L)
    BY <1>0, <1>5, <2>1 DEF RunningAt
  <2>3. QED
    BY <1>0, <1>1, <1>5, <2>2, Parts, Goes
<1>6. CASE rh.progress < rh.device_size /\ ~rh.recovery /\ Release
  <2>1. AtRest(data, hdr, L)
    BY <1>2, <1>6 DEF AtTeardown, AtRest
  <2>2. QED
    BY <1>0, <1>1, <1>6, <2>1, StopsAsIs
<1>7. QED
  BY <1>4, <1>5, <1>6 DEF Teardown

(* The copy at the end is not needed when all is encrypted.                *)
LEMMA EndFree ==
    ASSUME world \in Worlds, NEW d, \A i \in Block : i < dev_size => d[i] = data[i]
    PROVE  /\ UserData(data, 0) => UserData(d, 0)
           /\ HeadWritten(data) => HeadWritten(d)
<1>1. \A x \in Kept : ~(x < 0) /\ Shift + x \in Block /\ Shift + x < dev_size
  BY Numbers DEF Kept, Block, Full
<1>2. \A i \in 0..(Shift - 1) : i \in Block /\ i < dev_size
  BY Numbers DEF Block
<1>3. QED
  BY <1>1, <1>2 DEF UserData, HeadWritten

(* The copy is wiped, or should be, when nothing is left to encrypt.       *)
LEMMA WipeMovedStep ==
    ASSUME ShiftInv, WipeMoved
    PROVE  ShiftInv'
<1>0. /\ world \in Worlds /\ world' = world /\ UNCHANGED <<hdr, file, mem, rh>>
      /\ pc = "wipe" /\ pc' = "drop"
  BY Parts, SameFaults DEF WipeMoved
<1>1. hdr # NoHeader /\ HeadWritten(data)
  BY <1>0, Works
<1>2. PICK L \in Levels : AtWipe(data, hdr, mem, rh)
  BY <1>0, <1>1, Parts DEF RunningAt
<1>3. DOMAIN data' = Block /\ CopyWiped(data') /\ \A i \in Block \ (dev_size..(D - 1)) : data'[i] = data[i]
  <2>1. CASE data' = WipedEnd
    <3>1. DOMAIN data' = Block /\ \A i \in Block : data'[i] = IF i >= dev_size THEN Junk ELSE data[i]
      BY <2>1 DEF WipedEnd
    <3>2. QED
      BY <1>0, <3>1, Numbers DEF CopyWiped, Block
  <2>2. CASE "wipe" \in world.at /\ data' \in CutShort(dev_size..(D - 1), WipedEnd)
    BY <1>0, <2>2, CutOutside DEF CopyWiped
  <2>3. QED
    BY <2>1, <2>2 DEF WipeMoved
<1>4. CopyWiped(data')
  BY <1>3
<1>5. \A i \in Block : i < dev_size => data'[i] = data[i]
  BY <1>0, <1>3, Numbers DEF Block
<1>6. UserData(data', 0) /\ HeadWritten(data')
  BY <1>0, <1>1, <1>2, <1>5, EndFree DEF AtWipe
<1>7. RunningAt(pc', data', hdr', mem', rh', L)
  BY <1>0, <1>2, <1>4, <1>6 DEF RunningAt, AtWipe
<1>8. QED
  BY <1>0, <1>1, <1>3, <1>6, <1>7, Parts, Goes

(* The keyslot of reencryption goes after the copy.                        *)
LEMMA DropSlotStep ==
    ASSUME ShiftInv, DropSlot
    PROVE  ShiftInv'
<1>0. /\ world \in Worlds /\ world' = world /\ UNCHANGED <<data, file, rh>>
      /\ pc = "drop" /\ pc' = "unflag"
  BY Parts, SameFaults DEF DropSlot
<1>1. hdr # NoHeader /\ HeadWritten(data)
  BY <1>0, Works
<1>2. PICK L \in Levels : AtWipe(data, hdr, mem, rh) /\ CopyWiped(data)
  BY <1>0, <1>1, Parts DEF RunningAt
<1> DEFINE t == [mem[1] EXCEPT !.slot = FALSE]
<1>3. mem[1] \in [flag : BOOLEAN, slot : BOOLEAN, segs : Seq(Segment)] /\ mem[1].flag /\ CleanSegs(mem[1].segs, 0)
  BY <1>2 DEF AtWipe, Clean, IsHeader
<1>4. t \in [flag : BOOLEAN, slot : BOOLEAN, segs : Seq(Segment)] /\ t.segs = mem[1].segs
  BY <1>3
<1>5. t.flag
  BY <1>3
<1>6. CASE mem' = <<t>> /\ hdr' \in {hdr, mem'}
  <2>1. mem' = <<t>> /\ mem'[1] = t
    BY <1>6
  <2> HIDE DEF t
  <2>2. IsHeader(mem') /\ mem'[1].flag /\ CleanSegs(mem'[1].segs, 0)
    BY <1>3, <1>4, <1>5, <2>1 DEF IsHeader
  <2>3. HeaderOK(mem') /\ mem' # NoHeader
    BY <1>0, <2>2, CleanOK, LastLevel
  <2>4. Ended(data', mem')
    BY <1>0, <1>2, <2>2 DEF Ended, AtWipe
  <2>5. IsHeader(hdr) /\ hdr[1].flag /\ (~rh.recovery => Ended(data, hdr))
    BY <1>2 DEF AtWipe, Ended, Clean
  <2>6. AtUnflag(data', hdr', mem', rh')
    BY <1>0, <1>6, <2>2, <2>4, <2>5 DEF AtUnflag
  <2>7. RunningAt(pc', data', hdr', mem', rh', L)
    BY <1>0, <2>6 DEF RunningAt
  <2>8. QED
    BY <1>0, <1>1, <1>6, <2>3, <2>7, Parts, Goes
<1>7. CASE UNCHANGED <<hdr, mem>>
  <2>1. AtUnflag(data', hdr', mem', rh')
    BY <1>0, <1>2, <1>7 DEF AtUnflag, AtWipe, Ended, Clean
  <2>2. RunningAt(pc', data', hdr', mem', rh', L)
    BY <1>0, <2>1 DEF RunningAt
  <2>3. QED
    BY <1>0, <1>1, <1>7, <2>2, Parts, Goes
<1>8. QED
  BY <1>6, <1>7 DEF DropSlot

(* The flag goes last.                                                     *)
LEMMA UnflagStep ==
    ASSUME ShiftInv, Unflag
    PROVE  ShiftInv'
<1>0. world \in Worlds /\ world' = world /\ UNCHANGED <<data, file>> /\ pc = "unflag"
  BY Parts, SameFaults DEF Unflag
<1>1. hdr # NoHeader /\ HeadWritten(data)
  BY <1>0, Works
<1>2. PICK L \in Levels : AtUnflag(data, hdr, mem, rh)
  BY <1>0, <1>1, Parts DEF RunningAt
<1> DEFINE t == [mem[1] EXCEPT !.flag = FALSE]
           g == <<t>>
<1>3. /\ mem[1] \in [flag : BOOLEAN, slot : BOOLEAN, segs : Seq(Segment)]
      /\ CleanSegs(mem[1].segs, 0) /\ UserData(data, 0) /\ CopyWiped(data)
  BY <1>2 DEF AtUnflag, Ended, IsHeader
<1>4. t \in [flag : BOOLEAN, slot : BOOLEAN, segs : Seq(Segment)] /\ t.segs = mem[1].segs
  BY <1>3
<1>5. g[1] = t /\ hdr' \in {g, hdr}
  BY DEF Unflag
<1>6. \/ rh.recovery /\ mem' = g /\ rh' = rh /\ pc' = "final"
      \/ ~rh.recovery /\ Release
  BY DEF Unflag
<1> HIDE DEF t
<1>7. IsHeader(g) /\ CleanSegs(g[1].segs, 0)
  BY <1>3, <1>4, <1>5 DEF IsHeader
<1> HIDE DEF g
<1>8. HeaderOK(g) /\ g # NoHeader
  BY <1>0, <1>7, CleanOK, LastLevel
<1>9. Ended(data', g)
  BY <1>0, <1>3, <1>7 DEF Ended
<1>10. CASE rh.recovery /\ mem' = g /\ rh' = rh /\ pc' = "final"
  <2>1. IsHeader(hdr') /\ (~hdr'[1].flag => Ended(data', hdr'))
    BY <1>2, <1>5, <1>7, <1>9 DEF AtUnflag
  <2>2. RunningAt(pc', data', hdr', mem', rh', 0)
    BY <1>9, <1>10, <2>1 DEF RunningAt, AtFinal
  <2>3. QED
    BY <1>0, <1>1, <1>5, <1>8, <1>10, <2>2, LastLevel, Parts, Goes
<1>11. CASE ~rh.recovery /\ Release
  <2>1. AtRest(data', hdr', 0)
    BY <1>0, <1>2, <1>5, <1>9, <1>11 DEF AtRest, AtUnflag
  <2>2. QED
    BY <1>0, <1>1, <1>5, <1>8, <1>11, <2>1, LastLevel, Parts, Stops
<1>12. QED
  BY <1>6, <1>10, <1>11

(* A recovery begins with the hotzone of the header                        *)
(* (reencrypt_load_crashed).                                               *)
LEMMA LoadCrashedStep ==
    ASSUME ShiftInv, LoadCrashed
    PROVE  ShiftInv'
<1>0. /\ world \in Worlds /\ world' = world /\ UNCHANGED <<data, hdr, file>>
      /\ pc = "idle" /\ pc' = "recover" /\ mem' = hdr /\ rh' = CrashedContext(hdr[1].segs)
  BY Parts, SameFaults DEF LoadCrashed
<1>1. hdr # NoHeader /\ HeadWritten(data)
  BY KeysThere DEF LoadCrashed
<1>2. HotSeg(hdr[1].segs) # {} /\ hdr[1].slot
  BY <1>1 DEF LoadCrashed, Status
<1>3. PICK L \in Levels : AtRest(data, hdr, L)
  BY <1>0, <1>1, Parts DEF RunningAt
<1>4. Hot(hdr, L) /\ UserData(data, L)
  <2>1. ~Clean(hdr, L)
    BY <1>0, <1>2, CleanShape DEF Clean
  <2>2. ~(L = 0 /\ Ended(data, hdr))
    BY <1>0, <1>2, CleanShape DEF Ended
  <2>3. QED
    BY <1>3, <2>1, <2>2 DEF AtRest
<1>5. RecoveryContext(rh', L) /\ ContextOK(rh')
  BY <1>0, <1>4, RecoveryBegins DEF Hot
<1>6. RunningAt(pc', data', hdr', mem', rh', L)
  BY <1>0, <1>4, <1>5 DEF RunningAt, AtRecover
<1>7. QED
  BY <1>0, <1>1, <1>5, <1>6, Parts, Goes

(* A recovery writes what the run would have written; the header on the    *)
(* device is not moved on yet.                                             *)
LEMMA RecoverSegmentStep ==
    ASSUME ShiftInv, RecoverSegment
    PROVE  ShiftInv'
<1>0. world \in Worlds /\ world' = world /\ UNCHANGED <<hdr, file>> /\ pc = "recover"
  BY Parts, SameFaults DEF RecoverSegment
<1>1. hdr # NoHeader /\ HeadWritten(data)
  BY <1>0, Works
<1>2. PICK L \in Levels : AtRecover(data, hdr, mem, rh, L)
  BY <1>0, <1>1, Parts DEF RunningAt
<1>3. /\ L # 0 /\ rh.offset = ZoneStart(L) /\ rh.length = L - ZoneStart(L) /\ UserData(data, L)
      /\ Hot(mem, L) /\ hdr = mem
  BY <1>2 DEF AtRecover, Hot, HotZoneSegs, RecoveryContext
<1> DEFINE o == ZoneStart(L)
<1>4. Clean(Advanced, o)
  BY <1>0, <1>3, BecomesClean DEF Advanced
<1>5. /\ o \in Levels /\ o \in Nat /\ o < L /\ L \in Nat /\ L <= Full /\ L - o <= Shift
      /\ o = 0 => L = Shift
  BY <1>0, <1>3, Zones
<1> HIDE DEF o
<1>6. HeaderOK(Advanced) /\ Advanced # NoHeader
  BY <1>0, <1>4, <1>5, CleanOK DEF Clean
<1>7. CASE /\ data' = Written(rh) /\ mem' = Advanced /\ rh' = NextContext([rh EXCEPT !.read = rh.length])
           /\ pc' = "teardown" /\ UNCHANGED faults
  <2>1. /\ DOMAIN data' = Block /\ HeadWritten(data')
        /\ UserData(data', L) /\ UserData(data', o)
    BY <1>0, <1>1, <1>3, <1>7, ZoneWritten DEF o
  <2> DEFINE r == [rh EXCEPT !.read = rh.length]
  <2>2. rh \in [offset : Nat, length : Nat, progress : Nat, read : Nat, device_size : Nat, recovery : BOOLEAN]
    BY Parts DEF ContextOK
  <2>3. /\ r.offset = rh.offset /\ r.length = rh.length /\ r.progress = rh.progress
        /\ r.device_size = rh.device_size /\ r.read = rh.length
    BY <2>2
  <2>4. r.recovery = rh.recovery
    BY <2>2
  <2>5. r \in [offset : Nat, length : Nat, progress : Nat, read : Nat, device_size : Nat, recovery : BOOLEAN]
    BY <2>2
  <2>6. rh' = NextContext(r)
    BY <1>7
  <2> HIDE DEF r
  <2>7. ContextOK(r)
    BY <2>3, <2>5, Parts DEF ContextOK
  <2>8. /\ rh'.progress = r.progress + r.length /\ rh'.read = r.read
        /\ rh'.device_size = r.device_size /\ rh'.recovery = r.recovery
        /\ rh'.offset = IF o = 0 THEN 0 ELSE ZoneStart(o)
        /\ rh'.length = IF o = 0 THEN Shift ELSE o - ZoneStart(o)
        /\ rh' \in [offset : Nat, length : Nat, progress : Nat, read : Nat,
                    device_size : Nat, recovery : BOOLEAN]
    BY <1>0, <1>3, <2>3, <2>6, <2>7, Advances DEF o
  <2>9. /\ rh.recovery /\ rh.device_size = Full
        /\ rh.progress = Full - o - Least(Shift, Full - o)
    BY <1>2 DEF AtRecover, RecoveryContext, o
  <2>10. rh'.progress = Full - o - Least(Shift, Full - o) + (L - o)
    BY <1>3, <2>3, <2>8, <2>9 DEF o
  <2>11. rh'.progress \in 0..Full /\ (rh'.progress >= Full <=> o = 0)
    BY <1>0, <1>5, <2>10, Numbers DEF Least
  <2>12. rh'.offset \in 0..dev_size /\ rh'.length \in 0..Shift
    <3>1. CASE o = 0
      BY <1>0, <2>8, <3>1, Numbers
    <3>2. CASE o # 0
      <4>1. ZoneStart(o) \in Nat /\ ZoneStart(o) < o /\ o - ZoneStart(o) <= Shift /\ o <= Full
        BY <1>0, <1>5, <3>2, Zones
      <4>2. QED
        BY <1>0, <1>5, <2>8, <3>2, <4>1, Numbers
    <3>3. QED
      BY <3>1, <3>2
  <2>13. rh'.read \in 0..Shift
    BY <2>3, <2>8, Parts DEF ContextOK
  <2>14. ContextOK(rh')
    BY <1>0, <2>3, <2>8, <2>9, <2>11, <2>12, <2>13, Numbers DEF ContextOK
  <2>15. AtTeardown(data', hdr', mem', rh', L)
    BY <1>0, <1>3, <1>4, <1>7, <2>1, <2>3, <2>4, <2>8, <2>9, <2>11 DEF AtTeardown, o
  <2>16. RunningAt(pc', data', hdr', mem', rh', L)
    BY <1>7, <2>15 DEF RunningAt
  <2>17. QED
    BY <1>0, <1>1, <1>6, <1>7, <2>1, <2>14, <2>16, Parts, Goes
<1>8. CASE IOError /\ data' \in CutShort(Hotzone(rh), Written(rh)) /\ Release
  <2>1. DOMAIN data' = Block /\ \A i \in Block \ Hotzone(rh) : data'[i] = data[i]
    BY <1>8, CutOutside
  <2>2. UserData(data', L) /\ HeadWritten(data')
    BY <1>0, <1>1, <1>3, <2>1, ZoneFree
  <2>3. AtRest(data', hdr', L)
    BY <1>0, <1>3, <2>2 DEF AtRest
  <2>4. QED
    BY <1>0, <1>1, <1>8, <2>1, <2>2, <2>3, Parts, Stops
<1>9. QED
  BY <1>7, <1>8 DEF RecoverSegment

(* It is moved on at the end of the recovery.                              *)
LEMMA FinalWriteStep ==
    ASSUME ShiftInv, Foreseen, FinalWrite
    PROVE  ShiftInv'
<1>0. world \in Worlds /\ world' = world /\ UNCHANGED <<data, file>> /\ pc = "final" /\ Release
  BY Parts, SameFaults DEF FinalWrite
<1>1. hdr # NoHeader /\ HeadWritten(data)
  BY <1>0, Works
<1>2. PICK L \in Levels : AtFinal(data, hdr, mem, rh, L)
  BY <1>0, <1>1, Parts DEF RunningAt
<1>3. CASE Ended(data, mem)
  <2>1. Linear(mem[1].segs) = {}
    BY <1>0, <1>3, CleanShape, LastLevel DEF Ended
  <2>2. hdr' = mem
    BY <1>0, <2>1 DEF FinalWrite, LastHotzone, Foreseen
  <2>3. AtRest(data', hdr', 0)
    BY <1>0, <1>3, <2>2 DEF AtRest
  <2>4. HeaderOK(mem) /\ mem # NoHeader
    BY <1>0, <1>3, CleanOK, LastLevel DEF Ended
  <2>5. QED
    BY <1>0, <1>1, <2>2, <2>3, <2>4, LastLevel, Parts, Stops
<1>4. CASE Hot(hdr, L) /\ Clean(mem, ZoneStart(L)) /\ UserData(data, L) /\ UserData(data, ZoneStart(L))
  <2>1. ZoneStart(L) \in Levels
    BY <1>0, <1>4, Zones DEF Hot, HotZoneSegs
  <2>2. CASE hdr' = mem
    <3>1. AtRest(data', hdr', ZoneStart(L))
      BY <1>0, <1>4, <2>2 DEF AtRest
    <3>2. HeaderOK(mem) /\ mem # NoHeader
      BY <1>0, <1>4, <2>1, CleanOK DEF Clean
    <3>3. QED
      BY <1>0, <1>1, <2>1, <2>2, <3>1, <3>2, Parts, Stops
  <2>3. CASE hdr' = hdr
    <3>1. AtRest(data, hdr, L)
      BY <1>4 DEF AtRest
    <3>2. QED
      BY <1>0, <1>1, <2>3, <3>1, StopsAsIs
  <2>4. QED
    BY <2>2, <2>3 DEF FinalWrite
<1>5. QED
  BY <1>2, <1>3, <1>4 DEF AtFinal

-----------------------------------------------------------------------------
(* A death                                                                 *)

(* In the finish of a recovery nothing is linear any more.                 *)
LEMMA FinishingAtEnd ==
    ASSUME ShiftInv, pc \in {"wipe", "drop"}
    PROVE  Finishing /\ UserData(data, 0) /\ (~rh.recovery => Clean(hdr, 0)) /\ HeadWritten(data) /\ hdr # NoHeader
<1>1. world \in Worlds /\ hdr # NoHeader /\ HeadWritten(data)
  BY Parts, Works
<1>2. \E L \in Levels : RunningAt(pc, data, hdr, mem, rh, L)
  BY Works
<1>3. AtWipe(data, hdr, mem, rh)
  BY <1>2 DEF RunningAt
<1>4. Linear(mem[1].segs) = {}
  BY <1>1, <1>3, CleanShape, LastLevel DEF AtWipe, Clean
<1>5. QED
  BY <1>1, <1>3, <1>4 DEF Finishing, LastHotzone, AtWipe

(* Wherever a process is, and unless it finishes a recovery, the header on *)
(* the device is true of the data on it.                                   *)
LEMMA Readable ==
    ASSUME ShiftInv, hdr # NoHeader, HeadWritten(data), ~(Finishing /\ rh.recovery)
    PROVE  \E L \in Levels : AtRest(data, hdr, L)
<1>0. world \in Worlds /\ 0 \in Levels /\ rh.recovery \in BOOLEAN
  BY Parts, LastLevel DEF ContextOK
<1>1. PICK L \in Levels : RunningAt(pc, data, hdr, mem, rh, L)
  BY Parts
<1>2. CASE pc \in {"idle", "resume", "loop", "read", "hot"}
  BY <1>1, <1>2 DEF RunningAt, AtRest, AtLoop, AtHot
<1>3. CASE pc \in {"write", "post", "recover"}
  BY <1>1, <1>3 DEF RunningAt, AtRest, AtWrite, AtRecover
<1>4. CASE pc = "teardown"
  BY <1>0, <1>1, <1>4 DEF RunningAt, AtRest, AtTeardown
<1>5. CASE pc \in {"wipe", "drop"}
  <2>1. AtRest(data, hdr, 0)
    BY <1>0, <1>5, FinishingAtEnd DEF AtRest
  <2>2. QED
    BY <1>0, <2>1
<1>6. CASE pc = "unflag"
  <2>1. AtUnflag(data, hdr, mem, rh)
    BY <1>1, <1>6 DEF RunningAt
  <2>2. Finishing
    BY <1>0, <1>6, <2>1, CleanShape DEF Finishing, LastHotzone, AtUnflag, Ended
  <2>3. AtRest(data, hdr, 0)
    BY <2>1, <2>2 DEF AtUnflag, AtRest
  <2>4. QED
    BY <1>0, <2>3
<1>7. CASE pc = "final"
  <2>1. AtFinal(data, hdr, mem, rh, L)
    BY <1>1, <1>7 DEF RunningAt
  <2>2. ~Ended(data, mem)
    BY <1>0, <1>7, <2>1, CleanShape DEF Finishing, LastHotzone, AtFinal, Ended
  <2>3. AtRest(data, hdr, L)
    BY <2>1, <2>2 DEF AtFinal, AtRest
  <2>4. QED
    BY <2>3
<1>8. QED
  BY <1>1, <1>2, <1>3, <1>4, <1>5, <1>6, <1>7 DEF RunningAt

(* The hotzone that is being written when a process dies.                  *)
LEMMA InHotzone ==
    ASSUME ShiftInv, pc \in {"write", "recover"}
    PROVE  \E L \in Levels : /\ L # 0 /\ rh.offset = ZoneStart(L) /\ rh.length = L - ZoneStart(L)
                             /\ UserData(data, L) /\ Hot(hdr, L)
<1>1. PICK L \in Levels : RunningAt(pc, data, hdr, mem, rh, L)
  BY Works
<1>2. CASE pc = "write"
  BY <1>1, <1>2 DEF RunningAt, AtWrite, Hot, HotZoneSegs, RunContext
<1>3. CASE pc = "recover"
  BY <1>1, <1>3 DEF RunningAt, AtRecover, Hot, HotZoneSegs, RecoveryContext
<1>4. QED
  BY <1>2, <1>3

(* A death anywhere but in the finish of a recovery leaves a device that   *)
(* can be read.                                                            *)
LEMMA DieStep ==
    ASSUME ShiftInv, Foreseen, Die
    PROVE  ShiftInv'
<1>0. world \in Worlds /\ world' = world /\ file' = file /\ Release /\ FileOK(file') /\ HeaderOK(file')
  BY Parts DEF Die
<1>00. pc' = "idle" /\ mem' = NoHeader /\ rh' = NoContext /\ HeaderOK(mem') /\ ContextOK(rh')
  BY <1>0, NoContextOK DEF Release, HeaderOK
<1>01. ~(Finishing /\ rh.recovery)
  BY <1>0 DEF Die, Foreseen
<1>02. data' \in DataNow /\ pc # "idle" /\ hdr' = IF pc = "restore" /\ data'[0] = HeadArea THEN file ELSE hdr
  BY DEF Die
<1>1. CASE pc = "move"
  <2>1. hdr = NoHeader /\ hdr' = NoHeader
    BY <1>1, <1>02, Parts DEF DamagedAt, RunningAt
  <2>2. RestKept(data) /\ HeadKept(data) /\ file = Formatted
    BY <1>1, <2>1, Parts DEF BeforeAt
  <2>3. data' \in CutShort(dev_size..(D - 1), Moved)
    BY <1>1, <1>02 DEF DataNow
  <2>4. DOMAIN data' = Block /\ \A i \in Block \ (dev_size..(D - 1)) : data'[i] = data[i]
    BY <2>3, CutOutside
  <2>5. \A i \in Block : i < dev_size => data'[i] = data[i]
    BY <1>0, <2>4, Numbers DEF Block
  <2>6. RestKept(data') /\ HeadKept(data')
    BY <1>0, <2>2, <2>5, Numbers DEF RestKept, HeadKept, Block
  <2>7. ~file[1].flag
    BY <1>0, <2>2, FormattedOK
  <2>8. BeforeAt(pc', data', file', mem')
    BY <1>0, <1>00, <2>6, <2>7 DEF BeforeAt
  <2>9. QED
    BY <1>0, <1>00, <2>1, <2>4, <2>8, Prepares
<1>2. CASE pc = "flag"
  <2>1. hdr = NoHeader /\ hdr' = NoHeader
    BY <1>2, <1>02, Parts DEF DamagedAt, RunningAt
  <2>2. RestKept(data) /\ HeadKept(data) /\ CopyMade(data)
    BY <1>2, <2>1, Parts DEF BeforeAt
  <2>3. data' = data
    BY <1>2, <1>02 DEF DataNow
  <2>4. BeforeAt(pc', data', file', mem')
    BY <1>0, <1>00, <2>2, <2>3 DEF BeforeAt
  <2>5. QED
    BY <1>0, <1>00, <2>1, <2>3, <2>4, Parts, Prepares
<1>3. CASE pc = "restore"
  <2>1. data' \in CutBehind(Shift, WithHead) \cup {WithHead}
    BY <1>3, <1>02 DEF DataNow
  <2>2. QED
    BY <1>0, <1>02, <1>3, <2>1, HeadCut
<1>4. CASE pc \in {"write", "recover"}
  <2>1. hdr # NoHeader /\ HeadWritten(data) /\ hdr' = hdr
    BY <1>4, <1>02, Works
  <2>2. PICK L \in Levels : /\ L # 0 /\ rh.offset = ZoneStart(L) /\ rh.length = L - ZoneStart(L)
                            /\ UserData(data, L) /\ Hot(hdr, L)
    BY <1>4, InHotzone
  <2>3. data' \in CutShort(Hotzone(rh), Written(rh))
    BY <1>4, <1>02 DEF DataNow
  <2>4. DOMAIN data' = Block /\ \A i \in Block \ Hotzone(rh) : data'[i] = data[i]
    BY <2>3, CutOutside
  <2>5. UserData(data', L) /\ HeadWritten(data')
    BY <1>0, <2>1, <2>2, <2>4, ZoneFree
  <2>6. AtRest(data', hdr', L)
    BY <2>1, <2>2, <2>5 DEF AtRest
  <2>7. QED
    BY <1>0, <2>1, <2>4, <2>5, <2>6, Parts, Stops
<1>5. CASE pc = "wipe"
  <2>1. hdr # NoHeader /\ HeadWritten(data) /\ hdr' = hdr
    BY <1>5, <1>02, Works
  <2>2. UserData(data, 0) /\ Clean(hdr, 0)
    BY <1>5, <1>01, FinishingAtEnd
  <2>3. data' \in CutShort(dev_size..(D - 1), WipedEnd)
    BY <1>5, <1>02 DEF DataNow
  <2>4. DOMAIN data' = Block /\ \A i \in Block \ (dev_size..(D - 1)) : data'[i] = data[i]
    BY <2>3, CutOutside
  <2>5. \A i \in Block : i < dev_size => data'[i] = data[i]
    BY <1>0, <2>4, Numbers DEF Block
  <2>6. UserData(data', 0) /\ HeadWritten(data')
    BY <1>0, <2>1, <2>2, <2>5, EndFree
  <2>7. AtRest(data', hdr', 0)
    BY <2>1, <2>2, <2>6 DEF AtRest
  <2>8. QED
    BY <1>0, <2>1, <2>4, <2>6, <2>7, LastLevel, Parts, Stops
<1>6. CASE pc \notin {"move", "flag", "restore", "write", "recover", "wipe"}
  <2>1. hdr # NoHeader /\ HeadWritten(data) /\ hdr' = hdr
    BY <1>6, <1>02, Works
  <2>2. data' = data
    BY <1>6, <1>02 DEF DataNow
  <2>3. PICK L \in Levels : AtRest(data, hdr, L)
    BY <1>01, <2>1, Readable
  <2>4. QED
    BY <1>0, <2>1, <2>2, <2>3, StopsAsIs
<1>7. QED
  BY <1>1, <1>2, <1>3, <1>4, <1>5, <1>6

-----------------------------------------------------------------------------
(* The invariant holds, and what follows from it                           *)

(* The device as it is before encryption.                                  *)
LEMMA InitShift ==
    ASSUME Init
    PROVE  ShiftInv
<1>0. /\ world \in Worlds /\ hdr = NoHeader /\ file = NoHeader /\ mem = NoHeader /\ rh = NoContext
      /\ pc = "idle" /\ data = [i \in Block |-> Plain(i)]
  BY DEF Init
<1>1. TypesAt(data, hdr, file, mem, rh)
  BY <1>0, NoContextOK DEF TypesAt, FileOK, HeaderOK
<1>2. RestKept(data) /\ HeadKept(data)
  <2>1. \A i \in 0..(dev_size - 1) : data[i] = Plain(i)
    <3>1. \A i \in 0..(dev_size - 1) : i \in Block
      BY <1>0, Numbers DEF Block
    <3>2. \A i \in Block : data[i] = Plain(i)
      BY <1>0
    <3>3. QED
      BY <3>1, <3>2
  <2>2. \A i \in 0..(Shift - 1) : i \in 0..(dev_size - 1)
    BY <1>0, Numbers
  <2>3. \A i \in Shift..(dev_size - 1) : i \in 0..(dev_size - 1)
    BY <1>0, Numbers
  <2>4. QED
    BY <2>1, <2>2, <2>3 DEF RestKept, HeadKept
<1>3. ControlAt(pc, data, hdr, file, mem, rh)
  BY <1>0, <1>2 DEF ControlAt, BeforeAt
<1>4. QED
  BY <1>0, <1>1, <1>3 DEF ShiftInv

(* A step that changes nothing.                                            *)
LEMMA StillThere ==
    ASSUME ShiftInv, UNCHANGED vars
    PROVE  ShiftInv'
<1>1. /\ world' = world /\ data' = data /\ hdr' = hdr /\ file' = file /\ pc' = pc /\ mem' = mem /\ rh' = rh
  BY DEF vars
<1>2. TypesAt(data', hdr', file', mem', rh') /\ ControlAt(pc', data', hdr', file', mem', rh')
  BY <1>1 DEF ShiftInv
<1>3. QED
  BY <1>1, <1>2, Into, Parts

(* Every step keeps the invariant.                                         *)
LEMMA NextShift ==
    ASSUME ShiftInv, Foreseen, [Next]_vars
    PROVE  ShiftInv'
<1>1. CASE UNCHANGED vars
  BY <1>1, StillThere
<1>2. CASE Start \/ RestoreByUser \/ LoadReencrypt \/ LoadCrashed \/ Die
  BY <1>2, StartStep, RestoreByUserStep, LoadReencryptStep, LoadCrashedStep, DieStep
<1>3. CASE MoveData \/ CommitFlag \/ RestoreHeader
  BY <1>3, MoveDataStep, CommitFlagStep, RestoreHeaderStep
<1>4. CASE StepBegin \/ StepRefused \/ LoopEnds \/ ReadHotzone \/ CommitHot \/ WriteHotzone \/ CommitPost
  BY <1>4, StepBeginStep, StepRefusedStep, LoopEndsStep, ReadHotzoneStep, CommitHotStep, WriteHotzoneStep,
     CommitPostStep
<1>5. CASE Teardown \/ WipeMoved \/ DropSlot \/ Unflag \/ RecoverSegment \/ FinalWrite
  BY <1>5, TeardownStep, WipeMovedStep, DropSlotStep, UnflagStep, RecoverSegmentStep, FinalWriteStep
<1>6. QED
  BY <1>1, <1>2, <1>3, <1>4, <1>5 DEF Next, Proceed

(* The hotzone that is read is within what is left.                        *)
LEMMA TypeHolds ==
    ASSUME ShiftInv
    PROVE  ShiftTypeOK
<1>0. world \in Worlds
  BY Parts
<1>1. ASSUME NEW h \in {hdr, file, mem}, h # NoHeader
      PROVE  /\ {h[1].flag, h[1].slot} \subseteq BOOLEAN /\ Len(h[1].segs) \in 1..4
             /\ \A k \in DOMAIN h[1].segs :
                  h[1].segs[k] \in [type : {"linear", "crypt", "hot"}, offset : Block, size : 0..D]
  <2>1. HeaderOK(h)
    BY <1>1, Parts
  <2>2. IsHeader(h)
    BY <1>1, <2>1 DEF HeaderOK
  <2>3. h[1].flag \in BOOLEAN /\ h[1].slot \in BOOLEAN
    BY <2>2 DEF IsHeader
  <2>4. QED
    BY <1>1, <2>1, <2>3 DEF HeaderOK
<1>2. ASSUME pc = "read" PROVE rh.offset + rh.length <= LinearLength(hdr[1].segs)
  <2>1. PICK L \in Levels : RunningAt(pc, data, hdr, mem, rh, L)
    BY <1>2, Works
  <2>2. AtHot(data, hdr, mem, rh, L)
    BY <1>2, <2>1 DEF RunningAt
  <2>3. L # 0 /\ rh.offset = ZoneStart(L) /\ rh.length = L - ZoneStart(L) /\ CleanSegs(hdr[1].segs, L)
    BY <2>2 DEF AtHot, Clean, Hot, HotZoneSegs, RunContext
  <2>4. LinearLength(hdr[1].segs) = L
    BY <1>0, <2>3, CleanShape
  <2>5. L \in Nat /\ ZoneStart(L) \in Nat
    BY <1>0, <2>3, Zones
  <2>6. QED
    BY <2>3, <2>4, <2>5
<1>3. QED
  BY <1>1, <1>2, Parts DEF ShiftTypeOK, ContextOK

(* Without the header, or without its keyslots, the blocks are where they  *)
(* were or where the temporary header has them.                            *)
LEMMA KeptWithoutKeys ==
    ASSUME ShiftInv, ~HasKeys, NEW x \in Kept
    PROVE  IF Leftover THEN Found(file[1].segs, x)
           ELSE data[x] = Plain(x) \/ ("restore" \in world.at /\ Found(InitialSegs, x))
<1>0. world \in Worlds
  BY Parts
<1>1. \/ hdr = NoHeader /\ BeforeAt(pc, data, file, mem)
      \/ hdr # NoHeader /\ DamagedAt(pc, data, hdr, file)
  BY KeysThere, Parts
<1>2. RestKept(data)
  BY <1>1 DEF BeforeAt, DamagedAt
<1>3. CASE Leftover
  <2>1. file # NoHeader /\ file[1].flag
    BY <1>3, LeftoverClean
  <2>2. Clean(file, Full) /\ file # Formatted
    BY <1>0, <2>1, Parts, FormattedOK DEF FileOK
  <2>3. CopyMade(data)
    BY <1>1, <2>1, <2>2 DEF BeforeAt, DamagedAt
  <2>4. UserData(data, Full)
    BY <1>0, <1>2, <2>3, AllThere
  <2>5. Found(file[1].segs, x)
    BY <1>0, <2>2, <2>4, FoundClean, LastLevel DEF Clean
  <2>6. QED
    BY <1>3, <2>5
<1>4. CASE ~Leftover
  <2>1. ~(file # NoHeader /\ file[1].flag)
    BY <1>4, LeftoverClean
  <2>2. pc = "restore" => hdr # NoHeader
    BY <1>0, <1>1, <2>1, CleanOK, LastLevel DEF BeforeAt, Clean
  <2>3. HeadKept(data) \/ ("restore" \in world.at /\ CopyMade(data))
    BY <1>1, <2>1, <2>2 DEF BeforeAt, DamagedAt
  <2>4. CASE HeadKept(data)
    <3>1. x \in 0..(Shift - 1) \/ x \in Shift..(dev_size - 1)
      BY <1>0, Numbers DEF Kept
    <3>2. data[x] = Plain(x)
      BY <1>2, <2>4, <3>1 DEF HeadKept, RestKept
    <3>3. QED
      BY <1>4, <3>2
  <2>5. CASE "restore" \in world.at /\ CopyMade(data)
    <3>1. Found(InitialSegs, x)
      BY <1>0, <1>2, <2>5, AllThere, InitialClean, FoundClean, LastLevel
    <3>2. QED
      BY <1>4, <2>5, <3>1
  <2>6. QED
    BY <2>3, <2>4, <2>5
<1>5. QED
  BY <1>3, <1>4

(* Every block can be had wherever the process may go.                     *)
LEMMA DataKept ==
    ASSUME ShiftInv, Foreseen
    PROVE  EncryptionKeepsData
<1> SUFFICES ASSUME Exposed, NEW x \in Kept
             PROVE  IF HasKeys THEN Found(hdr[1].segs, x)
                    ELSE IF Leftover THEN Found(file[1].segs, x)
                    ELSE data[x] = Plain(x) \/ ("restore" \in world.at /\ Found(InitialSegs, x))
  BY DEF EncryptionKeepsData
<1>0. world \in Worlds
  BY Parts
<1>1. ~(Finishing /\ rh.recovery)
  BY <1>0 DEF Exposed, Foreseen, Finishing
<1>2. CASE HasKeys
  <2>1. PICK L \in Levels : AtRest(data, hdr, L)
    BY <1>1, <1>2, KeysThere, Readable
  <2>2. CASE UserData(data, L) /\ Clean(hdr, L)
    BY <1>0, <1>2, <2>2, FoundClean DEF Clean
  <2>3. CASE UserData(data, L) /\ Hot(hdr, L)
    BY <1>0, <1>2, <2>3, FoundHot DEF Hot
  <2>4. CASE L = 0 /\ Ended(data, hdr)
    BY <1>0, <1>2, <2>4, FoundClean, LastLevel DEF Ended
  <2>5. QED
    BY <2>1, <2>2, <2>3, <2>4 DEF AtRest
<1>3. CASE ~HasKeys
  BY <1>3, KeptWithoutKeys
<1>4. QED
  BY <1>2, <1>3

(* A header without the flag is one of the end.                            *)
LEMMA OnlyAtEnd ==
    ASSUME ShiftInv, HasKeys, ~hdr[1].flag
    PROVE  HeadWritten(data) /\ Ended(data, hdr)
<1>1. HeadWritten(data) /\ hdr # NoHeader
  BY KeysThere
<1>2. PICK L \in Levels : RunningAt(pc, data, hdr, mem, rh, L)
  BY <1>1, Parts
<1>3. pc = "idle" \/ pc = "final"
  BY <1>2 DEF RunningAt, AtLoop, AtHot, AtWrite, AtRecover, AtTeardown, AtWipe, AtUnflag, Clean, Hot
<1>4. CASE pc = "idle"
  BY <1>1, <1>2, <1>4 DEF RunningAt, AtRest, Clean, Hot
<1>5. CASE pc = "final"
  BY <1>1, <1>2, <1>5 DEF RunningAt, AtFinal, Hot
<1>6. QED
  BY <1>3, <1>4, <1>5

(* At the end the head is the header, the blocks behind it are encrypted,  *)
(* and the copy is junk, unless it could not be wiped.                     *)
LEMMA NothingInClear ==
    ASSUME ShiftInv
    PROVE  NoPlaintextLeft
<1> SUFFICES ASSUME HasKeys, ~hdr[1].flag, NEW i \in Block, data[i][1] = "plain"
             PROVE  "wipe" \in world.at /\ i >= dev_size
  BY DEF NoPlaintextLeft
<1>0. world \in Worlds
  BY Parts
<1>1. HeadWritten(data) /\ UserData(data, 0) /\ CopyWiped(data)
  BY OnlyAtEnd DEF Ended
<1>2. i \in 0..(Shift - 1) \/ i \in dev_size..(D - 1) \/ (Shift <= i /\ i < dev_size)
  BY <1>0, Numbers DEF Block
<1>3. CASE i \in 0..(Shift - 1)
  BY <1>1, <1>3 DEF HeadWritten, HeadArea
<1>4. CASE i \in dev_size..(D - 1)
  BY <1>0, <1>1, <1>4, Numbers DEF CopyWiped, Junk
<1>5. CASE Shift <= i /\ i < dev_size
  <2>1. i - Shift \in Kept /\ ~(i - Shift < 0) /\ Shift + (i - Shift) = i
    BY <1>0, <1>5, Numbers DEF Kept, Block
  <2>2. data[i] = Crypt(i - Shift, i - Shift)
    BY <1>1, <2>1 DEF UserData
  <2>3. QED
    BY <2>2 DEF Crypt
<1>6. QED
  BY <1>2, <1>3, <1>4, <1>5

(* ShiftInv is an invariant of encryption with a data shift, in worlds     *)
(* where the faults are foreseen.                                          *)
THEOREM ShiftInvariant == Foreseen => (Spec => []ShiftInv)
<1> SUFFICES ASSUME Foreseen PROVE Spec => []ShiftInv
  OBVIOUS
<1>1. Init => ShiftInv
  BY InitShift
<1>2. ShiftInv /\ [Next]_vars => ShiftInv'
  BY NextShift
<1>3. QED
  BY <1>1, <1>2, PTL DEF Spec

(* Encryption with a data shift keeps every block of the user, through     *)
(* deaths and failed writes in the initialisation, in every hotzone and    *)
(* its recovery, and in the finish of a run; and its offsets and lengths,  *)
(* unsigned in the code, never wrap.  For every size of the device and     *)
(* every shift, and any number of deaths and errors.                       *)
THEOREM EncryptionIsSafe == Foreseen => (Spec => []EncryptionSafe)
<1> SUFFICES ASSUME Foreseen PROVE Spec => []EncryptionSafe
  OBVIOUS
<1>1. ShiftInv => EncryptionSafe
  BY TypeHolds, DataKept DEF EncryptionSafe
<1>2. Spec => []ShiftInv
  BY ShiftInvariant
<1>3. QED
  BY <1>1, <1>2, PTL

(* When the header says that encryption is over no block of the device,    *)
(* the copy of the first ones at the end of it included, is in the clear;  *)
(* where the wipe of the copy may fail, no block but those of the copy.    *)
THEOREM NoPlaintextStays == Foreseen => (Spec => []NoPlaintextLeft)
<1> SUFFICES ASSUME Foreseen PROVE Spec => []NoPlaintextLeft
  OBVIOUS
<1>1. ShiftInv => NoPlaintextLeft
  BY NothingInClear
<1>2. Spec => []ShiftInv
  BY ShiftInvariant
<1>3. QED
  BY <1>1, <1>2, PTL
=============================================================================
