------------------------- MODULE LUKS2HeaderProofs --------------------------
(***************************************************************************)
(* What LUKS2Header promises, for any number of contexts, changes, crashes, *)
(* failed reads and writes and foreign overwrites, proved from the         *)
(* inductive invariant HeaderInv.                                          *)
(*                                                                         *)
(* The argument.  Who writes to the disk has the write lock and is alone   *)
(* (Controlled); what a load works on is what is on the disk (SeenTrue).   *)
(* As long as no I/O fails a valid copy is synced (ValidSynced), so a      *)
(* crash only changes copies that are torn already.  At every moment one   *)
(* copy is the anchor: valid, with all that was committed, and at least as *)
(* new as anything the other copy may turn into (Anchor).  A writer of the *)
(* primary copy has passed the check of the sequence id, which is possible *)
(* only while the secondary copy is the anchor too (Behind, BuiltOn); the  *)
(* end of that write moves the anchor to the primary copy, and nothing     *)
(* else moves it.  That is the commit of the abstract VersionedHeader.     *)
(*                                                                         *)
(* Contexts load the header once (NoReload): a context that loads again    *)
(* has a descriptor for writing in its cache and rewrites a copy under a   *)
(* READ lock, and nobody is alone then.                                    *)
(***************************************************************************)
EXTENDS LUKS2Header, FiniteSetTheorems, TLAPS

(* No context calls crypt_load twice.                                      *)
NoReload == \A w \in Worlds : ~w.reload

(* A header has only changes that were made, and its sequence id was       *)
(* counted up at most once for each of them.                               *)
Made(D, x) == x.seqid <= Cardinality(D) + 1 /\ x.body \subseteq D

Counted ==
    /\ \A k \in Copies : Made(done, copy[k]) /\ Made(done, dur[k])
    /\ \A c \in Ctx : Made(done, hdr[c]) /\ \A k \in Copies : Made(done, seen[c][k])

(* A load goes on only with a valid image.                                 *)
SeenReadable ==
    \A c \in Ctx : pc[c] \in {"recover", "recover2", "loaded"} => Readable(seen[c])

TypeInv == TypeOK /\ Counted /\ SeenReadable

(* What goes together in a context: where it is in the code, the lock it   *)
(* has there, its header and its descriptor for writing.  A context        *)
(* without a header has no such descriptor, but in a load that rewrites a  *)
(* copy.                                                                   *)
Coherent(l, t, h, r) ==
    /\ l \in {"idle", "relock"} <=> t = "none"
    /\ l \in WriteSteps \cup {"recover", "recover2"} => t = "WRITE"
    /\ l \in ReadSteps \cup {"relock"} => h = NoHeader
    /\ l \in WriteSteps => h # NoHeader
    /\ r /\ h = NoHeader => l \in {"recover", "recover2", "loaded"}

Controlled ==
    /\ \A c \in Ctx : Coherent(pc[c], held[c], hdr[c], rwfd[c])
    /\ Lock!Exclusion

(* Valid images and headers in memory have a sequence id.                  *)
Numbered ==
    /\ \A k \in Copies : /\ copy[k].ok => copy[k].seqid >= 1
                         /\ dur[k].ok => dur[k].seqid >= 1
    /\ \A c \in Ctx : /\ hdr[c] # NoHeader => hdr[c].seqid >= 1
                      /\ \A k \in Copies : seen[c][k].ok => seen[c][k].seqid >= 1

(* What a load at l has read, s, is on the disk C as long as it works on   *)
(* it; e counts the failed reads and writes.                               *)
SeenAt(l, s, C, e) ==
    /\ l = "read2" => s[1] \in {C[1], NoImage} /\ (e = 0 => s[1] = C[1])
    /\ l \in {"decide", "recover"} =>
          \A k \in Copies : s[k] \in {C[k], NoImage} /\ (e = 0 => s[k] = C[k])
    /\ l \in {"recover", "recover2"} => ~Consistent(s)
    /\ l = "recover2" =>
          \A k \in Copies : C[k] = IF Current(s, k) THEN s[k] ELSE ImageOf(Newest(s), FALSE)

SeenTrue == \A c \in Ctx : SeenAt(pc[c], seen[c], copy, ioerrs)

(* Without failed I/O a valid copy is synced.                              *)
ValidSynced == ioerrs = 0 => \A k \in Copies : copy[k].ok => dur[k] = copy[k]

(* What a writer of h at l has written so far.                             *)
WrittenAt(l, h, C) ==
    /\ l = "write1rest" => C[1] = ImageOf(h, FALSE)
    /\ l \in {"write2", "write2rest", "written"} => C[1] = ImageOf(h, TRUE)
    /\ l = "write2rest" => C[2] = ImageOf(h, FALSE)
    /\ l = "written" => C[2] = ImageOf(h, TRUE)

Written == \A c \in Ctx : WrittenAt(pc[c], hdr[c], copy)

FaultCount == crashes + ioerrs + damages

(* One fault of any kind leaves a valid copy, and a load sees it.          *)
NoFault ==
    FaultCount = 0 =>
        \/ copy[1].ok /\ copy[2].ok
        \/ \E c \in Ctx : \/ pc[c] \in {"write2rest", "recover2"}
                          \/ pc[c] = "write1rest" /\ copy[2].ok

AfterFault ==
    FaultCount <= 1 => Readable(copy) \/ \E c \in Ctx : pc[c] = "write1rest"

SeesValid(l, s, C) ==
    /\ l = "read2" => s[1].ok \/ C[2].ok
    /\ l \in {"decide", "failed"} => Readable(s)

LoadSees == FaultCount <= 1 => \A c \in Ctx : SeesValid(pc[c], seen[c], copy)

(* Without crashes and failed I/O two valid copies are equal, except that  *)
(* a writer has written the first of them.                                 *)
CrashFree ==
    crashes + ioerrs = 0 /\ copy[1].ok /\ copy[2].ok =>
        copy[1] = copy[2] \/ \E c \in Ctx : pc[c] = "write2"

Healed ==
    \A c \in Ctx :
        pc[c] = "loaded" /\ (Undisturbed \/ crashes + ioerrs = 0) =>
            copy[1].ok /\ copy[1] = copy[2] /\ HeaderOf(copy[1]) = Newest(seen[c])

(* Copy g is the header: it is valid, has what was committed, and no image *)
(* that a copy is or can turn into is newer or differs from it.            *)
AnchorOf(C, D, A, g) ==
    /\ C[g].ok
    /\ A \subseteq C[g].body
    /\ \A k \in Copies : \A i \in {C[k], D[k]} :
          i.ok => /\ i.seqid <= C[g].seqid
                  /\ i.seqid = C[g].seqid => i = C[g]

Anchor(g) == AnchorOf(copy, dur, acked, g)

(* A header h in memory of a context that does not write: it is not newer  *)
(* than the one on disk, it has all of it if the sequence ids are the      *)
(* same, and where its sequence id is the one of the primary copy, the     *)
(* secondary copy is valid.                                                *)
BehindOf(h, C, D, A) ==
    /\ \A g \in Copies : AnchorOf(C, D, A, g) =>
          /\ h.seqid <= C[g].seqid
          /\ h.seqid = C[g].seqid => C[g].body \subseteq h.body
    /\ h.seqid = C[1].seqid => C[2].ok /\ C[2].seqid = C[1].seqid

(* A writer of the primary copy builds on the secondary one.               *)
BuiltOnOf(h, C, D, A) ==
    /\ AnchorOf(C, D, A, 2)
    /\ h.seqid = C[2].seqid + 1
    /\ C[2].body \subseteq h.body

OneUuid == \A k \in Copies : copy[k].ident = "uuid" /\ dur[k].ident = "uuid"

(* A context at l with header h that has seen s.                           *)
FollowsOf(l, h, s, C, D, A) ==
    /\ h # NoHeader => h.ident = "uuid"
    /\ l \notin WriteSteps /\ h # NoHeader => BehindOf(h, C, D, A)
    /\ l \in {"write1", "write1rest"} => BuiltOnOf(h, C, D, A)
    /\ l \in {"write2", "write2rest", "written"} => AnchorOf(C, D, A, 1)
    /\ l = "write2" => C[2].seqid < C[1].seqid
    /\ l = "failed" => Readable(s)

Follows(c) == FollowsOf(pc[c], hdr[c], seen[c], copy, dur, acked)

AllFollow ==
    /\ Anchor(1) \/ Anchor(2)
    /\ OneUuid
    /\ \A c \in Ctx : Follows(c)

Anchored == Undisturbed => AllFollow

HeaderInv ==
    /\ TypeInv /\ Controlled /\ Numbered
    /\ SeenTrue /\ ValidSynced /\ Written
    /\ NoFault /\ AfterFault /\ LoadSees /\ CrashFree /\ Healed /\ Anchored

-----------------------------------------------------------------------------
(* The constants: a world's bounds, and the sequence ids.                  *)
LEMMA WorldBounds ==
  ASSUME NEW w \in Worlds
  PROVE  /\ w.crash \in Nat /\ w.ioerr \in Nat /\ w.damage \in Nat
         /\ w.updates \subseteq Update
         /\ w.setuuid \in BOOLEAN /\ w.reload \in BOOLEAN
  BY HeaderConstants DEF World

(* The changes made so far are finitely many.                              *)
LEMMA DoneFinite ==
  ASSUME NEW D \in SUBSET Update
  PROVE  /\ IsFiniteSet(D) /\ Cardinality(D) \in Nat
         /\ Cardinality(D) <= Cardinality(Update)
         /\ Cardinality(Update) \in Nat
         /\ \A u \in Update \ D : Cardinality(D \cup {u}) = Cardinality(D) + 1
  BY HeaderConstants, FS_Subset, FS_CardinalityType, FS_AddElement

(* Of two images that are not both bad one is current, and Good finds it.  *)
LEMMA GoodCurrent ==
  ASSUME NEW s \in [Copies -> Image], Readable(s)
  PROVE  Good(s) \in Copies /\ Current(s, Good(s))
<1>1. \E k \in Copies : Current(s, k)
  BY DoneFinite DEF Readable, Current, Copies, Image, SeqId
<1> QED
  BY <1>1 DEF Good

(* Of a readable pair that is not consistent exactly one image is current. *)
LEMMA StaleOther ==
  ASSUME NEW s \in [Copies -> Image], Readable(s), ~Consistent(s)
  PROVE  LET k == CHOOSE j \in Copies : ~Current(s, j)
         IN  k \in Copies /\ k # Good(s) /\ ~Current(s, k)
<1>1. \E j \in Copies : ~Current(s, j)
  BY DEF Consistent
<1> QED
  BY <1>1, GoodCurrent

(* What a load takes from the images it has read is a header.              *)
LEMMA NewestType ==
  ASSUME NEW s \in [Copies -> Image], Readable(s)
  PROVE  Newest(s) \in Header
  BY GoodCurrent DEF Newest, HeaderOf, Image, Header

-----------------------------------------------------------------------------
(* Type correctness                                                        *)

(* Images and headers that are built from others are images and headers.  *)
LEMMA ImageTypes ==
  /\ NoHeader \in Header /\ NoImage \in Image /\ NothingSeen \in [Copies -> Image]
  /\ \A h \in Header, b \in BOOLEAN : ImageOf(h, b) \in Image
  /\ NoImage.seqid = 0 /\ NoImage.body = {} /\ ~NoImage.ok
  /\ NoHeader.seqid = 0 /\ NoHeader.body = {}
  BY DoneFinite DEF NoHeader, Header, Image, ImageOf, NoImage, NothingSeen, SeqId, Ident

(* The newest of the images a load has read is one of them.                *)
LEMMA NewestSeq ==
  ASSUME NEW s \in [Copies -> Image], Readable(s)
  PROVE  \E k \in Copies : Newest(s).seqid = s[k].seqid /\ Newest(s).body = s[k].body
  BY GoodCurrent DEF Newest, HeaderOf

(* Updates of the fields of images and headers, field by field.            *)
LEMMA ImageIdent ==
  ASSUME NEW i \in Image, NEW id
  PROVE  [i EXCEPT !.ident = id] = [seqid |-> i.seqid, ident |-> id, body |-> i.body, ok |-> i.ok]
  BY DEF Image

LEMMA HeaderCounted ==
  ASSUME NEW h \in Header
  PROVE  [h EXCEPT !.seqid = @ + 1] = [seqid |-> h.seqid + 1, ident |-> h.ident, body |-> h.body]
  BY DEF Header

LEMMA InitTypeInv == Init => TypeInv
<1> SUFFICES ASSUME Init PROVE TypeInv
  OBVIOUS
<1>1. world \in Worlds /\ Cardinality(done) = 0
  BY FS_EmptySet DEF Init
<1>2. TypeOK
  BY <1>1, WorldBounds, DoneFinite, ImageTypes DEF Init, TypeOK, Image, SeqId, Ident, Copies
<1>3. Counted
  BY <1>1, ImageTypes DEF Init, Counted, Made, NothingSeen, Copies
<1> QED
  BY <1>2, <1>3 DEF TypeInv, Init, SeenReadable
(* The budgets are kept and only counted up.                               *)
LEMMA BudgetStep ==
  ASSUME TypeOK, [Next]_vars
  PROVE  /\ world' = world
         /\ crashes' \in {crashes, crashes + 1} /\ crashes' \in 0..world.crash
         /\ ioerrs' \in {ioerrs, ioerrs + 1} /\ ioerrs' \in 0..world.ioerr
         /\ damages' \in {damages, damages + 1} /\ damages' \in 0..world.damage
<1>0. /\ world.crash \in Nat /\ world.ioerr \in Nat /\ world.damage \in Nat
      /\ crashes \in 0..world.crash /\ ioerrs \in 0..world.ioerr /\ damages \in 0..world.damage
  BY WorldBounds DEF TypeOK
<1>1. \/ UNCHANGED budget
      \/ IOError
      \/ crashes < world.crash /\ crashes' = crashes + 1 /\ UNCHANGED <<ioerrs, damages, world>>
      \/ damages < world.damage /\ damages' = damages + 1 /\ UNCHANGED <<crashes, ioerrs, world>>
  <2>1. ASSUME NEW c \in Ctx, CtxNext(c)
        PROVE  \/ UNCHANGED budget \/ IOError
               \/ crashes < world.crash /\ crashes' = crashes + 1
                  /\ UNCHANGED <<ioerrs, damages, world>>
    <3>1. CASE \E p \in BOOLEAN : StartRead(c, p)
      BY <3>1, Zenon DEF StartRead, budget
    <3>2. CASE \E u \in Update, id \in {"uuid", "newuuid"} : StartWrite(c, u, id)
      BY <3>2, Zenon DEF StartWrite, budget
    <3>3. CASE \E k \in Copies : ReadCopy(c, k) \/ WriteCopy(c, k)
      BY <3>3, Zenon DEF ReadCopy, WriteCopy, WriteFails
    <3>4. CASE LoadFails(c) \/ LoadsConsistent(c) \/ LoadNeedsRecovery(c) \/ Relock(c)
      BY <3>4, Zenon DEF LoadFails, LoadsConsistent, LoadNeedsRecovery, Relock
    <3>5. CASE Recover(c)
      BY <3>5, Zenon DEF Recover, WriteFails
    <3>6. CASE ReadReturns(c) \/ WriteReturns(c)
      BY <3>6, Zenon DEF ReadReturns, WriteReturns
    <3>7. CASE Die(c)
      BY <3>7, Zenon DEF Die
    <3> QED
      BY <2>1, <3>1, <3>2, <3>3, <3>4, <3>5, <3>6, <3>7 DEF CtxNext, Proceed
  <2>2. CASE SystemCrash
    BY <2>2 DEF SystemCrash
  <2>3. ASSUME NEW k \in Copies, NEW id \in {"junk", "foreign"}, Damage(k, id)
        PROVE  damages < world.damage /\ damages' = damages + 1 /\ UNCHANGED <<crashes, ioerrs, world>>
    BY <2>3 DEF Damage
  <2>4. CASE UNCHANGED vars
    BY <2>4 DEF vars, budget
  <2> QED
    BY <2>1, <2>2, <2>3, <2>4 DEF Next
<1> QED
  BY <1>0, <1>1 DEF IOError, budget

(* A write of a header that is one leaves images on the disk, and nothing  *)
(* that was not made.                                                      *)
LEMMA DiskWriteType ==
  ASSUME TypeOK, Counted, NEW k, NEW h \in Header, Made(done, h),
         WriteBin(k, h) \/ WriteRest(k, h) \/ WriteFails(k, h)
  PROVE  /\ copy' \in [Copies -> Image] /\ dur' \in [Copies -> Image]
         /\ \A j \in Copies : Made(done, copy'[j]) /\ Made(done, dur'[j])
<1> DEFINE im(b) == ImageOf(h, b)
<1>1. \A b \in BOOLEAN : im(b) \in Image /\ Made(done, im(b))
  BY ImageTypes DEF Made, ImageOf
<1>2. \/ copy' = copy
      \/ \E b \in BOOLEAN : copy' = [copy EXCEPT ![k] = im(b)]
  BY DEF WriteBin, WriteRest, WriteFails
<1>3. dur' = dur \/ dur' = copy'
  BY DEF WriteBin, WriteRest, WriteFails
<1> HIDE DEF im
<1>4. copy' \in [Copies -> Image] /\ \A j \in Copies : Made(done, copy'[j])
  BY <1>1, <1>2 DEF TypeOK, Counted
<1> QED
  BY <1>3, <1>4 DEF TypeOK, Counted

(* The images on the disk stay images.                                     *)
LEMMA DiskStep ==
  ASSUME TypeInv, [Next]_vars
  PROVE  /\ copy' \in [Copies -> Image] /\ dur' \in [Copies -> Image]
         /\ \A j \in Copies : Made(done, copy'[j]) /\ Made(done, dur'[j])
<1> DEFINE Goal == /\ copy' \in [Copies -> Image] /\ dur' \in [Copies -> Image]
                   /\ \A j \in Copies : Made(done, copy'[j]) /\ Made(done, dur'[j])
<1>0. ASSUME UNCHANGED disk PROVE Goal
  BY <1>0 DEF disk, TypeInv, TypeOK, Counted
<1> HIDE DEF Goal
<1>1. ASSUME NEW c \in Ctx, CtxNext(c) PROVE Goal
  <2>1. CASE UNCHANGED disk
    BY <2>1, <1>0
  <2>2. ASSUME NEW k \in Copies, WriteCopy(c, k) PROVE Goal
    <3>1. WriteBin(k, hdr[c]) \/ WriteRest(k, hdr[c]) \/ WriteFails(k, hdr[c])
      BY <2>2, Zenon DEF WriteCopy
    <3>2. hdr[c] \in Header /\ Made(done, hdr[c])
      BY DEF TypeInv, TypeOK, Counted
    <3> QED
      BY <3>1, <3>2, DiskWriteType DEF TypeInv, Goal
  <2>3. CASE Recover(c)
    <3> DEFINE k == CHOOSE j \in Copies : ~Current(seen[c], j)
    <3>1. Readable(seen[c]) /\ seen[c] \in [Copies -> Image]
          /\ \A j \in Copies : Made(done, seen[c][j])
      BY <2>3 DEF Recover, TypeInv, TypeOK, Counted, SeenReadable
    <3>2. Newest(seen[c]) \in Header /\ Made(done, Newest(seen[c]))
      BY <3>1, NewestType, NewestSeq DEF Made
    <3>3. \/ WriteBin(k, Newest(seen[c])) \/ WriteRest(k, Newest(seen[c]))
          \/ WriteFails(k, Newest(seen[c]))
      BY <2>3 DEF Recover
    <3> QED
      BY <3>2, <3>3, DiskWriteType DEF TypeInv, Goal
  <2>4. \/ UNCHANGED disk \/ Recover(c) \/ \E k \in Copies : WriteCopy(c, k)
    BY <1>1, Zenon DEF CtxNext, Proceed, StartRead, StartWrite, ReadCopy, LoadFails,
       LoadsConsistent, LoadNeedsRecovery, Relock, ReadReturns, WriteReturns, Die
  <2> QED
    BY <2>1, <2>2, <2>3, <2>4
<1>2. CASE SystemCrash
  <2>1. /\ \A k \in Copies : copy'[k] \in AfterCrash(k)
        /\ copy' = [j \in Copies |-> copy'[j]] /\ dur' = copy'
    BY <1>2 DEF SystemCrash
  <2>2. ASSUME NEW k \in Copies, NEW i \in AfterCrash(k)
        PROVE  i \in Image /\ Made(done, i)
    <3>1. dur[k] \in Image /\ copy[k] \in Image /\ Made(done, dur[k]) /\ Made(done, copy[k])
      BY DEF TypeInv, TypeOK, Counted
    <3>2. i = dur[k] \/ i = copy[k] \/ i = [dur[k] EXCEPT !.ok = FALSE]
      BY <2>2 DEF AfterCrash
    <3> QED
      BY <3>1, <3>2 DEF Image, Made
  <2> QED
    BY <2>1, <2>2 DEF Goal
<1>3. ASSUME NEW k \in Copies, NEW id \in {"junk", "foreign"}, Damage(k, id) PROVE Goal
  <2> DEFINE im == [ImageOf(NoHeader, FALSE) EXCEPT !.ident = id]
  <2>0. Cardinality(done) \in Nat /\ Cardinality(Update) \in Nat
    BY DoneFinite DEF TypeInv, TypeOK
  <2>e. im = [seqid |-> NoImage.seqid, ident |-> id, body |-> NoImage.body, ok |-> NoImage.ok]
    <3>1. ImageOf(NoHeader, FALSE) = NoImage
      BY DEF NoImage
    <3>2. [NoImage EXCEPT !.ident = id]
             = [seqid |-> NoImage.seqid, ident |-> id, body |-> NoImage.body, ok |-> NoImage.ok]
      BY ImageTypes, ImageIdent
    <3> QED
      BY <3>1, <3>2
  <2>1. im \in Image /\ Made(done, im)
    <3> HIDE DEF im
    <3> QED
      BY <2>0, <2>e, ImageTypes DEF Made, Image, SeqId, Ident
  <2>2. copy' = [copy EXCEPT ![k] = im] /\ dur' = copy'
    BY <1>3 DEF Damage
  <2>3. copy \in [Copies -> Image] /\ \A j \in Copies : Made(done, copy[j])
    BY DEF TypeInv, TypeOK, Counted
  <2> HIDE DEF im
  <2> QED
    BY <2>1, <2>2, <2>3 DEF Goal
<1>4. CASE UNCHANGED vars
  <2>1. UNCHANGED disk
    BY <1>4 DEF vars, disk
  <2> QED
    BY <2>1, <1>0 DEF Goal
<1> QED
  BY <1>1, <1>2, <1>3, <1>4 DEF Next, Goal

(* Types of what a context keeps of its own.                               *)
LEMMA ControlStep ==
  ASSUME TypeOK, [Next]_vars
  PROVE  /\ held' \in [Ctx -> {"none", "READ", "WRITE"}]
         /\ pc' \in [Ctx -> {"idle", "relock"} \cup ReadSteps \cup WriteSteps]
         /\ rwfd' \in [Ctx -> BOOLEAN] /\ probe' \in [Ctx -> BOOLEAN]
<1> DEFINE Steps == {"idle", "relock"} \cup ReadSteps \cup WriteSteps
       Only(c) ==
          /\ held' = held \/ \E t \in {"none", "READ", "WRITE"} : held' = [held EXCEPT ![c] = t]
          /\ pc' = pc \/ \E l \in Steps : pc' = [pc EXCEPT ![c] = l]
          /\ rwfd' = rwfd \/ \E b \in BOOLEAN : rwfd' = [rwfd EXCEPT ![c] = b]
          /\ probe' = probe \/ \E b \in BOOLEAN : probe' = [probe EXCEPT ![c] = b]
<1>1. ASSUME NEW c \in Ctx, CtxNext(c) PROVE Only(c)
  <2> USE DEF Goto, Drop, Lock!Acquire, ReadSteps, WriteSteps
  <2>1. ASSUME NEW p \in BOOLEAN, StartRead(c, p) PROVE Only(c)
    BY <2>1 DEF StartRead
  <2>2. ASSUME NEW u \in Update, NEW id \in {"uuid", "newuuid"}, StartWrite(c, u, id) PROVE Only(c)
    BY <2>2 DEF StartWrite
  <2>3. ASSUME NEW k \in Copies, ReadCopy(c, k) PROVE Only(c)
    BY <2>3 DEF ReadCopy
  <2>4. ASSUME NEW k \in Copies, WriteCopy(c, k) PROVE Only(c)
    BY <2>4 DEF WriteCopy
  <2>5. CASE LoadFails(c) \/ LoadsConsistent(c)
    BY <2>5 DEF LoadFails, LoadsConsistent
  <2>6. CASE LoadNeedsRecovery(c) \/ Relock(c)
    BY <2>6 DEF LoadNeedsRecovery, Relock
  <2>7. CASE Recover(c)
    BY <2>7 DEF Recover
  <2>8. CASE ReadReturns(c) \/ WriteReturns(c) \/ Die(c)
    BY <2>8 DEF ReadReturns, WriteReturns, Die
  <2> QED
    <3> HIDE DEF Only
    <3> QED
      BY <1>1, <2>1, <2>2, <2>3, <2>4, <2>5, <2>6, <2>7, <2>8 DEF CtxNext, Proceed
<1>2. CASE SystemCrash
  BY <1>2 DEF SystemCrash
<1>3. ASSUME NEW k \in Copies, NEW id \in {"junk", "foreign"}, Damage(k, id)
      PROVE  UNCHANGED <<held, pc, rwfd, probe>>
  BY <1>3 DEF Damage
<1>4. CASE UNCHANGED vars
  BY <1>4 DEF vars, TypeOK
<1> QED
  BY <1>1, <1>2, <1>3, <1>4 DEF Next, TypeOK

(* What contexts have in memory, and what they have read.                  *)
LEMMA MemoryStep ==
  ASSUME TypeInv, [Next]_vars
  PROVE  /\ done' \subseteq Update /\ acked' \subseteq done'
         /\ hdr' \in [Ctx -> Header] /\ seen' \in [Ctx -> [Copies -> Image]]
         /\ \A x : x.seqid \in Nat /\ Made(done, x) => Made(done', x)
         /\ \A c \in Ctx : /\ Made(done', hdr'[c])
                           /\ \A k \in Copies : Made(done', seen'[c][k])
<1>0. /\ done \subseteq Update /\ acked \subseteq done
      /\ hdr \in [Ctx -> Header] /\ seen \in [Ctx -> [Copies -> Image]]
      /\ \A c \in Ctx : Made(done, hdr[c]) /\ \A k \in Copies : Made(done, seen[c][k])
      /\ copy \in [Copies -> Image] /\ \A k \in Copies : Made(done, copy[k])
  BY DEF TypeInv, TypeOK, Counted
<1>1. /\ NoHeader \in Header /\ Made(done, NoHeader) /\ NothingSeen \in [Copies -> Image]
      /\ \A k \in Copies : Made(done, NothingSeen[k])
      /\ NoImage \in Image /\ Made(done, NoImage)
      /\ Cardinality(done) \in Nat
  BY <1>0, DoneFinite, ImageTypes DEF Made, NothingSeen
<1> DEFINE Goal ==
      /\ done' \subseteq Update /\ acked' \subseteq done'
      /\ hdr' \in [Ctx -> Header] /\ seen' \in [Ctx -> [Copies -> Image]]
      /\ \A x : x.seqid \in Nat /\ Made(done, x) => Made(done', x)
      /\ \A c \in Ctx : Made(done', hdr'[c]) /\ \A k \in Copies : Made(done', seen'[c][k])
<1>2. ASSUME NEW c \in Ctx, done' = done, acked' = acked,
             \/ hdr' = hdr
             \/ \E h \in Header : Made(done, h) /\ hdr' = [hdr EXCEPT ![c] = h],
             \/ seen' = seen
             \/ \E s \in [Copies -> Image] :
                   (\A k \in Copies : Made(done, s[k])) /\ seen' = [seen EXCEPT ![c] = s]
      PROVE  Goal
  BY <1>0, <1>2
<1>3. ASSUME NEW c \in Ctx, CtxNext(c) PROVE Goal
  <2>1. ASSUME NEW p \in BOOLEAN, StartRead(c, p) PROVE Goal
    BY <2>1, <1>2 DEF StartRead
  <2>2. ASSUME NEW u \in Update, NEW id \in {"uuid", "newuuid"}, StartWrite(c, u, id)
        PROVE  Goal
    <3> DEFINE h == [seqid |-> hdr[c].seqid, ident |-> id, body |-> hdr[c].body \cup {u}]
               n == [h EXCEPT !.seqid = @ + 1]
    <3>1. /\ done' = done \cup {u} /\ u \notin done
          /\ hdr' = [hdr EXCEPT ![c] = h] \/ hdr' = [hdr EXCEPT ![c] = n]
          /\ UNCHANGED <<seen, acked>>
      BY <2>2, Zenon DEF StartWrite
    <3>2. /\ Cardinality(done') = Cardinality(done) + 1 /\ done' \subseteq Update
          /\ Cardinality(done') <= Cardinality(Update) /\ Cardinality(Update) \in Nat
      BY <1>0, <3>1, DoneFinite
    <3>3. ASSUME NEW x, x.seqid \in Nat, Made(done, x) PROVE Made(done', x)
      BY <1>1, <3>1, <3>2, <3>3 DEF Made
    <3>4. hdr[c] \in Header /\ Made(done, hdr[c])
      BY <1>0
    <3>e. /\ h = [seqid |-> hdr[c].seqid, ident |-> id, body |-> hdr[c].body \cup {u}]
          /\ n = [seqid |-> hdr[c].seqid + 1, ident |-> id, body |-> hdr[c].body \cup {u}]
      <4>1. h = [seqid |-> hdr[c].seqid, ident |-> id, body |-> hdr[c].body \cup {u}]
        OBVIOUS
      <4>2. h \in Header
        <5> HIDE DEF h
        <5> QED
          BY <3>4, <4>1 DEF Header, Ident
      <4>3. n = [seqid |-> h.seqid + 1, ident |-> h.ident, body |-> h.body]
        <5> HIDE DEF h
        <5> QED
          BY <4>2, HeaderCounted
      <4> HIDE DEF h, n
      <4> QED
        BY <4>1, <4>3
    <3>5. h \in Header /\ n \in Header /\ Made(done', h) /\ Made(done', n)
      <4> HIDE DEF h, n
      <4>1. /\ hdr[c].seqid \in Nat /\ hdr[c].seqid <= Cardinality(done) + 1
            /\ hdr[c].body \subseteq done /\ id \in Ident
        BY <3>2, <3>4 DEF Made, Header, SeqId, Ident
      <4>2. h \in Header /\ n \in Header
        BY <1>0, <1>1, <3>2, <3>e, <4>1 DEF Header, SeqId
      <4>3. Made(done', h) /\ Made(done', n)
        BY <1>1, <3>1, <3>2, <3>e, <4>1 DEF Made
      <4> QED
        BY <4>2, <4>3
    <3> HIDE DEF h, n
    <3>6. \A d \in Ctx : hdr[d].seqid \in Nat /\ \A k \in Copies : seen[d][k].seqid \in Nat
      BY <1>0, <3>2 DEF Header, Image, SeqId
    <3>7. hdr' \in [Ctx -> Header] /\ \A d \in Ctx : Made(done', hdr'[d])
      BY <1>0, <3>1, <3>3, <3>5, <3>6
    <3> QED
      BY <1>0, <3>1, <3>2, <3>3, <3>6, <3>7
  <2>3. ASSUME NEW k \in Copies, ReadCopy(c, k) PROVE Goal
    <3> DEFINE s == [seen[c] EXCEPT ![k] = copy[k]]
               t == [seen[c] EXCEPT ![k] = NoImage]
    <3>1. /\ seen' = [seen EXCEPT ![c] = s] \/ seen' = [seen EXCEPT ![c] = t]
          /\ UNCHANGED <<hdr, done, acked>>
      BY <2>3 DEF ReadCopy
    <3>2. /\ s \in [Copies -> Image] /\ \A j \in Copies : Made(done, s[j])
          /\ t \in [Copies -> Image] /\ \A j \in Copies : Made(done, t[j])
      BY <1>0, <1>1
    <3> HIDE DEF s, t, Goal
    <3> QED
      BY <3>1, <3>2, <1>2
  <2>4. ASSUME NEW k \in Copies, WriteCopy(c, k) PROVE Goal
    BY <2>4, <1>2 DEF WriteCopy
  <2>5. CASE LoadFails(c) \/ LoadsConsistent(c) \/ Relock(c) \/ Recover(c)
    BY <2>5, <1>2 DEF LoadFails, LoadsConsistent, Relock, Recover
  <2>6. CASE LoadNeedsRecovery(c) \/ Die(c)
    <3> HIDE DEF Goal
    <3> QED
      BY <2>6, <1>1, <1>2 DEF LoadNeedsRecovery, Die
  <2>7. CASE ReadReturns(c)
    <3>1. CASE pc[c] = "loaded"
      <4>1. Newest(seen[c]) \in Header /\ Made(done, Newest(seen[c]))
        BY <1>0, <3>1, NewestType, NewestSeq DEF Made, TypeInv, SeenReadable
      <4> HIDE DEF Goal
      <4> QED
        BY <2>7, <1>1, <3>1, <4>1, <1>2 DEF ReadReturns
    <3>2. CASE pc[c] # "loaded"
      <4> HIDE DEF Goal
      <4> QED
        BY <2>7, <1>1, <3>2, <1>2 DEF ReadReturns
    <3> QED
      BY <3>1, <3>2
  <2>8. CASE WriteReturns(c)
    BY <2>8, <1>0 DEF WriteReturns, Made
  <2> HIDE DEF Goal
  <2> QED
    BY <1>3, <2>1, <2>2, <2>3, <2>4, <2>5, <2>6, <2>7, <2>8 DEF CtxNext, Proceed
<1>4. CASE SystemCrash
  BY <1>0, <1>1, <1>4 DEF SystemCrash
<1>5. ASSUME NEW k \in Copies, NEW id \in {"junk", "foreign"}, Damage(k, id) PROVE Goal
  BY <1>0, <1>5 DEF Damage
<1>6. CASE UNCHANGED vars
  BY <1>0, <1>6 DEF vars
<1> QED
  <2>1. CASE Next
    <3> HIDE DEF Goal
    <3>1. Goal
      BY <2>1, <1>3, <1>5, <1>4 DEF Next, Goal
    <3> QED
      BY <3>1 DEF Goal
  <2> QED
    BY <2>1, <1>6

(* A load that goes on has seen a valid image.                             *)
LEMMA ReadableStep ==
  ASSUME TypeInv, [Next]_vars
  PROVE  SeenReadable'
<1>0. /\ pc \in [Ctx -> {"idle", "relock"} \cup ReadSteps \cup WriteSteps]
      /\ seen \in [Ctx -> [Copies -> Image]] /\ SeenReadable
  BY DEF TypeInv, TypeOK
<1>1. ASSUME NEW c \in Ctx, CtxNext(c) PROVE SeenReadable'
  <2> DEFINE G(l, s) == l \in {"recover", "recover2", "loaded"} => Readable(s)
  <2>1. ASSUME NEW l, NEW s, pc' = [pc EXCEPT ![c] = l], seen' = [seen EXCEPT ![c] = s], G(l, s)
        PROVE  SeenReadable'
    BY <1>0, <2>1 DEF SeenReadable
  <2>2. ASSUME NEW l, pc' = [pc EXCEPT ![c] = l], l \notin {"recover", "recover2", "loaded"},
               seen' = seen \/ \E s : seen' = [seen EXCEPT ![c] = s]
        PROVE  SeenReadable'
    BY <1>0, <2>2 DEF SeenReadable
  <2>3. ASSUME NEW l, pc' = [pc EXCEPT ![c] = l] \/ pc' = pc, Readable(seen[c]), seen' = seen
        PROVE  SeenReadable'
    BY <1>0, <2>3 DEF SeenReadable
  <2>4. ASSUME UNCHANGED <<pc, seen>> PROVE SeenReadable'
    BY <1>0, <2>4 DEF SeenReadable
  <2>5. ASSUME NEW p \in BOOLEAN, StartRead(c, p) PROVE SeenReadable'
    BY <2>5, <2>2 DEF StartRead, Goto
  <2>6. ASSUME NEW u \in Update, NEW id \in {"uuid", "newuuid"}, StartWrite(c, u, id)
        PROVE  SeenReadable'
    <3>1. seen' = seen /\ (pc' = pc \/ pc' = [pc EXCEPT ![c] = "write1"])
      BY <2>6, Zenon DEF StartWrite, Goto
    <3> QED
      BY <3>1, <2>2, <2>4
  <2>7. ASSUME NEW k \in Copies, ReadCopy(c, k) PROVE SeenReadable'
    <3>1. /\ \E s : seen' = [seen EXCEPT ![c] = s]
          /\ \E l \in {"read2", "decide"} : pc' = [pc EXCEPT ![c] = l]
      BY <2>7 DEF ReadCopy, Goto
    <3> QED
      BY <3>1, <2>2
  <2>8. ASSUME NEW k \in Copies, WriteCopy(c, k) PROVE SeenReadable'
    <3>1. /\ seen' = seen
          /\ \E l \in {"write1rest", "write2", "write2rest", "written", "idle"} :
                pc' = [pc EXCEPT ![c] = l]
      BY <2>8 DEF WriteCopy, Goto
    <3> QED
      BY <3>1, <2>2
  <2>9. CASE LoadFails(c) \/ LoadsConsistent(c)
    <3>1. Consistent(seen[c]) => Readable(seen[c])
      BY DEF Consistent, Readable, Current, Copies
    <3> QED
      BY <2>9, <2>2, <2>3, <3>1 DEF LoadFails, LoadsConsistent, Goto
  <2>10. CASE LoadNeedsRecovery(c) \/ Relock(c)
    BY <2>10, <2>2, <2>3 DEF LoadNeedsRecovery, Relock, Goto
  <2>11. CASE Recover(c)
    <3>1. /\ pc[c] \in {"recover", "recover2"} /\ seen' = seen
          /\ \E l : pc' = [pc EXCEPT ![c] = l]
      BY <2>11 DEF Recover, Goto
    <3> QED
      BY <1>0, <3>1, <2>3 DEF SeenReadable
  <2>12. CASE ReadReturns(c) \/ WriteReturns(c) \/ Die(c)
    <3>1. /\ pc' = [pc EXCEPT ![c] = "idle"]
          /\ seen' = seen \/ \E s : seen' = [seen EXCEPT ![c] = s]
      BY <2>12, Zenon DEF ReadReturns, WriteReturns, Die, Goto
    <3> QED
      BY <3>1, <2>2
  <2> QED
    BY <1>1, <2>5, <2>6, <2>7, <2>8, <2>9, <2>10, <2>11, <2>12 DEF CtxNext, Proceed
<1>2. CASE SystemCrash
  BY <1>2 DEF SystemCrash, SeenReadable
<1>3. ASSUME NEW k \in Copies, NEW id \in {"junk", "foreign"}, Damage(k, id) PROVE SeenReadable'
  BY <1>0, <1>3 DEF Damage, SeenReadable
<1>4. CASE UNCHANGED vars
  BY <1>0, <1>4 DEF vars, SeenReadable
<1> QED
  BY <1>1, <1>2, <1>3, <1>4 DEF Next

LEMMA StepTypeInv == TypeInv /\ [Next]_vars => TypeInv'
<1> SUFFICES ASSUME TypeInv, [Next]_vars PROVE TypeInv'
  OBVIOUS
<1>1. TypeOK'
  BY BudgetStep, DiskStep, ControlStep, MemoryStep DEF TypeInv, TypeOK
<1>2. Counted'
  <2>1. \A k \in Copies : copy'[k].seqid \in Nat /\ dur'[k].seqid \in Nat
    BY DiskStep, DoneFinite DEF Image, SeqId
  <2> QED
    BY <2>1, DiskStep, MemoryStep DEF Counted
<1> QED
  BY <1>1, <1>2, ReadableStep DEF TypeInv

(* Every variable stays in its type: the copies and everything read from   *)
(* them are images, a sequence id is counted up at most once for each      *)
(* change, and a load that recovers or returns a header has found one.     *)
THEOREM HeaderTypeCorrect == Spec => []TypeOK
<1>1. Init => TypeInv
  BY InitTypeInv
<1>2. TypeInv /\ [Next]_vars => TypeInv'
  BY StepTypeInv
<1>3. TypeInv => TypeOK
  BY DEF TypeInv
<1> QED
  BY <1>1, <1>2, <1>3, PTL DEF Spec

-----------------------------------------------------------------------------
(* What each action does, context by context and copy by copy              *)

(* The context c gets to l, with lock t, header h, descriptor r and what   *)
(* it has seen s; other contexts stay where they are.                      *)
Moves(c, l, t, h, r, s) ==
    /\ pc'[c] = l /\ held'[c] = t /\ hdr'[c] = h /\ rwfd'[c] = r /\ seen'[c] = s
    /\ \A d \in Ctx : d # c => /\ pc'[d] = pc[d] /\ held'[d] = held[d] /\ hdr'[d] = hdr[d]
                               /\ rwfd'[d] = rwfd[d] /\ seen'[d] = seen[d]

Quiet == UNCHANGED <<copy, dur, done, acked, crashes, ioerrs, damages, world>>

Alone(c) == \A d \in Ctx : d # c => held[d] = "none"

LEMMA StartReadMoves ==
  ASSUME TypeOK, NoReload, NEW c \in Ctx, NEW p \in BOOLEAN, StartRead(c, p)
  PROVE  /\ Moves(c, "read1", "READ", hdr[c], rwfd[c], seen[c]) /\ Quiet
         /\ pc[c] = "idle" /\ hdr[c] = NoHeader
         /\ \A d \in Ctx : d # c => held[d] # "WRITE"
<1>1. ~world.reload
  BY DEF NoReload, TypeOK
<1>2. Quiet
  BY DEF StartRead, Quiet, disk, budget
<1> QED
  BY <1>1, <1>2 DEF StartRead, Lock!Acquire, Lock!Grantable, Goto, Moves, TypeOK

LEMMA ReadCopyMoves ==
  ASSUME TypeOK, NEW c \in Ctx, NEW k \in Copies, ReadCopy(c, k)
  PROVE  /\ Moves(c, IF k = 1 THEN "read2" ELSE "decide", held[c], hdr[c], rwfd[c], seen'[c])
         /\ pc[c] = (IF k = 1 THEN "read1" ELSE "read2")
         /\ UNCHANGED <<copy, dur, done, acked, crashes, damages, world>>
         /\ seen'[c] \in [Copies -> Image]
         /\ \A j \in Copies : j # k => seen'[c][j] = seen[c][j]
         /\ \/ seen'[c][k] = copy[k] /\ ioerrs' = ioerrs
            \/ seen'[c][k] = NoImage /\ ioerrs' = ioerrs + 1
<1>1. UNCHANGED <<copy, dur, done, acked, crashes, damages, world, held, hdr, rwfd>>
  BY DEF ReadCopy, disk, budget, IOError
<1>2. /\ pc[c] = (IF k = 1 THEN "read1" ELSE "read2")
      /\ pc' = [pc EXCEPT ![c] = IF k = 1 THEN "read2" ELSE "decide"]
  BY DEF ReadCopy, Goto
<1>3. \/ seen' = [seen EXCEPT ![c][k] = copy[k]] /\ ioerrs' = ioerrs
      \/ seen' = [seen EXCEPT ![c][k] = NoImage] /\ ioerrs' = ioerrs + 1
  BY DEF ReadCopy, IOError, budget
<1>4. seen \in [Ctx -> [Copies -> Image]] /\ copy \in [Copies -> Image] /\ NoImage \in Image
      /\ pc \in [Ctx -> {"idle", "relock"} \cup ReadSteps \cup WriteSteps]
  BY ImageTypes DEF TypeOK
<1> QED
  BY <1>1, <1>2, <1>3, <1>4 DEF Moves

LEMMA LoadFailsMoves ==
  ASSUME TypeOK, NEW c \in Ctx, LoadFails(c)
  PROVE  /\ Moves(c, "failed", held[c], hdr[c], rwfd[c], seen[c]) /\ Quiet
         /\ pc[c] = "decide"
  BY DEF LoadFails, Quiet, disk, budget, Moves, Goto, TypeOK

LEMMA LoadsConsistentMoves ==
  ASSUME TypeOK, NEW c \in Ctx, LoadsConsistent(c)
  PROVE  /\ Moves(c, "loaded", held[c], hdr[c], rwfd[c], seen[c]) /\ Quiet
         /\ pc[c] = "decide" /\ Consistent(seen[c])
  BY DEF LoadsConsistent, Quiet, disk, budget, Moves, Goto, TypeOK

LEMMA LoadNeedsRecoveryMoves ==
  ASSUME TypeOK, NEW c \in Ctx, LoadNeedsRecovery(c)
  PROVE  /\ \/ /\ rwfd[c] \/ held[c] = "WRITE"
               /\ Moves(c, "recover", held[c], hdr[c], TRUE, seen[c])
            \/ Moves(c, "relock", "none", hdr[c], rwfd[c], NothingSeen)
         /\ Quiet /\ pc[c] = "decide" /\ Readable(seen[c]) /\ ~Consistent(seen[c])
<1>1. Quiet /\ hdr' = hdr
  BY DEF LoadNeedsRecovery, Quiet, disk, budget
<1>2. \/ /\ rwfd[c] \/ held[c] = "WRITE"
         /\ rwfd' = [rwfd EXCEPT ![c] = TRUE] /\ pc' = [pc EXCEPT ![c] = "recover"]
         /\ UNCHANGED <<held, seen>>
      \/ /\ held' = [held EXCEPT ![c] = "none"]
         /\ seen' = [seen EXCEPT ![c] = NothingSeen] /\ pc' = [pc EXCEPT ![c] = "relock"]
         /\ UNCHANGED rwfd
  BY DEF LoadNeedsRecovery, MayOpenRdwr, Goto, Drop
<1>3. pc[c] = "decide" /\ Readable(seen[c]) /\ ~Consistent(seen[c])
  BY DEF LoadNeedsRecovery
<1> QED
  BY <1>1, <1>2, <1>3 DEF Moves, TypeOK

LEMMA RelockMoves ==
  ASSUME TypeOK, NEW c \in Ctx, Relock(c)
  PROVE  /\ Moves(c, "read1", "WRITE", hdr[c], rwfd[c], seen[c]) /\ Quiet
         /\ pc[c] = "relock" /\ Alone(c)
  BY DEF Relock, Lock!Acquire, Lock!Grantable, Alone, Quiet, disk, budget, Moves, Goto, TypeOK

LEMMA ReadReturnsMoves ==
  ASSUME TypeOK, NEW c \in Ctx, ReadReturns(c)
  PROVE  /\ \/ pc[c] = "loaded" /\ Moves(c, "idle", "none", Newest(seen[c]), rwfd[c], NothingSeen)
            \/ pc[c] = "failed" /\ Moves(c, "idle", "none", hdr[c], rwfd[c], NothingSeen)
         /\ Quiet
<1>1. Quiet
  BY DEF ReadReturns, Quiet, disk, budget
<1> QED
  BY <1>1 DEF ReadReturns, Moves, Goto, Drop, TypeOK

LEMMA WriteReturnsMoves ==
  ASSUME TypeOK, NEW c \in Ctx, WriteReturns(c)
  PROVE  /\ Moves(c, "idle", "none", hdr[c], rwfd[c], seen[c])
         /\ pc[c] = "written" /\ acked' = acked \cup hdr[c].body
         /\ UNCHANGED <<copy, dur, done, crashes, ioerrs, damages, world>>
  BY DEF WriteReturns, disk, budget, Moves, Goto, Drop, TypeOK

LEMMA DieMoves ==
  ASSUME TypeOK, NEW c \in Ctx, Die(c)
  PROVE  /\ Moves(c, "idle", "none", NoHeader, FALSE, NothingSeen)
         /\ crashes' = crashes + 1
         /\ UNCHANGED <<copy, dur, done, acked, ioerrs, damages, world>>
<1>1. UNCHANGED <<copy, dur, done, acked, ioerrs, damages, world>> /\ crashes' = crashes + 1
  BY DEF Die, disk
<1> QED
  BY <1>1 DEF Die, Moves, Goto, Drop, TypeOK

(* The header a context has changed in memory, before it is counted up.    *)
Changed(h, u, id) == [seqid |-> h.seqid, ident |-> id, body |-> h.body \cup {u}]

Count(h) == [seqid |-> h.seqid + 1, ident |-> h.ident, body |-> h.body]

LEMMA StartWriteMoves ==
  ASSUME TypeOK, NEW c \in Ctx, NEW u \in Update, NEW id \in {"uuid", "newuuid"},
         StartWrite(c, u, id)
  PROVE  /\ \/ /\ Moves(c, "write1", "WRITE", Count(Changed(hdr[c], u, id)), TRUE, seen[c])
               /\ Alone(c) /\ SeqIdMatches(Changed(hdr[c], u, id))
            \/ Moves(c, "idle", held[c], Changed(hdr[c], u, id), rwfd[c], seen[c])
         /\ pc[c] = "idle" /\ hdr[c] # NoHeader
         /\ id = hdr[c].ident \/ world.setuuid
         /\ u \in Update \ done /\ done' = done \cup {u}
         /\ UNCHANGED <<copy, dur, acked, crashes, ioerrs, damages, world>>
<1> DEFINE h == Changed(hdr[c], u, id)
           m == [h EXCEPT !.seqid = @ + 1]
<1>1. /\ pc[c] = "idle" /\ hdr[c] # NoHeader /\ (id = hdr[c].ident \/ world.setuuid)
      /\ u \notin done /\ done' = done \cup {u}
      /\ UNCHANGED <<copy, dur, acked, seen>>
  BY DEF StartWrite, disk
<1>2. UNCHANGED budget
  BY DEF StartWrite
<1>3. \/ /\ SeqIdMatches(h) /\ hdr' = [hdr EXCEPT ![c] = m]
         /\ Lock!Acquire(c, "WRITE") /\ rwfd' = [rwfd EXCEPT ![c] = TRUE]
         /\ Goto(c, "write1")
      \/ hdr' = [hdr EXCEPT ![c] = h] /\ UNCHANGED <<held, rwfd, pc>>
  BY DEF StartWrite, Changed
<1>4. m = Count(h)
  <2>1. h \in [seqid : Nat, ident : Ident, body : SUBSET Update]
    BY DoneFinite DEF TypeOK, Changed, Header, SeqId, Ident
  <2> HIDE DEF h
  <2> QED
    BY <2>1 DEF Count
<1> HIDE DEF h, m
<1>5. CASE hdr' = [hdr EXCEPT ![c] = h] /\ UNCHANGED <<held, rwfd, pc>>
  <2>1. Moves(c, "idle", held[c], h, rwfd[c], seen[c])
    BY <1>1, <1>5 DEF Moves, TypeOK
  <2> QED
    BY <2>1, <1>1, <1>2 DEF budget, h
<1>6. CASE /\ SeqIdMatches(h) /\ hdr' = [hdr EXCEPT ![c] = m]
           /\ Lock!Acquire(c, "WRITE") /\ rwfd' = [rwfd EXCEPT ![c] = TRUE]
           /\ Goto(c, "write1")
  <2>1. Moves(c, "write1", "WRITE", m, TRUE, seen[c]) /\ Alone(c)
    BY <1>1, <1>6 DEF Moves, TypeOK, Lock!Acquire, Lock!Grantable, Goto, Alone
  <2> QED
    BY <2>1, <1>1, <1>2, <1>4, <1>6 DEF budget, h
<1> QED
  BY <1>3, <1>5, <1>6

(* Copy k on the disk becomes image i; b tells whether the disk is synced. *)
Puts(k, i, b) ==
    /\ copy' \in [Copies -> Image] /\ dur' \in [Copies -> Image]
    /\ copy'[k] = i /\ \A j \in Copies : j # k => copy'[j] = copy[j]
    /\ dur' = IF b THEN copy' ELSE dur

LEMMA WriteBinPuts ==
  ASSUME TypeOK, NEW k \in Copies, NEW h \in Header, WriteBin(k, h)
  PROVE  Puts(k, ImageOf(h, FALSE), FALSE)
<1> DEFINE i == ImageOf(h, FALSE)
<1>1. copy' = [copy EXCEPT ![k] = i] /\ dur' = dur /\ i \in Image
  BY ImageTypes DEF WriteBin
<1> HIDE DEF i
<1>2. Puts(k, i, FALSE)
  BY <1>1 DEF Puts, TypeOK
<1> QED
  BY <1>2 DEF i

LEMMA WriteRestPuts ==
  ASSUME TypeOK, NEW k \in Copies, NEW h \in Header, WriteRest(k, h)
  PROVE  Puts(k, ImageOf(h, TRUE), TRUE)
<1> DEFINE i == ImageOf(h, TRUE)
<1>1. copy' = [copy EXCEPT ![k] = i] /\ dur' = copy' /\ i \in Image
  BY ImageTypes DEF WriteRest
<1> HIDE DEF i
<1>2. Puts(k, i, TRUE)
  BY <1>1 DEF Puts, TypeOK
<1> QED
  BY <1>2 DEF i

LEMMA WriteFailsPuts ==
  ASSUME TypeOK, NEW k \in Copies, NEW h \in Header, WriteFails(k, h)
  PROVE  /\ \E b \in BOOLEAN : \E i \in {copy[k], ImageOf(h, TRUE), ImageOf(h, FALSE)} :
               Puts(k, i, b)
         /\ ioerrs' = ioerrs + 1 /\ UNCHANGED <<crashes, damages, world>>
<1> DEFINE im(b) == ImageOf(h, b)
<1>1. /\ copy' = copy \/ \E b \in BOOLEAN : copy' = [copy EXCEPT ![k] = im(b)]
      /\ dur' = dur \/ dur' = copy'
      /\ ioerrs' = ioerrs + 1 /\ UNCHANGED <<crashes, damages, world>>
  BY DEF WriteFails, IOError
<1>2. im(TRUE) \in Image /\ im(FALSE) \in Image
  BY ImageTypes
<1> HIDE DEF im
<1>3. \E b \in BOOLEAN : \E i \in {copy[k], im(TRUE), im(FALSE)} : Puts(k, i, b)
  <2>1. \E i \in {copy[k], im(TRUE), im(FALSE)} :
           /\ copy' \in [Copies -> Image] /\ copy'[k] = i
           /\ \A j \in Copies : j # k => copy'[j] = copy[j]
    BY <1>1, <1>2 DEF TypeOK
  <2>2. dur' \in [Copies -> Image] /\ \E b \in BOOLEAN : dur' = IF b THEN copy' ELSE dur
    BY <1>1, <2>1 DEF TypeOK
  <2> QED
    BY <2>1, <2>2 DEF Puts
<1> QED
  BY <1>1, <1>3 DEF im

(* The write of copy k of header h in three ways: torn, complete, failed.  *)
TornWrite(k, h) ==
    Puts(k, ImageOf(h, FALSE), FALSE) /\ UNCHANGED <<crashes, ioerrs, damages, world>>
FullWrite(k, h) ==
    Puts(k, ImageOf(h, TRUE), TRUE) /\ UNCHANGED <<crashes, ioerrs, damages, world>>
FailedWrite(k, h) ==
    /\ \E b \in BOOLEAN : \E i \in {copy[k], ImageOf(h, TRUE), ImageOf(h, FALSE)} :
          Puts(k, i, b)
    /\ ioerrs' = ioerrs + 1 /\ UNCHANGED <<crashes, damages, world>>

LEMMA WriteCopyMoves ==
  ASSUME TypeOK, NEW c \in Ctx, NEW k \in Copies, WriteCopy(c, k)
  PROVE  /\ \/ /\ pc[c] = (IF k = 1 THEN "write1" ELSE "write2")
               /\ TornWrite(k, hdr[c])
               /\ Moves(c, IF k = 1 THEN "write1rest" ELSE "write2rest",
                        held[c], hdr[c], rwfd[c], seen[c])
            \/ /\ pc[c] = (IF k = 1 THEN "write1rest" ELSE "write2rest")
               /\ FullWrite(k, hdr[c])
               /\ Moves(c, IF k = 1 THEN "write2" ELSE "written",
                        held[c], hdr[c], rwfd[c], seen[c])
            \/ /\ pc[c] \in (IF k = 1 THEN {"write1", "write1rest"} ELSE {"write2", "write2rest"})
               /\ FailedWrite(k, hdr[c])
               /\ Moves(c, "idle", "none", hdr[c], rwfd[c], seen[c])
         /\ UNCHANGED <<done, acked>>
<1>0. hdr[c] \in Header
  BY DEF TypeOK
<1>1. UNCHANGED <<hdr, rwfd, seen, done, acked>>
  BY DEF WriteCopy
<1>2. \/ /\ pc[c] = (IF k = 1 THEN "write1" ELSE "write2")
         /\ TornWrite(k, hdr[c])
         /\ Goto(c, IF k = 1 THEN "write1rest" ELSE "write2rest") /\ held' = held
      \/ /\ pc[c] = (IF k = 1 THEN "write1rest" ELSE "write2rest")
         /\ FullWrite(k, hdr[c])
         /\ Goto(c, IF k = 1 THEN "write2" ELSE "written") /\ held' = held
      \/ /\ pc[c] \in (IF k = 1 THEN {"write1", "write1rest"} ELSE {"write2", "write2rest"})
         /\ FailedWrite(k, hdr[c])
         /\ Goto(c, "idle") /\ Drop(c)
  BY <1>0, WriteBinPuts, WriteRestPuts, WriteFailsPuts
     DEF WriteCopy, TornWrite, FullWrite, FailedWrite, budget
<1> QED
  BY <1>1, <1>2 DEF Moves, Goto, Drop, TypeOK

LEMMA RecoverMoves ==
  ASSUME TypeInv, NEW c \in Ctx, Recover(c), ~Consistent(seen[c])
  PROVE  \E k \in Copies :
           LET h == Newest(seen[c])
           IN  /\ k # Good(seen[c]) /\ ~Current(seen[c], k) /\ h \in Header
               /\ Readable(seen[c])
               /\ \/ /\ pc[c] = "recover" /\ TornWrite(k, h)
                     /\ Moves(c, "recover2", held[c], hdr[c], rwfd[c], seen[c])
                  \/ /\ pc[c] = "recover2" /\ FullWrite(k, h)
                     /\ Moves(c, "loaded", held[c], hdr[c], rwfd[c], seen[c])
                  \/ /\ pc[c] \in {"recover", "recover2"} /\ FailedWrite(k, h)
                     /\ Moves(c, "loaded", held[c], hdr[c], rwfd[c], seen[c])
               /\ UNCHANGED <<done, acked>>
<1> DEFINE k == CHOOSE j \in Copies : ~Current(seen[c], j)
           h == Newest(seen[c])
<1>0. pc[c] \in {"recover", "recover2"} /\ UNCHANGED <<held, hdr, rwfd, seen, done, acked>>
  BY DEF Recover
<1>1. seen[c] \in [Copies -> Image] /\ Readable(seen[c]) /\ TypeOK
  BY <1>0 DEF TypeInv, TypeOK, SeenReadable
<1>2. k \in Copies /\ k # Good(seen[c]) /\ ~Current(seen[c], k) /\ h \in Header
  BY <1>1, StaleOther, NewestType
<1>3. \/ pc[c] = "recover" /\ WriteBin(k, h) /\ Goto(c, "recover2") /\ UNCHANGED budget
      \/ pc[c] = "recover2" /\ WriteRest(k, h) /\ Goto(c, "loaded") /\ UNCHANGED budget
      \/ WriteFails(k, h) /\ Goto(c, "loaded")
  BY DEF Recover
<1> HIDE DEF k, h
<1>4. \/ pc[c] = "recover" /\ TornWrite(k, h) /\ Goto(c, "recover2")
      \/ pc[c] = "recover2" /\ FullWrite(k, h) /\ Goto(c, "loaded")
      \/ FailedWrite(k, h) /\ Goto(c, "loaded")
  BY <1>1, <1>2, <1>3, WriteBinPuts, WriteRestPuts, WriteFailsPuts
     DEF TornWrite, FullWrite, FailedWrite, budget
<1>5. \A l : Goto(c, l) => Moves(c, l, held[c], hdr[c], rwfd[c], seen[c])
  BY <1>0, <1>1 DEF Moves, Goto, TypeOK
<1> QED
  BY <1>0, <1>1, <1>2, <1>4, <1>5 DEF h

(* After a system crash there are no contexts, and each copy is as it was  *)
(* synced, as it was written, or torn.                                     *)
LEMMA SystemCrashMoves ==
  ASSUME TypeInv, SystemCrash
  PROVE  /\ \A c \in Ctx : /\ pc'[c] = "idle" /\ held'[c] = "none" /\ hdr'[c] = NoHeader
                           /\ rwfd'[c] = FALSE /\ seen'[c] = NothingSeen
         /\ crashes' = crashes + 1 /\ dur' = copy'
         /\ copy' \in [Copies -> Image]
         /\ \A k \in Copies :
               \/ copy'[k] = dur[k] \/ copy'[k] = copy[k]
               \/ /\ copy[k] # dur[k] /\ ~copy'[k].ok /\ copy'[k].seqid = dur[k].seqid
                  /\ copy'[k].ident = dur[k].ident
         /\ UNCHANGED <<done, acked, ioerrs, damages, world>>
<1>1. \A k \in Copies : copy'[k] \in AfterCrash(k)
  BY DEF SystemCrash
<1>2. ASSUME NEW k \in Copies
      PROVE  \/ copy'[k] = dur[k] \/ copy'[k] = copy[k]
             \/ /\ copy[k] # dur[k] /\ ~copy'[k].ok /\ copy'[k].seqid = dur[k].seqid
                /\ copy'[k].ident = dur[k].ident
  <2>1. dur[k] \in Image
    BY DEF TypeInv, TypeOK
  <2>2. \/ copy'[k] = dur[k] \/ copy'[k] = copy[k]
        \/ copy[k] # dur[k] /\ copy'[k] = [dur[k] EXCEPT !.ok = FALSE]
    BY <1>1 DEF AfterCrash
  <2> QED
    BY <2>1, <2>2 DEF Image
<1>3. copy' \in [Copies -> Image]
  <2>1. [Next]_vars
    BY DEF Next
  <2> QED
    BY <2>1, DiskStep
<1> QED
  BY <1>2, <1>3 DEF SystemCrash

LEMMA DamageMoves ==
  ASSUME TypeInv, NEW k \in Copies, NEW id \in {"junk", "foreign"}, Damage(k, id)
  PROVE  /\ UNCHANGED <<held, pc, hdr, rwfd, seen, done, acked, crashes, ioerrs, world>>
         /\ \A c \in Ctx : held[c] = "none"
         /\ damages' = damages + 1 /\ Puts(k, copy'[k], TRUE) /\ ~copy'[k].ok
<1> DEFINE im == [NoImage EXCEPT !.ident = id]
<1>1. /\ UNCHANGED <<held, pc, hdr, rwfd, seen, done, acked, crashes, ioerrs, world>>
      /\ \A c \in Ctx : held[c] = "none"
      /\ damages' = damages + 1
      /\ copy' = [copy EXCEPT ![k] = im] /\ dur' = copy'
  BY DEF Damage, NoImage
<1>2. im = [seqid |-> NoImage.seqid, ident |-> id, body |-> NoImage.body, ok |-> NoImage.ok]
  BY ImageTypes, ImageIdent
<1>3. ~im.ok
  BY <1>2, ImageTypes
<1>4. copy' \in [Copies -> Image]
  <2>1. [Next]_vars
    BY DEF Next
  <2> QED
    BY <2>1, DiskStep
<1> HIDE DEF im
<1> QED
  BY <1>1, <1>3, <1>4 DEF Puts, TypeInv, TypeOK

-----------------------------------------------------------------------------
(* Locks, descriptors and sequence ids                                     *)

(* A step of one context keeps the others coherent, and itself if its own  *)
(* values go together and the lock it gets was free.                       *)
LEMMA ControlledMove ==
  ASSUME Controlled, NEW c \in Ctx, NEW l, NEW t, NEW h, NEW r, NEW s,
         Moves(c, l, t, h, r, s), Coherent(l, t, h, r),
         \/ t = "none" \/ t = held[c]
         \/ t = "READ" /\ \A d \in Ctx : d # c => held[d] # "WRITE"
         \/ t = "WRITE" /\ Alone(c)
  PROVE  Controlled'
  BY DEF Controlled, Moves, Alone, Lock!Exclusion

(* What a load takes from what it has seen is not the header of a context  *)
(* that has none.                                                          *)
LEMMA NewestNumbered ==
  ASSUME NEW s \in [Copies -> Image], Readable(s),
         \A k \in Copies : s[k].ok => s[k].seqid >= 1
  PROVE  Newest(s).seqid >= 1 /\ Newest(s) # NoHeader
<1>1. Newest(s).seqid >= 1
  BY GoodCurrent DEF Current, Newest, HeaderOf
<1> QED
  BY <1>1, ImageTypes

LEMMA ControlledStep ==
  ASSUME TypeInv, NoReload, Controlled, Numbered, SeenTrue, [Next]_vars
  PROVE  Controlled'
<1>0. TypeOK /\ \A c \in Ctx : Coherent(pc[c], held[c], hdr[c], rwfd[c])
  BY DEF TypeInv, Controlled
<1>1. ASSUME NEW c \in Ctx, CtxNext(c) PROVE Controlled'
  <2>0. /\ Coherent(pc[c], held[c], hdr[c], rwfd[c])
        /\ pc[c] \in {"idle", "relock"} \cup ReadSteps \cup WriteSteps
        /\ rwfd[c] \in BOOLEAN
    BY <1>0 DEF TypeOK
  <2> USE DEF Coherent, ReadSteps, WriteSteps
  <2>1. ASSUME NEW p \in BOOLEAN, StartRead(c, p) PROVE Controlled'
    BY <1>0, <2>0, <2>1, StartReadMoves, ControlledMove
  <2>2. ASSUME NEW u \in Update, NEW id \in {"uuid", "newuuid"}, StartWrite(c, u, id)
        PROVE  Controlled'
    <3> DEFINE h == Changed(hdr[c], u, id)
    <3>1. h # NoHeader /\ Count(h) # NoHeader
      BY ImageTypes DEF Changed, Count
    <3> HIDE DEF h
    <3>2. /\ \/ Moves(c, "write1", "WRITE", Count(h), TRUE, seen[c]) /\ Alone(c)
             \/ Moves(c, "idle", held[c], h, rwfd[c], seen[c])
          /\ pc[c] = "idle"
      BY <1>0, <2>2, StartWriteMoves DEF h
    <3>3. CASE Moves(c, "write1", "WRITE", Count(h), TRUE, seen[c]) /\ Alone(c)
      BY <3>1, <3>3, ControlledMove
    <3>4. CASE Moves(c, "idle", held[c], h, rwfd[c], seen[c])
      BY <2>0, <3>1, <3>2, <3>4, ControlledMove
    <3> QED
      BY <3>2, <3>3, <3>4
  <2>3. ASSUME NEW k \in Copies, ReadCopy(c, k) PROVE Controlled'
    <3>1. \E l \in {"read2", "decide"} : Moves(c, l, held[c], hdr[c], rwfd[c], seen'[c])
      BY <1>0, <2>3, ReadCopyMoves
    <3>2. pc[c] \in {"read1", "read2"}
      BY <1>0, <2>3, ReadCopyMoves
    <3> QED
      BY <2>0, <3>1, <3>2, ControlledMove
  <2>4. ASSUME NEW k \in Copies, WriteCopy(c, k) PROVE Controlled'
    <3>1. /\ \/ Moves(c, "idle", "none", hdr[c], rwfd[c], seen[c])
             \/ \E l \in {"write1rest", "write2", "write2rest", "written"} :
                   Moves(c, l, held[c], hdr[c], rwfd[c], seen[c])
          /\ pc[c] \in {"write1", "write2", "write1rest", "write2rest"}
      BY <1>0, <2>4, WriteCopyMoves
    <3> QED
      BY <2>0, <3>1, ControlledMove
  <2>5. CASE LoadFails(c)
    BY <1>0, <2>0, <2>5, LoadFailsMoves, ControlledMove
  <2>6. CASE LoadsConsistent(c)
    BY <1>0, <2>0, <2>6, LoadsConsistentMoves, ControlledMove
  <2>7. CASE LoadNeedsRecovery(c)
    BY <1>0, <2>0, <2>7, LoadNeedsRecoveryMoves, ControlledMove
  <2>8. CASE Relock(c)
    BY <1>0, <2>0, <2>8, RelockMoves, ControlledMove
  <2>9. CASE Recover(c)
    <3>1. pc[c] \in {"recover", "recover2"} /\ ~Consistent(seen[c])
      BY <2>9 DEF Recover, SeenTrue, SeenAt
    <3>2. \E l \in {"recover2", "loaded"} : Moves(c, l, held[c], hdr[c], rwfd[c], seen[c])
      BY <2>9, <3>1, RecoverMoves
    <3> QED
      BY <2>0, <3>1, <3>2, ControlledMove
  <2>10. CASE ReadReturns(c)
    <3>1. CASE pc[c] = "loaded" /\ Moves(c, "idle", "none", Newest(seen[c]), rwfd[c], NothingSeen)
      <4>1. Newest(seen[c]) # NoHeader
        BY <3>1, NewestNumbered DEF TypeInv, TypeOK, SeenReadable, Numbered
      <4> QED
        BY <3>1, <4>1, ControlledMove
    <3>2. CASE pc[c] = "failed" /\ Moves(c, "idle", "none", hdr[c], rwfd[c], NothingSeen)
      BY <2>0, <3>2, ControlledMove
    <3> QED
      BY <1>0, <2>10, <3>1, <3>2, ReadReturnsMoves
  <2>11. CASE WriteReturns(c)
    BY <1>0, <2>0, <2>11, WriteReturnsMoves, ControlledMove
  <2>12. CASE Die(c)
    BY <1>0, <2>12, DieMoves, ControlledMove
  <2> QED
    BY <1>1, <2>1, <2>2, <2>3, <2>4, <2>5, <2>6, <2>7, <2>8, <2>9, <2>10, <2>11, <2>12
       DEF CtxNext, Proceed
<1>2. CASE SystemCrash
  BY <1>2, SystemCrashMoves DEF Controlled, Coherent, ReadSteps, WriteSteps, Lock!Exclusion
<1>3. ASSUME NEW k \in Copies, NEW id \in {"junk", "foreign"}, Damage(k, id) PROVE Controlled'
  BY <1>3, DamageMoves DEF Controlled, Lock!Exclusion
<1>4. CASE UNCHANGED vars
  BY <1>4 DEF vars, Controlled, Lock!Exclusion
<1> QED
  BY <1>1, <1>2, <1>3, <1>4 DEF Next

Num(i) == i.ok => i.seqid >= 1

LEMMA NumberedStep ==
  ASSUME TypeInv, NoReload, Controlled, Numbered, SeenTrue, [Next]_vars
  PROVE  Numbered'
<1>0. /\ TypeOK
      /\ \A k \in Copies : Num(copy[k]) /\ Num(dur[k])
      /\ \A c \in Ctx : /\ hdr[c] # NoHeader => hdr[c].seqid >= 1
                        /\ \A k \in Copies : Num(seen[c][k])
      /\ \A c \in Ctx : hdr[c] \in Header /\ hdr[c].seqid \in Nat
  BY DoneFinite DEF TypeInv, TypeOK, Numbered, Num, Header, SeqId
<1>n. /\ Num(NoImage) /\ \A k \in Copies : Num(NothingSeen[k])
  BY ImageTypes DEF Num, NothingSeen
<1> DEFINE Goal == /\ \A k \in Copies : Num(copy'[k]) /\ Num(dur'[k])
                   /\ \A c \in Ctx : /\ hdr'[c] # NoHeader => hdr'[c].seqid >= 1
                                     /\ \A k \in Copies : Num(seen'[c][k])
<1> SUFFICES Goal
  BY DEF Goal, Numbered, Num
<1>p. ASSUME NEW k \in Copies, NEW h, h.seqid >= 1,
             TornWrite(k, h) \/ FullWrite(k, h) \/ FailedWrite(k, h)
      PROVE  \A j \in Copies : Num(copy'[j]) /\ Num(dur'[j])
  <2>1. \E i \in {copy[k], ImageOf(h, TRUE), ImageOf(h, FALSE)}, b \in BOOLEAN : Puts(k, i, b)
    BY <1>p DEF TornWrite, FullWrite, FailedWrite
  <2>2. PICK i \in {copy[k], ImageOf(h, TRUE), ImageOf(h, FALSE)}, b \in BOOLEAN : Puts(k, i, b)
    BY <2>1
  <2>3. Num(i)
    BY <1>0, <1>p DEF Num, ImageOf
  <2> QED
    BY <1>0, <2>2, <2>3 DEF Puts
<1>m. ASSUME NEW c \in Ctx, NEW l, NEW t, NEW h, NEW r, NEW s, Moves(c, l, t, h, r, s),
             h # NoHeader => h.seqid >= 1, \A k \in Copies : Num(s[k]),
             \A j \in Copies : Num(copy'[j]) /\ Num(dur'[j])
      PROVE  Goal
  BY <1>0, <1>m DEF Moves
<1>q. ASSUME UNCHANGED <<copy, dur>> PROVE \A j \in Copies : Num(copy'[j]) /\ Num(dur'[j])
  BY <1>0, <1>q
<1> HIDE DEF Goal
<1>1. ASSUME NEW c \in Ctx, CtxNext(c) PROVE Goal
  <2>0. /\ hdr[c] # NoHeader => hdr[c].seqid >= 1
        /\ \A k \in Copies : Num(seen[c][k])
        /\ hdr[c].seqid \in Nat
    BY <1>0
  <2>1. ASSUME NEW p \in BOOLEAN, StartRead(c, p) PROVE Goal
    BY <1>0, <1>m, <1>q, <2>0, <2>1, StartReadMoves DEF Quiet
  <2>2. ASSUME NEW u \in Update, NEW id \in {"uuid", "newuuid"}, StartWrite(c, u, id)
        PROVE  Goal
    <3> DEFINE h == Changed(hdr[c], u, id)
    <3>1. h.seqid = hdr[c].seqid /\ Count(h).seqid = hdr[c].seqid + 1
      BY DEF Changed, Count
    <3> HIDE DEF h
    <3>2. /\ \/ Moves(c, "write1", "WRITE", Count(h), TRUE, seen[c])
             \/ Moves(c, "idle", held[c], h, rwfd[c], seen[c])
          /\ hdr[c] # NoHeader /\ UNCHANGED <<copy, dur>>
      BY <1>0, <2>2, StartWriteMoves DEF h
    <3>3. h.seqid >= 1 /\ Count(h).seqid >= 1
      BY <2>0, <3>1, <3>2
    <3> QED
      BY <1>m, <1>q, <2>0, <3>2, <3>3
  <2>3. ASSUME NEW k \in Copies, ReadCopy(c, k) PROVE Goal
    <3>1. /\ \E l : Moves(c, l, held[c], hdr[c], rwfd[c], seen'[c])
          /\ UNCHANGED <<copy, dur>>
      BY <1>0, <2>3, ReadCopyMoves
    <3>2. \A j \in Copies : Num(seen'[c][j])
      BY <1>0, <1>n, <2>0, <2>3, ReadCopyMoves
    <3> QED
      BY <1>m, <1>q, <2>0, <3>1, <3>2
  <2>4. ASSUME NEW k \in Copies, WriteCopy(c, k) PROVE Goal
    <3>1. /\ \E l, t : Moves(c, l, t, hdr[c], rwfd[c], seen[c])
          /\ TornWrite(k, hdr[c]) \/ FullWrite(k, hdr[c]) \/ FailedWrite(k, hdr[c])
          /\ pc[c] \in WriteSteps
      BY <1>0, <2>4, WriteCopyMoves DEF WriteSteps
    <3>2. hdr[c].seqid >= 1
      BY <2>0, <3>1 DEF Controlled, Coherent
    <3> QED
      BY <1>m, <1>p, <2>0, <3>1, <3>2
  <2>5. CASE LoadFails(c)
    BY <1>0, <1>m, <1>q, <2>0, <2>5, LoadFailsMoves DEF Quiet
  <2>6. CASE LoadsConsistent(c)
    BY <1>0, <1>m, <1>q, <2>0, <2>6, LoadsConsistentMoves DEF Quiet
  <2>7. CASE LoadNeedsRecovery(c)
    BY <1>0, <1>n, <1>m, <1>q, <2>0, <2>7, LoadNeedsRecoveryMoves DEF Quiet
  <2>8. CASE Relock(c)
    BY <1>0, <1>m, <1>q, <2>0, <2>8, RelockMoves DEF Quiet
  <2>9. CASE Recover(c)
    <3>1. pc[c] \in {"recover", "recover2"} /\ ~Consistent(seen[c])
      BY <2>9 DEF Recover, SeenTrue, SeenAt
    <3>2. Newest(seen[c]).seqid >= 1
      BY <3>1, NewestNumbered DEF TypeInv, TypeOK, SeenReadable, Numbered
    <3>3. \E k \in Copies : /\ \E l : Moves(c, l, held[c], hdr[c], rwfd[c], seen[c])
                            /\ \/ TornWrite(k, Newest(seen[c])) \/ FullWrite(k, Newest(seen[c]))
                               \/ FailedWrite(k, Newest(seen[c]))
      BY <2>9, <3>1, RecoverMoves
    <3> QED
      BY <1>m, <1>p, <2>0, <3>2, <3>3
  <2>10. CASE ReadReturns(c)
    <3>1. CASE pc[c] = "loaded" /\ Moves(c, "idle", "none", Newest(seen[c]), rwfd[c], NothingSeen)
      <4>1. Newest(seen[c]).seqid >= 1
        BY <3>1, NewestNumbered DEF TypeInv, TypeOK, SeenReadable, Numbered
      <4>2. UNCHANGED <<copy, dur>>
        BY <1>0, <2>10, ReadReturnsMoves DEF Quiet
      <4> QED
        BY <1>n, <1>m, <1>q, <3>1, <4>1, <4>2
    <3>2. CASE pc[c] = "failed" /\ Moves(c, "idle", "none", hdr[c], rwfd[c], NothingSeen)
      BY <1>0, <1>n, <1>m, <1>q, <2>0, <2>10, <3>2, ReadReturnsMoves DEF Quiet
    <3> QED
      BY <1>0, <2>10, <3>1, <3>2, ReadReturnsMoves
  <2>11. CASE WriteReturns(c)
    BY <1>0, <1>m, <1>q, <2>0, <2>11, WriteReturnsMoves
  <2>12. CASE Die(c)
    BY <1>0, <1>n, <1>m, <1>q, <2>12, DieMoves
  <2> QED
    BY <1>1, <2>1, <2>2, <2>3, <2>4, <2>5, <2>6, <2>7, <2>8, <2>9, <2>10, <2>11, <2>12
       DEF CtxNext, Proceed
<1>2. CASE SystemCrash
  <2>1. \A k \in Copies : Num(copy'[k]) /\ dur' = copy'
    BY <1>0, <1>2, SystemCrashMoves DEF Num
  <2> QED
    BY <1>2, <1>n, <2>1, SystemCrashMoves DEF Goal
<1>3. ASSUME NEW k \in Copies, NEW id \in {"junk", "foreign"}, Damage(k, id) PROVE Goal
  <2>1. \A j \in Copies : Num(copy'[j]) /\ dur' = copy'
    BY <1>0, <1>3, DamageMoves DEF Num, Puts
  <2> QED
    BY <1>0, <1>3, <2>1, DamageMoves DEF Goal
<1>4. CASE UNCHANGED vars
  BY <1>0, <1>4 DEF vars, Goal
<1> QED
  BY <1>1, <1>2, <1>3, <1>4 DEF Next

-----------------------------------------------------------------------------
(* What loads have seen and updates have written                           *)

(* Who writes to the disk is alone: the others are not in a load or an     *)
(* update.                                                                 *)
LEMMA WriterAlone ==
  ASSUME Controlled, NEW c \in Ctx, pc[c] \in WriteSteps \cup {"recover", "recover2"}
  PROVE  Alone(c)
  BY DEF Controlled, Coherent, Lock!Exclusion, Alone

LEMMA OthersIdle ==
  ASSUME Controlled, NEW c \in Ctx, Alone(c), NEW d \in Ctx, d # c
  PROVE  pc[d] \in {"idle", "relock"}
  BY DEF Controlled, Coherent, Alone

LEMMA SeenMove ==
  ASSUME Controlled, SeenTrue, NEW c \in Ctx, NEW l, NEW t, NEW h, NEW r, NEW s,
         Moves(c, l, t, h, r, s), SeenAt(l, s, copy', ioerrs'),
         copy' = copy \/ Alone(c), ioerrs' = ioerrs \/ ioerrs' # 0
  PROVE  SeenTrue'
<1> SUFFICES ASSUME NEW d \in Ctx PROVE SeenAt(pc'[d], seen'[d], copy', ioerrs')
  BY DEF SeenTrue
<1>1. CASE d = c
  BY <1>1 DEF Moves
<1>2. CASE d # c
  <2>1. pc'[d] = pc[d] /\ seen'[d] = seen[d]
    BY <1>2 DEF Moves
  <2>2. CASE Alone(c)
    BY <1>2, <2>1, <2>2, OthersIdle DEF SeenAt
  <2>3. CASE copy' = copy
    <3>1. SeenAt(pc[d], seen[d], copy, ioerrs)
      BY DEF SeenTrue
    <3> QED
      BY <2>1, <2>3, <3>1 DEF SeenAt
  <2> QED
    BY <2>2, <2>3
<1> QED
  BY <1>1, <1>2

LEMMA SeenStep ==
  ASSUME TypeInv, NoReload, Controlled, SeenTrue, [Next]_vars
  PROVE  SeenTrue'
<1>0. TypeOK /\ ioerrs \in Nat
  BY WorldBounds DEF TypeInv, TypeOK
<1>1. ASSUME NEW c \in Ctx, CtxNext(c) PROVE SeenTrue'
  <2>0. SeenAt(pc[c], seen[c], copy, ioerrs)
    BY DEF SeenTrue
  <2>1. ASSUME NEW l, NEW t, NEW h, NEW r, NEW s, Moves(c, l, t, h, r, s),
               l \notin {"read2", "decide", "recover", "recover2"},
               copy' = copy \/ pc[c] \in WriteSteps \cup {"recover", "recover2"},
               ioerrs' = ioerrs \/ ioerrs' = ioerrs + 1
        PROVE  SeenTrue'
    <3>1. SeenAt(l, s, copy', ioerrs')
      BY <2>1 DEF SeenAt
    <3>2. copy' = copy \/ Alone(c)
      BY <2>1, WriterAlone
    <3>3. ioerrs' = ioerrs \/ ioerrs' # 0
      BY <1>0, <2>1
    <3> QED
      BY <2>1, <3>1, <3>2, <3>3, SeenMove
  <2>2. ASSUME NEW p \in BOOLEAN, StartRead(c, p) PROVE SeenTrue'
    BY <1>0, <2>1, <2>2, StartReadMoves DEF Quiet
  <2>3. ASSUME NEW u \in Update, NEW id \in {"uuid", "newuuid"}, StartWrite(c, u, id)
        PROVE  SeenTrue'
    <3> DEFINE h == Changed(hdr[c], u, id)
    <3>1. /\ \/ Moves(c, "write1", "WRITE", Count(h), TRUE, seen[c])
             \/ Moves(c, "idle", held[c], h, rwfd[c], seen[c])
          /\ copy' = copy /\ ioerrs' = ioerrs
      BY <1>0, <2>3, StartWriteMoves
    <3> HIDE DEF h
    <3> QED
      BY <2>1, <3>1
  <2>4. ASSUME NEW k \in Copies, ReadCopy(c, k) PROVE SeenTrue'
    <3>0. /\ \/ k = 1 /\ pc[c] = "read1" /\ Moves(c, "read2", held[c], hdr[c], rwfd[c], seen'[c])
             \/ k = 2 /\ pc[c] = "read2" /\ Moves(c, "decide", held[c], hdr[c], rwfd[c], seen'[c])
          /\ copy' = copy
          /\ \A j \in Copies : j # k => seen'[c][j] = seen[c][j]
          /\ \/ seen'[c][k] = copy[k] /\ ioerrs' = ioerrs
             \/ seen'[c][k] = NoImage /\ ioerrs' = ioerrs + 1
      BY <1>0, <2>4, ReadCopyMoves DEF Copies
    <3>1. CASE k = 1
      <4>1. SeenAt("read2", seen'[c], copy', ioerrs')
        BY <1>0, <3>0, <3>1 DEF SeenAt
      <4> QED
        BY <1>0, <3>0, <3>1, <4>1, SeenMove
    <3>2. CASE k = 2
      <4>1. SeenAt("decide", seen'[c], copy', ioerrs')
        BY <1>0, <2>0, <3>0, <3>2 DEF SeenAt, Copies
      <4> QED
        BY <1>0, <3>0, <3>2, <4>1, SeenMove
    <3> QED
      BY <3>1, <3>2 DEF Copies
  <2>5. ASSUME NEW k \in Copies, WriteCopy(c, k) PROVE SeenTrue'
    <3>1. /\ \E l, t : /\ l \notin {"read2", "decide", "recover", "recover2"}
                       /\ Moves(c, l, t, hdr[c], rwfd[c], seen[c])
          /\ pc[c] \in WriteSteps
          /\ ioerrs' = ioerrs \/ ioerrs' = ioerrs + 1
      BY <1>0, <2>5, WriteCopyMoves DEF WriteSteps, TornWrite, FullWrite, FailedWrite
    <3> QED
      BY <2>1, <3>1
  <2>6. CASE LoadFails(c)
    BY <1>0, <2>1, <2>6, LoadFailsMoves DEF Quiet
  <2>7. CASE LoadsConsistent(c)
    BY <1>0, <2>1, <2>7, LoadsConsistentMoves DEF Quiet
  <2>8. CASE LoadNeedsRecovery(c)
    <3>1. /\ pc[c] = "decide" /\ Quiet /\ ~Consistent(seen[c])
          /\ \/ Moves(c, "recover", held[c], hdr[c], TRUE, seen[c])
             \/ Moves(c, "relock", "none", hdr[c], rwfd[c], NothingSeen)
      BY <1>0, <2>8, LoadNeedsRecoveryMoves
    <3>2. SeenAt("recover", seen[c], copy', ioerrs')
      BY <2>0, <3>1 DEF SeenAt, Quiet
    <3> QED
      BY <2>1, <3>1, <3>2, SeenMove DEF Quiet
  <2>9. CASE Relock(c)
    BY <1>0, <2>1, <2>9, RelockMoves DEF Quiet
  <2>10. CASE Recover(c)
    <3> DEFINE s == seen[c]
               h == Newest(s)
    <3>1. pc[c] \in {"recover", "recover2"} /\ ~Consistent(s)
      BY <2>10 DEF Recover, SeenTrue, SeenAt
    <3>2. PICK k \in Copies :
             /\ k # Good(s) /\ ~Current(s, k) /\ Readable(s)
             /\ \/ /\ pc[c] = "recover" /\ TornWrite(k, h)
                   /\ Moves(c, "recover2", held[c], hdr[c], rwfd[c], s)
                \/ /\ FullWrite(k, h) \/ FailedWrite(k, h)
                   /\ Moves(c, "loaded", held[c], hdr[c], rwfd[c], s)
      BY <2>10, <3>1, RecoverMoves
    <3>3. CASE pc[c] = "recover" /\ TornWrite(k, h)
               /\ Moves(c, "recover2", held[c], hdr[c], rwfd[c], s)
      <4>1. /\ Good(s) \in Copies /\ Current(s, Good(s)) /\ s \in [Copies -> Image]
        BY <1>0, <3>2, GoodCurrent DEF TypeOK
      <4>2. copy'[k] = ImageOf(h, FALSE) /\ copy'[Good(s)] = copy[Good(s)] /\ ioerrs' = ioerrs
        BY <3>2, <3>3, <4>1 DEF TornWrite, Puts
      <4>3. s[Good(s)] = copy[Good(s)]
        <5>1. s[Good(s)].ok /\ ~NoImage.ok /\ s[Good(s)] \in {copy[Good(s)], NoImage}
          BY <2>0, <3>3, <4>1, ImageTypes DEF SeenAt, Current
        <5> QED
          BY <5>1
      <4>4. \A j \in Copies : j = k \/ j = Good(s)
        BY <3>2, <4>1 DEF Copies
      <4>5. SeenAt("recover2", s, copy', ioerrs')
        <5> HIDE DEF s, h
        <5> QED
          BY <3>1, <3>2, <4>1, <4>2, <4>3, <4>4 DEF SeenAt, h
      <4> QED
        BY <3>1, <3>3, <4>2, <4>5, WriterAlone, SeenMove
    <3>4. CASE /\ FullWrite(k, h) \/ FailedWrite(k, h)
               /\ Moves(c, "loaded", held[c], hdr[c], rwfd[c], s)
      BY <2>1, <3>1, <3>4 DEF FullWrite, FailedWrite
    <3> QED
      BY <3>2, <3>3, <3>4
  <2>11. CASE ReadReturns(c)
    BY <1>0, <2>1, <2>11, ReadReturnsMoves DEF Quiet
  <2>12. CASE WriteReturns(c)
    BY <1>0, <2>1, <2>12, WriteReturnsMoves
  <2>13. CASE Die(c)
    BY <1>0, <2>1, <2>13, DieMoves
  <2> QED
    BY <1>1, <2>2, <2>3, <2>4, <2>5, <2>6, <2>7, <2>8, <2>9, <2>10, <2>11, <2>12, <2>13
       DEF CtxNext, Proceed
<1>2. CASE SystemCrash
  BY <1>2, SystemCrashMoves DEF SeenTrue, SeenAt
<1>3. ASSUME NEW k \in Copies, NEW id \in {"junk", "foreign"}, Damage(k, id) PROVE SeenTrue'
  <2>1. \A c \in Ctx : pc'[c] \in {"idle", "relock"}
    BY <1>3, DamageMoves DEF Controlled, Coherent
  <2> QED
    BY <2>1 DEF SeenTrue, SeenAt
<1>4. CASE UNCHANGED vars
  BY <1>4 DEF vars, SeenTrue
<1> QED
  BY <1>1, <1>2, <1>3, <1>4 DEF Next

LEMMA SyncedStep ==
  ASSUME TypeInv, NoReload, Controlled, SeenTrue, ValidSynced, [Next]_vars
  PROVE  ValidSynced'
<1>0. TypeOK /\ ioerrs \in Nat
  BY WorldBounds DEF TypeInv, TypeOK
<1>q. ASSUME UNCHANGED <<copy, dur>>, ioerrs' = ioerrs \/ ioerrs' = ioerrs + 1
      PROVE  ValidSynced'
  BY <1>0, <1>q DEF ValidSynced
<1>w. ASSUME NEW k \in Copies, NEW h, TornWrite(k, h) \/ FullWrite(k, h) \/ FailedWrite(k, h)
      PROVE  ValidSynced'
  <2>1. CASE TornWrite(k, h)
    <3>1. ~copy'[k].ok /\ dur' = dur /\ ioerrs' = ioerrs
          /\ \A j \in Copies : j # k => copy'[j] = copy[j]
      BY <2>1 DEF TornWrite, Puts, ImageOf
    <3> QED
      BY <3>1 DEF ValidSynced
  <2>2. CASE FullWrite(k, h)
    BY <2>2 DEF FullWrite, Puts, ValidSynced
  <2>3. CASE FailedWrite(k, h)
    BY <1>0, <2>3 DEF FailedWrite, ValidSynced
  <2> QED
    BY <1>w, <2>1, <2>2, <2>3
<1>1. ASSUME NEW c \in Ctx, CtxNext(c) PROVE ValidSynced'
  <2>1. CASE UNCHANGED disk
    BY <1>q, <2>1, BudgetStep DEF disk, TypeInv
  <2>2. ASSUME NEW k \in Copies, WriteCopy(c, k) PROVE ValidSynced'
    BY <1>0, <1>w, <2>2, WriteCopyMoves
  <2>3. CASE Recover(c)
    <3>1. ~Consistent(seen[c])
      BY <2>3 DEF Recover, SeenTrue, SeenAt
    <3> QED
      BY <1>w, <2>3, <3>1, RecoverMoves
  <2>4. \/ UNCHANGED disk \/ Recover(c) \/ \E k \in Copies : WriteCopy(c, k)
    BY <1>1, Zenon DEF CtxNext, Proceed, StartRead, StartWrite, ReadCopy, LoadFails,
       LoadsConsistent, LoadNeedsRecovery, Relock, ReadReturns, WriteReturns, Die
  <2> QED
    BY <2>1, <2>2, <2>3, <2>4
<1>2. CASE SystemCrash
  BY <1>2, SystemCrashMoves DEF ValidSynced
<1>3. ASSUME NEW k \in Copies, NEW id \in {"junk", "foreign"}, Damage(k, id) PROVE ValidSynced'
  BY <1>3, DamageMoves DEF ValidSynced, Puts
<1>4. CASE UNCHANGED vars
  BY <1>4 DEF vars, ValidSynced
<1> QED
  BY <1>1, <1>2, <1>3, <1>4 DEF Next

LEMMA WrittenMove ==
  ASSUME Controlled, Written, NEW c \in Ctx, NEW l, NEW t, NEW h, NEW r, NEW s,
         Moves(c, l, t, h, r, s), WrittenAt(l, h, copy'), copy' = copy \/ Alone(c)
  PROVE  Written'
<1> SUFFICES ASSUME NEW d \in Ctx PROVE WrittenAt(pc'[d], hdr'[d], copy')
  BY DEF Written
<1>1. CASE d = c
  BY <1>1 DEF Moves
<1>2. CASE d # c
  <2>1. pc'[d] = pc[d] /\ hdr'[d] = hdr[d]
    BY <1>2 DEF Moves
  <2>2. CASE Alone(c)
    BY <1>2, <2>1, <2>2, OthersIdle DEF WrittenAt
  <2>3. CASE copy' = copy
    BY <2>1, <2>3 DEF Written
  <2> QED
    BY <2>2, <2>3
<1> QED
  BY <1>1, <1>2

LEMMA WrittenStep ==
  ASSUME TypeInv, NoReload, Controlled, SeenTrue, Written, [Next]_vars
  PROVE  Written'
<1>0. TypeOK
  BY DEF TypeInv
<1>1. ASSUME NEW c \in Ctx, CtxNext(c) PROVE Written'
  <2>0. WrittenAt(pc[c], hdr[c], copy)
    BY DEF Written
  <2>1. ASSUME NEW l, NEW t, NEW h, NEW r, NEW s, Moves(c, l, t, h, r, s),
               l \notin {"write1rest", "write2", "write2rest", "written"},
               copy' = copy \/ pc[c] \in WriteSteps \cup {"recover", "recover2"}
        PROVE  Written'
    <3>1. WrittenAt(l, h, copy')
      BY <2>1 DEF WrittenAt
    <3>2. copy' = copy \/ Alone(c)
      BY <2>1, WriterAlone
    <3> QED
      BY <2>1, <3>1, <3>2, WrittenMove
  <2>2. ASSUME NEW p \in BOOLEAN, StartRead(c, p) PROVE Written'
    BY <1>0, <2>1, <2>2, StartReadMoves DEF Quiet
  <2>3. ASSUME NEW u \in Update, NEW id \in {"uuid", "newuuid"}, StartWrite(c, u, id)
        PROVE  Written'
    <3> DEFINE h == Changed(hdr[c], u, id)
    <3>1. /\ \/ Moves(c, "write1", "WRITE", Count(h), TRUE, seen[c])
             \/ Moves(c, "idle", held[c], h, rwfd[c], seen[c])
          /\ copy' = copy
      BY <1>0, <2>3, StartWriteMoves
    <3> HIDE DEF h
    <3> QED
      BY <2>1, <3>1
  <2>4. ASSUME NEW k \in Copies, ReadCopy(c, k) PROVE Written'
    <3>1. /\ \E l \in {"read2", "decide"} : Moves(c, l, held[c], hdr[c], rwfd[c], seen'[c])
          /\ copy' = copy
      BY <1>0, <2>4, ReadCopyMoves
    <3> QED
      BY <2>1, <3>1
  <2>5. ASSUME NEW k \in Copies, WriteCopy(c, k) PROVE Written'
    <3>0. pc[c] \in WriteSteps
      BY <1>0, <2>5, WriteCopyMoves DEF WriteSteps
    <3>1. CASE Moves(c, "idle", "none", hdr[c], rwfd[c], seen[c])
      BY <2>1, <3>0, <3>1
    <3>2. CASE /\ TornWrite(k, hdr[c]) /\ pc[c] = (IF k = 1 THEN "write1" ELSE "write2")
               /\ Moves(c, IF k = 1 THEN "write1rest" ELSE "write2rest",
                        held[c], hdr[c], rwfd[c], seen[c])
      <4>1. WrittenAt(IF k = 1 THEN "write1rest" ELSE "write2rest", hdr[c], copy')
        BY <2>0, <3>2 DEF WrittenAt, TornWrite, Puts, Copies
      <4> QED
        BY <3>0, <3>2, <4>1, WriterAlone, WrittenMove
    <3>3. CASE /\ FullWrite(k, hdr[c]) /\ pc[c] = (IF k = 1 THEN "write1rest" ELSE "write2rest")
               /\ Moves(c, IF k = 1 THEN "write2" ELSE "written",
                        held[c], hdr[c], rwfd[c], seen[c])
      <4>1. WrittenAt(IF k = 1 THEN "write2" ELSE "written", hdr[c], copy')
        BY <2>0, <3>3 DEF WrittenAt, FullWrite, Puts, Copies
      <4> QED
        BY <3>0, <3>3, <4>1, WriterAlone, WrittenMove
    <3> QED
      BY <1>0, <2>5, <3>1, <3>2, <3>3, WriteCopyMoves
  <2>6. CASE LoadFails(c)
    BY <1>0, <2>1, <2>6, LoadFailsMoves DEF Quiet
  <2>7. CASE LoadsConsistent(c)
    BY <1>0, <2>1, <2>7, LoadsConsistentMoves DEF Quiet
  <2>8. CASE LoadNeedsRecovery(c)
    BY <1>0, <2>1, <2>8, LoadNeedsRecoveryMoves DEF Quiet
  <2>9. CASE Relock(c)
    BY <1>0, <2>1, <2>9, RelockMoves DEF Quiet
  <2>10. CASE Recover(c)
    <3>1. pc[c] \in {"recover", "recover2"} /\ ~Consistent(seen[c])
      BY <2>10 DEF Recover, SeenTrue, SeenAt
    <3>2. \E l \in {"recover2", "loaded"} : Moves(c, l, held[c], hdr[c], rwfd[c], seen[c])
      BY <2>10, <3>1, RecoverMoves
    <3> QED
      BY <2>1, <3>1, <3>2
  <2>11. CASE ReadReturns(c)
    BY <1>0, <2>1, <2>11, ReadReturnsMoves DEF Quiet
  <2>12. CASE WriteReturns(c)
    BY <1>0, <2>1, <2>12, WriteReturnsMoves
  <2>13. CASE Die(c)
    BY <1>0, <2>1, <2>13, DieMoves
  <2> QED
    BY <1>1, <2>2, <2>3, <2>4, <2>5, <2>6, <2>7, <2>8, <2>9, <2>10, <2>11, <2>12, <2>13
       DEF CtxNext, Proceed
<1>2. CASE SystemCrash
  BY <1>2, SystemCrashMoves DEF Written, WrittenAt
<1>3. ASSUME NEW k \in Copies, NEW id \in {"junk", "foreign"}, Damage(k, id) PROVE Written'
  <2>1. \A c \in Ctx : pc'[c] \in {"idle", "relock"}
    BY <1>3, DamageMoves DEF Controlled, Coherent
  <2> QED
    BY <2>1 DEF Written, WrittenAt
<1>4. CASE UNCHANGED vars
  BY <1>4 DEF vars, Written
<1> QED
  BY <1>1, <1>2, <1>3, <1>4 DEF Next

-----------------------------------------------------------------------------
(* One fault                                                               *)

(* Where a context writes to the disk, and where it is after it has.       *)
Writing == {"write1", "write1rest", "write2", "write2rest", "recover", "recover2"}
HasWritten == {"write1rest", "write2", "write2rest", "written", "recover2"}

Stays(c) == \A d \in Ctx : d # c => pc'[d] = pc[d] /\ seen'[d] = seen[d]

(* A step of a context leaves the disk alone, is its death, or is one of   *)
(* the writes.                                                             *)
LEMMA CtxSteps ==
  ASSUME TypeInv, NoReload, SeenTrue, NEW c \in Ctx, CtxNext(c)
  PROVE  /\ Stays(c)
         /\ \/ /\ UNCHANGED <<copy, dur, crashes, damages, world>>
               /\ pc[c] \notin Writing /\ pc'[c] \notin HasWritten
            \/ /\ UNCHANGED <<copy, dur, ioerrs, damages, world>> /\ crashes' = crashes + 1
               /\ pc'[c] = "idle"
            \/ pc[c] = "write1" /\ pc'[c] = "write1rest" /\ TornWrite(1, hdr[c])
            \/ pc[c] = "write1rest" /\ pc'[c] = "write2" /\ FullWrite(1, hdr[c])
            \/ pc[c] = "write2" /\ pc'[c] = "write2rest" /\ TornWrite(2, hdr[c])
            \/ pc[c] = "write2rest" /\ pc'[c] = "written" /\ FullWrite(2, hdr[c])
            \/ pc[c] \in {"write1", "write1rest"} /\ pc'[c] = "idle" /\ FailedWrite(1, hdr[c])
            \/ pc[c] \in {"write2", "write2rest"} /\ pc'[c] = "idle" /\ FailedWrite(2, hdr[c])
            \/ Recover(c)
<1>0. TypeOK
  BY DEF TypeInv
<1> USE DEF Writing, HasWritten
<1> DEFINE Inert == /\ UNCHANGED <<copy, dur, crashes, damages, world>>
                    /\ pc[c] \notin Writing /\ pc'[c] \notin HasWritten
<1>m. ASSUME NEW l, NEW t, NEW h, NEW r, NEW s, Moves(c, l, t, h, r, s)
      PROVE  Stays(c) /\ pc'[c] = l
  BY <1>m DEF Moves, Stays
<1>1. ASSUME NEW p \in BOOLEAN, StartRead(c, p) PROVE Stays(c) /\ Inert
  BY <1>0, <1>1, <1>m, StartReadMoves DEF Quiet
<1>2. ASSUME NEW u \in Update, NEW id \in {"uuid", "newuuid"}, StartWrite(c, u, id)
      PROVE  Stays(c) /\ Inert
  <2> DEFINE h == Changed(hdr[c], u, id)
  <2>1. /\ \/ Moves(c, "write1", "WRITE", Count(h), TRUE, seen[c])
           \/ Moves(c, "idle", held[c], h, rwfd[c], seen[c])
        /\ UNCHANGED <<copy, dur, crashes, damages, world>> /\ pc[c] = "idle"
    BY <1>0, <1>2, StartWriteMoves
  <2> HIDE DEF h
  <2>2. Stays(c) /\ pc'[c] \in {"write1", "idle"}
    BY <1>m, <2>1
  <2> QED
    BY <2>1, <2>2
<1>3. ASSUME NEW k \in Copies, ReadCopy(c, k) PROVE Stays(c) /\ Inert
  <2>1. /\ \E l \in {"read2", "decide"} : Moves(c, l, held[c], hdr[c], rwfd[c], seen'[c])
        /\ UNCHANGED <<copy, dur, crashes, damages, world>> /\ pc[c] \in {"read1", "read2"}
    BY <1>0, <1>3, ReadCopyMoves
  <2> QED
    BY <1>m, <2>1
<1>4. CASE LoadFails(c) \/ LoadsConsistent(c) \/ LoadNeedsRecovery(c) \/ Relock(c)
           \/ ReadReturns(c)
  <2>1. CASE LoadFails(c)
    BY <1>0, <1>m, <2>1, LoadFailsMoves DEF Quiet
  <2>2. CASE LoadsConsistent(c)
    BY <1>0, <1>m, <2>2, LoadsConsistentMoves DEF Quiet
  <2>3. CASE LoadNeedsRecovery(c)
    <3>1. Stays(c) /\ pc'[c] \in {"recover", "relock"}
      BY <1>0, <1>m, <2>3, LoadNeedsRecoveryMoves
    <3> QED
      BY <1>0, <2>3, <3>1, LoadNeedsRecoveryMoves DEF Quiet
  <2>4. CASE Relock(c)
    BY <1>0, <1>m, <2>4, RelockMoves DEF Quiet
  <2>5. CASE ReadReturns(c)
    BY <1>0, <1>m, <2>5, ReadReturnsMoves DEF Quiet
  <2> QED
    BY <1>4, <2>1, <2>2, <2>3, <2>4, <2>5
<1>5. CASE WriteReturns(c)
  BY <1>0, <1>5, <1>m, WriteReturnsMoves
<1>6. CASE Die(c)
  BY <1>0, <1>6, <1>m, DieMoves
<1>7. CASE Recover(c)
  <2>1. ~Consistent(seen[c])
    BY <1>7 DEF Recover, SeenTrue, SeenAt
  <2>2. \E l : Moves(c, l, held[c], hdr[c], rwfd[c], seen[c])
    BY <1>7, <2>1, RecoverMoves
  <2> QED
    BY <1>7, <1>m, <2>2
<1>8. ASSUME NEW k \in Copies, WriteCopy(c, k)
      PROVE  /\ Stays(c)
             /\ \/ pc[c] = "write1" /\ pc'[c] = "write1rest" /\ TornWrite(1, hdr[c])
                \/ pc[c] = "write1rest" /\ pc'[c] = "write2" /\ FullWrite(1, hdr[c])
                \/ pc[c] = "write2" /\ pc'[c] = "write2rest" /\ TornWrite(2, hdr[c])
                \/ pc[c] = "write2rest" /\ pc'[c] = "written" /\ FullWrite(2, hdr[c])
                \/ pc[c] \in {"write1", "write1rest"} /\ pc'[c] = "idle" /\ FailedWrite(1, hdr[c])
                \/ pc[c] \in {"write2", "write2rest"} /\ pc'[c] = "idle" /\ FailedWrite(2, hdr[c])
  <2>1. CASE k = 1
    BY <1>0, <1>8, <1>m, <2>1, WriteCopyMoves
  <2>2. CASE k = 2
    BY <1>0, <1>8, <1>m, <2>2, WriteCopyMoves
  <2> QED
    BY <2>1, <2>2 DEF Copies
<1> HIDE DEF Writing, HasWritten
<1> QED
  BY <1>1, <1>2, <1>3, <1>4, <1>5, <1>6, <1>7, <1>8 DEF CtxNext, Proceed

(* A load that rewrites a copy has the other one in hand: it is valid, and *)
(* the copy to be rewritten becomes equal to it.                           *)
LEMMA RecoverSteps ==
  ASSUME TypeInv, SeenTrue, NEW c \in Ctx, Recover(c)
  PROVE  \E k, g \in Copies :
           /\ k # g /\ copy[g].ok /\ seen[c][g] = copy[g]
           /\ Good(seen[c]) = g /\ ~Current(seen[c], k)
           /\ ImageOf(Newest(seen[c]), TRUE) = copy[g]
           /\ \/ /\ pc[c] = "recover" /\ pc'[c] = "recover2"
                 /\ TornWrite(k, Newest(seen[c]))
              \/ /\ pc[c] = "recover2" /\ pc'[c] = "loaded" /\ ~copy[k].ok
                 /\ FullWrite(k, Newest(seen[c]))
              \/ pc[c] \in {"recover", "recover2"} /\ pc'[c] = "loaded"
                 /\ FailedWrite(k, Newest(seen[c]))
<1> DEFINE s == seen[c]
           g == Good(s)
<1>1. pc[c] \in {"recover", "recover2"} /\ ~Consistent(s) /\ SeenAt(pc[c], s, copy, ioerrs)
  BY DEF Recover, SeenTrue, SeenAt
<1>2. PICK k \in Copies :
         /\ k # g /\ ~Current(s, k) /\ Readable(s)
         /\ \/ pc[c] = "recover" /\ pc'[c] = "recover2" /\ TornWrite(k, Newest(s))
            \/ pc[c] = "recover2" /\ pc'[c] = "loaded" /\ FullWrite(k, Newest(s))
            \/ pc[c] \in {"recover", "recover2"} /\ pc'[c] = "loaded" /\ FailedWrite(k, Newest(s))
  BY <1>1, RecoverMoves DEF Moves
<1>3. s \in [Copies -> Image] /\ g \in Copies /\ Current(s, g)
  BY <1>2, GoodCurrent DEF TypeInv, TypeOK
<1>4. s[g] \in Image /\ s[g].ok
  BY <1>3 DEF Current
<1>5. s[g] = copy[g]
  <2>1. CASE pc[c] = "recover"
    BY <1>1, <1>3, <1>4, <2>1, ImageTypes DEF SeenAt
  <2>2. CASE pc[c] = "recover2"
    BY <1>1, <1>3, <2>2 DEF SeenAt
  <2> QED
    BY <1>1, <2>1, <2>2
<1>6. ImageOf(Newest(s), TRUE) = s[g]
  <2>1. Newest(s) = [seqid |-> s[g].seqid, ident |-> s[g].ident, body |-> s[g].body]
    BY DEF Newest, HeaderOf
  <2> HIDE DEF s, g
  <2>2. s[g] = [seqid |-> s[g].seqid, ident |-> s[g].ident, body |-> s[g].body, ok |-> s[g].ok]
    BY <1>4 DEF Image
  <2>3. s[g].ok = TRUE
    BY <1>4 DEF Image
  <2>4. Newest(s).seqid = s[g].seqid /\ Newest(s).ident = s[g].ident /\ Newest(s).body = s[g].body
    BY <2>1
  <2>5. ImageOf(Newest(s), TRUE)
           = [seqid |-> s[g].seqid, ident |-> s[g].ident, body |-> s[g].body, ok |-> TRUE]
    BY <2>4 DEF ImageOf
  <2> QED
    BY <2>2, <2>3, <2>5
<1>7. pc[c] = "recover2" => ~copy[k].ok
  BY <1>1, <1>2 DEF SeenAt, ImageOf
<1> HIDE DEF g
<1> QED
  BY <1>2, <1>3, <1>4, <1>5, <1>6, <1>7 DEF g

(* The counts of faults are natural numbers that grow.                     *)
LEMMA FaultsGrow ==
  ASSUME TypeOK, [Next]_vars
  PROVE  /\ crashes \in Nat /\ ioerrs \in Nat /\ damages \in Nat
         /\ crashes' \in Nat /\ ioerrs' \in Nat /\ damages' \in Nat
         /\ crashes' \in {crashes, crashes + 1} /\ ioerrs' \in {ioerrs, ioerrs + 1}
         /\ damages' \in {damages, damages + 1} /\ world' = world
<1>1. world.crash \in Nat /\ world.ioerr \in Nat /\ world.damage \in Nat
  BY WorldBounds DEF TypeOK
<1> QED
  BY <1>1, BudgetStep DEF TypeOK

(* Without a fault both copies are valid for who has the lock and does not *)
(* write himself.                                                          *)
LEMMA BothValidUnderLock ==
  ASSUME Controlled, NoFault, FaultCount = 0, NEW c \in Ctx, held[c] # "none"
  PROVE  \/ copy[1].ok /\ copy[2].ok
         \/ pc[c] \in {"write2rest", "recover2"}
         \/ pc[c] = "write1rest" /\ copy[2].ok
<1>1. ASSUME NEW d \in Ctx, pc[d] \in {"write2rest", "recover2", "write1rest"} PROVE d = c
  BY <1>1 DEF Controlled, Coherent, WriteSteps, Lock!Exclusion
<1> QED
  BY <1>1 DEF NoFault

LEMMA WriterHolds ==
  ASSUME Controlled, NEW c \in Ctx, pc[c] \in WriteSteps \cup ReadSteps
  PROVE  held[c] # "none"
  BY DEF Controlled, Coherent, WriteSteps, ReadSteps

LEMMA PrimaryWritten ==
  ASSUME Written, NEW c \in Ctx, pc[c] \in {"write2", "write2rest", "written"}
  PROVE  copy[1] = ImageOf(hdr[c], TRUE) /\ copy[1].ok
<1>1. copy[1] = ImageOf(hdr[c], TRUE)
  BY DEF Written, WrittenAt
<1>2. ImageOf(hdr[c], TRUE).ok
  BY DEF ImageOf
<1> QED
  BY <1>1, <1>2

LEMMA NoFaultStep ==
  ASSUME TypeInv, NoReload, Controlled, SeenTrue, Written, NoFault, [Next]_vars
  PROVE  NoFault'
<1> SUFFICES ASSUME FaultCount' = 0
             PROVE  \/ copy'[1].ok /\ copy'[2].ok
                    \/ \E c \in Ctx : \/ pc'[c] \in {"write2rest", "recover2"}
                                      \/ pc'[c] = "write1rest" /\ copy'[2].ok
  BY DEF NoFault
<1>t. TypeOK
  BY DEF TypeInv
<1>a. crashes' = 0 /\ ioerrs' = 0 /\ damages' = 0
  BY <1>t, FaultsGrow DEF FaultCount
<1>b. crashes = 0 /\ ioerrs = 0 /\ damages = 0
  BY <1>t, <1>a, FaultsGrow
<1>0. /\ TypeOK /\ FaultCount = 0 /\ UNCHANGED <<crashes, ioerrs, damages>>
      /\ crashes = 0 /\ ioerrs = 0 /\ damages = 0
  BY <1>t, <1>a, <1>b DEF FaultCount
<1>1. ASSUME NEW c \in Ctx, CtxNext(c)
      PROVE  \/ copy'[1].ok /\ copy'[2].ok
             \/ \E d \in Ctx : \/ pc'[d] \in {"write2rest", "recover2"}
                               \/ pc'[d] = "write1rest" /\ copy'[2].ok
  <2>1. CASE /\ UNCHANGED <<copy, dur, crashes, damages, world>>
             /\ pc[c] \notin Writing /\ pc'[c] \notin HasWritten
    <3>1. Stays(c)
      BY <1>1, CtxSteps
    <3> QED
      BY <1>0, <2>1, <3>1 DEF NoFault, Writing, Stays
  <2>2. CASE pc[c] = "write1" /\ pc'[c] = "write1rest" /\ TornWrite(1, hdr[c])
    <3>1. copy[2].ok
      BY <1>0, <2>2, BothValidUnderLock, WriterHolds DEF WriteSteps
    <3>2. copy'[2] = copy[2]
      BY <2>2 DEF TornWrite, Puts, Copies
    <3> QED
      BY <2>2, <3>1, <3>2
  <2>3. CASE pc[c] = "write1rest" /\ pc'[c] = "write2" /\ FullWrite(1, hdr[c])
    <3>1. copy[2].ok
      BY <1>0, <2>3, BothValidUnderLock, WriterHolds DEF WriteSteps
    <3> QED
      BY <2>3, <3>1 DEF FullWrite, Puts, Copies, ImageOf
  <2>4. CASE pc[c] = "write2" /\ pc'[c] = "write2rest" /\ TornWrite(2, hdr[c])
    BY <2>4
  <2>5. CASE pc[c] = "write2rest" /\ pc'[c] = "written" /\ FullWrite(2, hdr[c])
    <3>1. copy[1].ok
      BY <2>5, PrimaryWritten
    <3> QED
      BY <2>5, <3>1 DEF FullWrite, Puts, Copies, ImageOf
  <2>6. CASE Recover(c)
    <3>1. PICK k, g \in Copies :
             /\ k # g /\ copy[g].ok /\ ImageOf(Newest(seen[c]), TRUE) = copy[g]
             /\ \/ pc'[c] = "recover2"
                \/ FullWrite(k, Newest(seen[c]))
                \/ FailedWrite(k, Newest(seen[c]))
      BY <2>6, RecoverSteps
    <3>2. ~FailedWrite(k, Newest(seen[c]))
      BY <1>0 DEF FailedWrite
    <3>3. CASE FullWrite(k, Newest(seen[c]))
      <4>1. copy'[k].ok /\ copy'[g].ok
        BY <3>1, <3>3 DEF FullWrite, Puts
      <4> QED
        BY <3>1, <4>1 DEF Copies
    <3> QED
      BY <3>1, <3>2, <3>3
  <2> QED
    BY <1>0, <1>1, <2>1, <2>2, <2>3, <2>4, <2>5, <2>6, CtxSteps DEF FailedWrite
<1>2. CASE SystemCrash
  BY <1>0, <1>2, SystemCrashMoves
<1>3. ASSUME NEW k \in Copies, NEW id \in {"junk", "foreign"}, Damage(k, id) PROVE FALSE
  BY <1>0, <1>3, DamageMoves
<1>4. CASE UNCHANGED vars
  BY <1>0, <1>4 DEF vars, NoFault
<1> QED
  BY <1>1, <1>2, <1>3, <1>4 DEF Next

LEMMA AfterFaultStep ==
  ASSUME TypeInv, NoReload, Controlled, SeenTrue, ValidSynced, Written, NoFault, AfterFault,
         [Next]_vars
  PROVE  AfterFault'
<1> DEFINE Goal == copy'[1].ok \/ copy'[2].ok \/ \E c \in Ctx : pc'[c] = "write1rest"
<1> SUFFICES ASSUME FaultCount' <= 1 PROVE Goal
  BY DEF AfterFault, Readable, Copies
<1>t. TypeOK
  BY DEF TypeInv
<1>0. TypeOK /\ FaultCount <= 1
  BY <1>t, FaultsGrow DEF FaultCount
<1>f. ASSUME \/ crashes' = crashes + 1 \/ ioerrs' = ioerrs + 1 \/ damages' = damages + 1
      PROVE  FaultCount = 0 /\ ioerrs = 0
  BY <1>t, <1>f, FaultsGrow DEF FaultCount
<1>r. copy[1].ok \/ copy[2].ok \/ \E c \in Ctx : pc[c] = "write1rest"
  BY <1>0 DEF AfterFault, Readable, Copies
<1>s. ASSUME NEW c \in Ctx, pc[c] = "write1rest", FaultCount = 0 PROVE copy[2].ok
  BY <1>s, BothValidUnderLock, WriterHolds DEF WriteSteps
<1>1. ASSUME NEW c \in Ctx, CtxNext(c) PROVE Goal
  <2>0. Stays(c)
    BY <1>1, CtxSteps
  <2>1. CASE /\ UNCHANGED <<copy, dur, crashes, damages, world>>
             /\ pc[c] \notin Writing /\ pc'[c] \notin HasWritten
    BY <1>r, <2>0, <2>1 DEF Writing, Stays
  <2>2. CASE /\ UNCHANGED <<copy, dur, ioerrs, damages, world>> /\ crashes' = crashes + 1
             /\ pc'[c] = "idle"
    BY <1>f, <1>r, <1>s, <2>0, <2>2 DEF Stays
  <2>3. CASE pc[c] = "write1" /\ pc'[c] = "write1rest" /\ TornWrite(1, hdr[c])
    BY <2>3
  <2>4. CASE pc[c] = "write1rest" /\ pc'[c] = "write2" /\ FullWrite(1, hdr[c])
    BY <2>4 DEF FullWrite, Puts, Copies, ImageOf
  <2>5. CASE pc[c] \in {"write2", "write2rest"} /\ Puts(2, copy'[2], dur' = copy')
    <3>1. copy[1].ok
      BY <2>5, PrimaryWritten
    <3> QED
      BY <2>5, <3>1 DEF Puts, Copies
  <2>6. CASE pc[c] \in {"write1", "write1rest"} /\ pc'[c] = "idle" /\ FailedWrite(1, hdr[c])
    <3>1. copy[2].ok
      BY <1>f, <2>6, BothValidUnderLock, WriterHolds DEF WriteSteps, FailedWrite
    <3>2. copy'[2] = copy[2]
      BY <2>6 DEF FailedWrite, Puts, Copies
    <3> QED
      BY <3>1, <3>2
  <2>7. CASE Recover(c)
    <3>1. PICK k, g \in Copies :
             /\ k # g /\ copy[g].ok
             /\ \/ TornWrite(k, Newest(seen[c])) \/ FullWrite(k, Newest(seen[c]))
                \/ FailedWrite(k, Newest(seen[c]))
      BY <2>7, RecoverSteps
    <3>2. copy'[g] = copy[g]
      BY <3>1 DEF TornWrite, FullWrite, FailedWrite, Puts
    <3> QED
      BY <3>1, <3>2 DEF Copies
  <2>8. \A i, b : Puts(2, i, b) => Puts(2, copy'[2], dur' = copy')
    BY DEF Puts
  <2> HIDE DEF Goal
  <2> QED
    BY <1>1, <2>1, <2>2, <2>3, <2>4, <2>5, <2>6, <2>7, <2>8, CtxSteps
       DEF TornWrite, FullWrite, FailedWrite
<1>2. CASE SystemCrash
  <2>1. FaultCount = 0 /\ ioerrs = 0
    BY <1>2, <1>f, SystemCrashMoves
  <2>2. \A k \in Copies : copy[k].ok => copy'[k] = copy[k]
    BY <1>2, <2>1, SystemCrashMoves DEF ValidSynced
  <2>3. copy[1].ok \/ copy[2].ok
    BY <1>r, <1>s, <2>1
  <2> QED
    BY <2>2, <2>3 DEF Copies
<1>3. ASSUME NEW k \in Copies, NEW id \in {"junk", "foreign"}, Damage(k, id) PROVE Goal
  <2>1. FaultCount = 0
    BY <1>3, <1>f, DamageMoves
  <2>2. \A c \in Ctx : pc[c] \in {"idle", "relock"}
    BY <1>3, DamageMoves DEF Controlled, Coherent
  <2>3. copy[1].ok /\ copy[2].ok
    BY <2>1, <2>2 DEF NoFault
  <2> QED
    BY <1>3, <2>3, DamageMoves DEF Puts, Copies
<1>4. CASE UNCHANGED vars
  BY <1>r, <1>4 DEF vars
<1> QED
  BY <1>1, <1>2, <1>3, <1>4 DEF Next

LEMMA LoadSeesStep ==
  ASSUME TypeInv, NoReload, Controlled, SeenTrue, NoFault, AfterFault, LoadSees, [Next]_vars
  PROVE  LoadSees'
<1> SUFFICES ASSUME FaultCount' <= 1, NEW d \in Ctx
             PROVE  SeesValid(pc'[d], seen'[d], copy')
  BY DEF LoadSees
<1>t. TypeOK
  BY DEF TypeInv
<1>0. FaultCount <= 1 /\ (ioerrs' = ioerrs + 1 => FaultCount = 0 /\ ioerrs = 0)
  BY <1>t, FaultsGrow DEF FaultCount
<1>1. SeesValid(pc[d], seen[d], copy)
  BY <1>0 DEF LoadSees
<1>2. CASE pc'[d] = pc[d] /\ seen'[d] = seen[d] /\ copy' = copy
  BY <1>1, <1>2
<1>3. CASE pc'[d] \notin {"read2", "decide", "failed"}
  BY <1>3 DEF SeesValid
<1>4. ASSUME NEW c \in Ctx, CtxNext(c) PROVE SeesValid(pc'[d], seen'[d], copy')
  <2>0. Stays(c)
    BY <1>4, CtxSteps
  <2>1. CASE d # c
    <3>1. pc'[d] = pc[d] /\ seen'[d] = seen[d]
      BY <2>0, <2>1 DEF Stays
    <3>2. CASE pc[c] \in WriteSteps \cup {"recover", "recover2"}
      BY <1>3, <2>1, <3>1, <3>2, WriterAlone, OthersIdle
    <3>3. CASE copy' = copy
      BY <1>2, <3>1, <3>3
    <3> QED
      BY <1>4, <3>2, <3>3, CtxSteps, RecoverSteps DEF WriteSteps, Writing
  <2>2. CASE d = c
    <3>1. CASE \E k \in Copies : ReadCopy(c, k)
      <4>1. PICK k \in Copies : ReadCopy(c, k)
        BY <3>1
      <4>2. /\ pc[c] = (IF k = 1 THEN "read1" ELSE "read2")
            /\ pc'[c] = (IF k = 1 THEN "read2" ELSE "decide")
            /\ copy' = copy
            /\ \A j \in Copies : j # k => seen'[c][j] = seen[c][j]
            /\ \/ seen'[c][k] = copy[k] /\ ioerrs' = ioerrs
               \/ seen'[c][k] = NoImage /\ ioerrs' = ioerrs + 1
        BY <1>t, <4>1, ReadCopyMoves DEF Moves
      <4>3. ioerrs' = ioerrs + 1 => copy[1].ok /\ copy[2].ok
        BY <1>0, <4>2, BothValidUnderLock, WriterHolds DEF ReadSteps
      <4>4. copy[1].ok \/ copy[2].ok
        <5>1. \A e \in Ctx : pc[e] # "write1rest"
          BY <4>2 DEF Controlled, Coherent, WriteSteps, ReadSteps, Lock!Exclusion
        <5> QED
          BY <1>0, <5>1 DEF AfterFault, Readable, Copies
      <4>5. CASE k = 1
        BY <2>2, <4>2, <4>3, <4>4, <4>5 DEF SeesValid
      <4>6. CASE k = 2
        <5>1. seen'[c][1] = seen[c][1] /\ (seen[c][1].ok \/ copy[2].ok)
          BY <1>1, <2>2, <4>2, <4>6 DEF SeesValid, Copies
        <5>2. ioerrs' = ioerrs + 1 => seen[c][1] = copy[1]
          <6>1. SeenAt("read2", seen[c], copy, ioerrs)
            BY <4>2, <4>6 DEF SeenTrue
          <6> QED
            BY <1>0, <6>1 DEF SeenAt
        <5>3. seen'[c][1].ok \/ seen'[c][2].ok
          BY <4>2, <4>3, <4>6, <5>1, <5>2
        <5> QED
          BY <2>2, <4>2, <4>6, <5>3 DEF SeesValid, Readable, Copies
      <4> QED
        BY <4>5, <4>6 DEF Copies
    <3>2. CASE LoadFails(c)
      <4>1. pc[c] = "decide" /\ seen'[c] = seen[c] /\ pc'[c] = "failed"
        BY <1>t, <3>2, LoadFailsMoves DEF Moves
      <4> QED
        BY <1>1, <2>2, <4>1 DEF SeesValid
    <3>3. CASE pc'[c] \notin {"read2", "decide", "failed"}
      BY <1>3, <2>2, <3>3
    <3>4. \/ pc'[c] \notin {"read2", "decide", "failed"} \/ LoadFails(c)
          \/ \E k \in Copies : ReadCopy(c, k)
      <4>1. ASSUME NEW p \in BOOLEAN, StartRead(c, p) PROVE pc'[c] = "read1"
        BY <1>t, <4>1, StartReadMoves DEF Moves
      <4>2. ASSUME NEW u \in Update, NEW id \in {"uuid", "newuuid"}, StartWrite(c, u, id)
            PROVE  pc'[c] \in {"write1", "idle"}
        BY <1>t, <4>2, StartWriteMoves DEF Moves
      <4>3. ASSUME NEW k \in Copies, WriteCopy(c, k)
            PROVE  pc'[c] \notin {"read2", "decide", "failed"}
        BY <1>t, <4>3, WriteCopyMoves DEF Moves
      <4>4. CASE LoadsConsistent(c) \/ LoadNeedsRecovery(c) \/ Relock(c) \/ ReadReturns(c)
                 \/ WriteReturns(c) \/ Die(c)
        BY <1>t, <4>4, LoadsConsistentMoves, LoadNeedsRecoveryMoves, RelockMoves,
           ReadReturnsMoves, WriteReturnsMoves, DieMoves DEF Moves
      <4>5. CASE Recover(c)
        BY <4>5, RecoverSteps
      <4> QED
        BY <1>4, <4>1, <4>2, <4>3, <4>4, <4>5 DEF CtxNext, Proceed
    <3> QED
      BY <3>1, <3>2, <3>3, <3>4
  <2> QED
    BY <2>1, <2>2
<1>5. CASE SystemCrash
  BY <1>3, <1>5, SystemCrashMoves
<1>6. ASSUME NEW k \in Copies, NEW id \in {"junk", "foreign"}, Damage(k, id)
      PROVE  SeesValid(pc'[d], seen'[d], copy')
  <2>1. pc'[d] \in {"idle", "relock"}
    BY <1>6, DamageMoves DEF Controlled, Coherent
  <2> QED
    BY <1>3, <2>1
<1>7. CASE UNCHANGED vars
  BY <1>2, <1>7 DEF vars
<1> QED
  BY <1>4, <1>5, <1>6, <1>7 DEF Next

LEMMA CrashFreeStep ==
  ASSUME TypeInv, NoReload, Controlled, SeenTrue, Written, CrashFree, [Next]_vars
  PROVE  CrashFree'
<1> SUFFICES ASSUME crashes' + ioerrs' = 0, copy'[1].ok, copy'[2].ok
             PROVE  copy'[1] = copy'[2] \/ \E c \in Ctx : pc'[c] = "write2"
  BY DEF CrashFree
<1>t. TypeOK
  BY DEF TypeInv
<1>a. crashes' = 0 /\ ioerrs' = 0
  BY <1>t, FaultsGrow
<1>b. crashes = 0 /\ ioerrs = 0
  BY <1>t, <1>a, FaultsGrow
<1>1. ASSUME NEW c \in Ctx, CtxNext(c)
      PROVE  copy'[1] = copy'[2] \/ \E d \in Ctx : pc'[d] = "write2"
  <2>0. Stays(c)
    BY <1>1, CtxSteps
  <2>1. CASE copy' = copy /\ pc[c] \notin Writing
    BY <1>b, <2>0, <2>1 DEF CrashFree, Stays, Writing
  <2>2. CASE \E k \in Copies : \E h : TornWrite(k, h)
    <3>1. \E k \in Copies : ~copy'[k].ok
      BY <2>2 DEF TornWrite, Puts, ImageOf
    <3> QED
      BY <3>1 DEF Copies
  <2>3. CASE pc[c] = "write1rest" /\ pc'[c] = "write2" /\ FullWrite(1, hdr[c])
    BY <2>3
  <2>4. CASE pc[c] = "write2rest" /\ pc'[c] = "written" /\ FullWrite(2, hdr[c])
    BY <2>4, PrimaryWritten DEF FullWrite, Puts, Copies
  <2>5. CASE Recover(c) /\ ~\E k \in Copies : \E h : TornWrite(k, h)
    <3>1. PICK k, g \in Copies :
             /\ k # g /\ ImageOf(Newest(seen[c]), TRUE) = copy[g]
             /\ FullWrite(k, Newest(seen[c])) \/ FailedWrite(k, Newest(seen[c]))
      BY <2>5, RecoverSteps
    <3>2. FullWrite(k, Newest(seen[c]))
      BY <1>a, <1>b, <3>1 DEF FailedWrite
    <3>3. copy'[k] = copy'[g]
      BY <3>1, <3>2 DEF FullWrite, Puts
    <3> QED
      BY <3>1, <3>3 DEF Copies
  <2> QED
    BY <1>1, <1>a, <1>b, <2>1, <2>2, <2>3, <2>4, <2>5, CtxSteps DEF Copies, FailedWrite
<1>2. CASE SystemCrash
  BY <1>a, <1>b, <1>2, SystemCrashMoves
<1>3. ASSUME NEW k \in Copies, NEW id \in {"junk", "foreign"}, Damage(k, id) PROVE FALSE
  BY <1>3, DamageMoves DEF Copies
<1>4. CASE UNCHANGED vars
  BY <1>b, <1>4 DEF vars, CrashFree
<1> QED
  BY <1>1, <1>2, <1>3, <1>4 DEF Next

-----------------------------------------------------------------------------
(* The header on the disk                                                  *)

(* A header that has been written to a copy and is read from it again.     *)
LEMMA HeaderImage ==
  ASSUME NEW h \in Header, NEW b \in BOOLEAN
  PROVE  /\ ImageOf(h, b).seqid = h.seqid /\ ImageOf(h, b).ident = h.ident
         /\ ImageOf(h, b).body = h.body /\ ImageOf(h, b).ok = b
  BY DEF ImageOf

(* Disturbances do not go away.                                            *)
LEMMA UndisturbedBefore ==
  ASSUME TypeOK, [Next]_vars, Undisturbed'
  PROVE  Undisturbed /\ ioerrs = 0 /\ ioerrs' = 0 /\ damages' = damages /\ ~world.setuuid
  BY FaultsGrow DEF Undisturbed

(* What the two copies stand for is the same for all anchors.              *)
LEMMA AnchorUnique ==
  ASSUME TypeOK, NEW g \in Copies, NEW j \in Copies, Anchor(g), copy[j].ok,
         copy[g].seqid <= copy[j].seqid
  PROVE  copy[j] = copy[g] /\ Anchor(j)
<1>1. copy[j].seqid = copy[g].seqid
  <2>1. copy[j].seqid \in Nat /\ copy[g].seqid \in Nat
    BY DoneFinite DEF TypeOK, Image, SeqId
  <2> QED
    BY <2>1 DEF Anchor, AnchorOf
<1>2. copy[j] = copy[g]
  BY <1>1 DEF Anchor, AnchorOf
<1> QED
  BY <1>2 DEF Anchor, AnchorOf

LEMMA HealedStep ==
  ASSUME TypeInv, NoReload, Controlled, SeenTrue, CrashFree, Healed, Anchored, [Next]_vars
  PROVE  Healed'
<1> DEFINE Fine(l, s, C) ==
              l = "loaded" => C[1].ok /\ C[1] = C[2] /\ HeaderOf(C[1]) = Newest(s)
<1> SUFFICES ASSUME NEW d \in Ctx, Undisturbed' \/ crashes' + ioerrs' = 0
             PROVE  Fine(pc'[d], seen'[d], copy')
  BY DEF Healed
<1>t. TypeOK
  BY DEF TypeInv
<1>0. /\ Undisturbed \/ crashes + ioerrs = 0
      /\ ioerrs = 0 /\ ioerrs' = 0
  <2>1. CASE Undisturbed'
    BY <1>t, <2>1, UndisturbedBefore
  <2>2. CASE crashes' + ioerrs' = 0
    <3>1. crashes' = 0 /\ ioerrs' = 0
      BY <1>t, <2>2, FaultsGrow
    <3>2. crashes = 0 /\ ioerrs = 0
      BY <1>t, <3>1, FaultsGrow
    <3> QED
      BY <3>1, <3>2
  <2> QED
    BY <2>1, <2>2
<1>1. Fine(pc[d], seen[d], copy)
  BY <1>0 DEF Healed
<1>2. CASE pc'[d] = pc[d] /\ seen'[d] = seen[d] /\ copy' = copy
  BY <1>1, <1>2
<1>3. CASE pc'[d] # "loaded"
  BY <1>3
<1> HIDE DEF Fine
<1>4. ASSUME NEW c \in Ctx, CtxNext(c) PROVE Fine(pc'[d], seen'[d], copy')
  <2>0. Stays(c)
    BY <1>4, CtxSteps
  <2>1. CASE d # c
    <3>1. pc'[d] = pc[d] /\ seen'[d] = seen[d]
      BY <2>0, <2>1 DEF Stays
    <3>2. CASE pc[c] \in WriteSteps \cup {"recover", "recover2"}
      BY <1>3, <2>1, <3>1, <3>2, WriterAlone, OthersIdle
    <3>3. CASE copy' = copy
      BY <1>2, <3>1, <3>3
    <3> QED
      BY <1>4, <3>2, <3>3, CtxSteps, RecoverSteps DEF WriteSteps, Writing
  <2>2. CASE d = c
    <3>1. CASE LoadsConsistent(c)
      <4> DEFINE s == seen[c]
      <4>1. /\ pc[c] = "decide" /\ Consistent(s) /\ copy' = copy
            /\ seen'[c] = seen[c] /\ pc'[c] = "loaded"
        BY <1>t, <3>1, LoadsConsistentMoves DEF Moves, Quiet
      <4>2. s[1] = copy[1] /\ s[2] = copy[2]
        <5>1. SeenAt("decide", s, copy, ioerrs)
          BY <4>1 DEF SeenTrue
        <5> QED
          BY <1>0, <5>1 DEF SeenAt, Copies
      <4>3. /\ copy[1].ok /\ copy[2].ok
            /\ copy[1].seqid <= copy[2].seqid /\ copy[2].seqid <= copy[1].seqid
        <5>1. copy[1].seqid \in Nat /\ copy[2].seqid \in Nat
          BY <1>t, DoneFinite DEF TypeOK, Image, SeqId, Copies
        <5> QED
          BY <4>1, <4>2, <5>1 DEF Consistent, Current, Copies
      <4>4. copy[1] = copy[2]
        <5>1. CASE Undisturbed
          <6>1. Anchor(1) \/ Anchor(2)
            BY <5>1 DEF Anchored, AllFollow
          <6> QED
            <7>1. 1 \in Copies /\ 2 \in Copies
              BY DEF Copies
            <7>2. CASE Anchor(1)
              BY <1>t, <4>3, <7>1, <7>2, AnchorUnique
            <7>3. CASE Anchor(2)
              BY <1>t, <4>3, <7>1, <7>3, AnchorUnique
            <7> QED
              BY <6>1, <7>2, <7>3
        <5>2. CASE crashes + ioerrs = 0
          <6>1. \A e \in Ctx : pc[e] # "write2"
            BY <4>1 DEF Controlled, Coherent, WriteSteps, ReadSteps, Lock!Exclusion
          <6> QED
            BY <4>3, <5>2, <6>1 DEF CrashFree
        <5> QED
          BY <1>0, <5>1, <5>2
      <4>5. Newest(s) = HeaderOf(copy[1])
        <5>1. s \in [Copies -> Image] /\ Readable(s)
          BY <1>t, <4>2, <4>3 DEF TypeOK, Readable, Copies
        <5>2. Good(s) \in Copies
          BY <5>1, GoodCurrent
        <5>3. s[Good(s)] = copy[1]
          BY <4>2, <4>4, <5>2 DEF Copies
        <5> QED
          BY <5>3 DEF Newest
      <4> QED
        BY <2>2, <4>1, <4>3, <4>4, <4>5 DEF Fine
    <3>2. CASE Recover(c)
      <4>1. PICK k, g \in Copies :
               /\ k # g /\ copy[g].ok /\ seen[c][g] = copy[g] /\ Good(seen[c]) = g
               /\ ImageOf(Newest(seen[c]), TRUE) = copy[g]
               /\ \/ pc'[c] = "recover2"
                  \/ FullWrite(k, Newest(seen[c])) \/ FailedWrite(k, Newest(seen[c]))
        BY <3>2, RecoverSteps
      <4>2. CASE pc'[c] = "recover2"
        BY <1>3, <2>2, <4>2
      <4>3. CASE FullWrite(k, Newest(seen[c]))
        <5>1. copy'[k] = copy[g] /\ copy'[g] = copy[g]
          BY <4>1, <4>3 DEF FullWrite, Puts
        <5>2. Newest(seen[c]) = HeaderOf(copy[g])
          BY <4>1 DEF Newest
        <5>3. seen'[c] = seen[c]
          <6>1. ~Consistent(seen[c])
            BY <3>2 DEF Recover, SeenTrue, SeenAt
          <6> QED
            BY <3>2 DEF Recover
        <5>4. copy'[1] = copy[g] /\ copy'[2] = copy[g]
          BY <4>1, <5>1 DEF Copies
        <5> QED
          BY <2>2, <4>1, <5>2, <5>3, <5>4 DEF Fine
      <4>4. ~FailedWrite(k, Newest(seen[c]))
        BY <1>0 DEF FailedWrite
      <4> QED
        BY <4>1, <4>2, <4>3, <4>4
    <3>3. CASE pc'[c] # "loaded"
      BY <1>3, <2>2, <3>3
    <3>4. pc'[c] # "loaded" \/ LoadsConsistent(c) \/ Recover(c)
      <4>1. ASSUME NEW p \in BOOLEAN, StartRead(c, p) PROVE pc'[c] = "read1"
        BY <1>t, <4>1, StartReadMoves DEF Moves
      <4>2. ASSUME NEW u \in Update, NEW id \in {"uuid", "newuuid"}, StartWrite(c, u, id)
            PROVE  pc'[c] \in {"write1", "idle"}
        BY <1>t, <4>2, StartWriteMoves DEF Moves
      <4>3. ASSUME NEW k \in Copies, WriteCopy(c, k) \/ ReadCopy(c, k) PROVE pc'[c] # "loaded"
        BY <1>t, <4>3, WriteCopyMoves, ReadCopyMoves DEF Moves
      <4>4. CASE LoadFails(c) \/ LoadNeedsRecovery(c) \/ Relock(c) \/ ReadReturns(c)
                 \/ WriteReturns(c) \/ Die(c)
        BY <1>t, <4>4, LoadFailsMoves, LoadNeedsRecoveryMoves, RelockMoves,
           ReadReturnsMoves, WriteReturnsMoves, DieMoves DEF Moves
      <4> QED
        BY <1>4, <4>1, <4>2, <4>3, <4>4 DEF CtxNext, Proceed
    <3> QED
      BY <3>1, <3>2, <3>3, <3>4
  <2> QED
    BY <2>1, <2>2
<1>5. CASE SystemCrash
  BY <1>3, <1>5, SystemCrashMoves
<1>6. ASSUME NEW k \in Copies, NEW id \in {"junk", "foreign"}, Damage(k, id)
      PROVE  Fine(pc'[d], seen'[d], copy')
  <2>1. pc'[d] \in {"idle", "relock"}
    BY <1>6, DamageMoves DEF Controlled, Coherent
  <2> QED
    BY <1>3, <2>1
<1>7. CASE UNCHANGED vars
  BY <1>2, <1>7 DEF vars
<1> QED
  BY <1>4, <1>5, <1>6, <1>7 DEF Next

(* The disk C, D with what was committed A, and the disk C1, D1 after a    *)
(* write.  A header that was behind stays behind.                          *)
StayBehind(C, D, C1, D1, A) ==
    \A x \in Header : BehindOf(x, C, D, A) => BehindOf(x, C1, D1, A)

LEMMA SeqNat == /\ \A i \in Image : i.seqid \in Nat
                /\ \A h \in Header : h.seqid \in Nat
  BY DoneFinite DEF Image, Header, SeqId

(* The primary copy is torn: the secondary one is the header.              *)
LEMMA TornPrimary ==
  ASSUME NEW C \in [Copies -> Image], NEW D \in [Copies -> Image],
         NEW C1 \in [Copies -> Image], NEW A, NEW h \in Header,
         BuiltOnOf(h, C, D, A), ~C1[1].ok, C1[1].seqid = h.seqid, C1[2] = C[2]
  PROVE  BuiltOnOf(h, C1, D, A) /\ StayBehind(C, D, C1, D, A)
<1>0. ~C1[1].ok /\ C1[1].seqid = C[2].seqid + 1 /\ C[2].seqid \in Nat
  BY SeqNat DEF BuiltOnOf, Copies
<1>1. AnchorOf(C, D, A, 2) /\ h.seqid = C[2].seqid + 1 /\ C[2].body \subseteq h.body
  BY DEF BuiltOnOf
<1>2. AnchorOf(C1, D, A, 2)
  BY <1>0, <1>1 DEF AnchorOf, Copies
<1>3. ASSUME NEW x \in Header, BehindOf(x, C, D, A) PROVE BehindOf(x, C1, D, A)
  <2>1. x.seqid <= C[2].seqid /\ (x.seqid = C[2].seqid => C[2].body \subseteq x.body)
    BY <1>1, <1>3 DEF BehindOf, Copies
  <2>2. ~AnchorOf(C1, D, A, 1)
    BY <1>0 DEF AnchorOf
  <2>3. x.seqid # C1[1].seqid
    <3>1. x.seqid \in Nat
      BY SeqNat
    <3> QED
      BY <1>0, <2>1, <3>1
  <2> QED
    BY <2>1, <2>2, <2>3 DEF BehindOf, Copies
<1> QED
  BY <1>1, <1>2, <1>3 DEF BuiltOnOf, StayBehind

(* The primary copy is complete: it is the header now.                     *)
LEMMA FullPrimary ==
  ASSUME NEW C \in [Copies -> Image], NEW D \in [Copies -> Image],
         NEW C1 \in [Copies -> Image], NEW A, NEW h \in Header,
         BuiltOnOf(h, C, D, A), C1[1].ok, C1[1].seqid = h.seqid, C1[1].body = h.body,
         C1[2] = C[2]
  PROVE  /\ AnchorOf(C1, C1, A, 1) /\ StayBehind(C, D, C1, C1, A)
         /\ C1[1].seqid = C[2].seqid + 1 /\ C[2].body \subseteq C1[1].body
         /\ C1[2].seqid < C1[1].seqid
<1>0. C1[1].ok /\ C1[1].seqid = C[2].seqid + 1 /\ C[2].seqid \in Nat /\ C1[1].body = h.body
  BY SeqNat DEF BuiltOnOf, Copies
<1>1. AnchorOf(C, D, A, 2) /\ h.seqid = C[2].seqid + 1 /\ C[2].body \subseteq h.body
  BY DEF BuiltOnOf
<1>n. /\ C1[2].seqid < C1[1].seqid /\ C1[2].seqid # C1[1].seqid /\ C1[1].seqid <= C1[1].seqid
      /\ C1[2].seqid <= C1[1].seqid /\ ~(C1[1].seqid <= C1[2].seqid)
  BY <1>0
<1>2. AnchorOf(C1, C1, A, 1)
  <2>1. A \subseteq C1[1].body
    BY <1>0, <1>1 DEF AnchorOf
  <2> QED
    BY <1>0, <1>n, <2>1 DEF AnchorOf, Copies
<1>3. ASSUME NEW x \in Header, BehindOf(x, C, D, A) PROVE BehindOf(x, C1, C1, A)
  <2>1. x.seqid <= C[2].seqid
    BY <1>1, <1>3 DEF BehindOf, Copies
  <2>2. ~AnchorOf(C1, C1, A, 2)
    BY <1>0, <1>n DEF AnchorOf, Copies
  <2>3. x.seqid < C1[1].seqid /\ x.seqid # C1[1].seqid /\ x.seqid <= C1[1].seqid
    <3>1. x.seqid \in Nat
      BY SeqNat
    <3> QED
      BY <1>0, <2>1, <3>1
  <2> QED
    BY <2>2, <2>3 DEF BehindOf, Copies
<1> QED
  BY <1>0, <1>1, <1>n, <1>2, <1>3 DEF StayBehind

(* The secondary copy is torn while the primary one is the header and      *)
(* newer than it.                                                          *)
LEMMA TornSecondary ==
  ASSUME NEW C \in [Copies -> Image], NEW D \in [Copies -> Image],
         NEW C1 \in [Copies -> Image], NEW A,
         AnchorOf(C, D, A, 1), C[2].seqid < C[1].seqid, ~C1[2].ok, C1[1] = C[1]
  PROVE  AnchorOf(C1, D, A, 1) /\ StayBehind(C, D, C1, D, A)
<1>0. ~C1[2].ok /\ C[1].seqid \in Nat /\ C[2].seqid \in Nat
  BY SeqNat DEF Copies
<1>2. AnchorOf(C1, D, A, 1)
  BY <1>0 DEF AnchorOf, Copies
<1>3. ASSUME NEW x \in Header, BehindOf(x, C, D, A) PROVE BehindOf(x, C1, D, A)
  <2>1. x.seqid <= C[1].seqid /\ (x.seqid = C[1].seqid => C[1].body \subseteq x.body)
    BY <1>3 DEF BehindOf, Copies
  <2>2. ~AnchorOf(C1, D, A, 2)
    BY <1>0 DEF AnchorOf
  <2>3. x.seqid # C1[1].seqid
    BY <1>0, <1>3 DEF BehindOf
  <2> QED
    BY <2>1, <2>2, <2>3 DEF BehindOf, Copies
<1> QED
  BY <1>2, <1>3 DEF StayBehind

(* Copy k becomes equal to copy g, the header, and the disk is synced.     *)
LEMMA FullOther ==
  ASSUME NEW C \in [Copies -> Image], NEW D \in [Copies -> Image],
         NEW C1 \in [Copies -> Image], NEW A, NEW k \in Copies, NEW g \in Copies,
         k # g, AnchorOf(C, D, A, g), C1[k] = C[g], C1[g] = C[g]
  PROVE  AnchorOf(C1, C1, A, g) /\ StayBehind(C, D, C1, C1, A)
<1>0. \A j \in Copies : C1[j] = C[g]
  BY DEF Copies
<1>1. C[g].seqid <= C[g].seqid
  BY SeqNat
<1>2. AnchorOf(C1, C1, A, g)
  BY <1>0, <1>1 DEF AnchorOf
<1>3. ASSUME NEW x \in Header, BehindOf(x, C, D, A) PROVE BehindOf(x, C1, C1, A)
  <2>1. x.seqid <= C[g].seqid /\ (x.seqid = C[g].seqid => C[g].body \subseteq x.body)
    BY <1>3 DEF BehindOf
  <2>2. C1[2].ok /\ C1[2].seqid = C1[1].seqid
    BY <1>0 DEF AnchorOf, Copies
  <2> QED
    BY <1>0, <2>1, <2>2 DEF BehindOf
<1> QED
  BY <1>2, <1>3 DEF StayBehind

(* A load tears the copy k that is not current, from the one that is.      *)
LEMMA TornOther ==
  ASSUME NEW C \in [Copies -> Image], NEW D \in [Copies -> Image],
         NEW C1 \in [Copies -> Image], NEW A, NEW k \in Copies, NEW g \in Copies,
         k # g, AnchorOf(C, D, A, g), ~Current(C, k),
         ~C1[k].ok, C1[k].seqid = C[g].seqid, C1[g] = C[g]
  PROVE  AnchorOf(C1, D, A, g) /\ StayBehind(C, D, C1, D, A)
<1>0. (k = 1 /\ g = 2) \/ (k = 2 /\ g = 1)
  BY DEF Copies
<1>1. C[g].ok /\ C[g].seqid \in Nat /\ C[k].seqid \in Nat
  BY SeqNat DEF AnchorOf
<1>2. AnchorOf(C1, D, A, g)
  <2>1. \A j \in Copies : j = k \/ j = g
    BY <1>0 DEF Copies
  <2> QED
    BY <2>1 DEF AnchorOf
<1>3. C[k].ok => C[k].seqid < C[g].seqid
  <2>0. C[k].ok => C[k].seqid <= C[g].seqid
    BY DEF AnchorOf
  <2>1. SUFFICES ASSUME C[k].ok, C[k].seqid = C[g].seqid PROVE FALSE
    BY <1>1, <2>0
  <2>2. \A j \in Copies : C[j].ok => C[j].seqid <= C[k].seqid
    BY <2>1 DEF AnchorOf
  <2> QED
    BY <2>1, <2>2 DEF Current
<1>4. ASSUME NEW x \in Header, BehindOf(x, C, D, A) PROVE BehindOf(x, C1, D, A)
  <2>1. x.seqid <= C[g].seqid /\ (x.seqid = C[g].seqid => C[g].body \subseteq x.body)
    BY <1>4 DEF BehindOf
  <2>2. ~AnchorOf(C1, D, A, k)
    BY DEF AnchorOf
  <2>3. x.seqid = C1[1].seqid => C1[2].ok /\ C1[2].seqid = C1[1].seqid
    <3>1. CASE k = 1 /\ g = 2
      BY <1>1, <3>1
    <3>2. CASE k = 2 /\ g = 1
      BY <1>1, <1>3, <1>4, <3>2 DEF BehindOf
    <3> QED
      BY <1>0, <3>1, <3>2
  <2>4. \A j \in Copies : j = k \/ j = g
    BY <1>0 DEF Copies
  <2> QED
    BY <2>1, <2>2, <2>3, <2>4 DEF BehindOf
<1> QED
  BY <1>2, <1>4 DEF StayBehind

(* A step leaves the header on the disk as it is, or replaces it by one    *)
(* with the next sequence id that is built on it.                          *)
StoreKeeps == \E g \in Copies : Anchor(g) /\ Anchor(g)' /\ copy'[g] = copy[g]

StoreCommits ==
    /\ Anchor(2) /\ Anchor(1)' /\ acked' = acked
    /\ copy'[1].seqid = copy[2].seqid + 1 /\ copy[2].body \subseteq copy'[1].body

LEMMA FollowQuiet ==
  ASSUME AllFollow, NEW c \in Ctx, NEW l, NEW t, NEW h, NEW r, NEW s,
         Moves(c, l, t, h, r, s), UNCHANGED <<copy, dur, acked>>,
         FollowsOf(l, h, s, copy, dur, acked)
  PROVE  AllFollow' /\ StoreKeeps
<1>1. \A g : Anchor(g)' <=> Anchor(g)
  BY DEF Anchor
<1>2. OneUuid'
  BY DEF AllFollow, OneUuid
<1>3. ASSUME NEW d \in Ctx PROVE Follows(d)'
  <2>1. CASE d = c
    BY <2>1 DEF Follows, Moves
  <2>2. CASE d # c
    <3>1. Follows(d)
      BY DEF AllFollow
    <3> QED
      BY <2>2, <3>1 DEF Follows, Moves
  <2> QED
    BY <2>1, <2>2
<1>4. StoreKeeps
  BY <1>1 DEF AllFollow, StoreKeeps, Copies
<1> QED
  BY <1>1, <1>2, <1>3, <1>4 DEF AllFollow

LEMMA FollowDisk ==
  ASSUME TypeOK, Controlled, AllFollow, NEW c \in Ctx, NEW l, NEW t, NEW h, NEW r, NEW s,
         Alone(c), Moves(c, l, t, h, r, s), acked' = acked,
         Anchor(1)' \/ Anchor(2)', OneUuid',
         StayBehind(copy, dur, copy', dur', acked),
         FollowsOf(l, h, s, copy', dur', acked)
  PROVE  AllFollow'
<1>1. ASSUME NEW d \in Ctx PROVE Follows(d)'
  <2>1. CASE d = c
    BY <2>1 DEF Follows, Moves
  <2>2. CASE d # c
    <3>1. pc'[d] = pc[d] /\ hdr'[d] = hdr[d] /\ seen'[d] = seen[d] /\ hdr[d] \in Header
      BY <2>2 DEF Moves, TypeOK
    <3>2. pc[d] \in {"idle", "relock"}
      BY <2>2, OthersIdle
    <3>3. hdr[d] # NoHeader => hdr[d].ident = "uuid" /\ BehindOf(hdr[d], copy, dur, acked)
      BY <3>2 DEF AllFollow, Follows, FollowsOf, WriteSteps
    <3>4. hdr[d] # NoHeader => BehindOf(hdr[d], copy', dur', acked)
      BY <3>1, <3>3 DEF StayBehind
    <3> QED
      BY <3>1, <3>2, <3>3, <3>4 DEF Follows, FollowsOf
  <2> QED
    BY <2>1, <2>2
<1> QED
  BY <1>1 DEF AllFollow

(* The uuid on the disk stays the one the device was formatted with.       *)
LEMMA OneUuidWrite ==
  ASSUME OneUuid, NEW k \in Copies, NEW h \in Header, h.ident = "uuid",
         TornWrite(k, h) \/ FullWrite(k, h)
  PROVE  OneUuid'
<1>1. PICK b \in BOOLEAN, e \in BOOLEAN : Puts(k, ImageOf(h, b), e)
  BY DEF TornWrite, FullWrite
<1>2. ImageOf(h, b).ident = "uuid"
  BY HeaderImage
<1>3. copy'[k].ident = "uuid"
  BY <1>1, <1>2 DEF Puts
<1>4. \A j \in Copies : copy'[j].ident = "uuid"
  BY <1>1, <1>3 DEF Puts, OneUuid
<1>5. dur' = dur \/ dur' = copy'
  BY <1>1 DEF Puts
<1> QED
  BY <1>4, <1>5 DEF OneUuid

(* An update that starts and passes the check of the sequence id builds on *)
(* the header on the disk; one that fails it goes on from its old header.  *)
LEMMA FollowStartWrite ==
  ASSUME TypeOK, Undisturbed, AllFollow, NEW c \in Ctx,
         NEW u \in Update, NEW id \in {"uuid", "newuuid"}, StartWrite(c, u, id)
  PROVE  AllFollow' /\ StoreKeeps
<1> DEFINE h == Changed(hdr[c], u, id)
           n == Count(h)
<1>1. /\ \/ /\ Moves(c, "write1", "WRITE", n, TRUE, seen[c]) /\ SeqIdMatches(h)
         \/ Moves(c, "idle", held[c], h, rwfd[c], seen[c])
      /\ pc[c] = "idle" /\ hdr[c] # NoHeader
      /\ id = hdr[c].ident \/ world.setuuid
      /\ UNCHANGED <<copy, dur, acked>>
  BY StartWriteMoves
<1>2. hdr[c].ident = "uuid" /\ BehindOf(hdr[c], copy, dur, acked)
  BY <1>1 DEF AllFollow, Follows, FollowsOf, WriteSteps
<1>3. id = "uuid"
  BY <1>1, <1>2 DEF Undisturbed
<1>4. /\ h.seqid = hdr[c].seqid /\ h.ident = "uuid" /\ h.body = hdr[c].body \cup {u}
      /\ n.seqid = hdr[c].seqid + 1 /\ n.ident = "uuid" /\ n.body = hdr[c].body \cup {u}
  BY <1>3 DEF Changed, Count
<1> HIDE DEF h, n
<1>5. CASE Moves(c, "idle", held[c], h, rwfd[c], seen[c])
  <2>1. BehindOf(h, copy, dur, acked)
    BY <1>2, <1>4 DEF BehindOf
  <2>2. FollowsOf("idle", h, seen[c], copy, dur, acked)
    BY <1>4, <2>1 DEF FollowsOf
  <2> QED
    BY <1>1, <1>5, <2>2, FollowQuiet
<1>6. CASE Moves(c, "write1", "WRITE", n, TRUE, seen[c]) /\ SeqIdMatches(h)
  <2>1. copy[1].seqid = hdr[c].seqid
    BY <1>4, <1>6 DEF SeqIdMatches, AllFollow, OneUuid, Copies
  <2>2. copy[2].ok /\ copy[2].seqid = copy[1].seqid
    BY <1>2, <2>1 DEF BehindOf
  <2>3. Anchor(2)
    <3>1. 1 \in Copies /\ 2 \in Copies
      BY DEF Copies
    <3>2. copy[1].seqid <= copy[2].seqid
      BY <2>2, <3>1, SeqNat DEF TypeOK
    <3> QED
      BY <2>2, <3>1, <3>2, AnchorUnique DEF AllFollow
  <2>4. copy[2].body \subseteq hdr[c].body
    BY <1>2, <2>1, <2>2, <2>3 DEF BehindOf, Anchor, Copies
  <2>5. BuiltOnOf(n, copy, dur, acked)
    BY <1>4, <2>1, <2>2, <2>3, <2>4 DEF BuiltOnOf, Anchor
  <2>6. FollowsOf("write1", n, seen[c], copy, dur, acked)
    BY <1>4, <2>5 DEF FollowsOf, WriteSteps
  <2> QED
    BY <1>1, <1>6, <2>6, FollowQuiet
<1> QED
  BY <1>1, <1>5, <1>6

(* What a torn and a complete write leave on the disk, field by field.     *)
LEMMA TornFields ==
  ASSUME NEW k \in Copies, NEW h \in Header, TornWrite(k, h)
  PROVE  /\ copy' \in [Copies -> Image] /\ dur' = dur
         /\ ~copy'[k].ok /\ copy'[k].seqid = h.seqid
         /\ \A j \in Copies : j # k => copy'[j] = copy[j]
  BY HeaderImage DEF TornWrite, Puts

LEMMA FullFields ==
  ASSUME NEW k \in Copies, NEW h \in Header, FullWrite(k, h)
  PROVE  /\ copy' \in [Copies -> Image] /\ dur' = copy'
         /\ copy'[k].ok /\ copy'[k].seqid = h.seqid /\ copy'[k].body = h.body
         /\ \A j \in Copies : j # k => copy'[j] = copy[j]
  BY HeaderImage DEF FullWrite, Puts

(* The writes of an update.                                                *)
LEMMA FollowWriteCopy ==
  ASSUME TypeInv, Controlled, Written, AllFollow, ioerrs = 0, ioerrs' = 0,
         NEW c \in Ctx, NEW k \in Copies, WriteCopy(c, k)
  PROVE  AllFollow' /\ acked' = acked /\ (StoreKeeps \/ StoreCommits)
<1> DEFINE h == hdr[c]
<1>0. /\ TypeOK /\ h \in Header /\ acked' = acked /\ 1 \in Copies /\ 2 \in Copies
      /\ copy \in [Copies -> Image] /\ dur \in [Copies -> Image]
  BY WriteCopyMoves DEF TypeInv, TypeOK, Copies
<1>1. /\ \/ /\ pc[c] = (IF k = 1 THEN "write1" ELSE "write2") /\ TornWrite(k, h)
            /\ Moves(c, IF k = 1 THEN "write1rest" ELSE "write2rest", held[c], h, rwfd[c], seen[c])
         \/ /\ pc[c] = (IF k = 1 THEN "write1rest" ELSE "write2rest") /\ FullWrite(k, h)
            /\ Moves(c, IF k = 1 THEN "write2" ELSE "written", held[c], h, rwfd[c], seen[c])
      /\ pc[c] \in WriteSteps
  <2>1. ~FailedWrite(k, h)
    BY DEF FailedWrite
  <2> QED
    BY <1>0, <2>1, WriteCopyMoves DEF WriteSteps
<1>2. Alone(c) /\ h # NoHeader
  BY <1>1, WriterAlone DEF Controlled, Coherent
<1>3. h.ident = "uuid" /\ FollowsOf(pc[c], h, seen[c], copy, dur, acked) /\ OneUuid
  BY <1>2 DEF AllFollow, Follows, FollowsOf
<1>4. OneUuid'
  BY <1>0, <1>1, <1>3, OneUuidWrite
<1> HIDE DEF h
<1>6. CASE k = 1 /\ pc[c] = "write1" /\ TornWrite(1, h)
           /\ Moves(c, "write1rest", held[c], h, rwfd[c], seen[c])
  <2>1. /\ copy' \in [Copies -> Image] /\ dur' = dur /\ copy'[2] = copy[2]
        /\ ~copy'[1].ok /\ copy'[1].seqid = h.seqid
    BY <1>0, <1>6, TornFields
  <2>2. BuiltOnOf(h, copy, dur, acked)
    BY <1>3, <1>6 DEF FollowsOf
  <2>3. BuiltOnOf(h, copy', dur', acked) /\ StayBehind(copy, dur, copy', dur', acked)
    BY <1>0, <2>1, <2>2, TornPrimary
  <2>4. Anchor(2) /\ Anchor(2)'
    BY <1>0, <2>2, <2>3 DEF BuiltOnOf, Anchor
  <2>5. FollowsOf("write1rest", h, seen[c], copy', dur', acked)
    BY <1>3, <2>3 DEF FollowsOf, WriteSteps
  <2>6. AllFollow'
    BY <1>0, <1>2, <1>4, <1>6, <2>3, <2>4, <2>5, FollowDisk
  <2> QED
    BY <1>0, <2>1, <2>4, <2>6 DEF StoreKeeps
<1>7. CASE k = 1 /\ pc[c] = "write1rest" /\ FullWrite(1, h)
           /\ Moves(c, "write2", held[c], h, rwfd[c], seen[c])
  <2>1. /\ copy' \in [Copies -> Image] /\ dur' = copy' /\ copy'[2] = copy[2]
        /\ copy'[1].ok /\ copy'[1].seqid = h.seqid /\ copy'[1].body = h.body
    BY <1>0, <1>7, FullFields
  <2>2. BuiltOnOf(h, copy, dur, acked)
    BY <1>3, <1>7 DEF FollowsOf
  <2>3. /\ AnchorOf(copy', dur', acked, 1) /\ StayBehind(copy, dur, copy', dur', acked)
        /\ copy'[1].seqid = copy[2].seqid + 1 /\ copy[2].body \subseteq copy'[1].body
        /\ copy'[2].seqid < copy'[1].seqid
    BY <1>0, <2>1, <2>2, FullPrimary
  <2>4. Anchor(2) /\ Anchor(1)'
    BY <1>0, <2>2, <2>3 DEF BuiltOnOf, Anchor
  <2>5. FollowsOf("write2", h, seen[c], copy', dur', acked)
    BY <1>3, <2>3 DEF FollowsOf, WriteSteps
  <2>6. AllFollow'
    BY <1>0, <1>2, <1>4, <1>7, <2>3, <2>4, <2>5, FollowDisk
  <2> QED
    BY <1>0, <2>3, <2>4, <2>6 DEF StoreCommits
<1>8. CASE k = 2 /\ pc[c] = "write2" /\ TornWrite(2, h)
           /\ Moves(c, "write2rest", held[c], h, rwfd[c], seen[c])
  <2>1. /\ copy' \in [Copies -> Image] /\ dur' = dur /\ copy'[1] = copy[1] /\ ~copy'[2].ok
    BY <1>0, <1>8, TornFields
  <2>2. AnchorOf(copy, dur, acked, 1) /\ copy[2].seqid < copy[1].seqid
    BY <1>3, <1>8 DEF FollowsOf
  <2>3. AnchorOf(copy', dur', acked, 1) /\ StayBehind(copy, dur, copy', dur', acked)
    BY <1>0, <2>1, <2>2, TornSecondary
  <2>4. Anchor(1) /\ Anchor(1)'
    BY <1>0, <2>2, <2>3 DEF Anchor
  <2>5. FollowsOf("write2rest", h, seen[c], copy', dur', acked)
    BY <1>3, <2>3 DEF FollowsOf, WriteSteps
  <2>6. AllFollow'
    BY <1>0, <1>2, <1>4, <1>8, <2>3, <2>4, <2>5, FollowDisk
  <2> QED
    BY <1>0, <2>1, <2>4, <2>6 DEF StoreKeeps
<1>9. CASE k = 2 /\ pc[c] = "write2rest" /\ FullWrite(2, h)
           /\ Moves(c, "written", held[c], h, rwfd[c], seen[c])
  <2>1. /\ copy' \in [Copies -> Image] /\ dur' = copy' /\ copy'[1] = copy[1]
        /\ copy'[2] = copy[1]
    BY <1>0, <1>9, PrimaryWritten DEF FullWrite, Puts, h
  <2>2. AnchorOf(copy, dur, acked, 1)
    BY <1>3, <1>9 DEF FollowsOf
  <2>3. AnchorOf(copy', dur', acked, 1) /\ StayBehind(copy, dur, copy', dur', acked)
    <3>1. 2 # 1
      OBVIOUS
    <3> QED
      BY <1>0, <2>1, <2>2, <3>1, FullOther
  <2>4. Anchor(1) /\ Anchor(1)'
    BY <1>0, <2>2, <2>3 DEF Anchor
  <2>5. FollowsOf("written", h, seen[c], copy', dur', acked)
    BY <1>3, <2>3 DEF FollowsOf, WriteSteps
  <2>6. AllFollow'
    BY <1>0, <1>2, <1>4, <1>9, <2>3, <2>4, <2>5, FollowDisk
  <2> QED
    BY <1>0, <2>1, <2>4, <2>6 DEF StoreKeeps
<1> QED
  <2>1. k = 1 \/ k = 2
    BY DEF Copies
  <2> QED
    BY <1>1, <1>6, <1>7, <1>8, <1>9, <2>1

(* The writes of a load that recovers a copy.                              *)
LEMMA FollowRecover ==
  ASSUME TypeInv, Controlled, SeenTrue, AllFollow, ioerrs = 0, ioerrs' = 0,
         NEW c \in Ctx, Recover(c)
  PROVE  AllFollow' /\ StoreKeeps /\ acked' = acked
<1> DEFINE s == seen[c]
           h == Newest(s)
<1>0. /\ TypeOK /\ pc[c] \in {"recover", "recover2"} /\ ~Consistent(s)
      /\ SeenAt(pc[c], s, copy, ioerrs) /\ acked' = acked
      /\ copy \in [Copies -> Image] /\ dur \in [Copies -> Image]
  BY DEF Recover, SeenTrue, SeenAt, TypeInv, TypeOK
<1>1. PICK k, g \in Copies :
         /\ k # g /\ copy[g].ok /\ s[g] = copy[g] /\ Good(s) = g /\ ~Current(s, k)
         /\ ImageOf(h, TRUE) = copy[g]
         /\ \/ pc[c] = "recover" /\ pc'[c] = "recover2" /\ TornWrite(k, h)
            \/ pc[c] = "recover2" /\ pc'[c] = "loaded" /\ ~copy[k].ok /\ FullWrite(k, h)
  <2>1. \A j : ~FailedWrite(j, h)
    BY DEF FailedWrite
  <2> QED
    BY <2>1, RecoverSteps
<1>2. \E l \in {"recover2", "loaded"} : Moves(c, l, held[c], hdr[c], rwfd[c], s)
  BY <1>0, RecoverMoves
<1>3. Alone(c) /\ hdr[c] = NoHeader /\ h \in Header
  <2>1. Readable(s) /\ s \in [Copies -> Image]
    BY <1>0 DEF TypeInv, TypeOK, SeenReadable
  <2> QED
    BY <1>0, <2>1, WriterAlone, NewestType DEF Controlled, Coherent, ReadSteps
<1>4. /\ h.seqid = copy[g].seqid /\ h.ident = "uuid"
      /\ ImageOf(h, FALSE).seqid = copy[g].seqid /\ ~ImageOf(h, FALSE).ok
  <2>1. ImageOf(h, TRUE).seqid = h.seqid /\ ImageOf(h, TRUE).ident = h.ident
        /\ ImageOf(h, FALSE).seqid = h.seqid /\ ~ImageOf(h, FALSE).ok
    BY <1>3, HeaderImage
  <2>2. copy[g].ident = "uuid"
    BY DEF AllFollow, OneUuid
  <2> QED
    BY <1>1, <2>1, <2>2
<1>5. OneUuid'
  BY <1>1, <1>3, <1>4, OneUuidWrite DEF AllFollow
<1>6. Anchor(g)
  <2>1. Anchor(g) \/ Anchor(k)
    BY <1>1 DEF AllFollow, Copies
  <2>2. ASSUME Anchor(k) PROVE Anchor(g)
    <3>1. copy[k].ok /\ \A j \in Copies : copy[j].ok => copy[j].seqid <= copy[k].seqid
      BY <2>2 DEF Anchor, AnchorOf
    <3>2. pc[c] = "recover"
      BY <1>0, <1>1, <3>1
    <3>3. \A j \in Copies : s[j] = copy[j]
      BY <1>0, <3>2 DEF SeenAt
    <3> QED
      BY <1>1, <3>1, <3>3 DEF Current
  <2> QED
    BY <2>1, <2>2
<1>7. \A l \in {"recover2", "loaded"} : FollowsOf(l, hdr[c], s, copy', dur', acked)
  BY <1>3 DEF FollowsOf
<1> HIDE DEF h
<1>8. CASE pc[c] = "recover" /\ TornWrite(k, h)
  <2>1. /\ copy' \in [Copies -> Image] /\ dur' = dur /\ copy'[g] = copy[g]
        /\ ~copy'[k].ok /\ copy'[k].seqid = copy[g].seqid
    BY <1>1, <1>4, <1>8 DEF TornWrite, Puts
  <2>2. ~Current(copy, k)
    <3>1. \A j \in Copies : s[j] = copy[j]
      BY <1>0, <1>8 DEF SeenAt
    <3> QED
      BY <1>1, <3>1 DEF Current
  <2>3. AnchorOf(copy', dur', acked, g) /\ StayBehind(copy, dur, copy', dur', acked)
    BY <1>0, <1>1, <1>6, <2>1, <2>2, TornOther DEF Anchor
  <2>4. Anchor(g)'
    BY <1>0, <2>3 DEF Anchor
  <2>5. AllFollow'
    <3>1. Anchor(1)' \/ Anchor(2)'
      BY <2>4 DEF Copies
    <3> QED
      BY <1>0, <1>2, <1>3, <1>5, <1>7, <2>3, <3>1, FollowDisk
  <2> QED
    BY <1>0, <1>6, <2>1, <2>4, <2>5 DEF StoreKeeps
<1>9. CASE pc[c] = "recover2" /\ FullWrite(k, h)
  <2>1. /\ copy' \in [Copies -> Image] /\ dur' = copy' /\ copy'[g] = copy[g]
        /\ copy'[k] = copy[g]
    BY <1>1, <1>9 DEF FullWrite, Puts
  <2>3. AnchorOf(copy', dur', acked, g) /\ StayBehind(copy, dur, copy', dur', acked)
    BY <1>0, <1>1, <1>6, <2>1, FullOther DEF Anchor
  <2>4. Anchor(g)'
    BY <1>0, <2>3 DEF Anchor
  <2>5. AllFollow'
    <3>1. Anchor(1)' \/ Anchor(2)'
      BY <2>4 DEF Copies
    <3> QED
      BY <1>0, <1>2, <1>3, <1>5, <1>7, <2>3, <3>1, FollowDisk
  <2> QED
    BY <1>0, <1>6, <2>1, <2>4, <2>5 DEF StoreKeeps
<1> QED
  BY <1>1, <1>8, <1>9

(* A system crash leaves the header, which is valid and so synced.         *)
LEMMA FollowSystemCrash ==
  ASSUME TypeInv, ValidSynced, AllFollow, ioerrs = 0, SystemCrash
  PROVE  AllFollow' /\ StoreKeeps /\ acked' = acked
<1>1. /\ \A c \in Ctx : pc'[c] = "idle" /\ hdr'[c] = NoHeader
      /\ acked' = acked /\ dur' = copy'
      /\ \A k \in Copies :
            \/ copy'[k] = dur[k] \/ copy'[k] = copy[k]
            \/ copy[k] # dur[k] /\ ~copy'[k].ok /\ copy'[k].ident = dur[k].ident
  BY SystemCrashMoves
<1>2. PICK g \in Copies : Anchor(g)
  BY DEF AllFollow, Copies
<1>3. copy'[g] = copy[g]
  <2>1. copy[g].ok /\ dur[g] = copy[g]
    BY <1>2 DEF Anchor, AnchorOf, ValidSynced
  <2> QED
    BY <1>1, <2>1
<1>4. Anchor(g)'
  BY <1>1, <1>2, <1>3 DEF Anchor, AnchorOf
<1>5. OneUuid'
  BY <1>1 DEF AllFollow, OneUuid
<1>6. \A c \in Ctx : Follows(c)'
  BY <1>1 DEF Follows, FollowsOf
<1>7. Anchor(1)' \/ Anchor(2)'
  BY <1>4 DEF Copies
<1> QED
  BY <1>1, <1>2, <1>3, <1>4, <1>5, <1>6, <1>7 DEF AllFollow, StoreKeeps

(* An update returns: the primary copy, which is the header, has what it   *)
(* reports as written.                                                     *)
LEMMA FollowWriteReturns ==
  ASSUME TypeInv, Controlled, Written, AllFollow, NEW c \in Ctx, WriteReturns(c)
  PROVE  /\ AllFollow' /\ StoreKeeps
         /\ Anchor(1) /\ acked' = acked \cup copy[1].body
<1>0. TypeOK /\ 1 \in Copies /\ 2 \in Copies
  BY DEF TypeInv, Copies
<1>1. /\ Moves(c, "idle", "none", hdr[c], rwfd[c], seen[c])
      /\ pc[c] = "written" /\ acked' = acked \cup hdr[c].body /\ UNCHANGED <<copy, dur>>
  BY <1>0, WriteReturnsMoves
<1>2. copy[1] = ImageOf(hdr[c], TRUE) /\ copy[2] = copy[1]
  BY <1>1 DEF Written, WrittenAt
<1>3. hdr[c].body = copy[1].body /\ hdr[c].seqid = copy[1].seqid /\ copy[1].ok
  <2>1. hdr[c] \in Header
    BY <1>0 DEF TypeOK
  <2> QED
    BY <1>2, <2>1, HeaderImage
<1>4. Anchor(1) /\ hdr[c].ident = "uuid"
  <2>1. hdr[c] # NoHeader
    BY <1>1 DEF Controlled, Coherent, WriteSteps
  <2> QED
    BY <1>1, <2>1 DEF AllFollow, Follows, FollowsOf, Anchor
<1>5. Anchor(1)'
  BY <1>1, <1>3, <1>4 DEF Anchor, AnchorOf
<1>6. \A g \in Copies : AnchorOf(copy, dur, acked', g) => AnchorOf(copy, dur, acked, g)
  BY <1>1 DEF AnchorOf
<1>7. ASSUME NEW d \in Ctx PROVE Follows(d)'
  <2>1. CASE d = c
    <3>1. BehindOf(hdr[c], copy, dur, acked')
      <4>1. copy[1].seqid \in Nat
        BY <1>0, SeqNat DEF TypeOK
      <4>2. \A g \in Copies : copy[g] = copy[1]
        BY <1>2 DEF Copies
      <4>3. copy[1].seqid <= copy[1].seqid
        BY <4>1
      <4> QED
        BY <1>0, <1>2, <1>3, <4>2, <4>3 DEF BehindOf
    <3>2. FollowsOf("idle", hdr[c], seen[c], copy, dur, acked')
      BY <1>4, <3>1 DEF FollowsOf
    <3> QED
      BY <1>1, <2>1, <3>2 DEF Follows, Moves
  <2>2. CASE d # c
    <3>1. pc[d] \in {"idle", "relock"}
      BY <1>1, <2>2, WriterAlone, OthersIdle DEF WriteSteps
    <3>2. hdr[d] # NoHeader => hdr[d].ident = "uuid" /\ BehindOf(hdr[d], copy, dur, acked)
      BY <3>1 DEF AllFollow, Follows, FollowsOf, WriteSteps
    <3>3. hdr[d] # NoHeader => BehindOf(hdr[d], copy, dur, acked')
      BY <1>6, <3>2 DEF BehindOf
    <3>4. FollowsOf(pc[d], hdr[d], seen[d], copy, dur, acked')
      BY <3>1, <3>2, <3>3 DEF FollowsOf
    <3> QED
      BY <1>1, <2>2, <3>4 DEF Follows, Moves
  <2> QED
    BY <2>1, <2>2
<1>8. OneUuid'
  BY <1>1 DEF AllFollow, OneUuid
<1> QED
  BY <1>0, <1>1, <1>3, <1>4, <1>5, <1>7, <1>8 DEF AllFollow, StoreKeeps

(* What a step does to the header on the disk.                             *)
StoreStep ==
    \/ StoreKeeps /\ acked' = acked
    \/ StoreKeeps /\ Anchor(1) /\ acked' = acked \cup copy[1].body
    \/ StoreCommits

LEMMA FollowStep ==
  ASSUME TypeInv, NoReload, Controlled, Numbered, SeenTrue, ValidSynced, Written,
         Healed, Anchored, [Next]_vars, Undisturbed'
  PROVE  AllFollow' /\ StoreStep
<1>0. TypeOK /\ Undisturbed /\ AllFollow /\ ioerrs = 0 /\ ioerrs' = 0 /\ damages' = damages
  BY UndisturbedBefore DEF TypeInv, Anchored
<1> USE DEF StoreStep
<1>1. ASSUME NEW c \in Ctx, CtxNext(c) PROVE AllFollow' /\ StoreStep
  <2>0. FollowsOf(pc[c], hdr[c], seen[c], copy, dur, acked)
    BY <1>0 DEF AllFollow, Follows
  <2>1. ASSUME NEW l, NEW t, NEW r, NEW s, Moves(c, l, t, hdr[c], r, s),
               UNCHANGED <<copy, dur, acked>>,
               pc[c] \notin WriteSteps, l \notin WriteSteps \cup {"failed"}
        PROVE  AllFollow' /\ StoreStep
    <3>1. FollowsOf(l, hdr[c], s, copy, dur, acked)
      BY <2>0, <2>1 DEF FollowsOf, WriteSteps
    <3> QED
      BY <1>0, <2>1, <3>1, FollowQuiet
  <2>2. ASSUME NEW p \in BOOLEAN, StartRead(c, p) PROVE AllFollow' /\ StoreStep
    <3>1. /\ Moves(c, "read1", "READ", hdr[c], rwfd[c], seen[c]) /\ pc[c] = "idle"
          /\ UNCHANGED <<copy, dur, acked>>
      BY <1>0, <2>2, StartReadMoves DEF Quiet
    <3>2. pc[c] \notin WriteSteps /\ "read1" \notin WriteSteps \cup {"failed"}
      BY <3>1 DEF WriteSteps
    <3> QED
      BY <2>1, <3>1, <3>2
  <2>3. ASSUME NEW u \in Update, NEW id \in {"uuid", "newuuid"}, StartWrite(c, u, id)
        PROVE  AllFollow' /\ StoreStep
    <3>1. acked' = acked
      BY <2>3 DEF StartWrite
    <3> QED
      BY <1>0, <2>3, <3>1, FollowStartWrite
  <2>4. ASSUME NEW k \in Copies, ReadCopy(c, k) PROVE AllFollow' /\ StoreStep
    <3>1. /\ \E l \in {"read2", "decide"} : Moves(c, l, held[c], hdr[c], rwfd[c], seen'[c])
          /\ UNCHANGED <<copy, dur, acked>> /\ pc[c] \in {"read1", "read2"}
      BY <1>0, <2>4, ReadCopyMoves
    <3>2. pc[c] \notin WriteSteps
      BY <3>1 DEF WriteSteps
    <3>3. \A l \in {"read2", "decide"} : l \notin WriteSteps \cup {"failed"}
      BY DEF WriteSteps
    <3> QED
      BY <2>1, <3>1, <3>2, <3>3
  <2>5. ASSUME NEW k \in Copies, WriteCopy(c, k) PROVE AllFollow' /\ StoreStep
    BY <1>0, <2>5, FollowWriteCopy
  <2>6. CASE LoadFails(c)
    <3>1. /\ Moves(c, "failed", held[c], hdr[c], rwfd[c], seen[c])
          /\ UNCHANGED <<copy, dur, acked>> /\ pc[c] = "decide"
      BY <1>0, <2>6, LoadFailsMoves DEF Quiet
    <3>2. \A k \in Copies : seen[c][k] = copy[k]
      <4>1. SeenAt("decide", seen[c], copy, ioerrs)
        BY <3>1 DEF SeenTrue
      <4> QED
        BY <1>0, <4>1 DEF SeenAt
    <3>3. Readable(seen[c])
      BY <1>0, <3>2 DEF AllFollow, Anchor, AnchorOf, Readable, Copies
    <3>4. FollowsOf("failed", hdr[c], seen[c], copy, dur, acked)
      BY <2>0, <3>1, <3>3 DEF FollowsOf, WriteSteps
    <3> QED
      BY <1>0, <3>1, <3>4, FollowQuiet
  <2>7. CASE LoadsConsistent(c) \/ LoadNeedsRecovery(c) \/ Relock(c)
    <3>1. /\ \E l \in {"loaded", "recover", "relock", "read1"} : \E t, r, s :
                Moves(c, l, t, hdr[c], r, s)
          /\ UNCHANGED <<copy, dur, acked>> /\ pc[c] \in {"decide", "relock"}
      BY <1>0, <2>7, LoadsConsistentMoves, LoadNeedsRecoveryMoves, RelockMoves DEF Quiet
    <3>2. pc[c] \notin WriteSteps
      BY <3>1 DEF WriteSteps
    <3>3. \A l \in {"loaded", "recover", "relock", "read1"} : l \notin WriteSteps \cup {"failed"}
      BY DEF WriteSteps
    <3> QED
      BY <2>1, <3>1, <3>2, <3>3
  <2>8. CASE Recover(c)
    BY <1>0, <2>8, FollowRecover
  <2>9. CASE ReadReturns(c)
    <3>1. CASE pc[c] = "loaded" /\ Moves(c, "idle", "none", Newest(seen[c]), rwfd[c], NothingSeen)
      <4> DEFINE h == Newest(seen[c])
      <4>1. UNCHANGED <<copy, dur, acked>>
        BY <1>0, <2>9, ReadReturnsMoves DEF Quiet
      <4>2. copy[1].ok /\ copy[1] = copy[2] /\ h = HeaderOf(copy[1])
        BY <1>0, <3>1 DEF Healed
      <4>3. h.seqid = copy[1].seqid /\ h.body = copy[1].body /\ h.ident = copy[1].ident
        BY <4>2 DEF HeaderOf
      <4>4. \A g \in Copies : copy[g] = copy[1]
        BY <4>2 DEF Copies
      <4>5. copy[1].seqid <= copy[1].seqid /\ copy[1].ident = "uuid"
        <5>1. 1 \in Copies
          BY DEF Copies
        <5>2. copy[1].seqid \in Nat
          BY <1>0, <5>1, SeqNat DEF TypeOK
        <5>3. copy[1].seqid <= copy[1].seqid
          BY <5>2
        <5> QED
          BY <1>0, <5>1, <5>3 DEF AllFollow, OneUuid
      <4> HIDE DEF h
      <4>6. BehindOf(h, copy, dur, acked)
        BY <4>2, <4>3, <4>4, <4>5 DEF BehindOf
      <4>7. FollowsOf("idle", h, NothingSeen, copy, dur, acked)
        BY <4>3, <4>5, <4>6 DEF FollowsOf
      <4> QED
        BY <1>0, <3>1, <4>1, <4>7, FollowQuiet DEF h
    <3>2. CASE pc[c] = "failed" /\ Moves(c, "idle", "none", hdr[c], rwfd[c], NothingSeen)
      <4>1. UNCHANGED <<copy, dur, acked>>
        BY <1>0, <2>9, ReadReturnsMoves DEF Quiet
      <4>2. pc[c] \notin WriteSteps /\ "idle" \notin WriteSteps \cup {"failed"}
        BY <3>2 DEF WriteSteps
      <4> QED
        BY <2>1, <3>2, <4>1, <4>2
    <3> QED
      BY <1>0, <2>9, <3>1, <3>2, ReadReturnsMoves
  <2>10. CASE WriteReturns(c)
    BY <1>0, <2>10, FollowWriteReturns
  <2>11. CASE Die(c)
    <3>1. /\ Moves(c, "idle", "none", NoHeader, FALSE, NothingSeen)
          /\ UNCHANGED <<copy, dur, acked>>
      BY <1>0, <2>11, DieMoves
    <3>2. FollowsOf("idle", NoHeader, NothingSeen, copy, dur, acked)
      BY DEF FollowsOf
    <3> QED
      BY <1>0, <3>1, <3>2, FollowQuiet
  <2> QED
    BY <1>1, <2>2, <2>3, <2>4, <2>5, <2>6, <2>7, <2>8, <2>9, <2>10, <2>11 DEF CtxNext, Proceed
<1>2. CASE SystemCrash
  BY <1>0, <1>2, FollowSystemCrash
<1>3. ASSUME NEW k \in Copies, NEW id \in {"junk", "foreign"}, Damage(k, id) PROVE FALSE
  <2>1. damages' = damages + 1
    BY <1>3, DamageMoves
  <2>2. damages \in Nat
    BY <1>0, FaultsGrow
  <2> QED
    BY <1>0, <2>1, <2>2
<1>4. CASE UNCHANGED vars
  <2>1. UNCHANGED <<copy, dur, acked, pc, hdr, seen>>
    BY <1>4 DEF vars
  <2>2. AllFollow'
    BY <1>0, <2>1 DEF AllFollow, Anchor, OneUuid, Follows
  <2> QED
    BY <1>0, <2>1, <2>2 DEF AllFollow, Anchor, StoreKeeps, Copies
<1> QED
  BY <1>1, <1>2, <1>3, <1>4 DEF Next

-----------------------------------------------------------------------------
(* The theorems                                                            *)

LEMMA InitHeaderInv == Init => HeaderInv
<1> SUFFICES ASSUME Init PROVE HeaderInv
  OBVIOUS
<1>0. TypeInv /\ 1 \in Copies /\ 2 \in Copies
  BY InitTypeInv DEF Copies
<1>1. /\ \A c \in Ctx : /\ pc[c] = "idle" /\ held[c] = "none" /\ hdr[c] = NoHeader
                        /\ ~rwfd[c] /\ seen[c] = NothingSeen
      /\ dur = copy /\ acked = {}
  BY DEF Init
<1>2. \A k \in Copies : /\ copy[k].ok /\ copy[k].seqid = 1 /\ copy[k].ident = "uuid"
                        /\ copy[k].body = {} /\ copy[k] = copy[1]
  BY <1>0 DEF Init
<1>3. Controlled
  BY <1>1 DEF Controlled, Coherent, ReadSteps, WriteSteps, Lock!Exclusion
<1>4. Numbered
  <2>1. \A k \in Copies : ~NothingSeen[k].ok
    BY ImageTypes DEF NothingSeen
  <2> QED
    BY <1>1, <1>2, <2>1 DEF Numbered
<1>5. SeenTrue /\ Written
  BY <1>1 DEF SeenTrue, SeenAt, Written, WrittenAt
<1>6. ValidSynced /\ NoFault /\ AfterFault /\ CrashFree
  BY <1>0, <1>1, <1>2 DEF ValidSynced, NoFault, AfterFault, CrashFree, Readable
<1>7. LoadSees /\ Healed
  BY <1>1 DEF LoadSees, SeesValid, Healed
<1>8. Anchored
  <2>1. Anchor(1)
    BY <1>0, <1>1, <1>2 DEF Anchor, AnchorOf
  <2>2. OneUuid
    BY <1>1, <1>2 DEF OneUuid
  <2>3. \A c \in Ctx : Follows(c)
    BY <1>1 DEF Follows, FollowsOf
  <2> QED
    BY <2>1, <2>2, <2>3 DEF Anchored, AllFollow
<1> QED
  BY <1>0, <1>3, <1>4, <1>5, <1>6, <1>7, <1>8 DEF HeaderInv

LEMMA StepHeaderInv == NoReload /\ HeaderInv /\ [Next]_vars => HeaderInv'
<1> SUFFICES ASSUME NoReload, HeaderInv, [Next]_vars PROVE HeaderInv'
  OBVIOUS
<1> USE DEF HeaderInv
<1>1. TypeInv' /\ Controlled' /\ Numbered'
  BY StepTypeInv, ControlledStep, NumberedStep
<1>2. SeenTrue' /\ ValidSynced' /\ Written'
  BY SeenStep, SyncedStep, WrittenStep
<1>3. NoFault' /\ AfterFault' /\ LoadSees' /\ CrashFree' /\ Healed'
  BY NoFaultStep, AfterFaultStep, LoadSeesStep, CrashFreeStep, HealedStep
<1>4. Anchored'
  BY FollowStep DEF Anchored
<1> QED
  BY <1>1, <1>2, <1>3, <1>4

(* The inductive invariant holds where contexts load the header once.      *)
LEMMA HeaderInvariant == NoReload /\ Spec => []HeaderInv
<1>1. Init => HeaderInv
  BY InitHeaderInv
<1>2. NoReload /\ HeaderInv /\ [Next]_vars => HeaderInv'
  BY StepHeaderInv
<1>3. NoReload => NoReload'
  BY DEF NoReload
<1> QED
  BY <1>1, <1>2, <1>3, PTL DEF Spec

(* After any system crash the copy that a load chooses is the header.      *)
LEMMA CrashKeepsHeader ==
  ASSUME HeaderInv, Undisturbed,
         NEW i1 \in AfterCrash(1), NEW i2 \in AfterCrash(2)
  PROVE  /\ Readable(<<i1, i2>>)
         /\ acked \subseteq Newest(<<i1, i2>>).body
<1> DEFINE s == <<i1, i2>>
<1>0. /\ TypeInv /\ TypeOK /\ ValidSynced /\ ioerrs = 0 /\ 1 \in Copies /\ 2 \in Copies
      /\ copy \in [Copies -> Image] /\ dur \in [Copies -> Image]
  BY DEF HeaderInv, TypeInv, TypeOK, Undisturbed, Copies
<1>1. ASSUME NEW k \in Copies, NEW i \in AfterCrash(k)
      PROVE  /\ i \in Image
             /\ i.ok => i \in {copy[k], dur[k]}
             /\ copy[k].ok => i = copy[k]
  <2>1. dur[k] \in Image /\ copy[k] \in Image
    BY <1>0
  <2>2. \/ i = dur[k] \/ i = copy[k]
        \/ copy[k] # dur[k] /\ i = [dur[k] EXCEPT !.ok = FALSE]
    BY <1>1 DEF AfterCrash
  <2>3. copy[k].ok => dur[k] = copy[k]
    BY <1>0 DEF ValidSynced
  <2>4. CASE i = dur[k] \/ i = copy[k]
    BY <2>1, <2>3, <2>4
  <2>5. CASE copy[k] # dur[k] /\ i = [dur[k] EXCEPT !.ok = FALSE]
    <3>1. i \in Image /\ ~i.ok
      BY <2>1, <2>5 DEF Image
    <3> QED
      BY <2>3, <2>5, <3>1
  <2> QED
    BY <2>2, <2>4, <2>5
<1>2. PICK g \in Copies : Anchor(g)
  BY DEF HeaderInv, Anchored, AllFollow, Copies
<1>3. s \in [Copies -> Image] /\ \A k \in Copies : s[k] \in AfterCrash(k)
  <2>1. i1 \in Image /\ i2 \in Image
    BY <1>0, <1>1
  <2> QED
    BY <2>1 DEF Copies
<1> HIDE DEF s
<1>4. s[g] = copy[g] /\ copy[g].ok
  <2>1. copy[g].ok
    BY <1>2 DEF Anchor, AnchorOf
  <2> QED
    BY <1>1, <1>3, <2>1
<1>5. Readable(s)
  BY <1>4 DEF Readable
<1>6. Good(s) \in Copies /\ Current(s, Good(s))
  BY <1>3, <1>5, GoodCurrent
<1>7. s[Good(s)] = copy[g]
  <2>1. s[Good(s)].ok /\ copy[g].seqid <= s[Good(s)].seqid
    BY <1>4, <1>6 DEF Current
  <2>2. s[Good(s)] \in {copy[Good(s)], dur[Good(s)]}
    BY <1>1, <1>3, <1>6, <2>1
  <2>3. /\ s[Good(s)].seqid <= copy[g].seqid
        /\ s[Good(s)].seqid = copy[g].seqid => s[Good(s)] = copy[g]
    BY <1>2, <1>6, <2>1, <2>2 DEF Anchor, AnchorOf
  <2>4. s[Good(s)].seqid \in Nat /\ copy[g].seqid \in Nat
    BY <1>0, <1>3, <1>6, SeqNat
  <2>5. s[Good(s)].seqid = copy[g].seqid
    BY <2>1, <2>3, <2>4
  <2> QED
    BY <2>3, <2>5
<1>8. acked \subseteq Newest(s).body
  BY <1>2, <1>7 DEF Anchor, AnchorOf, Newest, HeaderOf
<1> QED
  BY <1>5, <1>8 DEF s

(* No crash costs a committed change, no context overwrites one it has not *)
(* seen, and no load fails while one fault at most has hit a copy.         *)
THEOREM HeaderIsKept == NoReload /\ Spec => []HeaderKept
<1>1. HeaderInv => HeaderKept
  <2> SUFFICES ASSUME HeaderInv PROVE HeaderKept
    OBVIOUS
  <2>1. TypeOK
    BY DEF HeaderInv, TypeInv
  <2>2. CommittedSurvives
    BY CrashKeepsHeader DEF CommittedSurvives
  <2>3. NoLostUpdate
    <3> SUFFICES ASSUME Undisturbed, NEW c \in Ctx, pc[c] = "write1"
                 PROVE  acked \subseteq hdr[c].body
      BY DEF NoLostUpdate
    <3>1. BuiltOnOf(hdr[c], copy, dur, acked)
      BY DEF HeaderInv, Anchored, AllFollow, Follows, FollowsOf
    <3> QED
      BY <3>1 DEF BuiltOnOf, AnchorOf
  <2>4. LoadNeverFails
    <3> SUFFICES ASSUME NEW c \in Ctx, pc[c] = "failed", ~Readable(seen[c])
                 PROVE  /\ ioerrs + damages > 0 \/ world.setuuid
                        /\ crashes + ioerrs + damages > 1
      BY DEF LoadNeverFails
    <3>0. crashes \in Nat /\ ioerrs \in Nat /\ damages \in Nat
      BY <2>1, WorldBounds DEF TypeOK
    <3>1. ~(FaultCount <= 1)
      BY DEF HeaderInv, LoadSees, SeesValid
    <3>2. ~Undisturbed
      BY DEF HeaderInv, Anchored, AllFollow, Follows, FollowsOf
    <3>3. crashes + ioerrs + damages > 1
      BY <3>0, <3>1 DEF FaultCount
    <3>4. ioerrs + damages > 0 \/ world.setuuid
      BY <3>0, <3>2 DEF Undisturbed
    <3> QED
      BY <3>3, <3>4
  <2> QED
    BY <2>1, <2>2, <2>3, <2>4 DEF HeaderKept
<1> QED
  BY <1>1, HeaderInvariant, PTL

(* While a context rewrites a copy no other context has the lock.          *)
THEOREM HeaderIOIsExclusive == NoReload /\ Spec => []HeaderIOExclusive
<1>1. HeaderInv => HeaderIOExclusive
  BY WriterAlone DEF HeaderInv, HeaderIOExclusive, Alone, WriteSteps
<1> QED
  BY <1>1, HeaderInvariant, PTL

(* A load that returns leaves two valid and equal copies.                  *)
THEOREM LoadsHeal == NoReload /\ Spec => LoadHeals
<1>1. HeaderInv => [\A c \in Ctx :
                      pc[c] = "loaded" /\ pc'[c] = "idle" /\ crashes' = crashes
                          /\ (Undisturbed \/ crashes + ioerrs = 0)
                          => copy[1].ok /\ copy[1] = copy[2]]_vars
  BY DEF HeaderInv, Healed
<1> QED
  BY <1>1, HeaderInvariant, PTL DEF LoadHeals

-----------------------------------------------------------------------------
(* The refinement                                                          *)

(* What a load would take from the disk is the anchor.                     *)
LEMMA NewestAnchor ==
  ASSUME TypeOK, NEW g \in Copies, Anchor(g)
  PROVE  Newest(copy).seqid = copy[g].seqid /\ Newest(copy).body = copy[g].body
<1>1. copy \in [Copies -> Image] /\ Readable(copy)
  BY DEF TypeOK, Anchor, AnchorOf, Readable
<1>2. Good(copy) \in Copies /\ Current(copy, Good(copy))
  BY <1>1, GoodCurrent
<1>3. copy[Good(copy)] = copy[g]
  <2>1. copy[Good(copy)].ok /\ copy[g].ok
    BY <1>2 DEF Current, Anchor, AnchorOf
  <2>2. copy[g].seqid <= copy[Good(copy)].seqid
    BY <1>2, <2>1 DEF Current
  <2> QED
    BY <1>2, <2>1, <2>2, AnchorUnique
<1> QED
  BY <1>3 DEF Newest, HeaderOf

(* In the worlds with crashes only nothing disturbs the header.            *)
LEMMA CrashesOnlyUndisturbed ==
  ASSUME TypeOK, CrashesOnly
  PROVE  Undisturbed
<1>1. ioerrs \in 0..0 /\ damages \in 0..0
  BY DEF TypeOK, CrashesOnly
<1> QED
  BY <1>1 DEF CrashesOnly, Undisturbed

LEMMA StoreRefinedStep ==
  ASSUME NoReload, HeaderInv, HeaderInv', [Next]_vars
  PROVE  [Store!Next]_<<StoreCur, StoreAcked>>
<1>0. TypeOK /\ TypeOK' /\ world' = world
  BY FaultsGrow DEF HeaderInv, TypeInv
<1>1. CASE ~CrashesOnly
  BY <1>0, <1>1 DEF CrashesOnly, StoreCur, StoreAcked
<1>2. CASE CrashesOnly
  <2>0. CrashesOnly'
    BY <1>0, <1>2 DEF CrashesOnly
  <2>1. Undisturbed'
    <3>1. ioerrs' \in 0..0 /\ damages' \in 0..0
      BY <1>0, <2>0 DEF TypeOK, CrashesOnly
    <3> QED
      BY <2>0, <3>1 DEF CrashesOnly, Undisturbed
  <2>2. StoreStep
    BY <2>1, FollowStep DEF HeaderInv
  <2> DEFINE q(x, b) == [seqid |-> x, body |-> b]
  <2>3. /\ StoreCur = q(Newest(copy).seqid, Newest(copy).body)
        /\ StoreCur' = q(Newest(copy').seqid, Newest(copy').body)
        /\ StoreAcked = acked /\ StoreAcked' = acked'
    BY <1>2, <2>0 DEF StoreCur, StoreAcked
  <2>4. ASSUME NEW g \in Copies, Anchor(g)
        PROVE  StoreCur = q(copy[g].seqid, copy[g].body)
    BY <1>0, <2>3, <2>4, NewestAnchor
  <2>5. ASSUME NEW g \in Copies, Anchor(g)'
        PROVE  StoreCur' = q(copy'[g].seqid, copy'[g].body)
    <3>1. Newest(copy').seqid = copy'[g].seqid /\ Newest(copy').body = copy'[g].body
      <4>1. copy' \in [Copies -> Image] /\ Readable(copy')
        BY <1>0, <2>5 DEF TypeOK, Anchor, AnchorOf, Readable
      <4>2. Good(copy') \in Copies /\ Current(copy', Good(copy'))
        BY <4>1, GoodCurrent
      <4>3. copy'[Good(copy')].ok /\ copy'[g].ok /\ copy'[g].seqid <= copy'[Good(copy')].seqid
        BY <2>5, <4>2 DEF Current, Anchor, AnchorOf
      <4>4. copy'[Good(copy')].seqid \in Nat /\ copy'[g].seqid \in Nat
        BY <4>1, <4>2, SeqNat
      <4>5. /\ copy'[Good(copy')].seqid <= copy'[g].seqid
            /\ copy'[Good(copy')].seqid = copy'[g].seqid => copy'[Good(copy')] = copy'[g]
        BY <2>5, <4>2, <4>3 DEF Anchor, AnchorOf
      <4>6. copy'[Good(copy')] = copy'[g]
        BY <4>3, <4>4, <4>5
      <4> QED
        BY <4>6 DEF Newest, HeaderOf
    <3> QED
      BY <2>3, <3>1
  <2>6. \A x, b : q(x, b).seqid = x /\ q(x, b).body = b
    OBVIOUS
  <2>7. 1 \in Copies /\ 2 \in Copies
    BY DEF Copies
  <2> HIDE DEF q
  <2>8. CASE StoreKeeps /\ acked' = acked
    <3>1. PICK g \in Copies : Anchor(g) /\ Anchor(g)' /\ copy'[g] = copy[g]
      BY <2>8 DEF StoreKeeps
    <3>2. StoreCur' = StoreCur
      BY <2>4, <2>5, <3>1
    <3> QED
      BY <2>3, <2>8, <3>2
  <2>9. CASE StoreKeeps /\ Anchor(1) /\ acked' = acked \cup copy[1].body
    <3>1. PICK g \in Copies : Anchor(g) /\ Anchor(g)' /\ copy'[g] = copy[g]
      BY <2>9 DEF StoreKeeps
    <3>2. StoreCur' = StoreCur
      BY <2>4, <2>5, <3>1
    <3>3. StoreCur.body = copy[1].body
      BY <2>4, <2>6, <2>7, <2>9
    <3>4. StoreAcked' = StoreAcked \cup StoreCur.body
      BY <2>3, <2>9, <3>3
    <3> QED
      BY <3>2, <3>4 DEF Store!Next, Store!Ack
  <2>10. CASE StoreCommits
    <3>1. /\ Anchor(2) /\ Anchor(1)' /\ acked' = acked
          /\ copy'[1].seqid = copy[2].seqid + 1 /\ copy[2].body \subseteq copy'[1].body
      BY <2>10 DEF StoreCommits
    <3>2. StoreCur.seqid = copy[2].seqid /\ StoreCur.body = copy[2].body
      BY <2>4, <2>6, <2>7, <3>1
    <3>3. StoreCur'.seqid = copy'[1].seqid /\ StoreCur'.body = copy'[1].body
      BY <2>5, <2>6, <2>7, <3>1
    <3>4. copy'[1].body \in SUBSET Update
      BY <1>0, <2>7 DEF TypeOK, Image
    <3> QED
      BY <2>3, <3>1, <3>2, <3>3, <3>4 DEF Store!Next, Store!Commit
  <2> QED
    BY <2>2, <2>8, <2>9, <2>10 DEF StoreStep
<1> QED
  BY <1>1, <1>2

(* The two copies with their recovery are one header that is updated       *)
(* atomically: every step is a step of VersionedHeader or is not visible   *)
(* there, in the worlds with crashes only.                                 *)
THEOREM HeaderImplementsStore == NoReload /\ Spec => ImplementsStore
<1>1. Init => Store!Init
  <2> SUFFICES ASSUME Init PROVE StoreCur.seqid = 1 /\ StoreCur.body = {} /\ StoreAcked = {}
    BY DEF Store!Init
  <2>1. HeaderInv
    BY InitHeaderInv
  <2>2. CASE ~CrashesOnly
    BY <2>2 DEF StoreCur, StoreAcked
  <2>3. CASE CrashesOnly
    <3>1. TypeOK /\ 1 \in Copies /\ copy[1].seqid = 1 /\ copy[1].body = {} /\ acked = {}
      BY <2>1 DEF HeaderInv, TypeInv, Init, Copies
    <3>2. PICK g \in Copies : Anchor(g)
      BY <2>1, <2>3, <3>1, CrashesOnlyUndisturbed DEF HeaderInv, Anchored, AllFollow, Copies
    <3>3. copy[g].seqid = 1 /\ copy[g].body = {}
      BY DEF Init
    <3>4. Newest(copy).seqid = 1 /\ Newest(copy).body = {}
      BY <3>1, <3>2, <3>3, NewestAnchor
    <3> QED
      BY <2>3, <3>1, <3>4 DEF StoreCur, StoreAcked
  <2> QED
    BY <2>2, <2>3
<1>2. NoReload /\ HeaderInv /\ HeaderInv' /\ [Next]_vars => [Store!Next]_<<StoreCur, StoreAcked>>
  BY StoreRefinedStep
<1>3. NoReload => NoReload'
  BY DEF NoReload
<1> QED
  BY <1>1, <1>2, <1>3, HeaderInvariant, PTL DEF Spec, ImplementsStore, Store!Spec
=============================================================================
